---------------------------- MODULE WfdRx_proofs ----------------------------
(***************************************************************************)
(* Proofs about WfdRx, for every size of ring, round, pool and bulk, and   *)
(* for both bulk readers.                                                  *)
(***************************************************************************)
EXTENDS WfdRx, TLAPS

\* TypeOK in two parts: the flags, and everything else.
FlagTypes ==
  /\ coalescing \in BOOLEAN /\ intCause \in BOOLEAN /\ intEnabled \in BOOLEAN
  /\ wfd_rx_work_avail \in BOOLEAN

DataTypes ==
  /\ eFwdHookType \in {"FKB", "SKB"}
  /\ queued \in 0 .. RingSize
  /\ isr \in {"idle", "clear", "set", "wake"}
  /\ thread \in {"wait", "asleep", "bulk", "forward", "check", "done", "enable"}
  /\ budget \in 0 .. num_packets_to_read /\ rx_pktcnt \in 0 .. num_packets_to_read
  /\ buff_cache_cnt \in 0 .. WFD_RING_MAX_BUFF_IN_CACHE
  /\ pool \in 0 .. Buffers /\ upper \in 0 .. Buffers

LEMMA TypeParts == TypeOK <=> FlagTypes /\ DataTypes
BY Zenon DEF TypeOK, FlagTypes, DataTypes

\* The buffers that are accounted for are never more than there are, whichever
\* reader runs; a round never takes more than its budget, and what it has taken
\* is forwarded before the next one starts its count at 0.
Accounted == RingSize + buff_cache_cnt + pool + rx_pktcnt + upper

BufferInv ==
  /\ DataTypes
  /\ budget + rx_pktcnt <= num_packets_to_read
  /\ thread \notin {"bulk", "forward"} => rx_pktcnt = 0
  /\ Accounted <= Buffers
  /\ FkbBuffersAccounted

-----------------------------------------------------------------------------
(* Buffers.                                                                *)

\* The bulks drawn for the ring fill it, and what is over fits the cache.
LEMMA DrawnFits ==
  /\ Drawn \in Nat /\ Drawn >= RingSize
  /\ Drawn - RingSize <= WFD_RING_MAX_BUFF_IN_CACHE
<1> DEFINE b == WFD_RING_MAX_BUFF_IN_CACHE
           a == RingSize + b - 1
<1>1. a \in Nat /\ b \in Nat /\ b > 0  BY WfdAssumption
<1> HIDE DEF a
<1>2. a \div b \in Nat /\ a % b \in 0 .. (b - 1) /\ a = b * (a \div b) + (a % b)
  BY <1>1
<1>3. b * (a \div b) = (a \div b) * b
  BY <1>1, <1>2
<1> QED  BY <1>1, <1>2, <1>3, WfdAssumption DEF Drawn, a

LEMMA InitBuffer == Init => BufferInv
BY DrawnFits, WfdAssumption
   DEF Init, BufferInv, DataTypes, Accounted, FkbBuffersAccounted

\* An allocation moves one buffer of the cache or the pool into the ring.
LEMMA AllocTakesOne ==
  ASSUME DataTypes, wfd_databuf_alloc
  PROVE  /\ buff_cache_cnt' \in 0 .. WFD_RING_MAX_BUFF_IN_CACHE /\ pool' \in 0 .. Buffers
         /\ buff_cache_cnt' + pool' = buff_cache_cnt + pool - 1
BY WfdAssumption DEF DataTypes, wfd_databuf_alloc

LEMMA BulkBuffer ==
  ASSUME BufferInv, BulkTakes \/ BulkNoBuffer \/ BulkNoSkb
  PROVE  BufferInv'
<1> USE WfdAssumption
<1>1. CASE BulkTakes
  BY <1>1, AllocTakesOne
     DEF BulkTakes, BufferInv, DataTypes, Accounted, FkbBuffersAccounted
<1>2. CASE BulkNoBuffer
  BY <1>2
     DEF BulkNoBuffer, BufferInv, DataTypes, Accounted, FkbBuffersAccounted, bufVars, roundVars
<1>3. CASE BulkNoSkb
  BY <1>3, AllocTakesOne
     DEF BulkNoSkb, BufferInv, DataTypes, Accounted, FkbBuffersAccounted
<1> QED  BY <1>1, <1>2, <1>3

\* The steps of the thread that move no buffer in or out of the ring.
LEMMA ThreadBuffer ==
  ASSUME BufferInv, ThreadWaits \/ BulkEnds \/ BulkForwards \/ ThreadChecks
                    \/ ThreadClearsWork \/ ThreadEnables
  PROVE  BufferInv'
<1> USE WfdAssumption DEF BufferInv, DataTypes, Accounted, FkbBuffersAccounted,
                          bufVars, roundVars
<1>1. CASE ThreadWaits
  <2>1. thread = "wait" /\ UNCHANGED <<eFwdHookType, queued, isr, buff_cache_cnt, pool, upper>>
    BY <1>1 DEF ThreadWaits
  <2>2. CASE wfd_rx_work_avail
    <3>1. thread' = "bulk" /\ budget' = num_packets_to_read /\ rx_pktcnt' = 0
      BY <1>1, <2>2, Zenon DEF ThreadWaits
    <3> QED  BY <2>1, <3>1
  <2>3. CASE ~wfd_rx_work_avail
    <3>1. thread' = "asleep" /\ budget' = budget /\ rx_pktcnt' = rx_pktcnt
      BY <1>1, <2>3, Zenon DEF ThreadWaits
    <3> QED  BY <2>1, <3>1
  <2> QED  BY <2>2, <2>3
<1>2. CASE BulkEnds          BY <1>2 DEF BulkEnds
<1>3. CASE BulkForwards      BY <1>3 DEF BulkForwards
<1>4. CASE ThreadChecks      BY <1>4 DEF ThreadChecks
<1>5. CASE ThreadClearsWork  BY <1>5 DEF ThreadClearsWork
<1>6. CASE ThreadEnables     BY <1>6 DEF ThreadEnables
<1> QED  BY <1>1, <1>2, <1>3, <1>4, <1>5, <1>6

LEMMA OtherBuffer ==
  ASSUME BufferInv, PacketArrives \/ InterruptRaised \/ Isr \/ UpperFrees
  PROVE  BufferInv'
<1> USE WfdAssumption DEF BufferInv, DataTypes, Accounted, FkbBuffersAccounted,
                          bufVars, roundVars
<1>1. CASE PacketArrives    BY <1>1 DEF PacketArrives
<1>2. CASE InterruptRaised  BY <1>2 DEF InterruptRaised
<1>3. CASE IsrDisable       BY <1>3 DEF IsrDisable
<1>4. CASE IsrClear         BY <1>4 DEF IsrClear
<1>5. CASE IsrSetWork       BY <1>5 DEF IsrSetWork
<1>6. CASE IsrWake          BY <1>6 DEF IsrWake
<1>7. CASE UpperFrees       BY <1>7 DEF UpperFrees
<1> QED  BY <1>1, <1>2, <1>3, <1>4, <1>5, <1>6, <1>7 DEF Isr

LEMMA NextBuffer == BufferInv /\ [Next]_vars => BufferInv'
<1> SUFFICES ASSUME BufferInv, [Next]_vars PROVE BufferInv'
  OBVIOUS
<1>1. CASE BulkTakes \/ BulkNoBuffer \/ BulkNoSkb
  BY <1>1, BulkBuffer
<1>2. CASE ThreadWaits \/ BulkEnds \/ BulkForwards \/ ThreadChecks
           \/ ThreadClearsWork \/ ThreadEnables
  BY <1>2, ThreadBuffer
<1>3. CASE PacketArrives \/ InterruptRaised \/ Isr \/ UpperFrees
  BY <1>3, OtherBuffer
<1>4. CASE UNCHANGED vars
  BY <1>4 DEF vars, roundVars, bufVars, BufferInv, DataTypes, Accounted, FkbBuffersAccounted
<1> QED  BY <1>1, <1>2, <1>3, <1>4 DEF Next, Thread

LEMMA FlagsStep == FlagTypes /\ [Next]_vars => FlagTypes'
<1> SUFFICES ASSUME FlagTypes, [Next]_vars PROVE FlagTypes'
  OBVIOUS
<1> USE DEF FlagTypes
<1>1. CASE PacketArrives     BY <1>1, Zenon DEF PacketArrives
<1>2. CASE InterruptRaised   BY <1>2, Zenon DEF InterruptRaised
<1>3. CASE IsrDisable        BY <1>3, Zenon DEF IsrDisable
<1>4. CASE IsrClear          BY <1>4, Zenon DEF IsrClear
<1>5. CASE IsrSetWork        BY <1>5, Zenon DEF IsrSetWork, irqVars
<1>6. CASE IsrWake           BY <1>6, Zenon DEF IsrWake, irqVars
<1>7. CASE ThreadWaits       BY <1>7, Zenon DEF ThreadWaits, irqVars
<1>8. CASE BulkTakes         BY <1>8, Zenon DEF BulkTakes, irqVars
<1>9. CASE BulkNoBuffer      BY <1>9, Zenon DEF BulkNoBuffer, irqVars
<1>10. CASE BulkNoSkb        BY <1>10, Zenon DEF BulkNoSkb, irqVars
<1>11. CASE BulkEnds         BY <1>11, Zenon DEF BulkEnds, irqVars
<1>12. CASE BulkForwards     BY <1>12, Zenon DEF BulkForwards, irqVars
<1>13. CASE ThreadChecks     BY <1>13, Zenon DEF ThreadChecks, irqVars
<1>14. CASE ThreadClearsWork BY <1>14, Zenon DEF ThreadClearsWork, irqVars
<1>15. CASE ThreadEnables    BY <1>15, Zenon DEF ThreadEnables
<1>16. CASE UpperFrees       BY <1>16, Zenon DEF UpperFrees, irqVars
<1>17. CASE UNCHANGED vars   BY <1>17, Zenon DEF vars, irqVars
<1> QED
  BY <1>1, <1>2, <1>3, <1>4, <1>5, <1>6, <1>7, <1>8, <1>9, <1>10, <1>11, <1>12, <1>13,
     <1>14, <1>15, <1>16, <1>17, Zenon DEF Next, Isr, Thread

(***************************************************************************)
(* Type correctness.  That the reader's counters stay within a round and   *)
(* that what the wireless driver frees fits the pool need BufferInv.       *)
(***************************************************************************)
THEOREM TypeCorrect == Spec => []TypeOK
<1>1. Init => FlagTypes
  BY Zenon DEF Init, FlagTypes
<1>2. BufferInv => DataTypes
  BY DEF BufferInv
<1> QED  BY <1>1, <1>2, InitBuffer, NextBuffer, FlagsStep, TypeParts, PTL DEF Spec

(***************************************************************************)
(* No round of the FKB reader loses or duplicates a buffer, whatever the   *)
(* sizes, also when no replacement can be had and the packet is dropped.   *)
(***************************************************************************)
THEOREM FkbBuffersAccountedHolds == Spec => []FkbBuffersAccounted
<1>1. BufferInv => FkbBuffersAccounted
  BY DEF BufferInv
<1> QED  BY <1>1, InitBuffer, NextBuffer, PTL DEF Spec

-----------------------------------------------------------------------------
(* Interrupt mask, work bit and wakeup.                                    *)

\* MaskHandover made inductive: what it means for the handler that is halfway
\* and for the thread between clearing the bit and opening the mask.
HandoverInv ==
  /\ MaskHandover
  /\ thread = "enable" => ~intEnabled /\ ~wfd_rx_work_avail /\ isr \in {"idle", "wake"}
  /\ isr \in {"clear", "set"} => ~intEnabled /\ ~wfd_rx_work_avail
  /\ isr = "wake" => wfd_rx_work_avail \/ thread = "enable" \/ intEnabled

\* WakeupPending made inductive: a thread that sleeps on recorded work is about
\* to be woken, and packets that came after the thread's last look at the ring
\* leave a trace that is still there when it sleeps.
WakeInv ==
  /\ HandoverInv
  /\ thread = "asleep" /\ wfd_rx_work_avail => isr = "wake"
  /\ thread \in {"done", "enable"} /\ queued > 0 => coalescing \/ intCause
  /\ thread \in {"wait", "asleep"} /\ queued > 0 =>
        coalescing \/ intCause \/ isr = "set" \/ wfd_rx_work_avail

LEMMA InitWake == Init => WakeInv
BY DEF Init, WakeInv, HandoverInv, MaskHandover

LEMMA EnvironmentWake ==
  ASSUME WakeInv, DataTypes, PacketArrives \/ InterruptRaised \/ UpperFrees
  PROVE  WakeInv'
<1> USE DEF WakeInv, HandoverInv, MaskHandover, irqVars
<1>1. CASE PacketArrives    BY <1>1 DEF PacketArrives
<1>2. CASE InterruptRaised  BY <1>2 DEF InterruptRaised
<1>3. CASE UpperFrees       BY <1>3 DEF UpperFrees
<1> QED  BY <1>1, <1>2, <1>3

LEMMA IsrWakeInv ==
  ASSUME WakeInv, DataTypes, Isr
  PROVE  WakeInv'
<1> USE DEF WakeInv, HandoverInv, MaskHandover, irqVars, DataTypes
<1>1. CASE IsrDisable  BY <1>1 DEF IsrDisable
<1>2. CASE IsrClear    BY <1>2 DEF IsrClear
<1>3. CASE IsrSetWork  BY <1>3 DEF IsrSetWork
<1>4. CASE IsrWake     BY <1>4 DEF IsrWake
<1> QED  BY <1>1, <1>2, <1>3, <1>4 DEF Isr

LEMMA ThreadWake ==
  ASSUME WakeInv, DataTypes, Thread
  PROVE  WakeInv'
<1> USE DEF WakeInv, HandoverInv, MaskHandover, irqVars, DataTypes
<1>1. CASE ThreadWaits       BY <1>1 DEF ThreadWaits
<1>2. CASE BulkTakes         BY <1>2 DEF BulkTakes
<1>3. CASE BulkNoBuffer      BY <1>3 DEF BulkNoBuffer
<1>4. CASE BulkNoSkb         BY <1>4 DEF BulkNoSkb
<1>5. CASE BulkEnds          BY <1>5 DEF BulkEnds
<1>6. CASE BulkForwards      BY <1>6 DEF BulkForwards
<1>7. CASE ThreadChecks      BY <1>7 DEF ThreadChecks
<1>8. CASE ThreadClearsWork  BY <1>8 DEF ThreadClearsWork
<1>9. CASE ThreadEnables     BY <1>9 DEF ThreadEnables
<1> QED  BY <1>1, <1>2, <1>3, <1>4, <1>5, <1>6, <1>7, <1>8, <1>9 DEF Thread

LEMMA NextWake == WakeInv /\ DataTypes /\ [Next]_vars => WakeInv'
<1> SUFFICES ASSUME WakeInv, DataTypes, [Next]_vars PROVE WakeInv'
  OBVIOUS
<1>1. CASE UNCHANGED vars
  BY <1>1 DEF vars, irqVars, WakeInv, HandoverInv, MaskHandover
<1> QED  BY <1>1, EnvironmentWake, IsrWakeInv, ThreadWake DEF Next

(***************************************************************************)
(* Mask and work bit are handed over without overlap: the thread never     *)
(* clears work that an interrupt newer than its own round has recorded.    *)
(***************************************************************************)
THEOREM MaskHandoverHolds == Spec => []MaskHandover
<1>1. WakeInv => MaskHandover
  BY DEF WakeInv, HandoverInv
<1>2. BufferInv => DataTypes
  BY DEF BufferInv
<1> QED  BY <1>1, <1>2, InitWake, InitBuffer, NextBuffer, NextWake, PTL DEF Spec

(***************************************************************************)
(* No lost wakeup: while packets wait and the thread sleeps, an interrupt  *)
(* is on its way with the mask open, or its handler is running.  The       *)
(* unlocked window between the thread's last look at the ring and its      *)
(* opening the mask is covered by the latched status for every timing.     *)
(***************************************************************************)
THEOREM WakeupPendingHolds == Spec => []WakeupPending
<1>1. WakeInv /\ DataTypes => WakeupPending
  BY DEF WakeInv, HandoverInv, MaskHandover, WakeupPending, DataTypes
<1>2. BufferInv => DataTypes
  BY DEF BufferInv
<1> QED  BY <1>1, <1>2, InitWake, InitBuffer, NextBuffer, NextWake, PTL DEF Spec
=============================================================================
