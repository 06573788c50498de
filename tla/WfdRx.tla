------------------------------- MODULE WfdRx -------------------------------
(***************************************************************************)
(* Reception in the Wi-Fi forwarding driver: the interrupt handler         *)
(* wfd_dev_rx_isr_callback and the bulk readers of                         *)
(* bcmdrivers/opensource/include/bcm963xx/runner_wfd_inline.h with the     *)
(* thread wfd_tasklet_handler of                                           *)
(* bcmdrivers/opensource/net/wfd/impl1/wfd_dev.c, for one bound object and *)
(* its queue.                                                              *)
(*                                                                         *)
(* The interrupt handler may run on one core while the thread runs on the  *)
(* other; what each does outside wfd_irq_lock is a step of its own.  The   *)
(* ring is its number of packets (module CpuRing has the descriptors), the *)
(* buffers are counted.                                                    *)
(***************************************************************************)
EXTENDS Integers

CONSTANTS
  RingSize,             \* WFD_WLAN_QUEUE_MAX_SIZE
  num_packets_to_read,  \* budget of one round
  Buffers,              \* data buffers: those of the ring and spare ones
  WFD_RING_MAX_BUFF_IN_CACHE

\* The buffers wfd_create_runner_ring draws, in bulks, for its descriptors.
Drawn == LET bulk == WFD_RING_MAX_BUFF_IN_CACHE
         IN  ((RingSize + bulk - 1) \div bulk) * bulk

ASSUME WfdAssumption ==
  /\ RingSize \in Nat \ {0}
  /\ num_packets_to_read \in Nat \ {0}
  /\ WFD_RING_MAX_BUFF_IN_CACHE \in Nat \ {0}
  /\ Buffers \in Nat /\ Buffers >= Drawn

VARIABLES
  eFwdHookType,        \* "FKB" or "SKB": which bulk reader wfd_bind installed
  queued,              \* descriptors of the ring owned by the host
  coalescing,          \* a packet waits for the coalescing time to pass
  intCause,            \* the latched interrupt status of the queue
  intEnabled,          \* the interrupt mask of the queue
  isr,                 \* where wfd_dev_rx_isr_callback is
  wfd_rx_work_avail,   \* the queue's bit
  thread,              \* where wfd_tasklet_handler is
  budget, rx_pktcnt,   \* locals of the bulk reader
  buff_cache_cnt,      \* spare buffers in the ring's cache
  pool,                \* free buffers of the global pool
  upper                \* buffers with the wireless driver

irqVars == <<coalescing, intCause, intEnabled>>
bufVars == <<buff_cache_cnt, pool, upper>>
roundVars == <<budget, rx_pktcnt>>
vars == <<eFwdHookType, queued, irqVars, isr, wfd_rx_work_avail, thread, roundVars, bufVars>>

TypeOK ==
  /\ eFwdHookType \in {"FKB", "SKB"}
  /\ queued \in 0 .. RingSize
  /\ coalescing \in BOOLEAN /\ intCause \in BOOLEAN /\ intEnabled \in BOOLEAN
  /\ isr \in {"idle", "clear", "set", "wake"}
  /\ wfd_rx_work_avail \in BOOLEAN
  /\ thread \in {"wait", "asleep", "bulk", "forward", "check", "done", "enable"}
  /\ budget \in 0 .. num_packets_to_read /\ rx_pktcnt \in 0 .. num_packets_to_read
  /\ buff_cache_cnt \in 0 .. WFD_RING_MAX_BUFF_IN_CACHE
  /\ pool \in 0 .. Buffers /\ upper \in 0 .. Buffers

\* The state wfd_bind leaves: ring filled, interrupt enabled, thread started.
Init ==
  /\ eFwdHookType \in {"FKB", "SKB"}
  /\ queued = 0
  /\ coalescing = FALSE /\ intCause = FALSE /\ intEnabled = TRUE
  /\ isr = "idle"
  /\ wfd_rx_work_avail = FALSE
  /\ thread = "wait"
  /\ budget = 0 /\ rx_pktcnt = 0
  /\ buff_cache_cnt = Drawn - RingSize /\ pool = Buffers - Drawn /\ upper = 0

-----------------------------------------------------------------------------
\* The Runner queues a packet.  A full ring drops it without an interrupt.
PacketArrives ==
  /\ queued < RingSize
  /\ queued' = queued + 1
  /\ coalescing' = TRUE
  /\ UNCHANGED <<eFwdHookType, intCause, intEnabled, isr, wfd_rx_work_avail, thread,
                 roundVars, bufVars>>

\* Time or packet count of interrupt coalescing is reached: the status is
\* latched whether or not the interrupt is masked.
InterruptRaised ==
  /\ coalescing
  /\ coalescing' = FALSE /\ intCause' = TRUE
  /\ UNCHANGED <<eFwdHookType, queued, intEnabled, isr, wfd_rx_work_avail, thread,
                 roundVars, bufVars>>

-----------------------------------------------------------------------------
\* Mutant of IsrDisable: the mask stays open.
MutIsrLeavesMask ==
  /\ isr = "idle" /\ intEnabled /\ intCause
  /\ isr' = "clear"
  /\ UNCHANGED <<eFwdHookType, queued, irqVars, wfd_rx_work_avail, thread,
                 roundVars, bufVars>>

\* wfd_dev_rx_isr_callback: rdpa_cpu_int_disable ...
IsrDisable ==
  /\ isr = "idle" /\ intEnabled /\ intCause
  /\ intEnabled' = FALSE
  /\ isr' = "clear"
  /\ UNCHANGED <<eFwdHookType, queued, coalescing, intCause, wfd_rx_work_avail, thread,
                 roundVars, bufVars>>

\* ... rdpa_cpu_int_clear ...
IsrClear ==
  /\ isr = "clear"
  /\ intCause' = FALSE
  /\ isr' = "set"
  /\ UNCHANGED <<eFwdHookType, queued, coalescing, intEnabled, wfd_rx_work_avail, thread,
                 roundVars, bufVars>>

\* ... the work bit, under wfd_irq_lock ...
IsrSetWork ==
  /\ isr = "set"
  /\ wfd_rx_work_avail' = TRUE
  /\ isr' = "wake"
  /\ UNCHANGED <<eFwdHookType, queued, irqVars, thread, roundVars, bufVars>>

\* ... and WFD_WAKEUP_RXWORKER.
IsrWake ==
  /\ isr = "wake"
  /\ thread' = (IF thread = "asleep" THEN "wait" ELSE thread)
  /\ isr' = "idle"
  /\ UNCHANGED <<eFwdHookType, queued, irqVars, wfd_rx_work_avail, roundVars, bufVars>>

-----------------------------------------------------------------------------
\* wait_event_interruptible: go on if there is work, sleep otherwise.
ThreadWaits ==
  /\ thread = "wait"
  /\ IF wfd_rx_work_avail
     THEN thread' = "bulk" /\ budget' = num_packets_to_read /\ rx_pktcnt' = 0
     ELSE thread' = "asleep" /\ UNCHANGED roundVars
  /\ UNCHANGED <<eFwdHookType, queued, irqVars, isr, wfd_rx_work_avail, bufVars>>

\* Mutant of wfd_databuf_alloc: the count is not decremented.
MutCacheCountKept ==
  \/ buff_cache_cnt > 0 /\ UNCHANGED <<buff_cache_cnt, pool>>
  \/ /\ buff_cache_cnt = 0 /\ pool >= WFD_RING_MAX_BUFF_IN_CACHE
     /\ buff_cache_cnt' = WFD_RING_MAX_BUFF_IN_CACHE - 1
     /\ pool' = pool - WFD_RING_MAX_BUFF_IN_CACHE

\* wfd_databuf_alloc: from the cache, or else a new bulk from the pool, which
\* gives all the buffers asked for or none.
wfd_databuf_alloc ==
  \/ /\ buff_cache_cnt > 0
     /\ buff_cache_cnt' = buff_cache_cnt - 1 /\ UNCHANGED pool
  \/ /\ buff_cache_cnt = 0 /\ pool >= WFD_RING_MAX_BUFF_IN_CACHE
     /\ buff_cache_cnt' = WFD_RING_MAX_BUFF_IN_CACHE - 1
     /\ pool' = pool - WFD_RING_MAX_BUFF_IN_CACHE

AllocFails == buff_cache_cnt = 0 /\ pool < WFD_RING_MAX_BUFF_IN_CACHE

\* Mutant of BulkTakes: the budget is not looked at.
MutOverBudget ==
  /\ thread = "bulk" /\ queued > 0
  /\ wfd_databuf_alloc
  /\ queued' = queued - 1
  /\ rx_pktcnt' = rx_pktcnt + 1 /\ budget' = budget - 1
  /\ UNCHANGED <<eFwdHookType, irqVars, isr, wfd_rx_work_avail, thread, upper>>

\* The bulk reader takes the packet at head and refills the descriptor.
BulkTakes ==
  /\ thread = "bulk" /\ budget > 0 /\ queued > 0
  /\ wfd_databuf_alloc
  /\ queued' = queued - 1
  /\ rx_pktcnt' = rx_pktcnt + 1 /\ budget' = budget - 1
  /\ UNCHANGED <<eFwdHookType, irqVars, isr, wfd_rx_work_avail, thread, upper>>

\* No new buffer: the old one is pushed back, the packet is lost, break.
BulkNoBuffer ==
  /\ thread = "bulk" /\ budget > 0 /\ queued > 0
  /\ AllocFails
  /\ queued' = queued - 1
  /\ thread' = "forward"
  /\ UNCHANGED <<eFwdHookType, irqVars, isr, wfd_rx_work_avail, roundVars, bufVars>>

\* _wfd_bulk_skb_get, skb_header_alloc fails: the new buffer goes into the
\* descriptor, the one with the packet nowhere, break.
BulkNoSkb ==
  /\ eFwdHookType = "SKB"
  /\ thread = "bulk" /\ budget > 0 /\ queued > 0
  /\ wfd_databuf_alloc
  /\ queued' = queued - 1
  /\ thread' = "forward"
  /\ UNCHANGED <<eFwdHookType, irqVars, isr, wfd_rx_work_avail, budget, rx_pktcnt, upper>>

\* Budget used or ring empty.
BulkEnds ==
  /\ thread = "bulk" /\ (budget = 0 \/ queued = 0)
  /\ thread' = "forward"
  /\ UNCHANGED <<eFwdHookType, queued, irqVars, isr, wfd_rx_work_avail, roundVars, bufVars>>

\* wfd_fwdHook hands the packets to the wireless driver.
BulkForwards ==
  /\ thread = "forward"
  /\ upper' = upper + rx_pktcnt /\ rx_pktcnt' = 0 /\ budget' = 0
  /\ thread' = "check"
  /\ UNCHANGED <<eFwdHookType, queued, irqVars, isr, wfd_rx_work_avail, buff_cache_cnt, pool>>

\* wfd_queue_not_empty: schedule() and another round, or done.
ThreadChecks ==
  /\ thread = "check"
  /\ thread' = (IF queued > 0 THEN "wait" ELSE "done")
  /\ UNCHANGED <<eFwdHookType, queued, irqVars, isr, wfd_rx_work_avail, roundVars, bufVars>>

\* Clear the work bit under wfd_irq_lock ...
ThreadClearsWork ==
  /\ thread = "done"
  /\ wfd_rx_work_avail' = FALSE
  /\ thread' = "enable"
  /\ UNCHANGED <<eFwdHookType, queued, irqVars, isr, roundVars, bufVars>>

\* Mutant of ThreadEnables: the latched status is cleared with the mask.
MutEnableClears ==
  /\ thread = "enable"
  /\ intEnabled' = TRUE /\ intCause' = FALSE
  /\ thread' = "wait"
  /\ UNCHANGED <<eFwdHookType, queued, coalescing, isr, wfd_rx_work_avail,
                 roundVars, bufVars>>

\* ... and enable the interrupt.
ThreadEnables ==
  /\ thread = "enable"
  /\ intEnabled' = TRUE
  /\ thread' = "wait"
  /\ UNCHANGED <<eFwdHookType, queued, coalescing, intCause, isr, wfd_rx_work_avail,
                 roundVars, bufVars>>

\* The wireless driver frees a packet (bdmf_sysb_recycle).
UpperFrees ==
  /\ upper > 0
  /\ upper' = upper - 1 /\ pool' = pool + 1
  /\ UNCHANGED <<eFwdHookType, queued, irqVars, isr, wfd_rx_work_avail, thread,
                 roundVars, buff_cache_cnt>>

-----------------------------------------------------------------------------
Isr == IsrDisable \/ IsrClear \/ IsrSetWork \/ IsrWake

Thread ==
  \/ ThreadWaits \/ BulkTakes \/ BulkNoBuffer \/ BulkNoSkb \/ BulkEnds
  \/ BulkForwards \/ ThreadChecks \/ ThreadClearsWork \/ ThreadEnables

Next == PacketArrives \/ InterruptRaised \/ Isr \/ Thread \/ UpperFrees

Spec == Init /\ [][Next]_vars

\* Raised interrupts are taken and handlers finish; a runnable thread runs.
FairSpec == Spec /\ WF_vars(InterruptRaised) /\ WF_vars(Isr) /\ WF_vars(Thread)

-----------------------------------------------------------------------------
(***************************************************************************)
(* No lost wakeup: while packets wait and the thread sleeps, an interrupt  *)
(* that will wake it is on its way (being coalesced or latched, with the   *)
(* mask open) or its handler is running.  The thread looks at the ring     *)
(* before it clears the bit and opens the mask, so packets that come in    *)
(* between are saved only by the latched status.                           *)
(***************************************************************************)
WakeupPending ==
  thread = "asleep" /\ queued > 0 =>
     \/ isr # "idle"
     \/ intEnabled /\ (coalescing \/ intCause)

(***************************************************************************)
(* Mask and work bit are handed to and fro: while the mask is open no work *)
(* is recorded and no handler is halfway, so that the thread, when it      *)
(* clears the bit, never erases work that a newer interrupt has recorded.  *)
(***************************************************************************)
MaskHandover ==
  /\ intEnabled => ~wfd_rx_work_avail /\ isr \in {"idle", "wake"}
  /\ thread \in {"bulk", "forward", "check", "done"} =>
        ~intEnabled /\ wfd_rx_work_avail /\ isr \in {"idle", "wake"}
  /\ ~intEnabled => isr # "idle" \/ wfd_rx_work_avail \/ thread = "enable"

(***************************************************************************)
(* Buffers are neither lost nor duplicated by a round of the FKB reader:   *)
(* every one is in the ring, spare, read but not yet forwarded, or with    *)
(* the wireless driver.  BulkNoSkb of the other reader does lose one.      *)
(***************************************************************************)
FkbBuffersAccounted ==
  eFwdHookType = "FKB" => RingSize + buff_cache_cnt + pool + rx_pktcnt + upper = Buffers

(***************************************************************************)
(* Every packet that waits is attended to: the thread comes to read.       *)
(***************************************************************************)
PacketsAttended == queued > 0 ~> thread = "bulk"
=============================================================================
