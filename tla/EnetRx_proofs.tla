---------------------------- MODULE EnetRx_proofs ----------------------------
(***************************************************************************)
(* Proofs about EnetRx, for every set of cores, size of queue, budget and  *)
(* number of preallocated skbs.                                            *)
(***************************************************************************)
EXTENDS EnetRx, SequenceTheorems, TLAPS

\* TypeOK in parts: the flags; queues and interrupts; the thread; the locks and
\* the list of free skbs.
FlagTypes ==
  rx_work_avail \in BOOLEAN /\ rxContext1 \in BOOLEAN /\ pollDone \in BOOLEAN

IntTypes ==
  /\ queue \in [Queue -> 0 .. QueueSize]
  /\ intEnabled \subseteq Queue /\ intCause \subseteq Queue
  /\ at \in [Actor -> 0 .. Len(MaskSteps)]

ThreadTypes ==
  /\ pc \in Receiving \cup {"wait", "asleep", "clear", "enableHI", "enableLO", "lookLO", "lookHI",
                            "post"}
  /\ cpu \in Cpu \cup {NULL}
  /\ budget \in 0 .. NETDEV_WEIGHT

ListTypes ==
  /\ ethlock_rx \in Cpu \cup {NULL} /\ blogLock \in Cpu \cup {NULL}
  /\ bulk_rx_lock_active \in [Cpu -> BOOLEAN]
  /\ freeSkbList \in Seq(Skb) /\ found \in Seq(Skb)
  /\ skb \in Skb \cup {NoSkb} /\ inUse \subseteq Skb
  /\ recycle \in [Cpu -> [step : {"idle", "blog", "lock", "head"},
                          skb : Skb \cup {NoSkb}, next : Seq(Skb), blog : BOOLEAN]]

LEMMA TypeParts == TypeOK <=> FlagTypes /\ IntTypes /\ ThreadTypes /\ ListTypes
BY Zenon DEF TypeOK, FlagTypes, IntTypes, ThreadTypes, ListTypes

-----------------------------------------------------------------------------
(* Interrupts and wakeups.                                                 *)

LEMMA SevenMaskSteps ==
  /\ Len(MaskSteps) = 7
  /\ MaskSteps[1] = <<"disable", "HI">> /\ MaskSteps[2] = <<"clear", "HI">>
  /\ MaskSteps[3] = <<"disable", "LO">> /\ MaskSteps[4] = <<"clear", "LO">>
  /\ MaskSteps[5][1] = "test" /\ MaskSteps[6][1] = "set" /\ MaskSteps[7][1] = "wake"
BY DEF MaskSteps

\* What one step of the handler, or of the thread in bcmeapi_napi_post, does.
LEMMA MaskStepEffect ==
  ASSUME IntTypes, NEW a \in Actor, MaskStep(a)
  PROVE  /\ at[a] \in 1 .. 7
         /\ \/ at[a] \in {1, 2, 3, 4, 6} /\ at' = [at EXCEPT ![a] = at[a] + 1]
            \/ at[a] = 5 /\ ~rx_work_avail /\ at' = [at EXCEPT ![a] = 6]
            \/ at[a] = 5 /\ rx_work_avail /\ at' = [at EXCEPT ![a] = 0]
            \/ at[a] = 7 /\ at' = [at EXCEPT ![a] = 0]
         /\ intEnabled' \subseteq intEnabled /\ (at[a] \notin {1, 3} => intEnabled' = intEnabled)
         /\ intCause' \subseteq intCause /\ (at[a] \notin {2, 4} => intCause' = intCause)
         /\ rx_work_avail' = (rx_work_avail \/ at[a] = 6)
         /\ pc' = IF \/ a = "thread" /\ (at[a] = 7 \/ (at[a] = 5 /\ rx_work_avail))
                     \/ at[a] = 7 /\ pc = "asleep"
                    THEN "wait" ELSE pc
         /\ queue' = queue
<1> DEFINE k == at[a]
           step == MaskSteps[k]
           last == k = Len(MaskSteps) \/ (step[1] = "test" /\ rx_work_avail)
<1>1. k \in 1 .. 7
  BY SevenMaskSteps DEF IntTypes, MaskStep
<1>2. /\ at' = [at EXCEPT ![a] = IF last THEN 0 ELSE @ + 1]
      /\ intEnabled' = intEnabled \ {q \in Queue : step = <<"disable", q>>}
      /\ intCause' = intCause \ {q \in Queue : step = <<"clear", q>>}
      /\ rx_work_avail' = (rx_work_avail \/ step[1] = "set")
      /\ pc' = IF \/ a = "thread" /\ last
                  \/ step[1] = "wake" /\ pc = "asleep"
                 THEN "wait" ELSE pc
      /\ queue' = queue
  BY Zenon DEF MaskStep
<1>3. step[1] = IF k \in {1, 3} THEN "disable" ELSE IF k \in {2, 4} THEN "clear"
                ELSE IF k = 5 THEN "test" ELSE IF k = 6 THEN "set" ELSE "wake"
  BY <1>1, SevenMaskSteps
<1>4. last <=> k = 7 \/ (k = 5 /\ rx_work_avail)
  BY <1>1, <1>3, SevenMaskSteps
<1>5. k \notin {1, 3} => {q \in Queue : step = <<"disable", q>>} = {}
  BY <1>3
<1>6. k \notin {2, 4} => {q \in Queue : step = <<"clear", q>>} = {}
  BY <1>3
<1>7. step[1] = "set" <=> k = 6
  BY <1>1, <1>3
<1>8. step[1] = "wake" <=> k = 7
  BY <1>1, <1>3
<1>9. at' = [at EXCEPT ![a] = IF last THEN 0 ELSE k + 1]
  BY <1>2
<1>10. /\ intEnabled' \subseteq intEnabled /\ (k \notin {1, 3} => intEnabled' = intEnabled)
       /\ intCause' \subseteq intCause /\ (k \notin {2, 4} => intCause' = intCause)
  BY <1>2, <1>5, <1>6
<1> HIDE DEF last, step, k
<1>11. rx_work_avail' = (rx_work_avail \/ k = 6)
  BY <1>2, <1>7
<1>12. pc' = IF \/ a = "thread" /\ (k = 7 \/ (k = 5 /\ rx_work_avail))
                \/ k = 7 /\ pc = "asleep"
               THEN "wait" ELSE pc
  BY <1>2, <1>4, <1>8
<1>13. \/ k \in {1, 2, 3, 4, 6} /\ at' = [at EXCEPT ![a] = k + 1]
       \/ k = 5 /\ ~rx_work_avail /\ at' = [at EXCEPT ![a] = 6]
       \/ k = 5 /\ rx_work_avail /\ at' = [at EXCEPT ![a] = 0]
       \/ k = 7 /\ at' = [at EXCEPT ![a] = 0]
  <2>1. CASE last
    BY <2>1, <1>4, <1>9
  <2>2. CASE ~last
    <3>1. at' = [at EXCEPT ![a] = k + 1]
      BY <2>2, <1>9
    <3>2. k \in {1, 2, 3, 4, 6} \/ (k = 5 /\ ~rx_work_avail /\ k + 1 = 6)
      BY <2>2, <1>1, <1>4
    <3> QED  BY <3>1, <3>2, Zenon
  <2> QED  BY <2>1, <2>2
<1> QED  BY <1>1, <1>2, <1>10, <1>11, <1>12, <1>13 DEF k

\* Why RxWakeupPending is inductive.  The thread works only while work is
\* announced, sleeps on announced work only until the handler's wakeup, and
\* masks on its own account only in bcmeapi_napi_post; and a queue whose
\* interrupt is masked is one that the thread has been or will be sent to, or
\* whose mask the thread is about to open.
WakeInv ==
  /\ pc \in Receiving \cup {"clear"} => rx_work_avail
  /\ pc = "asleep" /\ rx_work_avail => at["isr"] = 7
  /\ at["thread"] # 0 => pc = "post"
  /\ at["thread"] = 7 => rx_work_avail
  /\ \A q \in Queue : q \notin intEnabled =>
       \/ rx_work_avail \/ at["isr"] \in 1 .. 6
       \/ pc \in {"post", "enableHI"} \/ (pc = "enableLO" /\ q = "LO")
  /\ RxWakeupPending

IntInv == IntTypes /\ WakeInv

\* RxWakeupPending without the length of MaskSteps, and in this invariant.
LEMMA Pending ==
  RxWakeupPending <=>
    \A q \in Queue : queue[q] > 0 =>
      \/ rx_work_avail /\ (pc # "asleep" \/ at["isr"] = 7)
      \/ pc \in {"enableHI", "enableLO", "lookLO", "post"} \/ (pc = "lookHI" /\ q = "HI")
      \/ at["isr"] \in 1 .. 6
      \/ intCause \cap intEnabled # {}
<1>1. Len(MaskSteps) = 7 /\ Len(MaskSteps) - 1 = 6
  BY SevenMaskSteps
<1> QED  BY <1>1 DEF RxWakeupPending

LEMMA PendingNext ==
  RxWakeupPending' <=>
    \A q \in Queue : queue'[q] > 0 =>
      \/ rx_work_avail' /\ (pc' # "asleep" \/ at'["isr"] = 7)
      \/ pc' \in {"enableHI", "enableLO", "lookLO", "post"} \/ (pc' = "lookHI" /\ q = "HI")
      \/ at'["isr"] \in 1 .. 6
      \/ intCause' \cap intEnabled' # {}
<1>1. Len(MaskSteps) = 7 /\ Len(MaskSteps) - 1 = 6
  BY SevenMaskSteps
<1> QED  BY <1>1 DEF RxWakeupPending

LEMMA InitInt == Init => IntInv
BY SevenMaskSteps, EnetAssumption, Pending
   DEF Init, IntInv, IntTypes, WakeInv, Queue, Actor, Receiving

LEMMA IntTypesNext ==
  IntTypes' <=> /\ queue' \in [Queue -> 0 .. QueueSize]
                /\ intEnabled' \subseteq Queue /\ intCause' \subseteq Queue
                /\ at' \in [Actor -> 0 .. 7]
BY SevenMaskSteps DEF IntTypes

LEMMA IntTypesNow ==
  IntTypes <=> /\ queue \in [Queue -> 0 .. QueueSize]
               /\ intEnabled \subseteq Queue /\ intCause \subseteq Queue
               /\ at \in [Actor -> 0 .. 7]
BY SevenMaskSteps DEF IntTypes

LEMMA HandlerWake ==
  ASSUME IntInv, MaskStep("isr")
  PROVE  IntInv'
<1>1. "isr" \in Actor  BY DEF Actor
<1> USE IntTypesNow, IntTypesNext DEF IntInv
<1>2. IntTypes' /\ at'["thread"] = at["thread"]
  BY <1>1, MaskStepEffect DEF Actor
<1>3. /\ at["isr"] \in 1 .. 7
      /\ \/ at["isr"] \in {1, 2, 3, 4, 6} /\ at'["isr"] = at["isr"] + 1
         \/ at["isr"] = 5 /\ ~rx_work_avail /\ at'["isr"] = 6
         \/ at["isr"] = 5 /\ rx_work_avail /\ at'["isr"] = 0
         \/ at["isr"] = 7 /\ at'["isr"] = 0
  BY <1>1, MaskStepEffect DEF Actor
<1>4. rx_work_avail' <=> rx_work_avail \/ at["isr"] = 6
  BY <1>1, MaskStepEffect
<1>5. /\ pc' = IF at["isr"] = 7 /\ pc = "asleep" THEN "wait" ELSE pc
      /\ queue' = queue
      /\ at["isr"] \notin {1, 3} => intEnabled' = intEnabled
      /\ at["isr"] \notin {2, 4} => intCause' = intCause
  BY <1>1, MaskStepEffect
<1>6. RxWakeupPending'
  BY <1>3, <1>4, <1>5, Pending, PendingNext DEF WakeInv
<1>7. WakeInv'
  BY <1>2, <1>3, <1>4, <1>5, <1>6 DEF WakeInv, Receiving
<1> QED  BY <1>2, <1>7

LEMMA PostWake ==
  ASSUME IntInv, MaskStep("thread")
  PROVE  IntInv'
<1>1. "thread" \in Actor  BY DEF Actor
<1> USE IntTypesNow, IntTypesNext DEF IntInv
<1>2. IntTypes' /\ at'["isr"] = at["isr"]
  BY <1>1, MaskStepEffect DEF Actor
<1>3. /\ at["thread"] \in 1 .. 7
      /\ \/ at["thread"] \in {1, 2, 3, 4, 6} /\ at'["thread"] = at["thread"] + 1
         \/ at["thread"] = 5 /\ ~rx_work_avail /\ at'["thread"] = 6
         \/ at["thread"] = 5 /\ rx_work_avail /\ at'["thread"] = 0
         \/ at["thread"] = 7 /\ at'["thread"] = 0
  BY <1>1, MaskStepEffect DEF Actor
<1>4. rx_work_avail' <=> rx_work_avail \/ at["thread"] = 6
  BY <1>1, MaskStepEffect
<1>5. pc = "post"
  BY <1>3 DEF WakeInv
<1>6. pc' = IF at["thread"] = 7 \/ (at["thread"] = 5 /\ rx_work_avail) THEN "wait" ELSE "post"
  BY <1>1, <1>5, MaskStepEffect
<1>7. RxWakeupPending'
  BY <1>3, <1>4, <1>6, PendingNext DEF WakeInv
<1>8. WakeInv'
  BY <1>2, <1>3, <1>4, <1>6, <1>7 DEF WakeInv, Receiving
<1> QED  BY <1>2, <1>8

\* bcm63xx_rx runs while work is announced, and leaves that and the interrupts
\* alone; it only ever takes packets out of a queue.
LEMMA RxFrame ==
  ASSUME bcm63xx_rx
  PROVE  /\ pc \in Receiving /\ pc' \in Receiving \cup {"clear", "wait"}
         /\ UNCHANGED <<intEnabled, intCause, at, rx_work_avail>>
<1> USE DEF Receiving, intVars
<1>1. CASE NextRx          BY <1>1 DEF NextRx
<1>2. CASE TakeRxLock      BY <1>2 DEF TakeRxLock
<1>3. CASE bcmeapi_rx_pkt  BY <1>3 DEF bcmeapi_rx_pkt
<1>4. CASE BlogFinit       BY <1>4 DEF BlogFinit
<1>5. CASE AllocSkb        BY <1>5 DEF AllocSkb
<1>6. CASE TakeSkb         BY <1>6 DEF TakeSkb
<1>7. CASE ReceiveSkb      BY <1>7 DEF ReceiveSkb
<1>8. CASE AfterRx         BY <1>8 DEF AfterRx
<1> QED  BY <1>1, <1>2, <1>3, <1>4, <1>5, <1>6, <1>7, <1>8 DEF bcm63xx_rx

LEMMA RxQueue ==
  ASSUME IntTypes, bcm63xx_rx
  PROVE  queue' \in [Queue -> 0 .. QueueSize]
<1> USE IntTypesNow
<1>1. CASE bcmeapi_rx_pkt
  <2>1. PICK q \in Queue : queue' = queue \/ (queue[q] > 0 /\ queue' = [queue EXCEPT ![q] = @ - 1])
    BY <1>1 DEF bcmeapi_rx_pkt, Queue
  <2> QED  BY <2>1, EnetAssumption
<1>3. CASE NextRx      BY <1>3 DEF NextRx
<1>4. CASE TakeRxLock  BY <1>4 DEF TakeRxLock
<1>5. CASE BlogFinit   BY <1>5 DEF BlogFinit
<1>6. CASE AllocSkb    BY <1>6 DEF AllocSkb
<1>7. CASE TakeSkb     BY <1>7 DEF TakeSkb
<1>8. CASE ReceiveSkb  BY <1>8 DEF ReceiveSkb
<1>9. CASE AfterRx     BY <1>9 DEF AfterRx
<1> QED  BY <1>1, <1>3, <1>4, <1>5, <1>6, <1>7, <1>8, <1>9 DEF bcm63xx_rx

LEMMA RxWake ==
  ASSUME IntInv, bcm63xx_rx
  PROVE  IntInv'
<1> USE IntTypesNow, IntTypesNext DEF IntInv
<1>1. IntTypes'
  BY RxFrame, RxQueue
<1>2. rx_work_avail /\ rx_work_avail' /\ pc' # "asleep" /\ at' = at /\ pc # "post"
  BY RxFrame DEF WakeInv, Receiving
<1>3. RxWakeupPending'
  BY <1>2, PendingNext
<1>4. WakeInv'
  BY <1>2, <1>3 DEF WakeInv
<1> QED  BY <1>1, <1>4

\* The thread outside bcm63xx_rx.
LEMMA ThreadWake ==
  ASSUME IntInv, ThreadWaits \/ ClearWork \/ EnableInt \/ LookAgain
  PROVE  IntInv'
<1> USE IntTypesNow, IntTypesNext DEF IntInv
<1>1. CASE ThreadWaits
  <2>1. /\ UNCHANGED <<queue, intEnabled, intCause, at, rx_work_avail>>
        /\ pc = "wait"
        /\ \/ rx_work_avail /\ pc' = "next"
           \/ ~rx_work_avail /\ pc' = "asleep"
    BY <1>1 DEF ThreadWaits, intVars
  <2>2. RxWakeupPending'
    BY <2>1, Pending, PendingNext DEF WakeInv
  <2> QED  BY <2>1, <2>2 DEF WakeInv, Receiving
<1>2. CASE ClearWork
  <2>1. /\ UNCHANGED <<queue, intEnabled, intCause, at>>
        /\ pc = "clear" /\ rx_work_avail' = FALSE /\ pc' = "enableHI"
    BY <1>2 DEF ClearWork, intVars
  <2>2. RxWakeupPending'
    BY <2>1, PendingNext
  <2> QED  BY <2>1, <2>2 DEF WakeInv, Receiving
<1>3. CASE EnableInt
  <2>1. /\ UNCHANGED <<queue, intCause, at, rx_work_avail>>
        /\ \/ pc = "enableHI" /\ pc' = "enableLO" /\ intEnabled' = intEnabled \cup {"HI"}
           \/ pc = "enableLO" /\ pc' = "lookLO" /\ intEnabled' = intEnabled \cup {"LO"}
    BY <1>3 DEF EnableInt
  <2>2. RxWakeupPending'
    BY <2>1, PendingNext
  <2> QED  BY <2>1, <2>2 DEF WakeInv, Receiving, Queue
<1>4. CASE LookAgain
  <2>1. UNCHANGED <<queue, intEnabled, intCause, rx_work_avail>>
    BY <1>4 DEF LookAgain, intVars
  <2>2. PICK q \in Queue :
          /\ pc = IF q = "LO" THEN "lookLO" ELSE "lookHI"
          /\ pc' = IF queue[q] > 0 THEN "post" ELSE IF q = "LO" THEN "lookHI" ELSE "wait"
          /\ at' = [at EXCEPT !["thread"] = IF queue[q] > 0 THEN 1 ELSE 0]
    BY <1>4 DEF LookAgain, Queue
  <2>3. IntTypes' /\ at'["isr"] = at["isr"] /\ at'["thread"] = IF queue[q] > 0 THEN 1 ELSE 0
    BY <2>1, <2>2 DEF Actor
  <2>4. RxWakeupPending'
    BY <2>1, <2>2, <2>3, Pending, PendingNext DEF WakeInv, Queue
  <2>5. WakeInv'
    BY <2>1, <2>2, <2>3, <2>4 DEF WakeInv, Receiving, Queue
  <2> QED  BY <2>3, <2>5
<1> QED  BY <1>1, <1>2, <1>3, <1>4

LEMMA ArrivalWake ==
  ASSUME IntInv, InterruptTaken \/ \E q \in Queue : PacketArrives(q)
  PROVE  IntInv'
<1> USE IntTypesNow, IntTypesNext DEF IntInv
<1>1. CASE InterruptTaken
  <2>1. /\ UNCHANGED <<queue, intEnabled, intCause, rx_work_avail, pc>>
        /\ at["isr"] = 0 /\ at' = [at EXCEPT !["isr"] = 1]
    BY <1>1 DEF InterruptTaken, intVars, threadVars
  <2>2. IntTypes' /\ at'["isr"] = 1 /\ at'["thread"] = at["thread"]
    BY <2>1 DEF Actor
  <2>3. RxWakeupPending'
    BY <2>2, PendingNext
  <2> QED  BY <2>1, <2>2, <2>3 DEF WakeInv
<1>2. CASE \E q \in Queue : PacketArrives(q)
  <2>1. PICK q \in Queue : PacketArrives(q)
    BY <1>2
  <2>2. /\ UNCHANGED <<intEnabled, at, rx_work_avail, pc>>
        /\ queue[q] < QueueSize /\ queue' = [queue EXCEPT ![q] = @ + 1]
        /\ intCause' = intCause \cup {q}
    BY <2>1 DEF PacketArrives, threadVars
  <2>3. IntTypes' /\ (\A r \in Queue : r # q => queue'[r] = queue[r])
    BY <2>2, EnetAssumption
  <2>4. RxWakeupPending'
    <3>1. CASE q \in intEnabled
      BY <3>1, <2>2, PendingNext
    <3>2. CASE q \notin intEnabled
      BY <3>2, <2>2, <2>3, Pending, PendingNext DEF WakeInv
    <3> QED  BY <3>1, <3>2
  <2> QED  BY <2>2, <2>3, <2>4 DEF WakeInv
<1> QED  BY <1>1, <1>2

\* bcmeapi_free_skb concerns neither the interrupts nor the thread.
LEMMA RecycleFrame ==
  ASSUME NEW c \in Cpu, bcmeapi_free_skb(c) \/ \E s \in Skb : RecycleBegins(c, s)
  PROVE  UNCHANGED <<queue, intVars, at, rx_work_avail, threadVars, localVars, found, skb,
                     bulk_rx_lock_active>>
BY DEF bcmeapi_free_skb, RecycleBegins, RecycleBlogLock, RecycleLock, RecycleHead, lockVars,
       allocVars

LEMMA NextWake == IntInv /\ [Next]_vars => IntInv'
<1> SUFFICES ASSUME IntInv, [Next]_vars PROVE IntInv'
  OBVIOUS
<1>1. CASE UNCHANGED <<queue, intVars, at, rx_work_avail, threadVars, localVars>>
  BY <1>1 DEF IntInv, IntTypes, WakeInv, RxWakeupPending, intVars, threadVars
<1>2. CASE \E c \in Cpu : bcmeapi_free_skb(c) \/ \E s \in Skb : RecycleBegins(c, s)
  BY <1>1, <1>2, RecycleFrame
<1>3. CASE UNCHANGED vars
  BY <1>1, <1>3 DEF vars
<1>4. CASE Thread
  BY <1>4, PostWake, RxWake, ThreadWake DEF Thread
<1>5. CASE InterruptTaken \/ MaskStep("isr") \/ \E q \in Queue : PacketArrives(q)
  BY <1>5, HandlerWake, ArrivalWake
<1> QED  BY <1>2, <1>3, <1>4, <1>5 DEF Next

\* RxWakeupPending: a packet in a queue is never forgotten by the handlers and
\* the thread of bcmenet.c, whatever their accesses to the interrupt registers
\* and to rx_work_avail interleave to.
THEOREM RxWakeupPendingHolds == Spec => []RxWakeupPending
<1>1. Init => IntInv  BY InitInt
<1>2. IntInv /\ [Next]_vars => IntInv'  BY NextWake
<1>3. IntInv => RxWakeupPending  BY DEF IntInv, WakeInv
<1> QED  BY <1>1, <1>2, <1>3, PTL DEF Spec

-----------------------------------------------------------------------------
(* Locks.                                                                  *)

\* The thread is on a core exactly while it is inside bcm63xx_rx, and has
\* budget left until it leaves the loop.
ThreadInv ==
  /\ ThreadTypes
  /\ IF pc \in Receiving THEN cpu \in Cpu ELSE cpu = NULL
  /\ pc \in Receiving \ {"after"} => budget >= 1

LEMMA InitThread == Init => ThreadInv
BY EnetAssumption DEF Init, ThreadInv, ThreadTypes, Receiving

LEMMA RxThread ==
  ASSUME ThreadInv, bcm63xx_rx
  PROVE  ThreadInv'
<1> USE EnetAssumption DEF ThreadInv, ThreadTypes, Receiving, localVars
<1>1. CASE NextRx          BY <1>1 DEF NextRx
<1>2. CASE TakeRxLock      BY <1>2 DEF TakeRxLock
<1>3. CASE bcmeapi_rx_pkt  BY <1>3 DEF bcmeapi_rx_pkt
<1>4. CASE BlogFinit       BY <1>4 DEF BlogFinit
<1>5. CASE AllocSkb        BY <1>5 DEF AllocSkb
<1>6. CASE TakeSkb         BY <1>6 DEF TakeSkb
<1>7. CASE ReceiveSkb      BY <1>7 DEF ReceiveSkb
<1>8. CASE AfterRx         BY <1>8 DEF AfterRx
<1> QED  BY <1>1, <1>2, <1>3, <1>4, <1>5, <1>6, <1>7, <1>8 DEF bcm63xx_rx

LEMMA OtherThread ==
  ASSUME IntInv, ThreadInv,
         \/ ThreadWaits \/ ClearWork \/ EnableInt \/ LookAgain
         \/ \E a \in Actor : MaskStep(a)
  PROVE  ThreadInv'
<1> USE EnetAssumption DEF ThreadInv, ThreadTypes, Receiving, localVars
<1>1. CASE ThreadWaits     BY <1>1 DEF ThreadWaits
<1>2. CASE ClearWork       BY <1>2 DEF ClearWork
<1>3. CASE EnableInt       BY <1>3 DEF EnableInt
<1>4. CASE LookAgain       BY <1>4 DEF LookAgain
<1>5. CASE \E a \in Actor : MaskStep(a)
  <2>1. PICK a \in Actor : MaskStep(a)
    BY <1>5
  <2>2. cpu' = cpu /\ budget' = budget
    BY <2>1 DEF MaskStep
  <2>3. at["thread"] # 0 => pc = "post"
    BY DEF IntInv, WakeInv
  <2>4. pc' = pc \/ (pc \in {"post", "asleep"} /\ pc' = "wait")
    BY <2>1, <2>3, MaskStepEffect DEF IntInv
  <2> QED  BY <2>2, <2>4
<1> QED  BY <1>1, <1>2, <1>3, <1>4, <1>5

LEMMA NextThread == IntInv /\ ThreadInv /\ [Next]_vars => ThreadInv'
<1> SUFFICES ASSUME IntInv, ThreadInv, [Next]_vars PROVE ThreadInv'
  OBVIOUS
<1>1. CASE UNCHANGED <<threadVars, localVars>>
  BY <1>1 DEF ThreadInv, ThreadTypes, threadVars, localVars
<1>2. CASE \E c \in Cpu : bcmeapi_free_skb(c) \/ \E s \in Skb : RecycleBegins(c, s)
  BY <1>1, <1>2, RecycleFrame
<1>3. CASE InterruptTaken \/ \E q \in Queue : PacketArrives(q)
  BY <1>1, <1>3 DEF InterruptTaken, PacketArrives
<1>4. CASE UNCHANGED vars
  BY <1>1, <1>4 DEF vars
<1>5. CASE Thread \/ MaskStep("isr")
  BY <1>5, RxThread, OtherThread DEF Thread, Actor
<1> QED  BY <1>2, <1>3, <1>4, <1>5 DEF Next

\* A core inside a bulk is the thread's and holds both locks.  In
\* bcmeapi_free_skb a core that asked for blog_lock is not inside a bulk, and
\* the one at the head of the list holds the receive lock and has seen the list
\* as it is; so does the thread when it takes an skb.
LockInv ==
  /\ pc \in Receiving \ {"finit", "receive"} => recycle[cpu] = Idle
  /\ pc = "lock" => blogLock = cpu
  /\ pc \in {"pkt", "finit", "alloc", "take"} => bulk_rx_lock_active[cpu]
  /\ pc = "receive" => ~bulk_rx_lock_active[cpu]
  /\ pc = "take" => found = freeSkbList /\ found # << >>
  /\ \A c \in Cpu :
       /\ bulk_rx_lock_active[c] => cpu = c /\ ethlock_rx = c /\ blogLock = c
       /\ recycle[c].step # "idle" => recycle[c].skb # NoSkb
       /\ recycle[c].step = "blog" => recycle[c].blog /\ blogLock # c
       /\ recycle[c].blog => ~bulk_rx_lock_active[c]
       /\ recycle[c].blog /\ recycle[c].step \in {"lock", "head"} => blogLock = c
       /\ recycle[c].step = "head" => ethlock_rx = c /\ recycle[c].next = freeSkbList

\* What bcmeapi_free_skb does on a core: its progress.
CallTypes ==
  [step : {"idle", "blog", "lock", "head"}, skb : Skb \cup {NoSkb}, next : Seq(Skb),
   blog : BOOLEAN]

LockTypes ==
  /\ ethlock_rx \in Cpu \cup {NULL} /\ blogLock \in Cpu \cup {NULL}
  /\ bulk_rx_lock_active \in [Cpu -> BOOLEAN]
  /\ recycle \in [Cpu -> CallTypes]
  /\ freeSkbList \in Seq(Skb) /\ found \in Seq(Skb)

LEMMA InitLock == Init => LockTypes /\ LockInv
<1> SUFFICES ASSUME Init PROVE LockTypes /\ LockInv
  OBVIOUS
<1>1. freeSkbList \in Seq(Skb)
  <2>1. \A i \in Skb : SKB_POOL_SIZE + 1 - i \in Skb
    BY EnetAssumption DEF Skb
  <2>2. freeSkbList \in [1 .. SKB_POOL_SIZE -> Skb]
    BY <2>1 DEF Init, Skb
  <2> QED  BY <2>2, EnetAssumption
<1>2. Idle \in CallTypes
  BY DEF Idle, CallTypes
<1>3. LockTypes
  BY <1>1, <1>2 DEF Init, LockTypes
<1>4. LockInv
  BY DEF Init, LockInv, Receiving, Idle
<1> QED  BY <1>3, <1>4

\* DropRxLock of the thread, on a core where bcmeapi_free_skb does not run.
LEMMA RxLock ==
  ASSUME ThreadInv, LockTypes, LockInv, bcm63xx_rx
  PROVE  LockInv'
<1> USE EnetAssumption DEF ThreadInv, LockTypes, LockInv, Receiving, lockVars, allocVars, listVars
<1>1. CASE NextRx          BY <1>1 DEF NextRx, Idle
<1>2. CASE TakeRxLock      BY <1>2 DEF TakeRxLock, Idle
<1>3. CASE bcmeapi_rx_pkt  BY <1>3 DEF bcmeapi_rx_pkt, DropRxLock, Idle
<1>4. CASE BlogFinit       BY <1>4 DEF BlogFinit, Idle
<1>5. CASE AllocSkb        BY <1>5 DEF AllocSkb, DropRxLock, Idle
<1>6. CASE TakeSkb         BY <1>6 DEF TakeSkb, DropRxLock, Idle
<1>7. CASE ReceiveSkb      BY <1>7 DEF ReceiveSkb, Idle
<1>8. CASE AfterRx         BY <1>8 DEF AfterRx, DropRxLock, Idle
<1> QED  BY <1>1, <1>2, <1>3, <1>4, <1>5, <1>6, <1>7, <1>8 DEF bcm63xx_rx

LEMMA RxLockTypes ==
  ASSUME ThreadInv, LockTypes, LockInv, bcm63xx_rx
  PROVE  LockTypes'
<1> USE EnetAssumption DEF ThreadInv, LockTypes, LockInv, Receiving, lockVars, allocVars, listVars
<1>1. CASE NextRx          BY <1>1 DEF NextRx
<1>2. CASE TakeRxLock      BY <1>2 DEF TakeRxLock
<1>3. CASE bcmeapi_rx_pkt  BY <1>3 DEF bcmeapi_rx_pkt, DropRxLock
<1>4. CASE BlogFinit       BY <1>4 DEF BlogFinit
<1>5. CASE AllocSkb        BY <1>5 DEF AllocSkb, DropRxLock
<1>6. CASE TakeSkb         BY <1>6 DEF TakeSkb, DropRxLock
<1>7. CASE ReceiveSkb      BY <1>7 DEF ReceiveSkb
<1>8. CASE AfterRx         BY <1>8 DEF AfterRx, DropRxLock
<1> QED  BY <1>1, <1>2, <1>3, <1>4, <1>5, <1>6, <1>7, <1>8 DEF bcm63xx_rx

LEMMA CallSteps ==
  ASSUME NEW r \in CallTypes, NEW l \in Seq(Skb)
  PROVE  /\ [r EXCEPT !.step = "lock"] \in CallTypes
         /\ [r EXCEPT !.step = "head", !.next = l] \in CallTypes
BY DEF CallTypes

LEMMA RecycleLocks ==
  ASSUME ThreadInv, LockTypes, LockInv, NEW c \in Cpu,
         bcmeapi_free_skb(c) \/ \E s \in Skb : RecycleBegins(c, s)
  PROVE  LockTypes' /\ LockInv'
<1> USE EnetAssumption DEF ThreadInv, LockTypes, LockInv, Receiving
<1>0. UNCHANGED <<pc, cpu, found, bulk_rx_lock_active>>
  BY RecycleFrame DEF threadVars
<1>1. ASSUME NEW s \in Skb, RecycleBegins(c, s)
      PROVE  LockTypes' /\ LockInv'
  <2>1. /\ recycle[c] = Idle /\ (cpu = c => pc \in {"finit", "receive"})
        /\ UNCHANGED <<ethlock_rx, blogLock, freeSkbList>>
    BY <1>1 DEF RecycleBegins, lockVars
  <2>2. PICK blog \in BOOLEAN :
          /\ blog => blogLock # c
          /\ recycle' = [recycle EXCEPT ![c] = [step |-> IF blog THEN "blog" ELSE "lock",
                                                skb |-> s, next |-> << >>, blog |-> blog]]
    <3>1. CASE blogLock = c
      BY <1>1, <3>1 DEF RecycleBegins
    <3>2. CASE blogLock # c
      BY <1>1, <3>2 DEF RecycleBegins
    <3> QED  BY <3>1, <3>2
  <2>3. s # NoSkb
    BY DEF Skb, NoSkb
  <2>4. CASE blog
    BY <1>0, <2>1, <2>2, <2>3, <2>4 DEF Idle, CallTypes
  <2>5. CASE ~blog
    BY <1>0, <2>1, <2>2, <2>3, <2>5 DEF Idle, CallTypes
  <2> QED  BY <2>4, <2>5
<1>2. CASE RecycleBlogLock(c)
  <2>1. LockTypes'
    <3>1. recycle' = [recycle EXCEPT ![c] = [recycle[c] EXCEPT !.step = "lock"]]
      BY <1>2 DEF RecycleBlogLock
    <3>2. [recycle[c] EXCEPT !.step = "lock"] \in CallTypes
      BY CallSteps
    <3> QED  BY <1>0, <1>2, <3>1, <3>2 DEF RecycleBlogLock
  <2>2. /\ recycle[c].step = "blog" /\ blogLock = NULL /\ blogLock' = c
        /\ UNCHANGED <<ethlock_rx, freeSkbList>>
    BY <1>2 DEF RecycleBlogLock
  <2>3. /\ \A d \in Cpu : d # c => recycle'[d] = recycle[d]
        /\ recycle'[c].step = "lock" /\ recycle'[c].blog = recycle[c].blog
        /\ recycle'[c].skb = recycle[c].skb
    BY <1>2 DEF RecycleBlogLock
  <2>4. LockInv'
    BY <1>0, <2>2, <2>3 DEF Idle
  <2> QED  BY <2>1, <2>4
<1>3. CASE RecycleLock(c)
  <2>1. LockTypes'
    <3>1. recycle' = [recycle EXCEPT ![c] = [recycle[c] EXCEPT !.step = "head",
                                                               !.next = freeSkbList]]
      BY <1>3 DEF RecycleLock
    <3>2. [recycle[c] EXCEPT !.step = "head", !.next = freeSkbList] \in CallTypes
      BY CallSteps
    <3> QED  BY <1>0, <1>3, <3>1, <3>2 DEF RecycleLock
  <2>2. /\ recycle[c].step = "lock" /\ (bulk_rx_lock_active[c] \/ ethlock_rx = NULL)
        /\ ethlock_rx' = c /\ UNCHANGED <<blogLock, freeSkbList>>
    BY <1>3 DEF RecycleLock
  <2>3. /\ \A d \in Cpu : d # c => recycle'[d] = recycle[d]
        /\ recycle'[c].step = "head" /\ recycle'[c].blog = recycle[c].blog
        /\ recycle'[c].skb = recycle[c].skb
        /\ recycle'[c].next = freeSkbList
    BY <1>3 DEF RecycleLock
  <2>4. LockInv'
    BY <1>0, <2>2, <2>3 DEF Idle
  <2> QED  BY <2>1, <2>4
<1>4. CASE RecycleHead(c)
  <2>1. LockTypes'
    <3>1. recycle[c].skb \in Skb /\ recycle[c].next \in Seq(Skb)
      BY <1>4 DEF RecycleHead, CallTypes
    <3>2. freeSkbList' \in Seq(Skb)
      BY <1>4, <3>1 DEF RecycleHead
    <3>3. Idle \in CallTypes
      BY DEF Idle, CallTypes
    <3> QED  BY <1>0, <1>4, <3>2, <3>3 DEF RecycleHead
  <2>2. LockInv'
    BY <1>0, <1>4 DEF RecycleHead, Idle
  <2> QED  BY <2>1, <2>2
<1> QED  BY <1>1, <1>2, <1>3, <1>4 DEF bcmeapi_free_skb

LEMMA ThreadLock ==
  ASSUME IntInv, ThreadInv, LockTypes, LockInv, ThreadWaits
  PROVE  LockTypes' /\ LockInv'
<1>1. UNCHANGED <<ethlock_rx, blogLock, bulk_rx_lock_active, found, freeSkbList, recycle>>
  BY DEF ThreadWaits, lockVars, allocVars, listVars
<1>2. /\ pc = "wait"
      /\ \/ pc' = "next" /\ cpu' \in {c \in Cpu : recycle[c] = Idle}
         \/ pc' = "asleep" /\ cpu' = cpu
  BY DEF ThreadWaits
<1>3. \A c \in Cpu : ~bulk_rx_lock_active[c]
  BY <1>2, EnetAssumption DEF ThreadInv, LockInv, Receiving
<1> QED  BY <1>1, <1>2, <1>3 DEF LockTypes, LockInv, Receiving

\* The other steps leave the locks and the list alone, and the thread outside
\* bcm63xx_rx.
LEMMA OtherLock ==
  ASSUME IntInv, ThreadInv, LockTypes, LockInv,
         \/ ClearWork \/ EnableInt \/ LookAgain \/ InterruptTaken
         \/ (\E a \in Actor : MaskStep(a)) \/ (\E q \in Queue : PacketArrives(q))
         \/ UNCHANGED vars
  PROVE  LockTypes' /\ LockInv' /\ UNCHANGED <<lockVars, allocVars, listVars>>
<1>1. UNCHANGED <<cpu, lockVars, allocVars, listVars>>
  BY DEF ClearWork, EnableInt, LookAgain, InterruptTaken, MaskStep, PacketArrives, vars, threadVars
<1>2. pc' = pc \/ pc' \notin Receiving
  <2>1. CASE \E a \in Actor : MaskStep(a)
    BY <2>1, MaskStepEffect DEF IntInv, Receiving
  <2>2. CASE ClearWork \/ EnableInt \/ LookAgain
    BY <2>2 DEF ClearWork, EnableInt, LookAgain, Receiving
  <2>3. CASE InterruptTaken \/ (\E q \in Queue : PacketArrives(q)) \/ UNCHANGED vars
    BY <2>3 DEF InterruptTaken, PacketArrives, vars, threadVars
  <2> QED  BY <2>1, <2>2, <2>3
<1> QED  BY <1>1, <1>2 DEF LockTypes, LockInv, lockVars, allocVars, listVars, Receiving

-----------------------------------------------------------------------------
(* The preallocated skbs.                                                  *)

\* Every preallocated skb is somewhere, and nowhere twice.
PlaceInv ==
  /\ skb \in Skb \cup {NoSkb} /\ inUse \subseteq Skb
  /\ pc # "receive" => skb = NoSkb
  /\ \A s \in Skb : \/ \E i \in DOMAIN freeSkbList : freeSkbList[i] = s
                    \/ skb = s \/ s \in inUse
                    \/ \E c \in Cpu : recycle[c].skb = s
  /\ \A i, j \in DOMAIN freeSkbList : freeSkbList[i] = freeSkbList[j] => i = j
  /\ \A i \in DOMAIN freeSkbList :
       /\ freeSkbList[i] # skb /\ freeSkbList[i] \notin inUse
       /\ \A c \in Cpu : recycle[c].skb # freeSkbList[i]
  /\ skb \notin inUse
  /\ \A c \in Cpu : recycle[c].skb \notin inUse /\ (recycle[c].skb = skb => skb = NoSkb)
  /\ \A c, d \in Cpu : recycle[c].skb = recycle[d].skb => c = d \/ recycle[c].skb = NoSkb

LEMMA PlacesConserved ==
  ASSUME PlaceInv
  PROVE  SkbsConserved
<1> SUFFICES ASSUME NEW s \in Skb
             PROVE  LET places == {<<"list", i>> : i \in {i \in DOMAIN freeSkbList : freeSkbList[i] = s}}
                                  \cup {<<"thread", 0>> : x \in {x \in {skb} : x = s}}
                                  \cup {<<"stack", 0>> : x \in {x \in inUse : x = s}}
                                  \cup {<<"recycle", c>> : c \in {c \in Cpu : recycle[c].skb = s}}
                    IN  \E p \in places : places = {p}
  BY Zenon DEF SkbsConserved
<1> DEFINE places == {<<"list", i>> : i \in {i \in DOMAIN freeSkbList : freeSkbList[i] = s}}
                     \cup {<<"thread", 0>> : x \in {x \in {skb} : x = s}}
                     \cup {<<"stack", 0>> : x \in {x \in inUse : x = s}}
                     \cup {<<"recycle", c>> : c \in {c \in Cpu : recycle[c].skb = s}}
<1>1. \A p : p \in places <=> \/ \E i \in DOMAIN freeSkbList : freeSkbList[i] = s /\ p = <<"list", i>>
                              \/ skb = s /\ p = <<"thread", 0>>
                              \/ s \in inUse /\ p = <<"stack", 0>>
                              \/ \E c \in Cpu : recycle[c].skb = s /\ p = <<"recycle", c>>
  OBVIOUS
<1>2. s # NoSkb
  BY DEF Skb, NoSkb
<1> HIDE DEF places
<1>3. \E p \in places : \A r \in places : r = p
  <2>1. CASE \E i \in DOMAIN freeSkbList : freeSkbList[i] = s
    <3>1. PICK i \in DOMAIN freeSkbList : freeSkbList[i] = s
      BY <2>1
    <3>2. <<"list", i>> \in places /\ \A r \in places : r = <<"list", i>>
      BY <1>1, <3>1, Zenon DEF PlaceInv
    <3> QED  BY <3>2
  <2>2. CASE skb = s
    <3>1. <<"thread", 0>> \in places /\ \A r \in places : r = <<"thread", 0>>
      BY <1>1, <1>2, <2>2, Zenon DEF PlaceInv
    <3> QED  BY <3>1
  <2>3. CASE s \in inUse
    <3>1. /\ skb # s /\ \A c \in Cpu : recycle[c].skb # s
          /\ \A i \in DOMAIN freeSkbList : freeSkbList[i] # s
      BY <2>3 DEF PlaceInv
    <3>2. <<"stack", 0>> \in places /\ \A r \in places : r = <<"stack", 0>>
      BY <1>1, <2>3, <3>1, Zenon
    <3> QED  BY <3>2
  <2>4. CASE \E c \in Cpu : recycle[c].skb = s
    <3>1. PICK c \in Cpu : recycle[c].skb = s
      BY <2>4
    <3>2. <<"recycle", c>> \in places /\ \A r \in places : r = <<"recycle", c>>
      BY <1>1, <1>2, <3>1, Zenon DEF PlaceInv
    <3> QED  BY <3>2
  <2> QED  BY <2>1, <2>2, <2>3, <2>4 DEF PlaceInv
<1>4. \E p \in places : places = {p}
  BY <1>3
<1> QED  BY <1>4 DEF places

LEMMA InitPlace == Init => PlaceInv
<1> SUFFICES ASSUME Init PROVE PlaceInv
  OBVIOUS
<1>1. /\ DOMAIN freeSkbList = Skb
      /\ \A i \in Skb : freeSkbList[i] = SKB_POOL_SIZE + 1 - i /\ freeSkbList[i] \in Skb
      /\ skb = NoSkb /\ inUse = {} /\ pc = "wait" /\ NoSkb \notin Skb
      /\ \A c \in Cpu : recycle[c].skb = NoSkb
  BY EnetAssumption DEF Init, Skb, NoSkb, Idle
<1>2. \A s \in Skb : SKB_POOL_SIZE + 1 - s \in Skb /\ freeSkbList[SKB_POOL_SIZE + 1 - s] = s
  BY <1>1, EnetAssumption DEF Skb
<1>3. \A i, j \in Skb : freeSkbList[i] = freeSkbList[j] => i = j
  BY <1>1, EnetAssumption DEF Skb
<1> QED  BY <1>1, <1>2, <1>3 DEF PlaceInv

\* TakeSkb moves the head of the list to the thread.
LEMMA TakePlace ==
  ASSUME ThreadInv, LockTypes, LockInv, PlaceInv, TakeSkb
  PROVE  PlaceInv'
<1>1. /\ skb = NoSkb /\ pc' = "receive" /\ inUse' = inUse /\ recycle' = recycle
      /\ freeSkbList \in Seq(Skb) /\ freeSkbList # << >>
      /\ skb' = Head(freeSkbList) /\ freeSkbList' = Tail(freeSkbList)
  BY DEF TakeSkb, LockInv, LockTypes, PlaceInv
<1> DEFINE n == Len(freeSkbList)
<1>2. n \in Nat \ {0} /\ DOMAIN freeSkbList = 1 .. n /\ skb' = freeSkbList[1] /\ skb' \in Skb
  BY <1>1
<1>3. DOMAIN freeSkbList' = 1 .. n - 1 /\ \A i \in 1 .. n - 1 : freeSkbList'[i] = freeSkbList[i + 1]
  BY <1>1
<1>4. skb' # NoSkb
  BY <1>2 DEF Skb, NoSkb
<1> HIDE DEF n
<1>5. \A i \in 1 .. n - 1 : i + 1 \in 1 .. n /\ i + 1 # 1
  BY <1>2
<1>6. \A i \in 1 .. n : i = 1 \/ (i - 1 \in 1 .. n - 1 /\ freeSkbList'[i - 1] = freeSkbList[i])
  BY <1>2, <1>3
<1>7. \A s \in Skb : \/ \E i \in DOMAIN freeSkbList' : freeSkbList'[i] = s
                     \/ skb' = s \/ s \in inUse'
                     \/ \E c \in Cpu : recycle'[c].skb = s
  <2> SUFFICES ASSUME NEW s \in Skb
               PROVE  \/ \E i \in DOMAIN freeSkbList' : freeSkbList'[i] = s
                      \/ skb' = s \/ s \in inUse'
                      \/ \E c \in Cpu : recycle'[c].skb = s
    OBVIOUS
  <2>1. CASE \E i \in DOMAIN freeSkbList : freeSkbList[i] = s
    BY <2>1, <1>2, <1>3, <1>6
  <2>2. CASE ~ \E i \in DOMAIN freeSkbList : freeSkbList[i] = s
    <3>1. s # NoSkb
      BY DEF Skb, NoSkb
    <3>2. s \in inUse \/ \E c \in Cpu : recycle[c].skb = s
      BY <2>2, <3>1, <1>1 DEF PlaceInv
    <3> QED  BY <3>2, <1>1
  <2> QED  BY <2>1, <2>2
<1>8. \A i, j \in DOMAIN freeSkbList' : freeSkbList'[i] = freeSkbList'[j] => i = j
  <2>1. \A i, j \in 1 .. n - 1 : freeSkbList[i + 1] = freeSkbList[j + 1] => i + 1 = j + 1
    BY <1>2, <1>5 DEF PlaceInv
  <2> QED  BY <1>2, <1>3, <2>1
<1>9. \A i \in DOMAIN freeSkbList' :
        /\ freeSkbList'[i] # skb' /\ freeSkbList'[i] \notin inUse'
        /\ \A c \in Cpu : recycle'[c].skb # freeSkbList'[i]
  BY <1>1, <1>2, <1>3, <1>5 DEF PlaceInv
<1>10. /\ skb' \notin inUse'
       /\ \A c \in Cpu : recycle'[c].skb \notin inUse' /\ recycle'[c].skb # skb'
  BY <1>1, <1>2 DEF PlaceInv
<1> QED  BY <1>1, <1>2, <1>7, <1>8, <1>9, <1>10 DEF PlaceInv

\* RecycleHead moves the skb of the call to the head of the list.
LEMMA HeadPlace ==
  ASSUME ThreadInv, LockTypes, LockInv, PlaceInv, NEW c \in Cpu, RecycleHead(c)
  PROVE  PlaceInv'
<1> DEFINE r == recycle[c].skb
           n == Len(freeSkbList)
<1>1. /\ r \in Skb /\ r # NoSkb
      /\ freeSkbList' = <<r>> \o freeSkbList /\ freeSkbList \in Seq(Skb)
      /\ skb' = skb /\ inUse' = inUse /\ pc' = pc
  BY DEF RecycleHead, LockInv, LockTypes, CallTypes, allocVars, threadVars
<1>2. /\ recycle'[c].skb = NoSkb
      /\ \A d \in Cpu : d # c => recycle'[d].skb = recycle[d].skb
  BY DEF RecycleHead, LockTypes, Idle
<1>3. /\ n \in Nat /\ DOMAIN freeSkbList = 1 .. n /\ DOMAIN freeSkbList' = 1 .. n + 1
      /\ freeSkbList'[1] = r /\ \A i \in 2 .. n + 1 : freeSkbList'[i] = freeSkbList[i - 1]
  BY <1>1
<1>4. NoSkb \notin Skb /\ NoSkb \notin inUse /\ \A i \in DOMAIN freeSkbList : freeSkbList[i] \in Skb
  <2>1. NoSkb \notin Skb
    BY DEF Skb, NoSkb
  <2> QED  BY <2>1, <1>1 DEF PlaceInv
<1> HIDE DEF n
<1>5. \A i \in 1 .. n + 1 : i = 1 \/ (i \in 2 .. n + 1 /\ i - 1 \in 1 .. n)
  BY <1>3
<1>6. \A i \in 1 .. n : i + 1 \in 1 .. n + 1 /\ freeSkbList'[i + 1] = freeSkbList[i]
  BY <1>3
<1>7. \A s \in Skb : \/ \E i \in DOMAIN freeSkbList' : freeSkbList'[i] = s
                     \/ skb' = s \/ s \in inUse'
                     \/ \E d \in Cpu : recycle'[d].skb = s
  <2> SUFFICES ASSUME NEW s \in Skb
               PROVE  \/ \E i \in DOMAIN freeSkbList' : freeSkbList'[i] = s
                      \/ skb' = s \/ s \in inUse'
                      \/ \E d \in Cpu : recycle'[d].skb = s
    OBVIOUS
  <2>1. CASE s = r
    BY <2>1, <1>3
  <2>2. CASE \E i \in DOMAIN freeSkbList : freeSkbList[i] = s
    BY <2>2, <1>3, <1>6
  <2>3. CASE s # r /\ (skb = s \/ s \in inUse \/ \E d \in Cpu : recycle[d].skb = s)
    BY <2>3, <1>1, <1>2
  <2> QED  BY <2>1, <2>2, <2>3 DEF PlaceInv
<1>8. \A i \in 1 .. n : freeSkbList[i] # r
  BY <1>3 DEF PlaceInv
<1>9. \A i, j \in DOMAIN freeSkbList' : freeSkbList'[i] = freeSkbList'[j] => i = j
  BY <1>3, <1>5, <1>8, SMTT(30) DEF PlaceInv
<1>10. \A i \in DOMAIN freeSkbList' :
         /\ freeSkbList'[i] # skb' /\ freeSkbList'[i] \notin inUse'
         /\ \A d \in Cpu : recycle'[d].skb # freeSkbList'[i]
  <2> SUFFICES ASSUME NEW i \in 1 .. n + 1
               PROVE  /\ freeSkbList'[i] # skb' /\ freeSkbList'[i] \notin inUse'
                      /\ \A d \in Cpu : recycle'[d].skb # freeSkbList'[i]
    BY <1>3
  <2>1. CASE i = 1
    <3>1. r # skb /\ r \notin inUse /\ \A d \in Cpu : d # c => recycle[d].skb # r
      BY <1>1 DEF PlaceInv
    <3> QED  BY <2>1, <3>1, <1>1, <1>2, <1>3
  <2>2. CASE i - 1 \in 1 .. n
    <3>1. freeSkbList'[i] = freeSkbList[i - 1] /\ freeSkbList'[i] # NoSkb
      BY <2>2, <1>3, <1>4, <1>5
    <3>2. /\ freeSkbList[i - 1] # skb /\ freeSkbList[i - 1] \notin inUse
          /\ \A d \in Cpu : recycle[d].skb # freeSkbList[i - 1]
      BY <2>2, <1>3 DEF PlaceInv
    <3>3. \A d \in Cpu : recycle'[d].skb # freeSkbList[i - 1]
      BY <3>1, <3>2, <1>2
    <3> QED  BY <3>1, <3>2, <3>3, <1>1
  <2> QED  BY <2>1, <2>2, <1>5
<1>11. /\ skb' \notin inUse'
       /\ \A d \in Cpu : recycle'[d].skb \notin inUse' /\ (recycle'[d].skb = skb' => skb' = NoSkb)
       /\ \A d, e \in Cpu : recycle'[d].skb = recycle'[e].skb => d = e \/ recycle'[d].skb = NoSkb
  BY <1>1, <1>2, <1>4 DEF PlaceInv
<1> QED  BY <1>1, <1>7, <1>9, <1>10, <1>11 DEF PlaceInv

\* A step that moves no skb keeps the invariant.
LEMMA StillPlace ==
  ASSUME PlaceInv, UNCHANGED <<skb, inUse, freeSkbList>>, pc' # "receive" => pc # "receive",
         \A c \in Cpu : recycle'[c].skb = recycle[c].skb
  PROVE  PlaceInv'
BY DEF PlaceInv

LEMMA ReceivePlace ==
  ASSUME LockTypes, PlaceInv, ReceiveSkb
  PROVE  PlaceInv'
<1>1. /\ inUse' = inUse \cup ({skb} \ {NoSkb}) /\ skb' = NoSkb /\ pc' = "next"
      /\ UNCHANGED <<freeSkbList, recycle>>
  BY DEF ReceiveSkb
<1>2. NoSkb \notin Skb
  BY DEF Skb, NoSkb
<1>3. skb' \in Skb \cup {NoSkb} /\ inUse' \subseteq Skb /\ skb' \notin inUse'
  BY <1>1, <1>2 DEF PlaceInv
<1>4. \A s \in Skb : \/ \E i \in DOMAIN freeSkbList' : freeSkbList'[i] = s
                     \/ skb' = s \/ s \in inUse'
                     \/ \E c \in Cpu : recycle'[c].skb = s
  BY <1>1, <1>2 DEF PlaceInv
<1>5. \A i \in DOMAIN freeSkbList : freeSkbList[i] # NoSkb
  BY <1>2 DEF LockTypes
<1>6. \A i \in DOMAIN freeSkbList' :
        /\ freeSkbList'[i] # skb' /\ freeSkbList'[i] \notin inUse'
        /\ \A c \in Cpu : recycle'[c].skb # freeSkbList'[i]
  BY <1>1, <1>5 DEF PlaceInv
<1>7. \A c \in Cpu : recycle'[c].skb \notin inUse' /\ (recycle'[c].skb = skb' => skb' = NoSkb)
  BY <1>1 DEF PlaceInv
<1> QED  BY <1>1, <1>3, <1>4, <1>6, <1>7 DEF PlaceInv

LEMMA BeginPlace ==
  ASSUME LockTypes, PlaceInv, NEW c \in Cpu, NEW s \in Skb, RecycleBegins(c, s)
  PROVE  PlaceInv'
<1>1. /\ recycle[c].skb = NoSkb /\ s \in inUse /\ inUse' = inUse \ {s}
      /\ UNCHANGED <<pc, skb, freeSkbList>>
  BY DEF RecycleBegins, Idle, allocVars, threadVars
<1>2. /\ recycle'[c].skb = s
      /\ \A d \in Cpu : d # c => recycle'[d].skb = recycle[d].skb
  BY DEF RecycleBegins, LockTypes
<1>3. s # NoSkb
  BY DEF Skb, NoSkb
<1>4. \A t \in Skb : \/ \E i \in DOMAIN freeSkbList' : freeSkbList'[i] = t
                     \/ skb' = t \/ t \in inUse'
                     \/ \E d \in Cpu : recycle'[d].skb = t
  <2> SUFFICES ASSUME NEW t \in Skb
               PROVE  \/ \E i \in DOMAIN freeSkbList' : freeSkbList'[i] = t
                      \/ skb' = t \/ t \in inUse'
                      \/ \E d \in Cpu : recycle'[d].skb = t
    OBVIOUS
  <2>1. t # NoSkb
    BY DEF Skb, NoSkb
  <2>2. CASE \E d \in Cpu : recycle[d].skb = t
    BY <2>1, <2>2, <1>1, <1>2
  <2>3. CASE ~ \E d \in Cpu : recycle[d].skb = t
    BY <2>3, <1>1, <1>2 DEF PlaceInv
  <2> QED  BY <2>2, <2>3
<1>5. \A i \in DOMAIN freeSkbList' :
        /\ freeSkbList'[i] # skb' /\ freeSkbList'[i] \notin inUse'
        /\ \A d \in Cpu : recycle'[d].skb # freeSkbList'[i]
  BY <1>1, <1>2 DEF PlaceInv
<1>6. /\ skb' \notin inUse'
      /\ \A d \in Cpu : recycle'[d].skb \notin inUse' /\ (recycle'[d].skb = skb' => skb' = NoSkb)
      /\ \A d, e \in Cpu : recycle'[d].skb = recycle'[e].skb => d = e \/ recycle'[d].skb = NoSkb
  BY <1>1, <1>2, <1>3 DEF PlaceInv
<1> QED  BY <1>1, <1>4, <1>5, <1>6 DEF PlaceInv

LEMMA RxPlace ==
  ASSUME ThreadInv, LockTypes, LockInv, PlaceInv, bcm63xx_rx
  PROVE  PlaceInv'
<1>1. CASE TakeSkb
  BY <1>1, TakePlace
<1>2. CASE ReceiveSkb
  BY <1>2, ReceivePlace
<1>3. CASE NextRx \/ TakeRxLock \/ bcmeapi_rx_pkt \/ BlogFinit \/ AllocSkb \/ AfterRx
  <2>1. UNCHANGED <<skb, inUse, freeSkbList, recycle>> /\ pc # "receive"
    BY <1>3 DEF NextRx, TakeRxLock, bcmeapi_rx_pkt, BlogFinit, AllocSkb, AfterRx, allocVars, listVars
  <2> QED  BY <2>1 DEF PlaceInv
<1> QED  BY <1>1, <1>2, <1>3 DEF bcm63xx_rx

LEMMA RecyclePlace ==
  ASSUME ThreadInv, LockTypes, LockInv, PlaceInv, NEW c \in Cpu,
         bcmeapi_free_skb(c) \/ \E s \in Skb : RecycleBegins(c, s)
  PROVE  PlaceInv'
<1>1. CASE \E s \in Skb : RecycleBegins(c, s)
  BY <1>1, BeginPlace
<1>2. CASE RecycleHead(c)
  BY <1>2, HeadPlace
<1>3. CASE RecycleBlogLock(c) \/ RecycleLock(c)
  <2>1. UNCHANGED <<skb, inUse, freeSkbList, pc>>
    BY <1>3 DEF RecycleBlogLock, RecycleLock, allocVars, threadVars
  <2>2. \A d \in Cpu : recycle'[d].skb = recycle[d].skb
    <3>1. CASE RecycleBlogLock(c)  BY <3>1 DEF RecycleBlogLock, LockTypes
    <3>2. CASE RecycleLock(c)      BY <3>2 DEF RecycleLock, LockTypes
    <3> QED  BY <1>3, <3>1, <3>2
  <2> QED  BY <2>1, <2>2, StillPlace
<1> QED  BY <1>1, <1>2, <1>3 DEF bcmeapi_free_skb

\* The inductive invariant of the list.
ListInv == IntInv /\ ThreadInv /\ LockTypes /\ LockInv /\ PlaceInv

LEMMA NextList == ListInv /\ [Next]_vars => ListInv'
<1> SUFFICES ASSUME ListInv, [Next]_vars PROVE ListInv'
  OBVIOUS
<1> USE DEF ListInv
<1>1. IntInv' /\ ThreadInv'
  BY NextWake, NextThread
<1>2. CASE bcm63xx_rx
  BY <1>1, <1>2, RxLock, RxLockTypes, RxPlace
<1>3. CASE \E c \in Cpu : bcmeapi_free_skb(c) \/ \E s \in Skb : RecycleBegins(c, s)
  BY <1>1, <1>3, RecycleLocks, RecyclePlace
<1>4. CASE ThreadWaits
  <2>1. UNCHANGED <<skb, inUse, freeSkbList, recycle>> /\ pc # "receive"
    BY <1>4 DEF ThreadWaits, allocVars, listVars
  <2>2. PlaceInv'
    BY <2>1 DEF PlaceInv
  <2> QED  BY <1>1, <1>4, <2>2, ThreadLock
<1>5. CASE \/ ClearWork \/ EnableInt \/ LookAgain \/ InterruptTaken
           \/ (\E a \in Actor : MaskStep(a)) \/ (\E q \in Queue : PacketArrives(q))
           \/ UNCHANGED vars
  <2>1. LockTypes' /\ LockInv' /\ UNCHANGED <<skb, inUse, freeSkbList, recycle>>
    BY <1>5, OtherLock DEF allocVars, listVars
  <2>2. pc' # "receive" => pc # "receive"
    <3>1. CASE \E a \in Actor : MaskStep(a)
      <4>1. PICK a \in Actor : MaskStep(a)
        BY <3>1
      <4>2. at["thread"] # 0 => pc = "post"
        BY DEF IntInv, WakeInv
      <4>3. pc' = pc \/ pc \in {"post", "asleep"}
        BY <4>1, <4>2, MaskStepEffect DEF IntInv
      <4> QED  BY <4>3
    <3>2. CASE ClearWork \/ EnableInt \/ LookAgain
      BY <3>2 DEF ClearWork, EnableInt, LookAgain
    <3>3. CASE InterruptTaken \/ (\E q \in Queue : PacketArrives(q)) \/ UNCHANGED vars
      BY <3>3 DEF InterruptTaken, PacketArrives, vars, threadVars
    <3> QED  BY <1>5, <3>1, <3>2, <3>3
  <2>3. PlaceInv'
    BY <2>1, <2>2 DEF PlaceInv
  <2> QED  BY <1>1, <2>1, <2>3
<1>6. "isr" \in Actor /\ "thread" \in Actor
  BY DEF Actor
<1> QED  BY <1>2, <1>3, <1>4, <1>5, <1>6 DEF Next, Thread

LEMMA InitList == Init => ListInv
BY InitInt, InitThread, InitLock, InitPlace DEF ListInv

\* SkbsConserved: the list of preallocated skbs of bcmenet_runner_inline.h loses
\* none and hands none out twice, on any number of cores, although
\* bcmeapi_free_skb takes the receive lock only outside a bulk.
THEOREM SkbsConservedHolds == Spec => []SkbsConserved
<1>1. ListInv => SkbsConserved
  BY PlacesConserved DEF ListInv
<1> QED  BY <1>1, InitList, NextList, PTL DEF Spec

LEMMA FlagsStep == FlagTypes /\ [Next]_vars => FlagTypes'
<1> SUFFICES ASSUME FlagTypes, [Next]_vars PROVE FlagTypes'
  OBVIOUS
<1> USE DEF FlagTypes, localVars
<1>1. CASE ThreadWaits     BY <1>1, Zenon DEF ThreadWaits
<1>2. CASE ClearWork       BY <1>2, Zenon DEF ClearWork
<1>3. CASE EnableInt       BY <1>3, Zenon DEF EnableInt
<1>4. CASE LookAgain       BY <1>4, Zenon DEF LookAgain
<1>5. ASSUME NEW a \in Actor, MaskStep(a) PROVE FlagTypes'
  BY <1>5, Zenon DEF MaskStep
<1>6. CASE InterruptTaken  BY <1>6, Zenon DEF InterruptTaken
<1>7. ASSUME NEW q \in Queue, PacketArrives(q) PROVE FlagTypes'
  BY <1>7, Zenon DEF PacketArrives
<1>8. CASE \E c \in Cpu : bcmeapi_free_skb(c) \/ \E s \in Skb : RecycleBegins(c, s)
  BY <1>8, RecycleFrame, Zenon
<1>9. CASE bcm63xx_rx
  <2>1. CASE NextRx          BY <2>1, Zenon DEF NextRx
  <2>2. CASE TakeRxLock      BY <2>2, Zenon DEF TakeRxLock
  <2>3. CASE bcmeapi_rx_pkt  BY <2>3, Zenon DEF bcmeapi_rx_pkt
  <2>4. CASE BlogFinit       BY <2>4, Zenon DEF BlogFinit
  <2>5. CASE AllocSkb        BY <2>5, Zenon DEF AllocSkb
  <2>6. CASE TakeSkb         BY <2>6, Zenon DEF TakeSkb
  <2>7. CASE ReceiveSkb      BY <2>7, Zenon DEF ReceiveSkb
  <2>8. CASE AfterRx         BY <2>8, Zenon DEF AfterRx
  <2> QED  BY <1>9, <2>1, <2>2, <2>3, <2>4, <2>5, <2>6, <2>7, <2>8 DEF bcm63xx_rx
<1>10. CASE UNCHANGED vars  BY <1>10, Zenon DEF vars
<1>11. "isr" \in Actor /\ "thread" \in Actor
  BY DEF Actor
<1> QED  BY <1>1, <1>2, <1>3, <1>4, <1>5, <1>6, <1>7, <1>8, <1>9, <1>10, <1>11 DEF Next, Thread

\* TypeOK: the variables of the Ethernet driver stay in their ranges; budget
\* never runs below 0 and no handler or thread runs past the end of MaskSteps.
THEOREM TypeCorrect == Spec => []TypeOK
<1>1. Init => FlagTypes
  BY Zenon DEF Init, FlagTypes
<1>2. ListInv /\ FlagTypes => TypeOK
  BY TypeParts, Zenon
     DEF ListInv, IntInv, ThreadInv, LockTypes, CallTypes, PlaceInv, ListTypes
<1> QED  BY <1>1, <1>2, InitList, NextList, FlagsStep, PTL DEF Spec
=============================================================================
