------------------------------- MODULE EnetRx -------------------------------
(***************************************************************************)
(* Reception in the Ethernet driver on the BCM63138: the interrupt handler *)
(* and bcmeapi_napi_post of bcmdrivers/opensource/net/enet/impl5/          *)
(* bcmenet_runner.c, the thread and bcm63xx_rx of bcmenet.c, and the list  *)
(* of free skbs with bulk_rx_lock_active (shared/bcmenet_runner_inline.h). *)
(*                                                                         *)
(* Two cores; the interrupts of both queues go to one of them, where they  *)
(* do not nest.  bcm63xx_rx runs with bottom halves disabled: its core     *)
(* does nothing else in the meantime but what it calls itself, and hard    *)
(* interrupts.  An access to an interrupt register, to rx_work_avail or to *)
(* the head of the list is a step of its own.  A queue is its number of    *)
(* packets.                                                                *)
(***************************************************************************)
EXTENDS Integers, Sequences

CONSTANTS
  Cpu,
  QueueSize,
  NETDEV_WEIGHT,
  SKB_POOL_SIZE,
  NULL

ASSUME EnetAssumption ==
  /\ QueueSize \in Nat \ {0} /\ NETDEV_WEIGHT \in Nat \ {0} /\ SKB_POOL_SIZE \in Nat
  /\ NULL \notin Cpu

VARIABLES
  queue,                 \* packets in each queue
  intEnabled, intCause,  \* queues with an open mask, with a latched status
  at,                    \* the next of MaskSteps for the handler and the thread; 0: none
  rx_work_avail,
  pc, cpu,               \* of the thread; NULL outside bcm63xx_rx
  budget, rxContext1, pollDone,  \* locals of bcm63xx_rx; ENET_POLL_DONE
  ethlock_rx, blogLock,  \* the cores that hold them, or NULL
  bulk_rx_lock_active,
  freeSkbList,           \* preallocated skbs, linked by next_free
  found, skb,            \* the list as bcmeapi_alloc_skb sees it, and its result
  inUse,                 \* preallocated skbs with the network stack
  recycle                \* bcmeapi_free_skb on each core

Queue == {"HI", "LO"}
Actor == {"isr", "thread"}
Skb == 1 .. SKB_POOL_SIZE
NoSkb == 0
Idle == [step |-> "idle", skb |-> NoSkb, next |-> << >>, blog |-> FALSE]

\* What a handler and, when a queue is not empty, bcmeapi_napi_post do: close
\* and clear both interrupts, then BCMENET_WAKEUP_RXWORKER.
MaskSteps ==
  << <<"disable", "HI">>, <<"clear", "HI">>, <<"disable", "LO">>, <<"clear", "LO">>,
     <<"test", "rx_work_avail">>, <<"set", "rx_work_avail">>, <<"wake", "rx_thread_wqh">> >>

intVars == <<intEnabled, intCause>>
threadVars == <<pc, cpu>>
localVars == <<budget, rxContext1, pollDone>>
lockVars == <<ethlock_rx, blogLock, bulk_rx_lock_active>>
allocVars == <<found, skb>>
listVars == <<freeSkbList, inUse, recycle>>
vars == <<queue, intVars, at, rx_work_avail, threadVars, localVars, lockVars, allocVars, listVars>>

\* Where the thread is inside bcm63xx_rx.
Receiving == {"next", "lock", "pkt", "finit", "alloc", "take", "receive", "after"}

TypeOK ==
  /\ queue \in [Queue -> 0 .. QueueSize]
  /\ intEnabled \subseteq Queue /\ intCause \subseteq Queue
  /\ at \in [Actor -> 0 .. Len(MaskSteps)]
  /\ rx_work_avail \in BOOLEAN
  /\ pc \in Receiving \cup {"wait", "asleep", "clear", "enableHI", "enableLO", "lookLO", "lookHI",
                            "post"}
  /\ cpu \in Cpu \cup {NULL}
  /\ budget \in 0 .. NETDEV_WEIGHT /\ rxContext1 \in BOOLEAN /\ pollDone \in BOOLEAN
  /\ ethlock_rx \in Cpu \cup {NULL} /\ blogLock \in Cpu \cup {NULL}
  /\ bulk_rx_lock_active \in [Cpu -> BOOLEAN]
  /\ freeSkbList \in Seq(Skb) /\ found \in Seq(Skb)
  /\ skb \in Skb \cup {NoSkb} /\ inUse \subseteq Skb
  /\ recycle \in [Cpu -> [step : {"idle", "blog", "lock", "head"},
                          skb : Skb \cup {NoSkb}, next : Seq(Skb), blog : BOOLEAN]]

\* After bcmeapi_open_dev: the list made from the array, interrupts enabled.
Init ==
  /\ queue = [q \in Queue |-> 0]
  /\ intEnabled = Queue /\ intCause = {}
  /\ at = [a \in Actor |-> 0] /\ rx_work_avail = FALSE
  /\ pc = "wait" /\ cpu = NULL
  /\ budget = 0 /\ rxContext1 = FALSE /\ pollDone = FALSE
  /\ ethlock_rx = NULL /\ blogLock = NULL
  /\ bulk_rx_lock_active = [c \in Cpu |-> FALSE]
  /\ freeSkbList = [i \in Skb |-> SKB_POOL_SIZE + 1 - i]
  /\ found = << >> /\ skb = NoSkb /\ inUse = {}
  /\ recycle = [c \in Cpu |-> Idle]

-----------------------------------------------------------------------------
(* Interrupts.                                                             *)

\* The Runner queues a packet and latches the status, masked or not.  A full
\* queue drops the packet without an interrupt.
PacketArrives(q) ==
  /\ queue[q] < QueueSize
  /\ queue' = [queue EXCEPT ![q] = @ + 1]
  /\ intCause' = intCause \cup {q}
  /\ UNCHANGED <<intEnabled, at, rx_work_avail, threadVars, localVars, lockVars, allocVars, listVars>>

\* bcmeapi_enet_isr is called, for whichever queue.
InterruptTaken ==
  /\ intCause \cap intEnabled # {} /\ at["isr"] = 0
  /\ at' = [at EXCEPT !["isr"] = 1]
  /\ UNCHANGED <<queue, intVars, rx_work_avail, threadVars, localVars, lockVars, allocVars, listVars>>

\* One step of the handler, or of the thread in bcmeapi_napi_post.
\* BCMENET_WAKEUP_RXWORKER does nothing if work is announced already.
MaskStep(a) ==
  /\ at[a] # 0
  /\ LET step == MaskSteps[at[a]]
         last == at[a] = Len(MaskSteps) \/ (step[1] = "test" /\ rx_work_avail)
     IN  /\ at' = [at EXCEPT ![a] = IF last THEN 0 ELSE @ + 1]
         /\ intEnabled' = intEnabled \ {q \in Queue : step = <<"disable", q>>}
         /\ intCause' = intCause \ {q \in Queue : step = <<"clear", q>>}
         /\ rx_work_avail' = (rx_work_avail \/ step[1] = "set")
         /\ pc' = IF \/ a = "thread" /\ last
                     \/ step[1] = "wake" /\ pc = "asleep"
                    THEN "wait" ELSE pc
  /\ UNCHANGED <<queue, cpu, localVars, lockVars, allocVars, listVars>>

-----------------------------------------------------------------------------
(* bcm63xx_enet_rx_thread.                                                 *)

\* wait_event_interruptible; then bcm63xx_rx is called on whatever core the
\* thread is scheduled on.
ThreadWaits ==
  /\ pc = "wait"
  /\ \/ /\ rx_work_avail
        /\ pc' = "next"
        /\ cpu' \in {c \in Cpu : recycle[c] = Idle}
        /\ budget' = NETDEV_WEIGHT /\ rxContext1' = FALSE /\ pollDone' = FALSE
     \/ /\ ~rx_work_avail
        /\ pc' = "asleep"
        /\ UNCHANGED <<cpu, localVars>>
  /\ UNCHANGED <<queue, intVars, at, rx_work_avail, lockVars, allocVars, listVars>>

\* No more packets: rx_work_avail = 0 ...
ClearWork ==
  /\ pc = "clear"
  /\ rx_work_avail' = FALSE
  /\ pc' = "enableHI"
  /\ UNCHANGED <<queue, intVars, at, cpu, localVars, lockVars, allocVars, listVars>>

\* Mutant of EnableInt: the mask of the low queue stays closed.
MutOpensHIOnly ==
  /\ pc = "enableHI"
  /\ intEnabled' = intEnabled \cup {"HI"}
  /\ pc' = "lookLO"
  /\ UNCHANGED <<queue, intCause, at, rx_work_avail, cpu, localVars, lockVars, allocVars, listVars>>

\* ... and bcmeapi_napi_post opens the masks, one after the other, ...
EnableInt ==
  /\ pc \in {"enableHI", "enableLO"}
  /\ intEnabled' = intEnabled \cup {IF pc = "enableHI" THEN "HI" ELSE "LO"}
  /\ pc' = IF pc = "enableHI" THEN "enableLO" ELSE "lookLO"
  /\ UNCHANGED <<queue, intCause, at, rx_work_avail, cpu, localVars, lockVars, allocVars, listVars>>

\* Mutant of LookAgain: only the low queue is looked at.
MutLooksLOOnly ==
  /\ pc = "lookLO"
  /\ pc' = IF queue["LO"] > 0 THEN "post" ELSE "wait"
  /\ at' = [at EXCEPT !["thread"] = IF queue["LO"] > 0 THEN 1 ELSE 0]
  /\ UNCHANGED <<queue, intVars, rx_work_avail, cpu, localVars, lockVars, allocVars, listVars>>

\* ... and looks at the queues again, the low one first.
LookAgain ==
  /\ pc \in {"lookLO", "lookHI"}
  /\ LET q == IF pc = "lookLO" THEN "LO" ELSE "HI"
     IN  /\ pc' = IF queue[q] > 0 THEN "post" ELSE IF q = "LO" THEN "lookHI" ELSE "wait"
         /\ at' = [at EXCEPT !["thread"] = IF queue[q] > 0 THEN 1 ELSE 0]
  /\ UNCHANGED <<queue, intVars, rx_work_avail, cpu, localVars, lockVars, allocVars, listVars>>

-----------------------------------------------------------------------------
(* bcm63xx_rx.                                                             *)

\* Mutant of NextRx: the budget is tested before it is decremented.
MutPostDecrement ==
  /\ pc = "next"
  /\ budget' = budget - 1
  /\ \/ budget > 0 /\ blogLock \in {NULL, cpu} /\ blogLock' = cpu /\ pc' = "lock"
     \/ budget <= 0 /\ pc' = "after" /\ UNCHANGED blogLock
  /\ UNCHANGED <<queue, intVars, at, rx_work_avail, cpu, rxContext1, pollDone, ethlock_rx,
                 bulk_rx_lock_active, allocVars, listVars>>

\* The head of the loop, --budget > 0, and blog_lock: it may be held from the
\* packet before, and "must grab blog_lock before enet_rx_lock".
NextRx ==
  /\ pc = "next"
  /\ budget' = budget - 1
  /\ \/ budget' > 0 /\ blogLock \in {NULL, cpu} /\ blogLock' = cpu /\ pc' = "lock"
     \/ budget' <= 0 /\ pc' = "after" /\ UNCHANGED blogLock
  /\ UNCHANGED <<queue, intVars, at, rx_work_avail, cpu, rxContext1, pollDone, ethlock_rx,
                 bulk_rx_lock_active, allocVars, listVars>>

TakeRxLock ==
  /\ pc = "lock"
  /\ bulk_rx_lock_active[cpu] \/ ethlock_rx = NULL
  /\ ethlock_rx' = IF bulk_rx_lock_active[cpu] THEN ethlock_rx ELSE cpu
  /\ bulk_rx_lock_active' = [bulk_rx_lock_active EXCEPT ![cpu] = TRUE]
  /\ pc' = "pkt"
  /\ UNCHANGED <<queue, intVars, at, rx_work_avail, cpu, localVars, blogLock, allocVars, listVars>>

\* Mutant of DropRxLock: RECORD_BULK_RX_UNLOCK is forgotten.
MutUnlockNotRecorded ==
  /\ ethlock_rx' = NULL
  /\ UNCHANGED bulk_rx_lock_active

\* RECORD_BULK_RX_UNLOCK and ENET_RX_UNLOCK.
DropRxLock ==
  /\ ethlock_rx' = NULL
  /\ bulk_rx_lock_active' = [bulk_rx_lock_active EXCEPT ![cpu] = FALSE]

\* bcmeapi_rx_pkt: the high queue until it has been seen empty, then the low
\* one.  A packet may be refused by the Runner interface or name no device.
bcmeapi_rx_pkt ==
  /\ pc = "pkt"
  /\ LET q == IF rxContext1 \/ queue["HI"] = 0 THEN "LO" ELSE "HI"
     IN  /\ rxContext1' = (q = "LO")
         /\ \/ /\ queue[q] > 0
               /\ queue' = [queue EXCEPT ![q] = @ - 1]
               /\ \/ pc' = "finit" /\ UNCHANGED <<ethlock_rx, bulk_rx_lock_active>>
                  \/ pc' = "next" /\ DropRxLock
               /\ UNCHANGED pollDone
            \/ /\ queue[q] = 0
               /\ pollDone' = TRUE
               /\ DropRxLock
               /\ pc' = "after"
               /\ UNCHANGED queue
  /\ UNCHANGED <<intVars, at, rx_work_avail, cpu, budget, blogLock, allocVars, listVars>>

\* blog_finit_locked has the packet dropped, done (both locks stay), or left
\* to the stack.
BlogFinit ==
  /\ pc = "finit" /\ recycle[cpu] = Idle
  /\ pc' \in {"next", "alloc"}
  /\ UNCHANGED <<queue, intVars, at, rx_work_avail, cpu, localVars, lockVars, allocVars, listVars>>

\* bcmeapi_alloc_skb: the list is read; an empty one leaves the slab, which
\* may have no memory either.
AllocSkb ==
  /\ pc = "alloc"
  /\ \/ /\ freeSkbList # << >>
        /\ found' = freeSkbList
        /\ pc' = "take"
        /\ UNCHANGED lockVars
     \/ /\ freeSkbList = << >>
        /\ DropRxLock
        /\ \/ pc' = "receive" /\ blogLock' = NULL
           \/ pc' = "next" /\ UNCHANGED blogLock
        /\ UNCHANGED found
  /\ UNCHANGED <<queue, intVars, at, rx_work_avail, cpu, localVars, skb, listVars>>

\* freeSkbList = freeSkbList->next_free; "We are outside of the fast path ...
\* so release all locks."
TakeSkb ==
  /\ pc = "take"
  /\ skb' = Head(found) /\ freeSkbList' = Tail(found) /\ found' = << >>
  /\ DropRxLock /\ blogLock' = NULL
  /\ pc' = "receive"
  /\ UNCHANGED <<queue, intVars, at, rx_work_avail, cpu, localVars, inUse, recycle>>

\* netif_receive_skb
ReceiveSkb ==
  /\ pc = "receive" /\ recycle[cpu] = Idle
  /\ inUse' = inUse \cup ({skb} \ {NoSkb}) /\ skb' = NoSkb
  /\ pc' = "next"
  /\ UNCHANGED <<queue, intVars, at, rx_work_avail, cpu, localVars, lockVars, found, freeSkbList,
                 recycle>>

\* after_rx: what is still held is released.  The thread looks for more work
\* unless the last packet has been taken.
AfterRx ==
  /\ pc = "after"
  /\ IF blogLock = cpu /\ bulk_rx_lock_active[cpu]
       THEN DropRxLock ELSE UNCHANGED <<ethlock_rx, bulk_rx_lock_active>>
  /\ blogLock' = IF blogLock = cpu THEN NULL ELSE blogLock
  /\ pc' = IF pollDone THEN "clear" ELSE "wait"
  /\ cpu' = NULL /\ budget' = 0 /\ rxContext1' = FALSE /\ pollDone' = FALSE
  /\ UNCHANGED <<queue, intVars, at, rx_work_avail, allocVars, listVars>>

-----------------------------------------------------------------------------
(* bcmeapi_free_skb: the stack is done with an skb, on any core.           *)

\* On the core of the thread only out of what bcm63xx_rx calls; the caller
\* may have taken blog_lock.
RecycleBegins(c, s) ==
  /\ recycle[c] = Idle /\ s \in inUse
  /\ cpu = c => pc \in {"finit", "receive"}
  /\ inUse' = inUse \ {s}
  /\ \E blog \in IF blogLock = c THEN {FALSE} ELSE BOOLEAN :
       recycle' = [recycle EXCEPT ![c] = [step |-> IF blog THEN "blog" ELSE "lock",
                                          skb |-> s, next |-> << >>, blog |-> blog]]
  /\ UNCHANGED <<queue, intVars, at, rx_work_avail, threadVars, localVars, lockVars, allocVars,
                 freeSkbList>>

RecycleBlogLock(c) ==
  /\ recycle[c].step = "blog"
  /\ blogLock = NULL
  /\ blogLock' = c
  /\ recycle' = [recycle EXCEPT ![c].step = "lock"]
  /\ UNCHANGED <<queue, intVars, at, rx_work_avail, threadVars, localVars, ethlock_rx,
                 bulk_rx_lock_active, allocVars, freeSkbList, inUse>>

\* ENET_RX_LOCK, unless this core holds it for a bulk of packets, and
\* skb->next_free = freeSkbList.
RecycleLock(c) ==
  /\ recycle[c].step = "lock"
  /\ bulk_rx_lock_active[c] \/ ethlock_rx = NULL
  /\ ethlock_rx' = IF bulk_rx_lock_active[c] THEN ethlock_rx ELSE c
  /\ recycle' = [recycle EXCEPT ![c].step = "head", ![c].next = freeSkbList]
  /\ UNCHANGED <<queue, intVars, at, rx_work_avail, threadVars, localVars, blogLock,
                 bulk_rx_lock_active, allocVars, freeSkbList, inUse>>

\* freeSkbList = skb, and the locks are released.
RecycleHead(c) ==
  /\ recycle[c].step = "head"
  /\ freeSkbList' = <<recycle[c].skb>> \o recycle[c].next
  /\ ethlock_rx' = IF bulk_rx_lock_active[c] THEN ethlock_rx ELSE NULL
  /\ blogLock' = IF recycle[c].blog THEN NULL ELSE blogLock
  /\ recycle' = [recycle EXCEPT ![c] = Idle]
  /\ UNCHANGED <<queue, intVars, at, rx_work_avail, threadVars, localVars, bulk_rx_lock_active,
                 allocVars, inUse>>

-----------------------------------------------------------------------------
bcm63xx_rx ==
  \/ NextRx \/ TakeRxLock \/ bcmeapi_rx_pkt \/ BlogFinit
  \/ AllocSkb \/ TakeSkb \/ ReceiveSkb \/ AfterRx

Thread ==
  \/ ThreadWaits \/ bcm63xx_rx
  \/ ClearWork \/ EnableInt \/ LookAgain \/ MaskStep("thread")

bcmeapi_free_skb(c) ==
  RecycleBlogLock(c) \/ RecycleLock(c) \/ RecycleHead(c)

Next ==
  \/ Thread
  \/ InterruptTaken \/ MaskStep("isr")
  \/ \E q \in Queue : PacketArrives(q)
  \/ \E c \in Cpu : bcmeapi_free_skb(c) \/ \E s \in Skb : RecycleBegins(c, s)

Spec == Init /\ [][Next]_vars

\* The thread is scheduled, interrupts that are open are taken, and the handler
\* and callers of bcmeapi_free_skb run on.
FairSpec ==
  /\ Spec /\ WF_vars(Thread)
  /\ WF_vars(InterruptTaken) /\ WF_vars(MaskStep("isr"))
  /\ \A c \in Cpu : WF_vars(bcmeapi_free_skb(c))

-----------------------------------------------------------------------------
(* Properties.                                                             *)

\* A packet in a queue is never forgotten: the thread is at work or about to
\* be woken, or looks at that queue once more before it sleeps, or the
\* handler has yet to announce work, or an interrupt is latched and open.
RxWakeupPending ==
  \A q \in Queue : queue[q] > 0 =>
    \/ rx_work_avail /\ (pc # "asleep" \/ at["isr"] = Len(MaskSteps))
    \/ pc \in {"enableHI", "enableLO", "lookLO", "post"} \/ (pc = "lookHI" /\ q = "HI")
    \/ at["isr"] \in 1 .. Len(MaskSteps) - 1
    \/ intCause \cap intEnabled # {}

\* Every preallocated skb is in exactly one place - the list, the hands of
\* the thread, the stack, or one call of bcmeapi_free_skb - although the list
\* is changed on both cores and, by bulk_rx_lock_active, sometimes without
\* taking the lock.
SkbsConserved ==
  \A s \in Skb :
    LET places == {<<"list", i>> : i \in {i \in DOMAIN freeSkbList : freeSkbList[i] = s}}
                  \cup {<<"thread", 0>> : x \in {x \in {skb} : x = s}}
                  \cup {<<"stack", 0>> : x \in {x \in inUse : x = s}}
                  \cup {<<"recycle", c>> : c \in {c \in Cpu : recycle[c].skb = s}}
    IN  \E p \in places : places = {p}

\* The thread gets to packets that wait: no wakeup is lost for good, and no core
\* waits for a lock it holds itself or in a circle with the other.
PacketsAttended == (\E q \in Queue : queue[q] > 0) ~> pc = "pkt"
=============================================================================
