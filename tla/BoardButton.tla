---------------------------- MODULE BoardButton ----------------------------
(***************************************************************************)
(* A push button of the board: bcmdrivers/opensource/char/board/bcm963xx/  *)
(* impl1/board.c, btnPressIsr, btnPoll and btnThread, as registerBtns sets *)
(* them up on the BCM63138 (no release interrupt; the external interrupt   *)
(* is level triggered and nothing masks it).                               *)
(*                                                                         *)
(* Interrupt handler, timer softirq and thread run on two cores.  What a   *)
(* handler does under btn->lock is one step.  Times are kept only as far   *)
(* as the code compares them: which of two stamps is the older.            *)
(***************************************************************************)
CONSTANT RmwRaces   \* may another core write btn->events between the load
                    \* and the store of the thread's unlocked "&= ~HOLD"

ASSUME ButtonAssumption == RmwRaces \in BOOLEAN

VARIABLES
  down,         \* the button is held down
  irq,          \* its interrupt is taken, the handler is about to run
  active,       \* btn->active
  events,       \* btn->events
  timer,        \* btn->timer is queued
  polling,      \* btnPoll has been taken off the timer wheel
  thread,       \* where btnThread is
  loaded,       \* its copy of btn->events within the unlocked update
  holdOlder,    \* lastHoldJiffies is older than lastPressJiffies
  releaseOlder, \* lastReleaseJiffies is older than lastPressJiffies
  staleHold,    \* lastHoldJiffies is older than btnPressJiffies
  staleRelease  \* lastReleaseJiffies is older than btnPressJiffies

stamps == <<holdOlder, releaseOlder, staleHold, staleRelease>>
vars == <<down, irq, active, events, timer, polling, thread, loaded, stamps>>

Events  == {"PRESSED", "HOLD", "RELEASED"}
Places  == {"waitPress", "clearPress", "press", "waitEvent", "testHold", "storeHold",
            "hold", "testRelease", "clearRelease", "release"}

TypeOK ==
  /\ down \in BOOLEAN /\ irq \in BOOLEAN /\ active \in BOOLEAN
  /\ events \subseteq Events /\ loaded \subseteq Events
  /\ timer \in BOOLEAN /\ polling \in BOOLEAN
  /\ thread \in Places
  /\ holdOlder \in BOOLEAN /\ releaseOlder \in BOOLEAN
  /\ staleHold \in BOOLEAN /\ staleRelease \in BOOLEAN

\* The state registerBtns leaves.
Init ==
  /\ down = FALSE /\ irq = FALSE /\ active = FALSE
  /\ events = {} /\ loaded = {}
  /\ timer = FALSE /\ polling = FALSE
  /\ thread = "waitPress"
  /\ holdOlder = FALSE /\ releaseOlder = FALSE
  /\ staleHold = FALSE /\ staleRelease = FALSE

-----------------------------------------------------------------------------
\* The user; a level-triggered interrupt is taken again and again.
ButtonMoves ==
  /\ down' = ~down
  /\ UNCHANGED <<irq, active, events, timer, polling, thread, loaded, stamps>>

IrqTaken ==
  /\ down /\ ~irq
  /\ irq' = TRUE
  /\ UNCHANGED <<down, active, events, timer, polling, thread, loaded, stamps>>

\* The other core's writes of btn->events wait while an update is not torn.
MayWriteEvents == RmwRaces \/ thread # "storeHold"

btnPressIsr ==
  /\ irq /\ MayWriteEvents
  /\ irq' = FALSE
  /\ active' = TRUE
  /\ timer' = TRUE
  /\ events' = events \cup {"PRESSED"}
  /\ holdOlder' = TRUE /\ releaseOlder' = TRUE
  /\ UNCHANGED <<down, polling, thread, loaded, staleHold, staleRelease>>

\* The timer expires; its handler has yet to take the lock.
TimerExpires ==
  /\ timer /\ ~polling
  /\ timer' = FALSE /\ polling' = TRUE
  /\ UNCHANGED <<down, irq, active, events, thread, loaded, stamps>>

\* Mutants of PollDown and PollUp: the timer is not queued again; it is left
\* queued; the release is recorded in a bit that is none of the events.
MutPollStops ==
  /\ down
  /\ events' = events \cup {"HOLD"}
  /\ holdOlder' = FALSE /\ staleHold' = FALSE
  /\ UNCHANGED <<active, timer, releaseOlder, staleRelease>>

MutTimerLeft ==
  /\ ~down
  /\ active' = FALSE
  /\ events' = events \cup {"RELEASED"}
  /\ releaseOlder' = FALSE /\ staleRelease' = FALSE
  /\ UNCHANGED <<timer, holdOlder, staleHold>>

MutWrongBit ==
  /\ ~down
  /\ active' = FALSE
  /\ timer' = FALSE
  /\ events' = events \cup {"0x8"}
  /\ releaseOlder' = FALSE /\ staleRelease' = FALSE
  /\ UNCHANGED <<holdOlder, staleHold>>

\* btnPoll with the button still down.
PollDown ==
  /\ down
  /\ timer' = TRUE
  /\ events' = events \cup {"HOLD"}
  /\ holdOlder' = FALSE /\ staleHold' = FALSE
  /\ UNCHANGED <<active, releaseOlder, staleRelease>>

\* btnPoll with the button up.
PollUp ==
  /\ ~down
  /\ active' = FALSE
  /\ timer' = FALSE
  /\ events' = events \cup {"RELEASED"}
  /\ releaseOlder' = FALSE /\ staleRelease' = FALSE
  /\ UNCHANGED <<holdOlder, staleHold>>

btnPoll ==
  /\ polling /\ MayWriteEvents
  /\ polling' = FALSE
  /\ IF active THEN PollDown \/ PollUp ELSE UNCHANGED <<active, timer, events, stamps>>
  /\ UNCHANGED <<down, irq, thread, loaded>>

-----------------------------------------------------------------------------
Goto(from, to) == thread = from /\ thread' = to

\* wait_event_interruptible for a press ...
WaitPress ==
  /\ "PRESSED" \in events
  /\ Goto("waitPress", "clearPress")
  /\ UNCHANGED <<down, irq, active, events, timer, polling, loaded, stamps>>

ClearPress ==
  /\ Goto("clearPress", "press")
  /\ events' = events \ {"PRESSED"}
  /\ UNCHANGED <<down, irq, active, timer, polling, loaded, stamps>>

\* ... btnDoPress: btnPressJiffies becomes the lastPressJiffies of now.
btnDoPress ==
  /\ Goto("press", "waitEvent")
  /\ staleHold' = holdOlder /\ staleRelease' = releaseOlder
  /\ UNCHANGED <<down, irq, active, events, timer, polling, loaded, holdOlder, releaseOlder>>

\* wait_event_interruptible_timeout returns on an event or after 100 ms.
WaitEvent ==
  /\ Goto("waitEvent", "testHold")
  /\ UNCHANGED <<down, irq, active, events, timer, polling, loaded, stamps>>

\* The test for a hold event and, if there is one, the load of the unlocked
\* update that clears it ...
TestHold ==
  /\ IF "HOLD" \in events
     THEN Goto("testHold", "storeHold") /\ loaded' = events
     ELSE Goto("testHold", "testRelease") /\ UNCHANGED loaded
  /\ UNCHANGED <<down, irq, active, events, timer, polling, stamps>>

\* ... and its store.
StoreHold ==
  /\ Goto("storeHold", "hold")
  /\ events' = loaded \ {"HOLD"}
  /\ loaded' = {}
  /\ UNCHANGED <<down, irq, active, timer, polling, stamps>>

btnDoHold ==
  /\ Goto("hold", "testRelease")
  /\ UNCHANGED <<down, irq, active, events, timer, polling, loaded, stamps>>

TestRelease ==
  /\ Goto("testRelease", IF "RELEASED" \in events THEN "clearRelease" ELSE "waitEvent")
  /\ UNCHANGED <<down, irq, active, events, timer, polling, loaded, stamps>>

\* Mutant of ClearRelease: all events are cleared.
MutClearAll ==
  /\ Goto("clearRelease", "release")
  /\ events' = {}
  /\ UNCHANGED <<down, irq, active, timer, polling, loaded, stamps>>

ClearRelease ==
  /\ Goto("clearRelease", "release")
  /\ events' = events \ {"RELEASED", "HOLD"}
  /\ UNCHANGED <<down, irq, active, timer, polling, loaded, stamps>>

\* btnDoRelease; it unmasks the interrupt, which is not masked.
btnDoRelease ==
  /\ Goto("release", "waitPress")
  /\ UNCHANGED <<down, irq, active, events, timer, polling, loaded, stamps>>

btnThread ==
  \/ WaitPress \/ ClearPress \/ btnDoPress \/ WaitEvent \/ TestHold \/ StoreHold
  \/ btnDoHold \/ TestRelease \/ ClearRelease \/ btnDoRelease

-----------------------------------------------------------------------------
Next == ButtonMoves \/ IrqTaken \/ btnPressIsr \/ TimerExpires \/ btnPoll \/ btnThread

Spec == Init /\ [][Next]_vars

\* A taken interrupt is handled, a due timer runs, a runnable thread runs.
FairSpec ==
  /\ Spec
  /\ WF_vars(btnPressIsr) /\ WF_vars(TimerExpires) /\ WF_vars(btnPoll)
  /\ WF_vars(btnThread)

-----------------------------------------------------------------------------
(***************************************************************************)
(* A button taken for down is being polled, and only such a button is:     *)
(* otherwise a release is never noticed, or btnPoll gets where "we should  *)
(* not get".  Interrupts race the handler that is waiting for the lock.    *)
(***************************************************************************)
PolledWhileActive == active <=> timer \/ polling

(***************************************************************************)
(* A button that stays up is seen to be up: btnPoll keeps itself running   *)
(* until it has noticed the release.                                       *)
(***************************************************************************)
ReleaseNoticed == <>[]~down => <>[]~active

(***************************************************************************)
(* Every press that is recorded is handled once the button is up: the      *)
(* thread, wherever it is in its two loops and however its events have     *)
(* been merged, gets round to btnDoPress.                                  *)
(***************************************************************************)
PressHandled ==
  <>[]~down => []("PRESSED" \in events => <>(thread = "press"))

(***************************************************************************)
(* "events; //must be protected by lock" (BtnInfo): a release that is      *)
(* recorded stays recorded until the thread takes it.                      *)
(***************************************************************************)
ReleaseKept ==
  [][ "RELEASED" \in events /\ "RELEASED" \notin events' => ClearRelease ]_vars

(***************************************************************************)
(* "hold event: occurs after the button has been held for a specific       *)
(* period of time" (pushbutton.h): the time a hook is given is measured    *)
(* from a press that came before the event.  A negative difference wraps   *)
(* around and exceeds every timeout.                                       *)
(***************************************************************************)
HeldSincePress ==
  /\ thread = "hold" => ~staleHold
  /\ thread = "release" => ~staleRelease
=============================================================================
