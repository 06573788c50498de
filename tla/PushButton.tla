----------------------------- MODULE PushButton -----------------------------
(***************************************************************************)
(* The hooks of one push button: bcmdrivers/opensource/char/board/         *)
(* bcm963xx/impl1/pushbutton.c.                                            *)
(*                                                                         *)
(* Registering and deregistering, from any context, and choosing the hooks *)
(* of an event are done under the module's lock and are one step each; the *)
(* chosen hooks are called after the lock is released, one step each.  An  *)
(* array of hooks is the sequence of its entries before the first NULL     *)
(* hook: insertion and deletion keep the entries together.                 *)
(***************************************************************************)
EXTENDS Integers, Sequences, SequencesExt

CONSTANTS
  Hooks,
  MaxTime,                 \* bound: longest time a button is held or a timeout
  MAX_BTN_HOOKS_PER_TRIG,
  HoldChangesWhileDown     \* may hold hooks be (de)registered while the button is down

ASSUME PushButtonAssumption ==
  /\ MaxTime \in Nat
  /\ MAX_BTN_HOOKS_PER_TRIG \in Nat \ {0}
  /\ HoldChangesWhileDown \in BOOLEAN

Times   == 0 .. MaxTime
Entries == [hook : Hooks, timeout : Times]

VARIABLES
  btnPressedInfo, btnHeldInfo, btnReleasedInfo,
  btnHeldIdx,     \* index of the next hold hook, from 0
  held,           \* longest time since the press seen so far; Up: not pressed
  callInfo,       \* hooks chosen and not yet called
  called          \* hold hooks chosen since the press

infoVars == <<btnPressedInfo, btnHeldInfo, btnReleasedInfo>>
vars == <<infoVars, btnHeldIdx, held, callInfo, called>>

Up == -1

Arrays == UNION {[1 .. n -> Entries] : n \in 0 .. MAX_BTN_HOOKS_PER_TRIG}

TypeOK ==
  /\ btnPressedInfo \in Arrays /\ btnHeldInfo \in Arrays /\ btnReleasedInfo \in Arrays
  /\ btnHeldIdx \in Int
  /\ held \in Times \cup {Up}
  /\ callInfo \in Seq(Entries) /\ called \in Seq(Entries)

Init ==
  /\ btnPressedInfo = <<>> /\ btnHeldInfo = <<>> /\ btnReleasedInfo = <<>>
  /\ btnHeldIdx = 0
  /\ held = Up
  /\ callInfo = <<>> /\ called = <<>>

-----------------------------------------------------------------------------
\* Where insertToOrderedArray puts a new entry: before the first that has a
\* greater timeout.
InsertIdx(array, t) ==
  CHOOSE i \in 1 .. (Len(array) + 1) :
     /\ \A j \in 1 .. (i - 1) : array[j].timeout <= t
     /\ i <= Len(array) => array[i].timeout > t

\* Mutants of insertToOrderedArray: a full array grows; the entry is appended.
MutNoFullTest(array, e) == InsertAt(array, InsertIdx(array, e.timeout), e)

MutAppend(array, e) ==
  IF Len(array) < MAX_BTN_HOOKS_PER_TRIG THEN Append(array, e) ELSE array

insertToOrderedArray(array, e) ==
  IF Len(array) < MAX_BTN_HOOKS_PER_TRIG
  THEN InsertAt(array, InsertIdx(array, e.timeout), e)
  ELSE array

\* deleteFromOrderedArray: the index, from 0, of the first such entry; -1: none.
DeleteIdx(array, e) ==
  IF \E i \in DOMAIN array : array[i] = e
  THEN (CHOOSE i \in DOMAIN array : array[i] = e /\ \A j \in 1 .. (i - 1) : array[j] # e) - 1
  ELSE -1

deleteFromOrderedArray(array, e) ==
  IF DeleteIdx(array, e) >= 0 THEN RemoveAt(array, DeleteIdx(array, e) + 1) ELSE array

\* Press hooks have timeout 0.
registerPushButtonPressNotifyHook(h) ==
  /\ btnPressedInfo' = insertToOrderedArray(btnPressedInfo, [hook |-> h, timeout |-> 0])
  /\ UNCHANGED <<btnHeldInfo, btnReleasedInfo, btnHeldIdx, held, callInfo, called>>

deregisterPushButtonPressNotifyHook(h) ==
  /\ btnPressedInfo' = deleteFromOrderedArray(btnPressedInfo, [hook |-> h, timeout |-> 0])
  /\ UNCHANGED <<btnHeldInfo, btnReleasedInfo, btnHeldIdx, held, callInfo, called>>

\* A hook that is not NULL leaves btnHeldIdx as it is.
registerPushButtonHoldNotifyHook(e) ==
  /\ HoldChangesWhileDown \/ held = Up
  /\ btnHeldInfo' = insertToOrderedArray(btnHeldInfo, e)
  /\ UNCHANGED <<btnPressedInfo, btnReleasedInfo, btnHeldIdx, held, callInfo, called>>

\* The index of the next hold hook moves down with the entries above the
\* deleted one.
deregisterPushButtonHoldNotifyHook(e) ==
  /\ HoldChangesWhileDown \/ held = Up
  /\ btnHeldInfo' = deleteFromOrderedArray(btnHeldInfo, e)
  /\ LET idx == DeleteIdx(btnHeldInfo, e) IN
       btnHeldIdx' = IF idx >= 0 /\ btnHeldIdx >= idx THEN btnHeldIdx - 1 ELSE btnHeldIdx
  /\ UNCHANGED <<btnPressedInfo, btnReleasedInfo, held, callInfo, called>>

registerPushButtonReleaseNotifyHook(e) ==
  /\ btnReleasedInfo' = insertToOrderedArray(btnReleasedInfo, e)
  /\ UNCHANGED <<btnPressedInfo, btnHeldInfo, btnHeldIdx, held, callInfo, called>>

deregisterPushButtonReleaseNotifyHook(e) ==
  /\ btnReleasedInfo' = deleteFromOrderedArray(btnReleasedInfo, e)
  /\ UNCHANGED <<btnPressedInfo, btnHeldInfo, btnHeldIdx, held, callInfo, called>>

-----------------------------------------------------------------------------
\* Mutant of doPushButtonPress: the hold index is not reset.
MutIdxKept ==
  /\ held = Up /\ callInfo = <<>>
  /\ held' = 0 /\ called' = <<>>
  /\ callInfo' = btnPressedInfo
  /\ UNCHANGED <<infoVars, btnHeldIdx>>

doPushButtonPress ==
  /\ held = Up /\ callInfo = <<>>
  /\ held' = 0 /\ btnHeldIdx' = 0
  /\ called' = <<>>
  /\ callInfo' = btnPressedInfo
  /\ UNCHANGED infoVars

\* The first entry from btnHeldIdx on whose time has not come.
NextHeld(t) ==
  CHOOSE i \in (btnHeldIdx + 1) .. (Len(btnHeldInfo) + 1) :
     /\ \A j \in (btnHeldIdx + 1) .. (i - 1) : btnHeldInfo[j].timeout <= t
     /\ i <= Len(btnHeldInfo) => btnHeldInfo[i].timeout > t

\* doPushButtonHold when the button has been held for t; at the end of the
\* array btnHeldIdx is set to its size.  The times of one press come in any
\* order: the caller's stamps may go back, and a negative difference wraps
\* around to a long time.  A negative index reads the memory before the array:
\* what follows is not described.
doPushButtonHold(t) ==
  /\ held # Up /\ callInfo = <<>>
  /\ btnHeldIdx >= 0
  /\ held' = IF t > held THEN t ELSE held
  /\ IF btnHeldIdx < Len(btnHeldInfo)
     THEN /\ callInfo' = SubSeq(btnHeldInfo, btnHeldIdx + 1, NextHeld(t) - 1)
          /\ btnHeldIdx' = IF NextHeld(t) <= Len(btnHeldInfo) THEN NextHeld(t) - 1
                           ELSE MAX_BTN_HOOKS_PER_TRIG
     ELSE callInfo' = <<>> /\ btnHeldIdx' = MAX_BTN_HOOKS_PER_TRIG
  /\ called' = called \o callInfo'
  /\ UNCHANGED infoVars

\* Mutant of ChooseReleased: the boundary as pushbutton.h has it, held for
\* more than the timeout.
MutHeldLonger(chosen, e, t) ==
  IF e.timeout >= t THEN chosen
  ELSE IF chosen = <<>> \/ e.timeout = chosen[1].timeout THEN Append(chosen, e)
  ELSE IF e.timeout > chosen[1].timeout THEN <<e>>
  ELSE chosen

\* One round of the loop of doPushButtonRelease.
ChooseReleased(chosen, e, t) ==
  IF e.timeout > t THEN chosen
  ELSE IF chosen = <<>> \/ e.timeout = chosen[1].timeout THEN Append(chosen, e)
  ELSE IF e.timeout > chosen[1].timeout THEN <<e>>
  ELSE chosen

\* What the loop has chosen after each of its rounds over an array.
ReleasedRounds(array, t) ==
  LET chosen[n \in 0 .. Len(array)] ==
        IF n = 0 THEN <<>> ELSE ChooseReleased(chosen[n - 1], array[n], t)
  IN  chosen

\* Mutant of ReleasedCalls: every hook whose time has come is called.
MutAllReleased(t) == SelectSeq(btnReleasedInfo, LAMBDA e : e.timeout <= t)

ReleasedCalls(t) == ReleasedRounds(btnReleasedInfo, t)[Len(btnReleasedInfo)]

doPushButtonRelease(t) ==
  /\ held # Up /\ callInfo = <<>>
  /\ held' = Up
  /\ callInfo' = ReleasedCalls(t)
  /\ UNCHANGED <<infoVars, btnHeldIdx, called>>

\* A chosen hook is called.
CallHook ==
  /\ callInfo # <<>>
  /\ callInfo' = Tail(callInfo)
  /\ UNCHANGED <<infoVars, btnHeldIdx, held, called>>

-----------------------------------------------------------------------------
Next ==
  \/ \E h \in Hooks : \/ registerPushButtonPressNotifyHook(h)
                      \/ deregisterPushButtonPressNotifyHook(h)
  \/ \E e \in Entries : \/ registerPushButtonHoldNotifyHook(e)
                        \/ deregisterPushButtonHoldNotifyHook(e)
                        \/ registerPushButtonReleaseNotifyHook(e)
                        \/ deregisterPushButtonReleaseNotifyHook(e)
  \/ doPushButtonPress
  \/ \E t \in Times : doPushButtonHold(t) \/ doPushButtonRelease(t)
  \/ CallHook

Spec == Init /\ [][Next]_vars

-----------------------------------------------------------------------------
Ordered(array) ==
  \A i, j \in DOMAIN array : i < j => array[i].timeout <= array[j].timeout

(***************************************************************************)
(* "Note: the following arrays must be ordered by timeout": the hold and   *)
(* release hooks stay in order of their timeouts whatever is registered    *)
(* and deregistered, a full array included.                                *)
(***************************************************************************)
OrderedByTimeout == Ordered(btnHeldInfo) /\ Ordered(btnReleasedInfo)

(***************************************************************************)
(* After every doPushButtonHold the hold hooks chosen since the press are  *)
(* exactly those due at the longest time it was called with since then,    *)
(* each once and in order, whether its times grow or go back, if none was  *)
(* registered or deregistered while the button was down.  (Those due are   *)
(* the first entries of the array; an entry is due when its timeout has    *)
(* been reached, timeout <= time.)                                         *)
(***************************************************************************)
DueHeld(t) == {i \in DOMAIN btnHeldInfo : btnHeldInfo[i].timeout <= t}

HoldHooksOnce ==
  [][\A t \in Times : doPushButtonHold(t) =>
        \E n \in 0 .. Len(btnHeldInfo) :
           DueHeld(held') = 1 .. n /\ called' = SubSeq(btnHeldInfo, 1, n)]_vars

(***************************************************************************)
(* "only the most recent hook will be invoked. In the event that multiple  *)
(* hooks are registered with the exact same time as the most recent time,  *)
(* then all events with this time will be invoked": what the loop of       *)
(* doPushButtonRelease chooses are the entries with the greatest timeout   *)
(* that has come, all of them, each once and in the order of the array.    *)
(*                                                                         *)
(* At the boundary this is the reading of the code, not of the header: a   *)
(* timeout equal to the time held has come, where the sentence before the  *)
(* quoted one says that a release hook "will only be called if the button  *)
(* was held down more than the specified time" (pushbutton.h:57-58).       *)
(***************************************************************************)
MostRecent(array, t) ==
  {i \in DOMAIN array :
     /\ array[i].timeout <= t
     /\ \A j \in DOMAIN array : array[j].timeout <= t => array[j].timeout <= array[i].timeout}

MostRecentReleased ==
  \A t \in Times : \E i \in 1 .. (Len(btnReleasedInfo) + 1), j \in 0 .. Len(btnReleasedInfo) :
     /\ MostRecent(btnReleasedInfo, t) = i .. j
     /\ ReleasedCalls(t) = SubSeq(btnReleasedInfo, i, j)

(***************************************************************************)
(* While the button is down btnHeldIdx, with which doPushButtonHold        *)
(* indexes btnHeldInfo, is an index of the array or its size.              *)
(***************************************************************************)
HeldIdxInRange == held # Up => btnHeldIdx \in 0 .. MAX_BTN_HOOKS_PER_TRIG
=============================================================================
