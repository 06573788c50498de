------------------------- MODULE BoardButton_proofs -------------------------
(***************************************************************************)
(* Proofs about BoardButton, for torn and for whole updates of events.     *)
(***************************************************************************)
EXTENDS BoardButton, TLAPS

(***************************************************************************)
(* Type correctness: events holds nothing but the three event bits.        *)
(***************************************************************************)
THEOREM TypeCorrect == Spec => []TypeOK
<1>1. Init => TypeOK
  BY DEF Init, TypeOK, Places
<1>2. TypeOK /\ [Next]_vars => TypeOK'
  <2> SUFFICES ASSUME TypeOK, [Next]_vars PROVE TypeOK'
    OBVIOUS
  <2> USE DEF TypeOK, stamps
  <2>1. CASE ButtonMoves
    BY <2>1 DEF ButtonMoves
  <2>2. CASE IrqTaken
    BY <2>2 DEF IrqTaken
  <2>3. CASE btnPressIsr
    BY <2>3 DEF btnPressIsr, Events
  <2>4. CASE TimerExpires
    BY <2>4 DEF TimerExpires
  <2>5. CASE btnPoll
    BY <2>5 DEF btnPoll, PollDown, PollUp, Events
  <2>6. CASE btnThread
    <3> USE DEF Goto, Places
    <3>1. CASE WaitPress \/ ClearPress \/ btnDoPress \/ WaitEvent
      BY <3>1 DEF WaitPress, ClearPress, btnDoPress, WaitEvent
    <3>2. CASE TestHold
      BY <3>2 DEF TestHold
    <3>3. CASE StoreHold
      BY <3>3 DEF StoreHold
    <3>4. CASE btnDoHold \/ TestRelease \/ ClearRelease \/ btnDoRelease
      BY <3>4 DEF btnDoHold, TestRelease, ClearRelease, btnDoRelease
    <3> QED  BY <2>6, <3>1, <3>2, <3>3, <3>4 DEF btnThread
  <2>7. CASE UNCHANGED vars
    BY <2>7 DEF vars
  <2> QED  BY <2>1, <2>2, <2>3, <2>4, <2>5, <2>6, <2>7 DEF Next
<1> QED  BY <1>1, <1>2, PTL DEF Spec

\* The thread's steps leave the state of the polling alone.
LEMMA ThreadLeavesPolling ==
  ASSUME btnThread
  PROVE  UNCHANGED <<active, timer, polling>>
BY DEF btnThread, WaitPress, ClearPress, btnDoPress, WaitEvent, TestHold, StoreHold,
       btnDoHold, TestRelease, ClearRelease, btnDoRelease

(***************************************************************************)
(* A button taken for down is polled and no other: btnPoll never finds the *)
(* button inactive, although presses may come between its leaving the      *)
(* timer wheel and its taking the lock, and no press leaves it unpolled.   *)
(***************************************************************************)
THEOREM PolledWhileActiveHolds == Spec => []PolledWhileActive
<1>1. Init => PolledWhileActive
  BY DEF Init, PolledWhileActive
<1>2. TypeOK /\ PolledWhileActive /\ [Next]_vars => PolledWhileActive'
  <2> SUFFICES ASSUME TypeOK, PolledWhileActive, [Next]_vars PROVE PolledWhileActive'
    OBVIOUS
  <2> USE DEF PolledWhileActive
  <2>1. CASE ButtonMoves \/ IrqTaken \/ UNCHANGED vars
    BY <2>1 DEF ButtonMoves, IrqTaken, vars
  <2>2. CASE btnPressIsr
    BY <2>2 DEF btnPressIsr
  <2>3. CASE TimerExpires
    BY <2>3 DEF TimerExpires
  <2>4. CASE btnPoll
    <3>1. active
      BY <2>4 DEF btnPoll
    <3>2. CASE PollDown
      BY <2>4, <3>1, <3>2 DEF btnPoll, PollDown
    <3>3. CASE PollUp
      BY <2>4, <3>3 DEF btnPoll, PollUp
    <3> QED  BY <2>4, <3>1, <3>2, <3>3 DEF btnPoll
  <2>5. CASE btnThread
    BY <2>5, ThreadLeavesPolling
  <2> QED  BY <2>1, <2>2, <2>3, <2>4, <2>5 DEF Next
<1> QED  BY <1>1, <1>2, TypeCorrect, PTL DEF Spec
=============================================================================
