--------------------------- MODULE BoardLed_proofs ---------------------------
(***************************************************************************)
(* Proofs about BoardLed, for every board (any number of LEDs and any      *)
(* GPIOs) and every history of calls.                                      *)
(***************************************************************************)
EXTENDS BoardLed, TLAPS

-----------------------------------------------------------------------------
(* Types.  The countdown conjunct is the one that takes an argument: the   *)
(* handler decrements a short that no code clamps.                         *)

\* boardLedInit leaves every field in its range.
LEMMA InitType == boardLedInit => TypeOK
<1> SUFFICES ASSUME boardLedInit PROVE TypeOK
  OBVIOUS
<1>1. ledState \in [Leds -> LedStates]
  BY DEF boardLedInit, LedStates, Steady
<1>2. green \in [Leds -> BOOLEAN] /\ red \in [Leds -> BOOLEAN] /\ gTimerOn \in BOOLEAN
  BY Zenon DEF boardLedInit
<1>3. blinkCountDown \in [Leds -> 0 .. kOverLapPause]
  BY SMT DEF boardLedInit, kOverLapPause
<1>4. /\ gTimerOnRequests \in Nat /\ pending \in Nat
      /\ gLedRunningCounter \in 0 .. (CounterSpan - 1)
      /\ pc \in NotRunning .. kLedEnd
  BY LedAssumption DEF boardLedInit, NotRunning
<1> QED  BY <1>1, <1>2, <1>3, <1>4 DEF TypeOK

\* A call of boardLedCtrl keeps every field in its range.
LEMMA CtrlType ==
  ASSUME TypeOK, NEW l \in Leds, NEW s \in CtrlStates, boardLedCtrl(l, s)
  PROVE  TypeOK'
<1> DEFINE st == Shown(l, s)
<1>1. st \in LedStates
  BY LedAssumption DEF Shown, LedStates, Blinking
<1>2. ledState' \in [Leds -> LedStates] /\ red' \in [Leds -> BOOLEAN]
  BY <1>1 DEF boardLedCtrl, TypeOK
<1>3. green' \in [Leds -> BOOLEAN]
  BY DEF boardLedCtrl, setLed, TypeOK
<1>4. blinkCountDown' \in [Leds -> 0 .. kOverLapPause]
  BY DEF boardLedCtrl, TypeOK, kOverLapPause, kSlowBlinkCount, kFastBlinkCount
<1>5. gLedRunningCounter' \in 0 .. (CounterSpan - 1)
  BY LedAssumption DEF boardLedCtrl, TypeOK
<1>6. gTimerOn' \in BOOLEAN /\ gTimerOnRequests' \in Nat /\ pending' \in Nat
  <2>1. PICK n \in Nat : StartTimerFor(n)
    BY DEF boardLedCtrl, TypeOK
  <2>2. gTimerOn' \in BOOLEAN
    BY <2>1, Zenon DEF StartTimerFor, TypeOK
  <2>3. gTimerOnRequests' \in Nat /\ pending' \in Nat
    BY <2>1, SMT DEF StartTimerFor, ledTimerStart, TypeOK
  <2> QED  BY <2>2, <2>3
<1>7. pc' \in NotRunning .. kLedEnd
  BY DEF boardLedCtrl, TypeOK
<1> QED  BY <1>2, <1>3, <1>4, <1>5, <1>6, <1>7 DEF TypeOK

\* gLedRunningCounter stays an unsigned int when it is incremented.
LEMMA CounterType == TypeOK => NextCounter \in 0 .. (CounterSpan - 1)
  BY LedAssumption DEF TypeOK, NextCounter

\* Reloading after a countdown has run out keeps the ranges.
LEMMA ElapsedType ==
  ASSUME TypeOK, NEW l \in Leds, BlinkElapsed(l)
  PROVE  /\ blinkCountDown' \in [Leds -> 0 .. kOverLapPause]
         /\ green' \in [Leds -> BOOLEAN]
         /\ gLedRunningCounter' \in 0 .. (CounterSpan - 1)
<1>1. green' \in [Leds -> BOOLEAN]
  BY DEF BlinkElapsed, TypeOK, ledToggle, setLed
<1>2. gLedRunningCounter' \in 0 .. (CounterSpan - 1)
  BY CounterType DEF BlinkElapsed, TypeOK
<1>3. PICK n \in 0 .. kOverLapPause : blinkCountDown' = [blinkCountDown EXCEPT ![l] = n]
  <2>1. {kFastBlinkCount, kSlowBlinkCount, kOverLapPause} \subseteq 0 .. kOverLapPause
    BY DEF kOverLapPause, kSlowBlinkCount, kFastBlinkCount
  <2> QED  BY <2>1 DEF BlinkElapsed
<1>4. blinkCountDown' \in [Leds -> 0 .. kOverLapPause]
  BY <1>3 DEF TypeOK
<1> QED  BY <1>1, <1>2, <1>4

\* ledTimerExpire at one LED keeps the ranges.
LEMMA ExpireType == TypeOK /\ ExpireLed => TypeOK'
<1> SUFFICES ASSUME TypeOK, ExpireLed PROVE TypeOK'
  OBVIOUS
<1>1. pc \in Leds
  BY DEF ExpireLed
<1>2. /\ blinkCountDown' \in [Leds -> 0 .. kOverLapPause]
      /\ green' \in [Leds -> BOOLEAN]
      /\ gLedRunningCounter' \in 0 .. (CounterSpan - 1)
      /\ gTimerOnRequests' \in Nat
  <2>1. CASE ExpireSteady(pc)
    <3>1. 0 \in 0 .. kOverLapPause
      BY DEF kOverLapPause
    <3> QED  BY <2>1, <3>1 DEF ExpireSteady, TypeOK
  <2>2. CASE ExpireBlinking(pc) /\ blinkCountDown[pc] = 0
    BY <1>1, <2>2, ElapsedType DEF ExpireBlinking, TypeOK
  <2>3. CASE ExpireBlinking(pc) /\ blinkCountDown[pc] # 0
    BY <1>1, <2>3 DEF ExpireBlinking, TypeOK, kOverLapPause
  <2>4. CASE ExpireInvalid(pc)
    BY <2>4 DEF ExpireInvalid, TypeOK
  <2> QED  BY <2>1, <2>2, <2>3, <2>4 DEF ExpireLed
<1>3. pc' \in NotRunning .. kLedEnd
  BY <1>1, LedAssumption DEF ExpireLed, Leds, NotRunning
<1> QED  BY <1>2, <1>3 DEF TypeOK, ExpireLed

\* Every step keeps every field in its range.
LEMMA NextType == TypeOK /\ [Next]_vars => TypeOK'
<1> SUFFICES ASSUME TypeOK, [Next]_vars PROVE TypeOK'
  OBVIOUS
<1>1. CASE \E l \in Leds, s \in CtrlStates : boardLedCtrl(l, s)
  BY <1>1, CtrlType
<1>2. CASE TimerFires
  BY <1>2, LedAssumption DEF TimerFires, TypeOK, NotRunning
<1>3. CASE ExpireLed
  BY <1>3, ExpireType
<1>4. CASE ExpireEnd
  <2>1. gTimerOn' \in BOOLEAN
    BY <1>4, Zenon DEF ExpireEnd, TypeOK
  <2>2. /\ gTimerOnRequests' \in Nat /\ pending' \in Nat
        /\ pc' \in NotRunning .. kLedEnd
    BY <1>4, LedAssumption, SMT DEF ExpireEnd, ledTimerStart, TypeOK, NotRunning
  <2> QED  BY <1>4, <2>1, <2>2 DEF ExpireEnd, TypeOK
<1>5. CASE UNCHANGED vars
  BY <1>5 DEF vars, TypeOK
<1> QED  BY <1>1, <1>2, <1>3, <1>4, <1>5 DEF Next

(***************************************************************************)
(* Type correctness; in particular blinkCountDown never runs below zero.   *)
(***************************************************************************)
THEOREM TypeCorrect == Spec => []TypeOK
  BY InitType, NextType, PTL DEF Spec

-----------------------------------------------------------------------------
(***************************************************************************)
(* The timer protocol.  TimerOnce alone is inductive; BlinkersServed needs *)
(* it (a caller that finds gTimerOn FALSE may rely on the handler not      *)
(* running), and NoStrandedRequest comes with both.                        *)
(***************************************************************************)
TimerInv == TypeOK /\ TimerOnce /\ BlinkersServed /\ NoStrandedRequest

\* A call of boardLedCtrl keeps the timer protocol.
LEMMA CtrlTimer ==
  ASSUME TimerInv, NEW l \in Leds, NEW s \in CtrlStates, boardLedCtrl(l, s)
  PROVE  TimerOnce' /\ BlinkersServed' /\ NoStrandedRequest'
<1> DEFINE st == Shown(l, s)
           n  == IF st \in Blinking THEN gTimerOnRequests + 1 ELSE gTimerOnRequests
<1> USE DEF TimerInv
<1>1. n \in Nat /\ (st \in Blinking => n > 0) /\ n >= gTimerOnRequests
  BY DEF TypeOK
<1>2. /\ StartTimerFor(n)
      /\ ledState' = [ledState EXCEPT ![l] = st]
      /\ pc' = pc
  BY DEF boardLedCtrl
<1> HIDE DEF n, st
<1>3. CASE gTimerOn
  <2>1. gTimerOnRequests' = n /\ gTimerOn' = gTimerOn /\ pending' = pending
    BY <1>2, <1>3 DEF StartTimerFor
  <2>2. TimerOnce' /\ NoStrandedRequest'
    BY <1>2, <1>3, <2>1 DEF TimerOnce, NoStrandedRequest, Running
  <2>3. BlinkersServed'
    <3> SUFFICES ASSUME NEW k \in Leds, ledState'[k] \in Blinking
                 PROVE  gTimerOn' /\ (pc' > k => gTimerOnRequests' > 0)
      BY DEF BlinkersServed
    <3>1. CASE k = l
      BY <1>1, <1>2, <1>3, <2>1, <3>1 DEF TypeOK
    <3>2. CASE k # l
      <4>1. ledState[k] \in Blinking
        BY <1>2, <3>2 DEF TypeOK
      <4> QED  BY <1>1, <1>2, <1>3, <2>1, <4>1 DEF BlinkersServed, TypeOK
    <3> QED  BY <3>1, <3>2
  <2> QED  BY <2>2, <2>3
<1>4. CASE ~gTimerOn
  <2>1. /\ pc = NotRunning /\ pending = 0 /\ gTimerOnRequests = 0
        /\ \A k \in Leds : ledState[k] \notin Blinking
    BY <1>4 DEF TimerOnce, NoStrandedRequest, BlinkersServed, Running
  <2>2. CASE n > 0
    <3>1. pending' = 1 /\ gTimerOn' = TRUE /\ gTimerOnRequests' = 0
      BY <1>2, <1>4, <2>1, <2>2 DEF StartTimerFor, ledTimerStart
    <3>2. \A k \in Leds : ~(pc' > k)
      BY <1>2, <2>1 DEF Leds, NotRunning
    <3> QED  BY <1>2, <2>1, <3>1, <3>2
             DEF TimerOnce, BlinkersServed, NoStrandedRequest, Running
  <2>3. CASE ~(n > 0)
    <3>1. pending' = 0 /\ gTimerOn' = FALSE /\ gTimerOnRequests' = 0
      BY <1>1, <1>2, <1>4, <2>1, <2>3 DEF StartTimerFor
    <3>2. \A k \in Leds : ledState'[k] \notin Blinking
      BY <1>1, <1>2, <2>1, <2>3 DEF TypeOK
    <3> QED  BY <1>2, <2>1, <3>1, <3>2
             DEF TimerOnce, BlinkersServed, NoStrandedRequest, Running
  <2> QED  BY <2>2, <2>3
<1> QED  BY <1>3, <1>4

\* ledTimerExpire at one LED keeps the timer protocol.
LEMMA ExpireTimer ==
  ASSUME TimerInv, ExpireLed
  PROVE  TimerOnce' /\ BlinkersServed' /\ NoStrandedRequest'
<1> USE DEF TimerInv
<1>1. /\ pc \in Leds /\ pc' = pc + 1
      /\ ledState' = ledState /\ gTimerOn' = gTimerOn /\ pending' = pending
  BY DEF ExpireLed
<1>2. gTimerOn /\ pc # NotRunning /\ pc' # NotRunning
  BY <1>1 DEF TimerOnce, Running, Leds, NotRunning
<1>3. /\ gTimerOnRequests' \in Nat
      /\ gTimerOnRequests' >= gTimerOnRequests
      /\ ledState[pc] \in Blinking => gTimerOnRequests' > 0
  <2>1. CASE ledState[pc] \in Blinking
    <3>1. ~ExpireSteady(pc) /\ ~ExpireInvalid(pc)
      BY <2>1 DEF ExpireSteady, ExpireInvalid, Blinking, Steady, WpsStates
    <3> QED  BY <3>1 DEF ExpireLed, ExpireBlinking, TypeOK
  <2>2. CASE ledState[pc] \notin Blinking
    <3>1. gTimerOnRequests' = gTimerOnRequests
      BY <2>2 DEF ExpireLed, ExpireSteady, ExpireBlinking, ExpireInvalid
    <3> QED  BY <2>2, <3>1 DEF TypeOK
  <2> QED  BY <2>1, <2>2
<1>4. TimerOnce' /\ NoStrandedRequest'
  BY <1>1, <1>2 DEF TimerOnce, NoStrandedRequest, Running
<1>5. BlinkersServed'
  <2> SUFFICES ASSUME NEW k \in Leds, ledState[k] \in Blinking, pc + 1 > k
               PROVE  gTimerOnRequests' > 0
    BY <1>1, <1>2 DEF BlinkersServed
  <2>1. CASE k = pc
    BY <1>3, <2>1
  <2>2. CASE k # pc
    <3>1. pc > k
      BY <1>1, <2>2, LedAssumption DEF Leds
    <3> QED  BY <1>3, <3>1 DEF BlinkersServed, TypeOK
  <2> QED  BY <2>1, <2>2
<1> QED  BY <1>4, <1>5

\* The final decision of ledTimerExpire keeps the timer protocol: it may let
\* the timer rest because an unserved blinking LED would have left a request.
LEMMA EndTimer ==
  ASSUME TimerInv, ExpireEnd
  PROVE  TimerOnce' /\ BlinkersServed' /\ NoStrandedRequest'
<1> USE DEF TimerInv
<1>1. /\ pc = kLedEnd /\ pc' = NotRunning /\ ledState' = ledState
      /\ gTimerOn /\ pending = 0
  BY LedAssumption DEF ExpireEnd, TimerOnce, Running, NotRunning
<1>2. \A k \in Leds : pc > k /\ ~(pc' > k)
  BY <1>1, LedAssumption DEF Leds, NotRunning
<1>3. CASE gTimerOnRequests > 0
  <2>1. pending' = 1 /\ gTimerOn' = gTimerOn /\ gTimerOnRequests' = 0
    BY <1>1, <1>3 DEF ExpireEnd, ledTimerStart
  <2> QED  BY <1>1, <1>2, <2>1 DEF TimerOnce, BlinkersServed, NoStrandedRequest, Running
<1>4. CASE ~(gTimerOnRequests > 0)
  <2>1. pending' = 0 /\ gTimerOn' = FALSE /\ gTimerOnRequests' = 0
    BY <1>1, <1>4 DEF ExpireEnd, TypeOK
  <2>2. \A k \in Leds : ledState[k] \notin Blinking
    BY <1>2, <1>4 DEF BlinkersServed
  <2> QED  BY <1>1, <2>1, <2>2 DEF TimerOnce, BlinkersServed, NoStrandedRequest, Running
<1> QED  BY <1>3, <1>4

\* The timer softirq calling ledTimerExpire keeps the timer protocol.
LEMMA FiresTimer ==
  ASSUME TimerInv, TimerFires
  PROVE  TimerOnce' /\ BlinkersServed' /\ NoStrandedRequest'
<1> USE DEF TimerInv
<1>1. /\ gTimerOn /\ pending = 1 /\ pending' = 0 /\ pc' = 0
      /\ gTimerOn' = gTimerOn /\ ledState' = ledState
      /\ gTimerOnRequests' = gTimerOnRequests
  BY DEF TimerFires, TimerOnce, Running
<1>2. pc' # NotRunning /\ \A k \in Leds : ~(pc' > k)
  BY <1>1, LedAssumption DEF NotRunning, Leds
<1> QED  BY <1>1, <1>2 DEF TimerOnce, BlinkersServed, NoStrandedRequest, Running

\* Every step keeps the timer protocol.
LEMMA NextTimer == TimerInv /\ [Next]_vars => TimerInv'
<1> SUFFICES ASSUME TimerInv, [Next]_vars PROVE TimerInv'
  OBVIOUS
<1>1. TypeOK'
  BY NextType DEF TimerInv
<1>2. CASE \E l \in Leds, s \in CtrlStates : boardLedCtrl(l, s)
  BY <1>1, <1>2, CtrlTimer DEF TimerInv
<1>3. CASE TimerFires
  BY <1>1, <1>3, FiresTimer DEF TimerInv
<1>4. CASE ExpireLed
  BY <1>1, <1>4, ExpireTimer DEF TimerInv
<1>5. CASE ExpireEnd
  BY <1>1, <1>5, EndTimer DEF TimerInv
<1>6. CASE UNCHANGED vars
  BY <1>1, <1>6 DEF vars, TimerInv, TimerOnce, BlinkersServed, NoStrandedRequest, Running
<1> QED  BY <1>2, <1>3, <1>4, <1>5, <1>6 DEF Next

\* boardLedInit establishes the timer protocol.
LEMMA InitTimer == boardLedInit => TimerInv
<1> SUFFICES ASSUME boardLedInit PROVE TimerInv
  OBVIOUS
<1>1. TimerOnce /\ NoStrandedRequest
  BY DEF boardLedInit, TimerOnce, NoStrandedRequest, Running
<1>2. BlinkersServed
  BY DEF boardLedInit, BlinkersServed, Blinking, WpsStates
<1> QED  BY <1>1, <1>2, InitType DEF TimerInv

(***************************************************************************)
(* gLedTimer is queued at most once and never while its handler runs, and  *)
(* gTimerOn tells exactly when it is queued or running.                    *)
(***************************************************************************)
THEOREM TimerOnceHolds == Spec => []TimerOnce
<1>1. TimerInv => TimerOnce
  BY DEF TimerInv
<1> QED  BY <1>1, InitTimer, NextTimer, PTL DEF Spec

(***************************************************************************)
(* No blinking LED is ever left without a timer, whatever the interleaving *)
(* of callers with the handler.                                            *)
(***************************************************************************)
THEOREM BlinkersServedHolds == Spec => []BlinkersServed
<1>1. TimerInv => BlinkersServed
  BY DEF TimerInv
<1> QED  BY <1>1, InitTimer, NextTimer, PTL DEF Spec

(***************************************************************************)
(* No request outlives the timer.                                          *)
(***************************************************************************)
THEOREM NoStrandedRequestHolds == Spec => []NoStrandedRequest
<1>1. TimerInv => NoStrandedRequest
  BY DEF TimerInv
<1> QED  BY <1>1, InitTimer, NextTimer, PTL DEF Spec

-----------------------------------------------------------------------------
(* What a steady LED shows. *)

\* A call of boardLedCtrl leaves every LED showing its state.
LEMMA CtrlShown ==
  ASSUME TypeOK, SteadyShown, NEW l \in Leds, NEW s \in CtrlStates, boardLedCtrl(l, s)
  PROVE  SteadyShown'
<1> DEFINE st == Shown(l, s)
<1>1. /\ ledState' = [ledState EXCEPT ![l] = st]
      /\ setLed(l, st = "On")
      /\ red' = [red EXCEPT ![l] = (st = "Fail")]
  BY DEF boardLedCtrl
<1>0. st = "Fail" => l \in RedLeds
  BY DEF Shown
<1> HIDE DEF st
<1> SUFFICES ASSUME NEW k \in Leds
             PROVE  /\ ledState'[k] = "On" => (green'[k] <=> k \in GreenLeds)
                    /\ ledState'[k] \in {"Off", "Fail"} => ~green'[k]
                    /\ red'[k] <=> ledState'[k] = "Fail"
                    /\ green'[k] => k \in GreenLeds
                    /\ red'[k] => k \in RedLeds
  BY DEF SteadyShown
<1>2. CASE k = l
  <2>1. ledState'[k] = st /\ (red'[k] <=> st = "Fail")
    BY <1>1, <1>2 DEF TypeOK
  <2>2. CASE l \in GreenLeds
    <3>1. green'[k] <=> st = "On"
      BY <1>1, <1>2, <2>2 DEF setLed, TypeOK
    <3> QED  BY <1>0, <1>2, <2>1, <2>2, <3>1
  <2>3. CASE l \notin GreenLeds
    <3>1. ~green'[k]
      BY <1>1, <1>2, <2>3 DEF setLed, SteadyShown
    <3> QED  BY <1>0, <1>2, <2>1, <2>3, <3>1
  <2> QED  BY <2>2, <2>3
<1>3. CASE k # l
  <2>1. ledState'[k] = ledState[k] /\ red'[k] = red[k] /\ green'[k] = green[k]
    BY <1>1, <1>3 DEF setLed, TypeOK
  <2> QED  BY <2>1 DEF SteadyShown
<1> QED  BY <1>2, <1>3

\* ledTimerExpire changes the light of no LED but a blinking one.
LEMMA ExpireShown ==
  ASSUME TypeOK, SteadyShown, ExpireLed
  PROVE  SteadyShown'
<1>1. pc \in Leds /\ ledState' = ledState /\ red' = red
  BY DEF ExpireLed
<1>2. CASE green' = green
  BY <1>1, <1>2 DEF SteadyShown
<1>3. CASE green' # green
  <2>1. ExpireBlinking(pc) /\ BlinkElapsed(pc)
    BY <1>3 DEF ExpireLed, ExpireSteady, ExpireInvalid, ExpireBlinking
  <2>2. ledState[pc] \in Blinking
    BY <2>1 DEF ExpireBlinking
  <2>3. PICK b \in BOOLEAN : pc \in GreenLeds /\ green' = [green EXCEPT ![pc] = b]
    BY <1>1, <1>3, <2>1 DEF BlinkElapsed, ledToggle, setLed, TypeOK
  <2>4. \A k \in Leds : k # pc => green'[k] = green[k]
    BY <2>3 DEF TypeOK
  <2>5. ledState[pc] \notin {"On", "Off", "Fail"}
    BY <2>2 DEF Blinking, WpsStates
  <2> QED  BY <1>1, <2>3, <2>4, <2>5 DEF SteadyShown
<1> QED  BY <1>2, <1>3

(***************************************************************************)
(* Every steady LED shows its state after every step of callers and        *)
(* handler.                                                                *)
(***************************************************************************)
THEOREM SteadyShownHolds == Spec => []SteadyShown
<1> DEFINE Inv == TypeOK /\ SteadyShown
<1>1. boardLedInit => Inv
  <2>1. boardLedInit => SteadyShown
    BY DEF boardLedInit, SteadyShown
  <2> QED  BY <2>1, InitType
<1>2. Inv /\ [Next]_vars => Inv'
  <2> SUFFICES ASSUME TypeOK, SteadyShown, [Next]_vars PROVE SteadyShown'
    BY NextType
  <2>1. CASE \E l \in Leds, s \in CtrlStates : boardLedCtrl(l, s)
    BY <2>1, CtrlShown
  <2>2. CASE ExpireLed
    BY <2>2, ExpireShown
  <2>3. CASE TimerFires \/ ExpireEnd \/ UNCHANGED vars
    BY <2>3 DEF TimerFires, ExpireEnd, vars, SteadyShown
  <2> QED  BY <2>1, <2>2, <2>3 DEF Next
<1>3. Inv => SteadyShown
  OBVIOUS
<1> QED  BY <1>1, <1>2, <1>3, PTL DEF Spec

\* A call of boardLedCtrl that sets a session-overlap LED loads the fast count.
LEMMA CtrlPause ==
  ASSUME TypeOK, OverLapPauseDark, NEW l \in Leds, NEW s \in CtrlStates, boardLedCtrl(l, s)
  PROVE  OverLapPauseDark'
<1> DEFINE st == Shown(l, s)
           cd == IF st = "SlowBlink" THEN kSlowBlinkCount
                 ELSE IF st \in Blinking THEN kFastBlinkCount
                 ELSE blinkCountDown[l]
<1>1. /\ ledState' = [ledState EXCEPT ![l] = st]
      /\ setLed(l, st = "On")
      /\ blinkCountDown' = [blinkCountDown EXCEPT ![l] = cd]
  BY DEF boardLedCtrl
<1>2. st = "WpsSessionOverLap" => cd = kFastBlinkCount
  BY DEF Blinking, WpsStates
<1> HIDE DEF st, cd
<1> SUFFICES ASSUME NEW k \in Leds, ledState'[k] = "WpsSessionOverLap",
                    blinkCountDown'[k] > kFastBlinkCount
             PROVE  ~green'[k]
  BY DEF OverLapPauseDark, kFastBlinkCount
<1>3. k # l
  BY <1>1, <1>2 DEF TypeOK, kFastBlinkCount
<1>4. /\ ledState'[k] = ledState[k] /\ blinkCountDown'[k] = blinkCountDown[k]
      /\ green'[k] = green[k]
  BY <1>1, <1>3 DEF setLed, TypeOK
<1> QED  BY <1>4 DEF OverLapPauseDark

\* ledTimerExpire turns the light off with the reload that starts the pause,
\* and while it counts down it leaves the light alone.
LEMMA ExpirePause ==
  ASSUME TypeOK, SteadyShown, OverLapPauseDark, ExpireLed
  PROVE  OverLapPauseDark'
<1>1. pc \in Leds /\ ledState' = ledState
  BY DEF ExpireLed
<1>2. \A k \in Leds : k # pc => green'[k] = green[k] /\ blinkCountDown'[k] = blinkCountDown[k]
  BY <1>1 DEF ExpireLed, ExpireSteady, ExpireInvalid, ExpireBlinking, BlinkElapsed,
              ledToggle, setLed, TypeOK
<1> SUFFICES ASSUME ledState[pc] = "WpsSessionOverLap",
                    blinkCountDown'[pc] > kFastBlinkCount
             PROVE  ~green'[pc]
  BY <1>1, <1>2 DEF OverLapPauseDark
<1>3. ExpireBlinking(pc)
  BY DEF ExpireLed, ExpireSteady, ExpireInvalid, Steady
<1>4. CASE blinkCountDown[pc] = 0
  <2>1. BlinkElapsed(pc)
    BY <1>3, <1>4 DEF ExpireBlinking
  <2>2. setLed(pc, FALSE)
    <3>1. IF NextCounter % 10 = 0
          THEN setLed(pc, FALSE)
          ELSE blinkCountDown' = [blinkCountDown EXCEPT ![pc] = kFastBlinkCount]
      BY <2>1 DEF BlinkElapsed
    <3>2. blinkCountDown' # [blinkCountDown EXCEPT ![pc] = kFastBlinkCount]
      BY <1>1 DEF TypeOK, kFastBlinkCount
    <3> QED  BY <3>1, <3>2
  <2>3. green[pc] => pc \in GreenLeds
    BY <1>1 DEF SteadyShown
  <2> QED  BY <1>1, <2>2, <2>3 DEF setLed, TypeOK
<1>5. CASE blinkCountDown[pc] # 0
  <2>1. green' = green /\ blinkCountDown[pc] > kFastBlinkCount
    BY <1>1, <1>3, <1>5 DEF ExpireBlinking, TypeOK, kFastBlinkCount, kOverLapPause
  <2> QED  BY <1>1, <2>1 DEF OverLapPauseDark
<1> QED  BY <1>4, <1>5

(***************************************************************************)
(* The 500 ms pause of a session-overlap LED is dark, for any number of    *)
(* LEDs sharing gLedRunningCounter.                                        *)
(***************************************************************************)
THEOREM OverLapPauseDarkHolds == Spec => []OverLapPauseDark
<1>1. boardLedInit => OverLapPauseDark
  BY DEF boardLedInit, OverLapPauseDark
<1>2. TypeOK /\ SteadyShown /\ OverLapPauseDark /\ [Next]_vars => OverLapPauseDark'
  <2> SUFFICES ASSUME TypeOK, SteadyShown, OverLapPauseDark, [Next]_vars
               PROVE  OverLapPauseDark'
    OBVIOUS
  <2>1. CASE \E l \in Leds, s \in CtrlStates : boardLedCtrl(l, s)
    BY <2>1, CtrlPause
  <2>2. CASE ExpireLed
    BY <2>2, ExpirePause
  <2>3. CASE TimerFires \/ ExpireEnd \/ UNCHANGED vars
    BY <2>3 DEF TimerFires, ExpireEnd, vars, OverLapPauseDark
  <2> QED  BY <2>1, <2>2, <2>3 DEF Next
<1> QED  BY <1>1, <1>2, TypeCorrect, SteadyShownHolds, PTL DEF Spec
-----------------------------------------------------------------------------
(* The phases of a WPS-in-progress LED.  They need one fact more: a WPS    *)
(* state is found only on the LEDs callers put into one.                   *)

WpsOnWpsLeds == \A l \in Leds : ledState[l] \in WpsStates => l \in WpsLeds

OneWpsLed == \A l, m \in WpsLeds : l = m

PhaseInv == TypeOK /\ WpsOnWpsLeds /\ WpsInProgressPhase

\* The wrap of gLedRunningCounter keeps the phases alternating: its range is even.
LEMMA CounterAlternates ==
  ASSUME NEW c \in 0 .. (CounterSpan - 1)
  PROVE  ((c + 1) % CounterSpan) % 2 = 1 <=> c % 2 # 1
<1>1. CounterSpan \in Nat /\ CounterSpan >= 10 /\ CounterSpan % 2 = 0
  BY LedAssumption
<1>2. CASE c = CounterSpan - 1
  <2>1. (c + 1) % CounterSpan = 0
    BY <1>1, <1>2
  <2>2. c % 2 = 1
    BY <1>1, <1>2
  <2> QED  BY <2>1, <2>2
<1>3. CASE c # CounterSpan - 1
  <2>1. (c + 1) % CounterSpan = c + 1
    BY <1>1, <1>3
  <2> QED  BY <2>1
<1> QED  BY <1>2, <1>3

\* boardLedCtrl starts the phases of a WPS-in-progress LED in the dark one, and
\* with one WPS LED it resets the counter under no other.
LEMMA CtrlPhase ==
  ASSUME PhaseInv, OneWpsLed, NEW l \in Leds, NEW s \in CtrlStates, boardLedCtrl(l, s)
  PROVE  WpsOnWpsLeds' /\ WpsInProgressPhase'
<1> DEFINE st == Shown(l, s)
           cd == IF st = "SlowBlink" THEN kSlowBlinkCount
                 ELSE IF st \in Blinking THEN kFastBlinkCount
                 ELSE blinkCountDown[l]
<1> USE DEF PhaseInv
<1>1. /\ ledState' = [ledState EXCEPT ![l] = st]
      /\ setLed(l, st = "On")
      /\ blinkCountDown' = [blinkCountDown EXCEPT ![l] = cd]
      /\ gLedRunningCounter' =
           IF st \in {"WpsInProgress", "WpsError"} THEN 0 ELSE gLedRunningCounter
  BY DEF boardLedCtrl
<1>2. st \in WpsStates => l \in WpsLeds
  BY DEF boardLedCtrl, Shown, WpsStates
<1>3. st = "WpsInProgress" => cd = kFastBlinkCount
  BY DEF Blinking, WpsStates
<1> HIDE DEF st, cd
<1>4. WpsOnWpsLeds'
  BY <1>1, <1>2 DEF WpsOnWpsLeds, TypeOK
<1>5. WpsInProgressPhase'
  <2> SUFFICES ASSUME NEW k \in GreenLeds, ledState'[k] = "WpsInProgress"
               PROVE  /\ green'[k] <=> (gLedRunningCounter' % 2 = 1)
                      /\ blinkCountDown'[k] <=
                           (IF green'[k] THEN kSlowBlinkCount ELSE kFastBlinkCount)
    BY DEF WpsInProgressPhase, kSlowBlinkCount, kFastBlinkCount
  <2>0. k \in Leds
    BY LedAssumption
  <2>1. CASE k = l
    <3>1. st = "WpsInProgress"
      BY <1>1, <2>0, <2>1 DEF TypeOK
    <3>2. ~green'[k]
      BY <1>1, <2>0, <2>1, <3>1 DEF setLed, TypeOK
    <3>3. gLedRunningCounter' = 0
      BY <1>1, <3>1
    <3>4. blinkCountDown'[k] = kFastBlinkCount
      BY <1>1, <1>3, <2>0, <2>1, <3>1 DEF TypeOK
    <3> QED  BY <3>2, <3>3, <3>4 DEF kFastBlinkCount
  <2>2. CASE k # l
    <3>1. /\ ledState[k] = "WpsInProgress" /\ blinkCountDown'[k] = blinkCountDown[k]
          /\ green'[k] = green[k]
      BY <1>1, <2>0, <2>2 DEF setLed, TypeOK
    <3>2. st \notin WpsStates
      BY <1>2, <2>0, <2>2, <3>1 DEF WpsOnWpsLeds, OneWpsLed, WpsStates
    <3>3. gLedRunningCounter' = gLedRunningCounter
      BY <1>1, <3>2 DEF WpsStates
    <3> QED  BY <3>1, <3>3 DEF WpsInProgressPhase
  <2> QED  BY <2>1, <2>2
<1> QED  BY <1>4, <1>5

\* ledTimerExpire toggles light and counter together, and reloads the longer
\* countdown with the light.
LEMMA ExpirePhase ==
  ASSUME PhaseInv, OneWpsLed, ExpireLed
  PROVE  WpsInProgressPhase'
<1> USE DEF PhaseInv
<1>1. pc \in Leds /\ ledState' = ledState
  BY DEF ExpireLed
<1>2. \A k \in Leds : k # pc => green'[k] = green[k] /\ blinkCountDown'[k] = blinkCountDown[k]
  BY <1>1 DEF ExpireLed, ExpireSteady, ExpireInvalid, ExpireBlinking, BlinkElapsed,
              ledToggle, setLed, TypeOK
<1>3. ledState[pc] \notin WpsStates => gLedRunningCounter' = gLedRunningCounter
  BY DEF ExpireLed, ExpireSteady, ExpireInvalid, ExpireBlinking, BlinkElapsed, WpsStates
<1> SUFFICES ASSUME NEW k \in GreenLeds, ledState[k] = "WpsInProgress"
             PROVE  /\ green'[k] <=> (gLedRunningCounter' % 2 = 1)
                    /\ blinkCountDown'[k] <=
                         (IF green'[k] THEN kSlowBlinkCount ELSE kFastBlinkCount)
  BY <1>1 DEF WpsInProgressPhase, kSlowBlinkCount, kFastBlinkCount
<1>0. k \in Leds
  BY LedAssumption
<1>4. /\ green[k] <=> (gLedRunningCounter % 2 = 1)
      /\ blinkCountDown[k] <= (IF green[k] THEN kSlowBlinkCount ELSE kFastBlinkCount)
  BY DEF WpsInProgressPhase
<1>5. CASE k # pc
  <2>1. ledState[pc] \notin WpsStates
    BY <1>0, <1>1, <1>5 DEF WpsOnWpsLeds, OneWpsLed, WpsStates
  <2> QED  BY <1>0, <1>2, <1>3, <1>4, <1>5, <2>1
<1>6. CASE k = pc
  <2>1. ExpireBlinking(k)
    BY <1>6 DEF ExpireLed, ExpireSteady, ExpireInvalid, Steady
  <2>2. CASE blinkCountDown[k] = 0
    <3>1. /\ blinkCountDown' = [blinkCountDown EXCEPT ![k] =
                 IF gLedRunningCounter % 2 = 1 THEN kFastBlinkCount ELSE kSlowBlinkCount]
          /\ ledToggle(k)
          /\ gLedRunningCounter' = (gLedRunningCounter + 1) % CounterSpan
      BY <2>1, <2>2 DEF ExpireBlinking, BlinkElapsed, NextCounter
    <3>2. green'[k] <=> ~green[k]
      BY <1>0, <3>1 DEF ledToggle, TypeOK
    <3>3. blinkCountDown'[k] =
            IF gLedRunningCounter % 2 = 1 THEN kFastBlinkCount ELSE kSlowBlinkCount
      BY <1>0, <3>1 DEF TypeOK
    <3>4. gLedRunningCounter' % 2 = 1 <=> gLedRunningCounter % 2 # 1
      BY <3>1, CounterAlternates DEF TypeOK
    <3> QED  BY <1>4, <3>2, <3>3, <3>4 DEF kSlowBlinkCount, kFastBlinkCount
  <2>3. CASE blinkCountDown[k] # 0
    <3>1. /\ green' = green /\ gLedRunningCounter' = gLedRunningCounter
          /\ blinkCountDown'[k] = blinkCountDown[k] - 1 /\ blinkCountDown[k] \in Nat
      BY <1>0, <2>1, <2>3 DEF ExpireBlinking, TypeOK, kOverLapPause
    <3> QED  BY <1>4, <3>1 DEF kSlowBlinkCount, kFastBlinkCount
  <2> QED  BY <2>2, <2>3
<1> QED  BY <1>5, <1>6

(***************************************************************************)
(* With one WPS LED, as on this board ("only used by WLAN"), the light of  *)
(* a WPS-in-progress LED is on exactly in the odd phases of the counter    *)
(* and the longer countdown belongs to the lit phase, across the wrap of   *)
(* the counter and whatever callers do to the other LEDs.                  *)
(***************************************************************************)
THEOREM WpsInProgressPhaseHolds == OneWpsLed /\ Spec => []WpsInProgressPhase
<1> SUFFICES ASSUME OneWpsLed PROVE Spec => []WpsInProgressPhase
  OBVIOUS
<1>1. boardLedInit => PhaseInv
  <2>1. boardLedInit => WpsOnWpsLeds /\ WpsInProgressPhase
    BY LedAssumption DEF boardLedInit, WpsOnWpsLeds, WpsInProgressPhase, WpsStates
  <2> QED  BY <2>1, InitType DEF PhaseInv
<1>2. PhaseInv /\ [Next]_vars => PhaseInv'
  <2> SUFFICES ASSUME PhaseInv, [Next]_vars PROVE WpsOnWpsLeds' /\ WpsInProgressPhase'
    BY NextType DEF PhaseInv
  <2>1. CASE \E l \in Leds, s \in CtrlStates : boardLedCtrl(l, s)
    BY <2>1, CtrlPhase
  <2>2. CASE ExpireLed
    <3>1. WpsOnWpsLeds'
      BY <2>2 DEF ExpireLed, WpsOnWpsLeds, PhaseInv
    <3> QED  BY <2>2, <3>1, ExpirePhase
  <2>3. CASE TimerFires \/ ExpireEnd \/ UNCHANGED vars
    BY <2>3 DEF TimerFires, ExpireEnd, vars, WpsOnWpsLeds, WpsInProgressPhase, PhaseInv
  <2> QED  BY <2>1, <2>2, <2>3 DEF Next
<1>3. PhaseInv => WpsInProgressPhase
  BY DEF PhaseInv
<1> QED  BY <1>1, <1>2, <1>3, PTL DEF Spec
=============================================================================
