------------------------------ MODULE BoardLed ------------------------------
(***************************************************************************)
(* The board LED driver,                                                   *)
(* bcmdrivers/opensource/char/board/bcm963xx/impl1/bcm63xx_led.c.          *)
(*                                                                         *)
(* boardLedCtrl runs in any context, interrupt handlers included, and      *)
(* holds brcm_ledlock throughout: it is one step.  ledTimerExpire is the   *)
(* timer softirq: it takes brcm_ledlock once for each LED and once more    *)
(* for its final decision, so that calls of boardLedCtrl on the other core *)
(* fall between those steps.                                               *)
(***************************************************************************)
EXTENDS Integers

CONSTANTS
  kLedEnd,      \* number of LED names (BOARD_LED_NAME)
  GreenLeds,    \* LEDs with a green GPIO in the board parameters
  RedLeds,      \* LEDs with a failure (red) GPIO
  WpsLeds,      \* LEDs that callers put into one of the three WPS states
  CtrlStates,   \* the states callers ask for
  CounterSpan,  \* 2^32, the range of the unsigned gLedRunningCounter
  MaxRequests   \* bound: outstanding gTimerOnRequests at which callers pause

Leds == 0 .. (kLedEnd - 1)

\* BOARD_LED_STATE; "Invalid" stands for any value the switches do not list.
Steady     == {"On", "Off", "Fail"}
WpsStates  == {"WpsInProgress", "WpsError", "WpsSessionOverLap"}
Blinking   == {"SlowBlink", "FastBlink"} \cup WpsStates
LedStates  == Steady \cup Blinking \cup {"Invalid"}

ASSUME LedAssumption ==
  /\ kLedEnd \in Nat \ {0}
  /\ GreenLeds \subseteq Leds
  /\ RedLeds \subseteq Leds
  /\ WpsLeds \subseteq Leds
  /\ CtrlStates \subseteq LedStates
  /\ CounterSpan \in Nat /\ CounterSpan >= 10 /\ CounterSpan % 2 = 0
  /\ MaxRequests \in Nat

kFastBlinkCount == 0
kSlowBlinkCount == 1
kOverLapPause   == 4

VARIABLES
  ledState,            \* LED_CTRL.ledState
  blinkCountDown,      \* LED_CTRL.blinkCountDown
  green, red,          \* is the green (red) light of the LED lit
  gTimerOn,
  gTimerOnRequests,
  gLedRunningCounter,
  pending,             \* how many times gLedTimer is queued in the timer wheel
  pc                   \* LED ledTimerExpire looks at next; kLedEnd: its final
                       \* decision is next; NotRunning: it is not running

vars == <<ledState, blinkCountDown, green, red, gTimerOn, gTimerOnRequests,
          gLedRunningCounter, pending, pc>>

NotRunning == -1

TypeOK ==
  /\ ledState \in [Leds -> LedStates]
  /\ blinkCountDown \in [Leds -> 0 .. kOverLapPause]
  /\ green \in [Leds -> BOOLEAN]
  /\ red \in [Leds -> BOOLEAN]
  /\ gTimerOn \in BOOLEAN
  /\ gTimerOnRequests \in Nat
  /\ gLedRunningCounter \in 0 .. (CounterSpan - 1)
  /\ pending \in Nat
  /\ pc \in NotRunning .. kLedEnd

-----------------------------------------------------------------------------
\* boardLedInit: every LED off, the timer never started.
boardLedInit ==
  /\ ledState = [l \in Leds |-> "Off"]
  /\ blinkCountDown = [l \in Leds |-> 0]
  /\ green = [l \in Leds |-> FALSE]
  /\ red = [l \in Leds |-> FALSE]
  /\ gTimerOn = FALSE
  /\ gTimerOnRequests = 0
  /\ gLedRunningCounter = 0
  /\ pending = 0
  /\ pc = NotRunning

\* add_timer queues gLedTimer; queueing it while it is queued is a BUG_ON.
ledTimerStart == pending' = pending + 1

\* Mutant of setLed: turning a light off is forgotten.
MutSetLedOnOnly(l, on) ==
  green' = IF l \in GreenLeds THEN [green EXCEPT ![l] = @ \/ on] ELSE green

\* setLed on the green light: nothing happens where there is no GPIO.
setLed(l, on) ==
  green' = IF l \in GreenLeds THEN [green EXCEPT ![l] = on] ELSE green

\* ledToggle: only the green light can blink.
ledToggle(l) ==
  green' = IF l \in GreenLeds THEN [green EXCEPT ![l] = ~@] ELSE green

\* Mutants of StartTimerFor: the timer is started without a look at gTimerOn;
\* a request made while the timer is on is not recorded; one request is too few.
MutStartUnchecked(requests) ==
  IF requests > 0
  THEN ledTimerStart /\ gTimerOn' = TRUE /\ gTimerOnRequests' = 0
  ELSE gTimerOnRequests' = requests /\ UNCHANGED <<gTimerOn, pending>>

MutRequestDropped(requests) ==
  IF ~gTimerOn /\ requests > 0
  THEN ledTimerStart /\ gTimerOn' = TRUE /\ gTimerOnRequests' = 0
  ELSE UNCHANGED <<gTimerOn, gTimerOnRequests, pending>>

MutStartOffByOne(requests) ==
  IF ~gTimerOn /\ requests > 1
  THEN ledTimerStart /\ gTimerOn' = TRUE /\ gTimerOnRequests' = 0
  ELSE gTimerOnRequests' = requests /\ UNCHANGED <<gTimerOn, pending>>

\* The end of boardLedCtrl: start the timer unless it is queued or running.
StartTimerFor(requests) ==
  IF ~gTimerOn /\ requests > 0
  THEN ledTimerStart /\ gTimerOn' = TRUE /\ gTimerOnRequests' = 0
  ELSE gTimerOnRequests' = requests /\ UNCHANGED <<gTimerOn, pending>>

\* Mutant of Shown: the failure state is kept where there is no red GPIO.
MutShownAsIs(l, s) == s

\* Without a red GPIO a failure is shown by a slow blink.
Shown(l, s) == IF s = "Fail" /\ l \notin RedLeds THEN "SlowBlink" ELSE s

boardLedCtrl(l, s) ==
  LET st == Shown(l, s) IN
  /\ s \in WpsStates => l \in WpsLeds
  /\ st \in Blinking => gTimerOnRequests < MaxRequests
  /\ ledState' = [ledState EXCEPT ![l] = st]
  /\ setLed(l, st = "On")
  /\ red' = [red EXCEPT ![l] = (st = "Fail")]
  /\ blinkCountDown' =
       [blinkCountDown EXCEPT ![l] = IF st = "SlowBlink" THEN kSlowBlinkCount
                                     ELSE IF st \in Blinking THEN kFastBlinkCount
                                     ELSE @]
  /\ gLedRunningCounter' =
       IF st \in {"WpsInProgress", "WpsError"} THEN 0 ELSE gLedRunningCounter
  /\ StartTimerFor(IF st \in Blinking THEN gTimerOnRequests + 1
                                      ELSE gTimerOnRequests)
  /\ UNCHANGED pc

-----------------------------------------------------------------------------
\* The timer softirq takes gLedTimer off the wheel and calls ledTimerExpire.
TimerFires ==
  /\ pending > 0
  /\ pc = NotRunning
  /\ pending' = pending - 1
  /\ pc' = 0
  /\ UNCHANGED <<ledState, blinkCountDown, green, red, gTimerOn,
                 gTimerOnRequests, gLedRunningCounter>>

\* Mutant of ExpireSteady: a steady LED keeps the timer alive.
MutSteadyRequests(l) ==
  /\ ledState[l] \in Steady
  /\ blinkCountDown' = [blinkCountDown EXCEPT ![l] = 0]
  /\ gTimerOnRequests' = 1
  /\ UNCHANGED <<green, gLedRunningCounter>>

\* ledTimerExpire at an LED that is on, off or failed.
ExpireSteady(l) ==
  /\ ledState[l] \in Steady
  /\ blinkCountDown' = [blinkCountDown EXCEPT ![l] = 0]
  /\ UNCHANGED <<green, gLedRunningCounter, gTimerOnRequests>>

\* Mutant of NextCounter: the increment is forgotten.
MutCounterStuck == gLedRunningCounter

NextCounter == (gLedRunningCounter + 1) % CounterSpan

\* The countdown of a blinking LED has run out: light and reload.
BlinkElapsed(l) ==
  LET Reload(n) == blinkCountDown' = [blinkCountDown EXCEPT ![l] = n]
      s == ledState[l]
  IN
  \/ /\ s = "SlowBlink"
     /\ Reload(kSlowBlinkCount) /\ ledToggle(l) /\ UNCHANGED gLedRunningCounter
  \/ /\ s \in {"FastBlink", "WpsError"}
     /\ Reload(kFastBlinkCount) /\ ledToggle(l) /\ UNCHANGED gLedRunningCounter
  \/ /\ s = "WpsInProgress"
     /\ Reload(IF gLedRunningCounter % 2 = 1 THEN kFastBlinkCount
                                             ELSE kSlowBlinkCount)
     /\ ledToggle(l)
     /\ gLedRunningCounter' = NextCounter
  \/ /\ s = "WpsSessionOverLap"
     /\ gLedRunningCounter' = NextCounter
     /\ IF NextCounter % 10 = 0
        THEN Reload(kOverLapPause) /\ setLed(l, FALSE)
        ELSE Reload(kFastBlinkCount) /\ ledToggle(l)

\* Mutant of ExpireBlinking: the countdown is compared with one, not zero.
MutCountDownOffByOne(l) ==
  /\ ledState[l] \in Blinking
  /\ IF blinkCountDown[l] = 1
     THEN BlinkElapsed(l)
     ELSE /\ blinkCountDown' = [blinkCountDown EXCEPT ![l] = @ - 1]
          /\ UNCHANGED <<green, gLedRunningCounter>>
  /\ gTimerOnRequests' = gTimerOnRequests + 1

\* ledTimerExpire at a blinking LED.
ExpireBlinking(l) ==
  /\ ledState[l] \in Blinking
  /\ IF blinkCountDown[l] = 0
     THEN BlinkElapsed(l)
     ELSE /\ blinkCountDown' = [blinkCountDown EXCEPT ![l] = @ - 1]
          /\ UNCHANGED <<green, gLedRunningCounter>>
  /\ gTimerOnRequests' = gTimerOnRequests + 1

\* ledTimerExpire at an LED in a state it does not know.
ExpireInvalid(l) ==
  /\ ledState[l] = "Invalid"
  /\ UNCHANGED <<blinkCountDown, green, gLedRunningCounter, gTimerOnRequests>>

ExpireLed ==
  /\ pc \in Leds
  /\ ExpireSteady(pc) \/ ExpireBlinking(pc) \/ ExpireInvalid(pc)
  /\ pc' = pc + 1
  /\ UNCHANGED <<ledState, red, gTimerOn, pending>>

\* The final decision of ledTimerExpire: restart the timer or let it rest.
ExpireEnd ==
  /\ pc = kLedEnd
  /\ IF gTimerOnRequests > 0
     THEN ledTimerStart /\ gTimerOnRequests' = 0 /\ UNCHANGED gTimerOn
     ELSE gTimerOn' = FALSE /\ UNCHANGED <<gTimerOnRequests, pending>>
  /\ pc' = NotRunning
  /\ UNCHANGED <<ledState, blinkCountDown, green, red, gLedRunningCounter>>

-----------------------------------------------------------------------------
Next ==
  \/ \E l \in Leds, s \in CtrlStates : boardLedCtrl(l, s)
  \/ TimerFires
  \/ ExpireLed
  \/ ExpireEnd

Spec == boardLedInit /\ [][Next]_vars

\* The timer softirq runs when the timer is due and its loop always finishes.
FairSpec == Spec /\ WF_vars(TimerFires) /\ WF_vars(ExpireLed) /\ WF_vars(ExpireEnd)

-----------------------------------------------------------------------------
Running == pc # NotRunning

(***************************************************************************)
(* gTimerOn says what the comments of ledTimerExpire and boardLedCtrl      *)
(* claim of it: it is TRUE while gLedTimer is queued or its handler runs   *)
(* ("throughout this function, gTimerOn == TRUE"), and FALSE only once the *)
(* handler has finished without restarting.  Hence no caller ever queues a *)
(* timer that is queued, and no two handlers run.                          *)
(***************************************************************************)
TimerOnce ==
  /\ pending = (IF gTimerOn /\ ~Running THEN 1 ELSE 0)
  /\ Running => gTimerOn

(***************************************************************************)
(* No blinking LED is forgotten: while an LED blinks the timer is queued,  *)
(* or ledTimerExpire has yet to reach the LED, or it has left a request    *)
(* that the final decision will see.  boardLedCtrl on one core races       *)
(* ledTimerExpire on the other.                                            *)
(***************************************************************************)
BlinkersServed ==
  \A l \in Leds : ledState[l] \in Blinking =>
     /\ gTimerOn
     /\ (pc > l => gTimerOnRequests > 0)

\* A request is never left behind when the timer rests.
NoStrandedRequest == ~gTimerOn => gTimerOnRequests = 0

(***************************************************************************)
(* A steady LED shows its state, whatever the handler was doing when it    *)
(* was set: on is green, off is dark, fail is red.  Red is lit by nothing  *)
(* but a failure (a blinking LED is never red), and a light without a GPIO *)
(* is never lit.                                                           *)
(***************************************************************************)
SteadyShown ==
  \A l \in Leds :
     /\ ledState[l] = "On" => (green[l] <=> l \in GreenLeds)
     /\ ledState[l] \in {"Off", "Fail"} => ~green[l]
     /\ red[l] <=> ledState[l] = "Fail"
     /\ green[l] => l \in GreenLeds
     /\ red[l] => l \in RedLeds

(***************************************************************************)
(* "200ms on, 100ms off" (kLedStateUserWpsInProgress): the light is on     *)
(* exactly in the odd phases of gLedRunningCounter and the longer          *)
(* countdown belongs to the lit phase.  It rests on one LED using the      *)
(* counter at a time ("only used by WLAN").                                *)
(***************************************************************************)
WpsInProgressPhase ==
  \A l \in GreenLeds : ledState[l] = "WpsInProgress" =>
     /\ green[l] <=> (gLedRunningCounter % 2 = 1)
     /\ blinkCountDown[l] <= (IF green[l] THEN kSlowBlinkCount ELSE kFastBlinkCount)

(***************************************************************************)
(* The pause of a session-overlap LED ("off for 500ms") is dark: the       *)
(* countdown is above the fast one only after setLed turned the light off. *)
(***************************************************************************)
OverLapPauseDark ==
  \A l \in Leds : ledState[l] = "WpsSessionOverLap" /\ blinkCountDown[l] > kFastBlinkCount
                     => ~green[l]

(***************************************************************************)
(* An LED that is left blinking goes on and off for ever: the handler and  *)
(* the callers on the other core never let the timer die under it.         *)
(***************************************************************************)
KeepsBlinking ==
  \A l \in GreenLeds :
     (/\ <>[](ledState[l] \in Blinking)
      /\ <>[][\A s \in CtrlStates : ~boardLedCtrl(l, s)]_vars)
     => []<>green[l] /\ []<>~green[l]

(***************************************************************************)
(* Once no LED blinks the timer comes to rest: ledTimerExpire does not     *)
(* keep itself alive on requests that callers have since withdrawn.        *)
(***************************************************************************)
TimerRests ==
  <>[](\A l \in Leds : ledState[l] \notin Blinking) => <>[]~gTimerOn
=============================================================================
