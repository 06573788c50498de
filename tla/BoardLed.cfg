SPECIFICATION FairSpec
CONSTANTS
  kLedEnd = 2
  GreenLeds = {0, 1}
  RedLeds = {1}
  WpsLeds = {0}
  CtrlStates = {"On", "Off", "Fail", "SlowBlink", "FastBlink", "WpsInProgress", "WpsError", "WpsSessionOverLap", "Invalid"}
  CounterSpan = 16
  MaxRequests = 2
INVARIANTS TypeOK TimerOnce BlinkersServed NoStrandedRequest SteadyShown WpsInProgressPhase OverLapPauseDark
PROPERTIES KeepsBlinking TimerRests
