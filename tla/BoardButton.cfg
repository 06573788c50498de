SPECIFICATION FairSpec
CONSTANTS
  RmwRaces = FALSE
INVARIANTS TypeOK PolledWhileActive
PROPERTIES ReleaseNoticed PressHandled
