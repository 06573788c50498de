SPECIFICATION Spec
CONSTANTS
  RmwRaces = FALSE
INVARIANTS HeldSincePress
