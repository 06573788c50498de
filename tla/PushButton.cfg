SPECIFICATION Spec
CONSTANTS
  Hooks = {h1}
  MaxTime = 2
  MAX_BTN_HOOKS_PER_TRIG = 3
  HoldChangesWhileDown = FALSE
INVARIANTS TypeOK OrderedByTimeout HeldIdxInRange MostRecentReleased
PROPERTIES HoldHooksOnce
