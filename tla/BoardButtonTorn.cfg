SPECIFICATION Spec
CONSTANTS
  RmwRaces = TRUE
PROPERTIES ReleaseKept
