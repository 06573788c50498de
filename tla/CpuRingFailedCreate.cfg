SPECIFICATION Spec
CONSTANTS
  Bufs = {b1, b2, b3, b4, b5}
  NoBuf = NoBuf
  MaxEntries = 3
  MAX_BUFS_IN_CACHE = 2
  MaxPkts = 4
  MemFails = TRUE
  FlushRaces = FALSE
SYMMETRY BufSymmetry
INVARIANTS ExistingRingIsLive
