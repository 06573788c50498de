SPECIFICATION Spec
CONSTANTS
  Bufs = {b1, b2, b3, b4, b5}
  NoBuf = NoBuf
  MaxEntries = 3
  MAX_BUFS_IN_CACHE = 2
  MaxPkts = 4
  MemFails = FALSE
  FlushRaces = FALSE
SYMMETRY BufSymmetry
INVARIANTS TypeOK BufferConservation RingSync ExistingRingIsLive
PROPERTIES RingIsFifo
