SPECIFICATION FairSpec
CONSTANTS
  RingSize = 3
  num_packets_to_read = 2
  Buffers = 7
  WFD_RING_MAX_BUFF_IN_CACHE = 2
INVARIANTS TypeOK WakeupPending MaskHandover FkbBuffersAccounted
PROPERTIES PacketsAttended
