SPECIFICATION Spec
CONSTANTS
  MaxCount = 4
  MaxMisorder = 4
  MaxDropout = 5
  InitCycle = 2
  StableLimit = 1
  MinShrinkGap = 2
  MaxBurst = 3
  DiscT1 = 2
  DiscT2 = 6
  DiscMinBurst = 1
  DiscMaxBurst = 3
  Ptime = 1
  LevelCap = 4
  SeqMod = 16
  RtpDropout = 5
  RtpMisorder = 4
  MinSequential = 2
  Streams <- MCStreams
  First = 12
  LastPacket = 20
  PictureSize = 2
INVARIANTS
  RingConsistent
  HeldInOrder
  DiscardsApart
