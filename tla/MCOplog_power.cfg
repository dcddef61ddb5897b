SPECIFICATION Spec
CONSTANTS
  t1 = t1
  th = th
  h1 = h1
  Tokens <- MCTokens
  Threads <- MCThreads
  Hashes <- MCHashes
  Kinds <- MCKinds
  FrameLen <- MCFrames
  CheckpointLen = 1
  SegmentLimit = 3
  MaxSegment = 1
  MaxEntries = 4
  Env = {"power_loss", "sync_error", "create_error"}
INVARIANTS
  AnnouncedSurvives
  RevsNeverReused
  WriterMatchesDisk
  FlushBarrier
PROPERTIES
  ImplementsDurableLog
