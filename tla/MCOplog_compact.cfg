SPECIFICATION Spec
CONSTANTS
  t1 = t1
  th = th
  h1 = h1
  Tokens <- MCTokens
  Threads <- MCThreads
  Hashes <- MCHashes
  Kinds <- MCKinds
  FrameLen <- MCFrames
  CheckpointLen = 1
  SegmentLimit = 3
  MaxSegment = 2
  MaxEntries = 4
  Env = {"compact", "create_error", "dirsync_error"}
PROPERTIES
  ImplementsDurableLog
