SPECIFICATION TailSpec
CONSTANTS
  th = th
  h1 = h1
  Tokens = {}
  Threads <- MCThreads
  Hashes <- MCHashes
  Kinds <- MCKind
  FrameLen <- MCFrame
  CheckpointLen = 1
  SegmentLimit = 1
  MaxSegment = 2
  MaxEntries = 4
  Env = {"compact"}
  ReadErrors = FALSE
INVARIANTS
  NoRecordSkipped
  ExactlyOnce
  ViewIsReplay
