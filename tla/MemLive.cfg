SPECIFICATION FairSpec
CONSTANTS
  Inodes = {f1}
  Data = {d1, d2}
  NoData = NoData
  Writers = {w1}
  Readers = {r1}
  RingSize = 2
  Promotion = 1
  PromoteAt = 1
  QueueMax = 1
  Workers = 2
  Faults = {"upload", "pack", "located"}
  MaxHandle = 3
  MaxCrashes = 0
  MaxFaults = 1
INVARIANTS SealedPacksLanded
PROPERTIES BlockedWriterReturns CheckpointEnds
