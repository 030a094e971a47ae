SPECIFICATION Spec
CONSTANTS
  Inodes = {f1, f2}
  Data = {d1, d2}
  NoData = NoData
  Writers = {w1}
  Readers = {r1}
  RingSize = 2
  Promotion = 1
  PromoteAt = 1
  QueueMax = 1
  Workers = 2
  Faults = {"pack", "located", "torn"}
  MaxHandle = 3
  MaxCrashes = 1
  MaxFaults = 1
SYMMETRY Symmetric
INVARIANTS TypeOK ReadsWhatWasWritten FrozenViewResolves FreezeFindsNothing HeldCellsStay CountsAreReferences SealedPacksLanded
