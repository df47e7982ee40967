SPECIFICATION StoreSpec
CONSTANTS
  Cycles = {c1, c2}
  MaxSaves = 4
  MaxCrashes = 2
SYMMETRY CycleIds
INVARIANTS IndexedIsLoadable PruneCanResume
PROPERTY PruneKeepsRecent
CHECK_DEADLOCK FALSE
