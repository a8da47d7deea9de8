CONSTANTS
  Parts = {"sizes"}
  r1 = r1  r2 = r2
  f1 = f1  f2 = f2  f3 = f3
  Readers <- TwoReaders
  Tasks <- MCTasks
  Blocks <- MCBlocks
  Preadv = 2
  NumThreads = 2
  MaxBuffers = 4
  Files <- ThreeFiles
  FileSize = 42
  BalancedBytes = 1
  MaxFactor = 16
  Paranoid = TRUE
  ParanoidBytes = 4
  MaxInt = 17
SPECIFICATION MCSpec
INVARIANTS CallbackAgrees
