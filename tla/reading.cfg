CONSTANTS
  Parts = {"hasher", "sizes"}
  r1 = r1  r2 = r2
  f1 = f1  f2 = f2  f3 = f3
  Readers <- TwoReaders
  Tasks <- MCTasks
  Blocks <- MCBlocks
  Preadv = 2
  NumThreads = 2
  MaxBuffers = 4
  Files <- ThreeFiles
  FileSize = 85
  BalancedBytes = 2
  MaxFactor = 16
  Paranoid = TRUE
  ParanoidBytes = 85
  MaxInt = 34
SPECIFICATION MCFairSpec
INVARIANTS CallbackAgrees EqualIncrements DigestIsOfWholeRead BuffersAreReturned FreedWhenQuiet
PROPERTY ReadsComplete
