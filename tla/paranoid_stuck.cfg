CONSTANTS
  Tasks <- DiskTasks
  Devices <- DiskDevices
  Disk <- DiskOf
  Before <- DiskBefore
  Later <- DiskLater
  Waits <- DiskWaits
  Rounds <- DiskRounds
  Workers <- DiskWorkers
  ThreadsPerDisk = 2
  Quota = 1
  w1 = w1  w2 = w2
  f1 = f1  f2 = f2  f3 = f3  f4 = f4  f5 = f5  f6 = f6  f7 = f7
  t1 = t1  t2 = t2  p1 = p1  p2 = p2
  Parts = {"memory"}
  Memory <- LargeFiles
SPECIFICATION MCFairSpec
PROPERTY SessionCompletes
