SPECIFICATION FairSpec
CONSTANTS
  Files <- MCFiles
  Devices <- MCDevices
  Disk <- MCDisk
  Blocks <- MCBlocks
  Content <- MCContent
  Meta <- MCMeta
  Config <- Options
  Rotational = {"hdd"}
  ThreadsPerDisk = 2
INVARIANTS TypeOK PendingIsExact NoFileInDeadGroup ChildrenOutliveParents RefCountCoversWork
PROPERTIES EveryFileDecided ImplementsSieve
