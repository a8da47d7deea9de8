CONSTANTS
  Parts = {"treemerge"}
  Sites <- WalkSites
  Trees <- ChainedTrees
  CommandLines <- CommandLinesShort
  Replays <- ReplaysHashed
  Reports <- ReportsTold
SPECIFICATION Spec
INVARIANT RemovedOnce
