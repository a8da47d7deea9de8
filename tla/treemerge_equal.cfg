CONSTANTS
  Parts = {"treemerge"}
  Sites <- WalkSites
  Trees <- CancellingTrees
  CommandLines <- CommandLinesShort
  Replays <- ReplaysHashed
  Reports <- ReportsTold
SPECIFICATION Spec
INVARIANT DirectoriesAreEqual
