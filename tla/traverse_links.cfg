CONSTANTS
  Parts = {"traverse"}
  Sites <- LinkSites
  Trees <- MergeTrees
  CommandLines <- CommandLinesShort
  Replays <- ReplaysHashed
  Reports <- ReportsTold
SPECIFICATION Spec
INVARIANT FilesAreListed
