CONSTANTS
  Parts = {"replay"}
  Sites <- WalkSites
  Trees <- MergeTrees
  CommandLines <- CommandLinesShort
  Replays <- ReplaysUnhashed
  Reports <- ReportsTold
SPECIFICATION Spec
INVARIANT OnlyOldDuplicates
