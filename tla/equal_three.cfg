CONSTANTS
  Parts = {"report"}
  Sites <- WalkSites
  Trees <- MergeTrees
  CommandLines <- CommandLinesShort
  Replays <- ReplaysHashed
  Reports <- ReportsMissed
SPECIFICATION Spec
INVARIANT EqualMeansEqual
