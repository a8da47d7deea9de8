CONSTANTS
  Parts = {"traverse", "preprocess", "postprocess", "digest", "treemerge", "dedupe",
           "script", "offsets", "replay", "report", "options"}
  Sites <- WalkSites
  Trees <- MergeTrees
  CommandLines <- CommandLinesShort
  Replays <- ReplaysHashed
  Reports <- ReportsTold
SPECIFICATION Spec
INVARIANTS EmptyDirsAreExact FilesAreListed SiblingsAreGrouped LintIsRemovable
INVARIANTS EnoughIsKept  DigestsAgree
INVARIANTS ContentIsKept DirectoriesAreEqualAndWhole RemovedOnce
INVARIANTS ChecksumsAreTrue SuccessMeansDeduplicated
INVARIANTS NothingIsLost RunDoesWhatItSays ReflinksShareAll
INVARIANTS ReplayIsSafe ReplayRepeats ReportIsGrouped EqualMeansEqual OptionsAgree
