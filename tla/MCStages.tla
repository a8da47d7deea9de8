------------------------------ MODULE MCStages ------------------------------
(***************************************************************************)
(* The parts of rmlint that work by themselves, from what they are given   *)
(* to what they hand on: the initial state chooses one of them and its     *)
(* input, and nothing else runs.  Each is a module of its own; here they   *)
(* share the variables r1 to r10, of which those that a part does not need *)
(* stay "off".                                                             *)
(***************************************************************************)
EXTENDS MCTraverse, MCPreprocess, MCPostProcess, MCParanoidDigest, MCTreeMerge,
        MCDedupe, MCRemovalScript, MCFileExtents, MCReplay, MCReport, MCOptions

CONSTANTS
  Parts,     \* the parts to look at
  Sites,     \* the file systems that are traversed
  Trees,     \* the file systems that the directory merger is given
  Replays,   \* the reports of earlier runs that are replayed
  Reports,   \* the results that are reported
  CommandLines  \* the options and paths that rmlint is called with

VARIABLES part, r1, r2, r3, r4, r5, r6, r7, r8, r9, r10

vars == <<part, r1, r2, r3, r4, r5, r6, r7, r8, r9, r10>>

Walk == INSTANCE Traverse WITH
  cfg <- r1, walks <- r2, all_files <- r3, total_files <- r4, phase <- r5, aborted <- r6

Pre == INSTANCE Preprocess WITH
  Scenarios <- PreScenarios,
  cfg <- r1, all_files <- r2, node_table <- r3, size_groups <- r4, hardlinks <- r5,
  other_lint <- r6, total_filtered_files <- r7, written <- r8, phase <- r9, aborted <- r10

Post == INSTANCE PostProcess WITH
  Files <- PostFiles, Options <- PostOptions, Attributes <- PostAttributes,
  Inode <- PostInode, Twins <- PostTwins,
  file <- r1, cfg <- r2, held_files <- r3, cursor <- r4, cluster <- r5, stack <- r6,
  is_original <- r7, lint_type <- r8, reported <- r9, total_lint_size <- r10

\* With the proofs about ParanoidDigest, which StagesProofs applies to this instance.
Digest == INSTANCE ParanoidDigestProofs WITH
  Files <- DigestFiles, Length <- 3, Content <- DigestContent, Shadow <- DigestShadow,
  None <- "none",
  buffers <- r1, twin_candidate <- r2, twin_candidate_buffer <- r3,
  incoming_twin_candidates <- r4, in_progress_digests <- r5, children <- r6, child <- r7

Merge == INSTANCE TreeMerge WITH
  Options <- MergeOptions,
  cfg <- r1, dir_tree <- r2, valid_dirs <- r3, result_table <- r4, todo <- r5,
  phase <- r6, aborted <- r7, out <- r8

\* With the proofs about Dedupe.
Cache == INSTANCE DedupeProofs WITH
  Caches <- DedupeCaches,
  cfg <- r1, disk <- r2, xattr <- r3, search <- r4, budget <- r5,
  source <- r6, shared <- r7, loop <- r8, whole <- r9

\* With the proofs about RemovalScript.
Script == INSTANCE RemovalScriptProofs WITH
  Scripts <- RemovalScripts,
  cfg <- r1, fs <- r2, report <- r3, last_original <- r4, script <- r5, sh <- r6,
  budget <- r7, touched <- r8, lost <- r9

\* With the proofs about FileExtents.
Offsets == INSTANCE FileExtentsProofs WITH
  Pairs <- ExtentPairs,
  files <- r1, logical_current <- r2, reading <- r3, found <- r4, verdict <- r5

Parrot == INSTANCE Replay WITH
  cfg <- r1, disk <- r2, polly <- r3, last_digest <- r4, group <- r5, groups <- r6,
  parts <- r7, out <- r8, phase <- r9, budget <- r10

Printer == INSTANCE Report WITH
  cfg <- r1, options <- r2, lint <- r3, classes <- r4, merged <- r5, groups <- r6,
  printed <- r7, equal <- r8, phase <- r9, exit <- r10

Cmd == INSTANCE Options WITH
  cmdline <- r1, argv <- r2, on <- r3, limits <- r4, formats <- r5, counts <- r6,
  paths <- r7, json_paths <- r8, error <- r9, phase <- r10

ASSUME StagesAssumption ==
  /\ Walk!TraverseAssumption
  /\ Pre!PreprocessAssumption
  /\ Post!PostProcessAssumption
  /\ Digest!ParanoidDigestAssumption
  /\ Merge!TreeMergeAssumption
  /\ Cache!DedupeAssumption
  /\ Script!RemovalScriptAssumption
  /\ Offsets!FileExtentsAssumption
  /\ Parrot!ReplayAssumption
  /\ Printer!ReportAssumption
  /\ Cmd!OptionsAssumption

Off6to10 == r6 = "off" /\ r7 = "off" /\ r8 = "off" /\ r9 = "off" /\ r10 = "off"
Off7to10 == r7 = "off" /\ r8 = "off" /\ r9 = "off" /\ r10 = "off"
Off8to10 == r8 = "off" /\ r9 = "off" /\ r10 = "off"
Off9to10 == r9 = "off" /\ r10 = "off"

Init ==
  /\ part \in Parts
  /\ \/ part = "traverse" /\ Walk!Init /\ Off7to10
     \/ part = "preprocess" /\ Pre!Init
     \/ part = "postprocess" /\ Post!Init
     \/ part = "digest" /\ Digest!Init /\ Off8to10
     \/ part = "treemerge" /\ Merge!Init /\ Off9to10
     \/ part = "dedupe" /\ Cache!Init /\ r10 = "off"
     \/ part = "script" /\ Script!Init /\ r10 = "off"
     \/ part = "offsets" /\ Offsets!Init /\ Off6to10
     \/ part = "replay" /\ Parrot!Init
     \/ part = "report" /\ Printer!Init
     \/ part = "options" /\ Cmd!Init

Next ==
  \/ part = "traverse" /\ Walk!Next /\ UNCHANGED <<part, r7, r8, r9, r10>>
  \/ part = "preprocess" /\ Pre!Next /\ UNCHANGED part
  \/ part = "postprocess" /\ Post!Next /\ UNCHANGED part
  \/ part = "digest" /\ Digest!Next /\ UNCHANGED <<part, r8, r9, r10>>
  \/ part = "treemerge" /\ Merge!Next /\ UNCHANGED <<part, r9, r10>>
  \/ part = "dedupe" /\ Cache!Next /\ UNCHANGED <<part, r10>>
  \/ part = "script" /\ Script!Next /\ UNCHANGED <<part, r10>>
  \/ part = "offsets" /\ Offsets!Next /\ UNCHANGED <<part, r6, r7, r8, r9, r10>>
  \/ part = "replay" /\ Parrot!Next /\ UNCHANGED part
  \/ part = "report" /\ Printer!Next /\ UNCHANGED part
  \/ part = "options" /\ Cmd!Next /\ UNCHANGED part

Spec == Init /\ [][Next]_vars

-----------------------------------------------------------------------------
(* The properties of the parts; the module of a part explains each conjunct. *)

\* A directory is reported as empty exactly if nothing is below it (traverse.c).
EmptyDirsAreExact == part = "traverse" => Walk!EmptyDirsAreEmpty /\ Walk!EmptyDirsAreFound

\* Every file within the depth and the other limits is listed, whichever walks meet it,
\* and is hidden if a part of its path below the walk is (traverse.c).
FilesAreListed == part = "traverse" => Walk!FilesAreListed /\ Walk!HiddenIsExact

\* What the search starts from are groups of possible twins that miss no candidate and
\* have each path once (preprocess.c).
SiblingsAreGrouped ==
  part = "preprocess" => Pre!GroupsAreSiblings /\ Pre!CandidatesAreCovered /\ Pre!PathsAreUnique

\* Empty directories are written in an order in which rmdir works (preprocess.c).
LintIsRemovable == part = "preprocess" => Pre!LintIsRemovable

\* Whatever the tags, windows, names and hardlinks of a group, the files that its report
\* spares are enough, and its files belong together (shredder.c).
EnoughIsKept ==
  part = "postprocess" =>
    Post!SomethingIsKept /\ Post!HardlinksAreKept /\ Post!WithinWindow /\ Post!BasenamesDiffer


\* Paranoid digests that compare themselves while others arrive end in the same group
\* exactly if their files are equal (checksum.c).
DigestsAgree ==
  part = "digest" =>
    Digest!TwinAgrees /\ Digest!ChildrenAreClasses /\ Digest!EveryChildWasTried

\* Duplicate directories and files together leave a file of each content, and the files
\* that tags protect (treemerge.c).
ContentIsKept == part = "treemerge" => Merge!EveryContentIsKept /\ Merge!ProtectedFilesStay

\* Directories that are reported as duplicates hold the same files (treemerge.c).
DirectoriesAreEqual == part = "treemerge" => Merge!DirectoriesAreEqual

\* They do where no cumulative digest cancels out (the run treemerge_equal is about the rest),
\* and hold nothing that is no duplicate (treemerge.c).
DirectoriesAreEqualAndWhole ==
  part = "treemerge" => Merge!DirectoriesAreEqual /\ Merge!DirectoriesAreWhole

\* Nothing is reported to be removed that goes with a directory anyway (treemerge.c).
RemovedOnce == part = "treemerge" => Merge!RemovedOnce

\* A cached checksum that is believed is that of the file, whatever edits, interruptions
\* and other runs came before (xattr.c).
ChecksumsAreTrue ==
  part = "dedupe" => Cache!TrustedChecksumIsTrue /\ Cache!StoredChecksumIsTrue

\* rmlint --dedupe succeeds only if the file shares all of the data of its source (session.c).
SuccessMeansDeduplicated == part = "dedupe" => Cache!SuccessMeansDeduplicated

\* The script removes no last copy of a content, though files change and it is interrupted
\* and run again (sh.sh).
NothingIsLost == part = "script" => Script!NothingIsLost

\* An undisturbed run has done what its lines say, and nothing else (sh.sh).
RunDoesWhatItSays == part = "script" => Script!RunDoesWhatItSays

\* Files are called reflinks only if all of their extents are shared (utilities.c).
ReflinksShareAll == part = "offsets" => Offsets!ReflinksShareAll

\* No replay, of whatever happened to the files since, reports the last copy of a content,
\* or what preferred paths protect (replay.c).
ReplayIsSafe == part = "replay" => Parrot!NothingVanishes /\ Parrot!PreferredStay

\* A replay of what did not change reports each duplicate once, with its twins (replay.c).
ReplayRepeats == part = "replay" => Parrot!ReplayRepeats

\* A replay reports only what an earlier run had found to be a duplicate (replay.c).
OnlyOldDuplicates == part = "replay" => Parrot!OnlyOldDuplicates

\* Every result is printed once, and a duplicate after the original it belongs to (formats.c).
ReportIsGrouped ==
  part = "report" => Printer!DuplicatesFollowTheirOriginal /\ Printer!EachResultPrintedOnce

\* rmlint --equal succeeds exactly if all the paths it is given are equal (_equal.c).
EqualMeansEqual == part = "report" => Printer!EqualMeansEqual

\* In whatever order options come, the search that starts has a configuration in which they
\* do not contradict each other, the lint types that were named last, and the outputs that
\* --equal and --replay promise (cmdline.c).
OptionsAgree ==
  part = "options" =>
    /\ Cmd!OptionsAreConsistent /\ Cmd!LintTypesAreThoseNamedLast
    /\ Cmd!EqualStandsAlone /\ Cmd!ReplaySparesItsDocuments
=============================================================================
