------------------------------- MODULE Report -------------------------------
(***************************************************************************)
(* From the finished groups to the output and the exit status: other lint, *)
(* groups that the shredder finished and groups that the directory merger  *)
(* made reach rm_fmt_write (lib/formats.c), which hands them on at once or *)
(* caches them in groups that are sorted before they are printed.  With    *)
(* --equal nothing is printed: a hidden formatter (lib/formats/_equal.c)   *)
(* derives the exit status from the results it is handed.                  *)
(*                                                                         *)
(* What the other parts make of the files is chosen by the initial state:  *)
(* a result has type, path, original, digest, size, folder, mtime and      *)
(* path_index; digest is {} for NULL.                                      *)
(***************************************************************************)
EXTENDS Integers, Sequences, FiniteSets, SequencesExt, FiniteSetsExt

CONSTANT Reports   \* what to choose from, see ReportAssumption

VARIABLES
  cfg,        \* the choice
  options,    \* what rm_cmd_main changes: cache_file_structs, find_duplicates,
              \* merge_directories
  lint,       \* other lint that was not yet written
  classes,    \* the groups that the result thread did not yet get
  merged,     \* the groups that the directory merger did not yet hand on
  groups,     \* self->groups of the formatters
  printed,    \* the results that the formatters were called with
  equal,      \* last_checksum and mismatch_found of _equal, equal_exit_code
  phase,
  exit        \* {} or the exit status

vars == <<cfg, options, lint, classes, merged, groups, printed, equal, phase, exit>>

Success == 0
Failure == 1

\* classes are the groups in the order of rm_shred_group_find_original, finished if they
\* are duplicates; merged is what the merger makes of them; inode says which paths are links
\* of one file and content which paths are equal; criteria is -y, of letters in rank_order.
ReportAssumption ==
  \A r \in Reports :
    /\ r.run_equal_mode \in BOOLEAN /\ r.replay \in BOOLEAN /\ r.cache \in BOOLEAN
    /\ r.fdupes \in BOOLEAN /\ r.merge_directories \in BOOLEAN
    /\ r.merge_directories => r.cache
    /\ r.total_files \in Nat
    /\ \A c \in r.classes : c.finished \in BOOLEAN /\ c.files # <<>>
    /\ \A k \in DOMAIN r.criteria :
         r.criteria[k].by \in {"s", "a", "m", "p", "n", "o"} /\ r.criteria[k].upper \in BOOLEAN
    /\ r.run_equal_mode => Len(r.paths) >= 2 /\ r.cache /\ r.criteria = <<>> /\ ~r.replay

-----------------------------------------------------------------------------
Init ==
  /\ cfg \in Reports
  /\ options = [cache |-> cfg.cache \/ cfg.fdupes,   \* fdupes asks for it when it starts
                find_duplicates |-> TRUE, merge_directories |-> cfg.merge_directories]
  /\ lint = cfg.lint /\ classes = cfg.classes /\ merged = cfg.merged
  /\ groups = <<>> /\ printed = <<>>
  /\ equal = [last_checksum |-> {}, mismatch_found |-> FALSE, exit_code |-> Failure]
  /\ phase = "traversed" /\ exit = {}

-----------------------------------------------------------------------------
(* lib/formats/_equal.c *)

ReportFailure(h) == [h EXCEPT !.mismatch_found = TRUE, !.exit_code = Failure]

Given == ToSet(cfg.paths)

\* Mutant: a mismatch is forgotten at the next two that agree.
CompareForgetting(h, result) ==
  CASE result.digest = {} -> ReportFailure(h)
    [] result.digest # {} /\ result.path \notin Given -> h
    [] OTHER -> [IF h.last_checksum = {} THEN h
                 ELSE IF h.last_checksum = result.digest THEN [h EXCEPT !.exit_code = Success]
                 ELSE ReportFailure(h)
                 EXCEPT !.last_checksum = result.digest]

\* rm_fmt_elem
Compare(h, result) ==
  CASE h.mismatch_found \/ result.digest = {} -> ReportFailure(h)
    [] ~h.mismatch_found /\ result.digest # {} /\ result.path \notin Given -> h
    [] OTHER -> [IF h.last_checksum = {} THEN h
                 ELSE IF h.last_checksum = result.digest THEN [h EXCEPT !.exit_code = Success]
                 ELSE ReportFailure(h)
                 EXCEPT !.last_checksum = result.digest]

-----------------------------------------------------------------------------
(* lib/formats.c *)

EqualAfter(h, results) == FoldLeft(LAMBDA a, r : Compare(a, r), h, results)

\* rm_fmt_write_impl
PrintNow(results) ==
  /\ printed' = printed \o results
  /\ equal' = IF cfg.run_equal_mode THEN EqualAfter(equal, results) ELSE equal

\* Mutant: every result is a group of its own.
CacheSingly(gs, result) == Append(gs, [index |-> Len(gs), files |-> <<result>>])

\* rm_fmt_write: a group begins with an original.
Cache(gs, result) ==
  IF result.original \/ gs = <<>>
  THEN Append(gs, [index |-> Len(gs), files |-> <<result>>])
  ELSE [gs EXCEPT ![Len(gs)].files = Append(@, result)]

Write(results) ==
  IF options.cache
  THEN /\ groups' = FoldLeft(LAMBDA gs, r : Cache(gs, r), groups, results)
       /\ UNCHANGED <<printed, equal>>
  ELSE PrintNow(results) /\ UNCHANGED groups

LintTypeOrder(type) ==
  CASE type = "part of directory" -> 1
    [] type = "duplicate dir"     -> 2
    [] type = "duplicate"         -> 3
    [] OTHER                      -> 0

Sign(a, b) == IF a < b THEN -1 ELSE IF a > b THEN 1 ELSE 0

RankSize(ga, gb) ==
  Sign(ga.files[1].size * (Len(ga.files) - 1), gb.files[1].size * (Len(gb.files) - 1))

RankBy(ga, gb, by) ==
  LET fa == ga.files[1]
      fb == gb.files[1]
  IN  CASE by = "s" -> RankSize(ga, gb)
        [] by = "a" -> Sign(fa.folder, fb.folder)
        [] by = "m" -> Sign(fa.mtime, fb.mtime)
        [] by = "p" -> Sign(fa.path_index, fb.path_index)
        [] by = "n" -> Sign(Len(ga.files), Len(gb.files))
        [] by = "o" -> Sign(ga.index, gb.index)

\* rm_fmt_rank: the lint type of the heads, then the first criterion that tells them apart.
Rank(ga, gb) ==
  LET types == Sign(LintTypeOrder(ga.files[1].type), LintTypeOrder(gb.files[1].type))
      By(c) == IF c.upper THEN -RankBy(ga, gb, c.by) ELSE RankBy(ga, gb, c.by)
      told  == {k \in DOMAIN cfg.criteria : By(cfg.criteria[k]) # 0}
  IN  CASE types # 0                -> types
        [] types = 0 /\ told # {}   -> By(cfg.criteria[Min(told)])
        [] OTHER                    -> 0

\* g_queue_sort keeps what ranks the same in its order.
Sorted(gs) ==
  SortSeq(gs, LAMBDA ga, gb : Rank(ga, gb) < 0 \/ (Rank(ga, gb) = 0 /\ ga.index < gb.index))

\* rm_fmt_flush
Flush ==
  /\ phase = "flush"
  /\ LET sorted == IF cfg.criteria # <<>> \/ cfg.replay THEN Sorted(groups) ELSE groups
     IN  IF options.cache
         THEN PrintNow(FlattenSeq([k \in DOMAIN sorted |-> sorted[k].files]))
         ELSE UNCHANGED <<printed, equal>>
  /\ groups' = <<>>
  /\ phase' = "flushed"
  /\ UNCHANGED <<cfg, options, lint, classes, merged, exit>>

-----------------------------------------------------------------------------
(* rm_cmd_main, lib/cmdline.c *)

TooFew == cfg.run_equal_mode /\ cfg.total_files < 2

\* The two paths at the head of the list, which were given last.
Linked ==
  /\ cfg.run_equal_mode /\ cfg.total_files = 2
  /\ cfg.inode[cfg.paths[Len(cfg.paths)]] = cfg.inode[cfg.paths[Len(cfg.paths) - 1]]

GiveUp ==
  /\ phase = "traversed" /\ TooFew
  /\ exit' = {Failure} /\ phase' = "done"
  /\ UNCHANGED <<cfg, options, lint, classes, merged, groups, printed, equal>>

\* Two links of one file are not compared.
Begin ==
  /\ phase = "traversed" /\ ~TooFew
  /\ IF Linked
     THEN /\ equal' = [equal EXCEPT !.exit_code = Success]
          /\ options' = [options EXCEPT !.find_duplicates = FALSE, !.merge_directories = FALSE]
     ELSE UNCHANGED <<equal, options>>
  /\ phase' = "preprocess"
  /\ UNCHANGED <<cfg, lint, classes, merged, groups, printed, exit>>

\* rm_pp_handler_other_lint
WriteLint ==
  /\ phase = "preprocess" /\ lint # <<>>
  /\ Write(<<Head(lint)>>)
  /\ lint' = Tail(lint)
  /\ UNCHANGED <<cfg, options, classes, merged, phase, exit>>

\* Without a search the files that are left are dropped.
Search ==
  /\ phase = "preprocess" /\ lint = <<>>
  /\ IF options.find_duplicates \/ options.merge_directories
     THEN phase' = "shred" /\ UNCHANGED <<classes, merged>>
     ELSE phase' = "flush" /\ classes' = {} /\ merged' = <<>>
  /\ UNCHANGED <<cfg, options, lint, groups, printed, equal, exit>>

HasDuplicates(files) == \E k \in DOMAIN files : ~files[k].original

\* The result thread, to which the groups come in any order; the files of one go to the
\* merger or through rm_shred_forward_to_output.
WriteClass ==
  \E c \in classes :
    /\ phase = "shred"
    /\ IF HasDuplicates(c.files) /\ ~(options.merge_directories /\ c.finished)
       THEN Write(c.files)
       ELSE UNCHANGED <<groups, printed, equal>>
    /\ classes' = classes \ {c}
    /\ UNCHANGED <<cfg, options, lint, merged, phase, exit>>

Finish ==
  /\ phase = "shred" /\ classes = {}
  /\ phase' = IF options.merge_directories THEN "merge" ELSE "flush"
  /\ UNCHANGED <<cfg, options, lint, classes, merged, groups, printed, equal, exit>>

\* rm_tm_extract: what is part of a directory, then the directories, then left over files.
MergeUp ==
  /\ phase = "merge"
  /\ IF merged = <<>>
     THEN phase' = "flush" /\ UNCHANGED <<merged, groups, printed, equal>>
     ELSE Write(Head(merged)) /\ merged' = Tail(merged) /\ UNCHANGED phase
  /\ UNCHANGED <<cfg, options, lint, classes, exit>>

Exit ==
  /\ phase = "flushed"
  /\ exit' = {IF cfg.run_equal_mode THEN equal.exit_code ELSE Success}
  /\ phase' = "done"
  /\ UNCHANGED <<cfg, options, lint, classes, merged, groups, printed, equal>>

Done == phase = "done" /\ UNCHANGED vars

Next == \/ GiveUp \/ Begin \/ WriteLint \/ Search \/ WriteClass \/ Finish \/ MergeUp
        \/ Flush \/ Exit \/ Done

Spec == Init /\ [][Next]_vars

-----------------------------------------------------------------------------
DupeTypes == {"duplicate", "duplicate dir"}

Originals(k) == {i \in 1..(k - 1) : printed[i].original}

\* Readers of the report (the script, fdupes) take a duplicate to be one of the original
\* that was listed last: whatever the order in which groups finish, however they are split
\* by -k and sorted by -y, that original is of its type and has its checksum.
DuplicatesFollowTheirOriginal ==
  \A k \in DOMAIN printed :
    printed[k].type \in DupeTypes /\ ~printed[k].original =>
      /\ Originals(k) # {}
      /\ printed[Max(Originals(k))].type = printed[k].type
      /\ printed[Max(Originals(k))].digest = printed[k].digest

\* What the other parts hand on.
Results ==
  ToSet(cfg.lint)
    \cup UNION {ToSet(c.files) : c \in {d \in cfg.classes :
                  HasDuplicates(d.files) /\ ~(cfg.merge_directories /\ d.finished)}}
    \cup (IF cfg.merge_directories THEN ToSet(FlattenSeq(cfg.merged)) ELSE {})

\* In the end every result was printed, and once.
EachResultPrintedOnce ==
  exit # {} /\ ~cfg.run_equal_mode =>
    ToSet(printed) = Results /\ Len(printed) = Cardinality(Results)

AllEqual == \A p, q \in Given : cfg.content[p] = cfg.content[q]

\* rmlint --equal succeeds exactly if all the paths it is given are equal (docs/rmlint.1.rst:791
\* "Check if the paths given on the command line all have equal content").
EqualMeansEqual ==
  cfg.run_equal_mode /\ exit # {} => (exit = {Success} <=> AllEqual)
=============================================================================
