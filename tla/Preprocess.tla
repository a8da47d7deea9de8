----------------------------- MODULE Preprocess -----------------------------
(***************************************************************************)
(* rm_preprocess (lib/preprocess.c): the files that the traversal found    *)
(* are sorted, cut into groups of equal size (and name, and mtime, if the  *)
(* options say so), and freed of what is not a candidate: names that lead  *)
(* to one file twice, other lint, and all links of an inode but one.       *)
(*                                                                         *)
(* A text is a sequence of numbers that are ordered as characters are;     *)
(* Dot and Slash are two of them, and letters are told apart whatever      *)
(* their case.                                                             *)
(***************************************************************************)
EXTENDS Integers, Sequences, FiniteSets, FiniteSetsExt, SequencesExt, Functions

CONSTANTS Scenarios    \* see ScenarioRecord

Dot   == 1
Slash == 2

\* The order in which RmLintType lists what rm_preprocess deals with.
LintTypes == <<"badlink", "emptydir", "emptyfile", "nonstripped", "baduid", "badgid",
               "badugid", "dupe">>

Texts == Seq(Nat)

\* The files in the order of the traversal, the inode numbers of the directories
\* that they are in, 0 where stat(2) fails, and the options.
ScenarioRecord(s) ==
  /\ IsFiniteSet(DOMAIN s.files)
  /\ \A f \in DOMAIN s.files :
       /\ s.files[f].parent \in DOMAIN s.parentInode \cap Texts
       /\ s.files[f].name.stem \in Texts /\ s.files[f].name.ext \in Seq(Texts)
       /\ s.files[f].lint \in ToSet(LintTypes)
  /\ s.option.window \in {-1} \cup Nat
  /\ s.option.minMtime \in Nat
  /\ s.option.criteria \in Seq([key : {"mtime", "text", "length", "depth", "links", "outer",
                                       "path", "regex"}, sign : {-1, 1}])

PreprocessAssumption == \A s \in Scenarios : ScenarioRecord(s)

VARIABLES
  cfg,
  all_files,             \* session->tables->all_files
  node_table,            \* the clusters of the group that is being collected
  size_groups,
  hardlinks,             \* RmFile.hardlinks of the heads
  other_lint,
  total_filtered_files,
  written,               \* the other lint that went to the formatters
  phase,
  aborted

vars == <<cfg, all_files, node_table, size_groups, hardlinks, other_lint,
          total_filtered_files, written, phase, aborted>>

file   == cfg.files
option == cfg.option

-----------------------------------------------------------------------------
Sign(n) == IF n > 0 THEN 1 ELSE IF n < 0 THEN -1 ELSE 0
Bool(b) == IF b THEN 1 ELSE 0

\* The first of some comparisons that decides.
FirstOf(results) ==
  IF \A k \in DOMAIN results : results[k] = 0 THEN 0
  ELSE results[Min({k \in DOMAIN results : results[k] # 0})]

\* strcmp(3) and its kin.
CompareText(s, t) ==
  LET same == Max({k \in 0..Min({Len(s), Len(t)}) : SubSeq(s, 1, k) = SubSeq(t, 1, k)})
  IN  IF same = Len(s) \/ same = Len(t) THEN Sign(Len(s) - Len(t))
      ELSE Sign(s[same + 1] - t[same + 1])

Upto(s, n) == SubSeq(s, 1, Min({n, Len(s)}))

\* A name has an extension, <<text>>, or none, <<>>.
Basename(f) == LET n == file[f].name
               IN  n.stem \o (IF n.ext = <<>> THEN <<>> ELSE <<Dot>> \o n.ext[1])
Path(f)     == file[f].parent \o <<Slash>> \o Basename(f)

\* rm_file_cmp_with_extension.
CmpWithExtension(a, b) ==
  LET e == file[a].name.ext
      x == file[b].name.ext
  IN  IF e # <<>> /\ x # <<>> THEN CompareText(e[1], x[1]) ELSE Len(e) - Len(x)

\* rm_file_cmp_without_extension, which takes the length of the first name for
\* that of the second when the second has no extension.
CmpWithoutExtension(a, b) ==
  LET stem(f) == Len(file[f].name.stem) + 1
      alen == IF file[a].name.ext # <<>> THEN stem(a) ELSE Len(Basename(a))
      blen == IF file[b].name.ext # <<>> THEN stem(b) ELSE Len(Basename(a))
  IN  FirstOf(<<Sign(alen - blen), CompareText(Upto(Basename(a), alen), Upto(Basename(b), alen))>>)

\* rm_file_cmp: whether two files may be duplicates at all.
Cmp(a, b) ==
  FirstOf(<<Sign(file[a].size - file[b].size),
            Bool(file[a].symlink) - Bool(file[b].symlink),
            IF option.basename THEN CompareText(Basename(a), Basename(b)) ELSE 0,
            IF option.withExtension THEN CmpWithExtension(a, b) ELSE 0,
            IF option.withoutExtension THEN CmpWithoutExtension(a, b) ELSE 0>>)

\* rm_pp_cmp_criterion; what a regular expression says of a file is in .regex,
\* and those who match come first.
Criterion(c, a, b) ==
  c.sign * (CASE c.key = "text"   -> CompareText(Basename(a), Basename(b))
              [] c.key = "length" -> Sign(Len(Basename(a)) - Len(Basename(b)))
              [] c.key = "regex"  -> Bool(file[b].regex) - Bool(file[a].regex)
              [] OTHER            -> Sign(file[a].order[c.key] - file[b].order[c.key]))

LintPlace(f) == CHOOSE k \in DOMAIN LintTypes : LintTypes[k] = file[f].lint

\* rm_pp_cmp_orig_criteria.
CmpOrigCriteria(a, b) ==
  FirstOf(<<Sign(LintPlace(a) - LintPlace(b)),
            Bool(file[a].symlink) - Bool(file[b].symlink),
            Bool(file[b].prefd) - Bool(file[a].prefd)>>
          \o [k \in DOMAIN option.criteria |-> Criterion(option.criteria[k], a, b)])

Mtime(f) == file[f].order.mtime

\* rm_file_cmp_full, by which all files are sorted.
CmpFull(a, b) ==
  FirstOf(<<Cmp(a, b), IF option.window >= 0 THEN Sign(Mtime(a) - Mtime(b)) ELSE 0,
            CmpOrigCriteria(a, b)>>)

\* Mutant: the names of the files do not cut groups.
CutsSizesOnly(f, h) == Sign(file[f].size - file[h].size) # 0
\* rm_file_cmp_split, of a file and the one before it.
Cuts(f, h) ==
  \/ Cmp(f, h) # 0
  \/ option.window >= 0 /\ (Mtime(f) - Mtime(h) > option.window \/ Mtime(h) - Mtime(f) > option.window)

\* g_queue_sort, which is stable.
SortedInto(sorted, f) ==
  LET after == {k \in DOMAIN sorted : CmpFull(sorted[k], f) > 0}
  IN  InsertAt(sorted, Min(after \cup {Len(sorted) + 1}), f)
Sorted(files) == FoldLeft(SortedInto, <<>>, files)

-----------------------------------------------------------------------------
\* rm_path_have_same_parent and rm_path_double_equal: a parent that cannot be
\* stat'ed has inode 0, whichever directory it is.
SameParent(f, h) ==
  \/ file[f].parent = file[h].parent
  \/ cfg.parentInode[file[f].parent] = cfg.parentInode[file[h].parent]

PathDouble(f, h) ==
  /\ file[f].inode = file[h].inode
  /\ SameParent(f, h)
  /\ Basename(f) = Basename(h)

\* rm_pp_check_path_double over a cluster.
WithoutDoubles(cluster) ==
  FoldLeft(LAMBDA kept, f : IF \E h \in ToSet(kept) : PathDouble(f, h) THEN kept
                            ELSE Append(kept, f), <<>>, cluster)

\* rm_pp_handle_other_lint: what is no candidate is either reported or forgotten.
Reported(f) ==
  /\ file[f].lint # "dupe"
  /\ ~(option.minMtime > 0 /\ Mtime(f) < option.minMtime)
  /\ ~(option.keepTagged /\ file[f].prefd)
  /\ ~(option.keepUntagged /\ ~file[f].prefd)

\* rm_pp_handle_inode_clusters, of one cluster of the group.
Handled(cluster) ==
  LET unique == IF Len(cluster) > 1 /\ ~option.equalMode THEN WithoutDoubles(cluster) ELSE cluster
      dupes  == SelectSeq(unique, LAMBDA f : file[f].lint = "dupe")
  IN  [head   |-> {f \in ToSet(dupes) : f = dupes[1]},
       links  |-> IF Len(dupes) > 1 /\ option.hardlinked THEN dupes ELSE <<>>,
       lint   |-> {f \in ToSet(unique) : Reported(f)},
       \* every file of the cluster leaves it but the head of the candidates
       gone   |-> Len(cluster) - Min({1, Len(dupes)})]

\* rm_hash_table_setdefault of rm_node_hash and g_queue_push_tail.
PushNode(table, f) ==
  IF \E k \in DOMAIN table : file[table[k][1]].inode = file[f].inode
  THEN [k \in DOMAIN table |-> IF file[table[k][1]].inode = file[f].inode
                               THEN Append(table[k], f) ELSE table[k]]
  ELSE Append(table, <<f>>)

\* The sort at the start of rm_preprocess.
Sort ==
  /\ phase = "sort"
  /\ all_files' = Sorted(all_files)
  /\ total_filtered_files' = Len(all_files)
  /\ phase' = "group"
  /\ UNCHANGED <<cfg, node_table, size_groups, hardlinks, other_lint, written, aborted>>

\* Whether the group ends with f, the head of the list.
Closes(f) == Len(all_files) = 1 \/ Cuts(all_files[2], f)

\* One turn of the loop of rm_preprocess.
Collect ==
  /\ phase = "group" /\ all_files # <<>> /\ ~aborted
  /\ LET f       == Head(all_files)
         table   == PushNode(node_table, f)
         handled == {Handled(table[k]) : k \in DOMAIN table}
         heads   == UNION {h.head : h \in handled}
     IN  IF Closes(f)
         THEN /\ node_table' = <<>>
              /\ size_groups' = IF heads = {} THEN size_groups ELSE <<heads>> \o size_groups
              /\ hardlinks' = [h \in DOMAIN hardlinks |->
                                 IF \E c \in handled : h \in c.head
                                 THEN (CHOOSE c \in handled : h \in c.head).links
                                 ELSE hardlinks[h]]
              /\ other_lint' = other_lint \cup UNION {c.lint : c \in handled}
              /\ total_filtered_files' = total_filtered_files
                   - FoldLeft(LAMBDA n, c : n + Handled(c).gone, 0, table)
         ELSE /\ node_table' = table
              /\ UNCHANGED <<size_groups, hardlinks, other_lint, total_filtered_files>>
  /\ all_files' = Tail(all_files)
  /\ UNCHANGED <<cfg, written, phase, aborted>>

EndOfFiles ==
  /\ phase = "group" /\ (all_files = <<>> \/ aborted)
  /\ phase' = "lint"
  /\ UNCHANGED <<cfg, all_files, node_table, size_groups, hardlinks, other_lint,
                 total_filtered_files, written, aborted>>

\* Mutant: the directories are sorted forwards.
ComesFirstForwards(f, h) == file[f].lint = "emptydir" => CompareText(Path(f), Path(h)) <= 0
\* rm_pp_cmp_reverse_alphabetical, among empty directories only.
ComesFirst(f, h) == file[f].lint = "emptydir" => CompareText(Path(h), Path(f)) <= 0

\* rm_pp_handler_other_lint: type by type; within a type the hash table decides
\* unless the list is sorted.
WriteOtherLint(f) ==
  /\ phase = "lint" /\ f \in other_lint
  /\ \A h \in other_lint : /\ LintPlace(f) <= LintPlace(h)
                           /\ LintPlace(f) = LintPlace(h) => ComesFirst(f, h)
  /\ other_lint' = other_lint \ {f}
  /\ written' = Append(written, f)
  /\ UNCHANGED <<cfg, all_files, node_table, size_groups, hardlinks, total_filtered_files,
                 phase, aborted>>

Return ==
  /\ phase = "lint" /\ other_lint = {}
  /\ phase' = "done"
  /\ UNCHANGED <<cfg, all_files, node_table, size_groups, hardlinks, other_lint,
                 total_filtered_files, written, aborted>>

\* rm_session_abort, from a signal handler.
Abort ==
  /\ phase = "group" /\ ~aborted
  /\ aborted' = TRUE
  /\ UNCHANGED <<cfg, all_files, node_table, size_groups, hardlinks, other_lint,
                 total_filtered_files, written, phase>>

Done == phase = "done" /\ UNCHANGED vars

\* The files come in the order in which several walks happened to append them.
Init ==
  /\ cfg \in Scenarios
  /\ all_files \in SetToSeqs(DOMAIN cfg.files)
  /\ node_table = <<>> /\ size_groups = <<>> /\ other_lint = {} /\ written = <<>>
  /\ hardlinks = [f \in DOMAIN cfg.files |-> <<>>]
  /\ total_filtered_files = 0
  /\ phase = "sort" /\ aborted = FALSE

Next ==
  \/ \E f \in other_lint : WriteOtherLint(f)
  \/ Sort \/ Collect \/ EndOfFiles \/ Return \/ Abort \/ Done

Spec == Init /\ [][Next]_vars

-----------------------------------------------------------------------------
(* Properties *)

Candidates == {f \in DOMAIN file : file[f].lint = "dupe"}
Heads      == UNION ToSet(size_groups)
Bundled    == UNION {ToSet(hardlinks[h]) : h \in Heads}
Whole      == phase = "done" /\ ~aborted

\* Two files that a group of duplicates may hold both of, by themselves.
Near(f, h) == option.window < 0 \/ Mtime(f) - Mtime(h) \in -option.window..option.window

\* The groups are what the options call siblings, whatever the order of the
\* traversal: files of a group agree in all that is compared, files that agree and are
\* near in time are in one group, and a group hangs together in time.
GroupsAreSiblings ==
  Whole =>
    /\ \A g \in ToSet(size_groups) : \A f, h \in g :
         /\ Cmp(f, h) = 0
         /\ option.window >= 0 /\ Mtime(f) < Mtime(h) =>
              \E k \in Candidates : Mtime(k) > Mtime(f) /\ Near(f, k)
    /\ \A f, h \in Heads : Cmp(f, h) = 0 /\ Near(f, h) =>
         \E g \in ToSet(size_groups) : {f, h} \subseteq g

\* No candidate is lost, whatever is dropped: its inode stays in the groups, and
\* with --hardlinked so does the path itself, under the name it has or under one
\* that leads to the same directory.  Directories that cannot be read are left
\* out: links of an inode in two of them are taken for one path.
CandidatesAreCovered ==
  Whole => \A f \in Candidates :
    /\ \E h \in Heads : file[h].inode = file[f].inode
    /\ option.hardlinked /\ cfg.parentInode[file[f].parent] # 0 =>
         \E h \in Heads \cup Bundled : PathDouble(f, h)

\* No path is compared with itself, or stays as a link of itself, except with --equal, and
\* the number of files that go on is the number that the progress bar and the
\* summary are told.
PathsAreUnique ==
  Whole =>
    /\ ~option.equalMode => \A f, h \in Heads \cup Bundled : PathDouble(f, h) => f = h
    /\ total_filtered_files = Cardinality(Heads)

\* Other lint is written so that it can be removed in that order: a directory
\* after those that are in it, and nothing that is protected.
LintIsRemovable ==
  /\ \A i, j \in DOMAIN written :
       /\ i # j => written[i] # written[j]
       /\ /\ file[written[i]].lint = "emptydir" /\ file[written[j]].lint = "emptydir"
          /\ IsStrictPrefix(Path(written[i]) \o <<Slash>>, Path(written[j]) \o <<Slash>>)
          => j < i
  /\ \A f \in ToSet(written) : /\ ~(option.keepTagged /\ file[f].prefd)
                               /\ ~(option.keepUntagged /\ ~file[f].prefd)
=============================================================================
