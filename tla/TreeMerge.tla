----------------------------- MODULE TreeMerge -----------------------------
(***************************************************************************)
(* The directory merger (lib/treemerge.c), which turns groups of duplicate *)
(* files into groups of duplicate directories.  It counts the files of     *)
(* every directory by a walk of its own, is fed one group of duplicates    *)
(* after the other, clusters directories up as long as all their files     *)
(* were fed, and then extracts: equal directories first, those that merged *)
(* most before all others, and afterwards the files of what was not        *)
(* reported, grouped by digest.                                            *)
(*                                                                         *)
(* A path is the sequence of its elements.  A digest is a content; a       *)
(* directory's cumulative digest is the XOR of what went into it, which    *)
(* is the set of those that went in an odd number of times.                *)
(***************************************************************************)
EXTENDS Integers, Sequences, FiniteSets, FiniteSetsExt, SequencesExt, Functions, PathTrie

CONSTANTS
  Trees,      \* the file systems to choose from, see TreeRecord
  Options     \* the options to choose from, see OptionRecord

\* What the walk of the merger meets, what the duplicate finder found, the paths
\* of the command line, and how -S ranks files and directories (lower is better).
\* A file in content but not in entries is gone when the merger counts.
TreeRecord(t) ==
  /\ t.entries \in [DOMAIN t.entries -> {"file", "empty", "symlink", "error"}]
  /\ DOMAIN t.prefd = DOMAIN t.content
  /\ t.given # {}

OptionRecord ==
  [keepTagged : BOOLEAN, keepUntagged : BOOLEAN, honourDirLayout : BOOLEAN,
   partialHidden : BOOLEAN, findDuplicates : BOOLEAN, writeUnfinished : BOOLEAN,
   findEmptyfiles : BOOLEAN, followSymlinks : BOOLEAN]

TreeMergeAssumption ==
  /\ \A t \in Trees : TreeRecord(t)
  /\ Options \subseteq OptionRecord

VARIABLES
  cfg,           \* the options, and the tree as session and file system have it
  dir_tree,      \* the known directories
  valid_dirs,    \* those that rm_tm_feed made
  result_table,  \* full directories, by what rm_directory_equal looks at
  todo,          \* what the current phase has left to do
  phase,
  aborted,       \* rm_session_was_aborted()
  out            \* what went to the callback

vars == <<cfg, dir_tree, valid_dirs, result_table, todo, phase, aborted, out>>

tree    == cfg.tree
option  == cfg.option
Dir(f)  == Front(f)
Hidden(p) == p # <<>> /\ Last(p) \in tree.hidden
Below(d, p) == IsStrictPrefix(d, p)

-----------------------------------------------------------------------------
\* rm_tm_count_files: the countable files below a directory, -1 above an error
\* and above a path of the command line, so that nothing merges past those.
Counted(p) ==
  CASE tree.entries[p] = "file"    -> TRUE
    [] tree.entries[p] = "empty"   -> ~option.findEmptyfiles
    [] tree.entries[p] = "symlink" -> ~option.followSymlinks
    [] OTHER                       -> FALSE

\* file_tree: the paths that count, and whether they are errors.
FileTree == [p \in {q \in DOMAIN tree.entries : Counted(q) \/ tree.entries[q] = "error"} |->
               tree.entries[p] = "error"]

Count(d) ==
  LET flagged == {p \in DOMAIN FileTree : FileTree[p]} \cup {p \in tree.given : HasNode(FileTree, p)}
  IN  IF \E p \in flagged : Below(d, p)
      THEN -1 ELSE Cardinality({p \in DOMAIN FileTree : Below(d, p)})

-----------------------------------------------------------------------------
\* RmDirectory.  Its children are the directories below it that were merged, its
\* known_files those of its files that were fed.
DirectoryNew(d) ==
  [known_files |-> {}, prefd_files |-> 0, dupe_count |-> 0, file_count |-> Count(d),
   mergeups |-> 0, finished |-> FALSE, was_merged |-> FALSE, was_inserted |-> FALSE,
   was_dupe_extracted |-> FALSE, hash_set |-> {}, digest |-> {}]

\* rm_digest_update of a cumulative digest.
Xor(digest, items) == SymDiff(digest, items)

Layout(p) == IF option.honourDirLayout THEN {<<"basename", Last(p)>>} ELSE {}

\* rm_directory_add, with the file prepended to known_files.
Add(directory, f) ==
  [directory EXCEPT !.digest = Xor(Xor(@, {<<"file", tree.content[f]>>}), Layout(f)),
                    !.hash_set = @ \cup {tree.content[f]},
                    !.dupe_count = @ + 1,
                    !.prefd_files = @ + (IF tree.prefd[f] THEN 1 ELSE 0),
                    !.known_files = @ \cup {f}]

\* Mutant: only the counters of the subdirectory are taken over.
AddSubdirCountsOnly(parent, subdir, p) ==
  [parent EXCEPT !.mergeups = @ + subdir.mergeups + 1,
                 !.dupe_count = @ + subdir.dupe_count,
                 !.prefd_files = @ + subdir.prefd_files]

\* rm_directory_add_subdir, of a subdirectory that was not merged before.  The
\* set of hashes receives those of the direct files of the subdirectory only.
AddSubdir(parent, subdir, p) ==
  [parent EXCEPT !.mergeups = @ + subdir.mergeups + 1,
                 !.dupe_count = @ + subdir.dupe_count,
                 !.prefd_files = @ + subdir.prefd_files,
                 !.hash_set = @ \cup {tree.content[f] : f \in subdir.known_files},
                 !.digest = Xor(Xor(@, subdir.digest), Layout(p))]

Full(directory) == directory.dupe_count = directory.file_count /\ directory.file_count > 0

\* rm_directory_equal, as the key of the table: what two directories must agree in.
EqualityKey(directory) == <<directory.dupe_count, directory.digest, directory.hash_set>>

\* rm_tm_insert_dir, of a full directory, once.
Inserted(results, table, d) ==
  LET key == EqualityKey(table[d])
      queue == IF key \in DOMAIN results THEN results[key] ELSE <<>>
  IN  IF ~Full(table[d]) \/ table[d].was_inserted THEN results
      ELSE Insert(results, key, <<d>> \o queue)

MarkInserted(table, d) ==
  IF Full(table[d]) THEN [table EXCEPT ![d].was_inserted = TRUE] ELSE table

-----------------------------------------------------------------------------
\* The groups that rm_shred_group_postprocess feeds: files that have a duplicate.
Fed(t)    == {f \in DOMAIN t.content :
                \E h \in DOMAIN t.content \ {f} : t.content[h] = t.content[f]}
Digests   == {tree.content[f] : f \in Fed(tree)}
Better(p, q) == tree.rank[p] < tree.rank[q]
Group(c)  == SetToSortSeq({f \in Fed(tree) : tree.content[f] = c}, Better)

\* One call of rm_tm_feed, for a file of the group that is being fed.
FeedOne(acc, f) ==
  LET d      == Dir(f)
      fed    == Insert(acc.dirs, d, Add(Search(acc.dirs, d, DirectoryNew(d)), f))
  IN  [dirs |-> MarkInserted(fed, d),
       valid |-> IF d \in DOMAIN acc.dirs THEN acc.valid ELSE <<d>> \o acc.valid,
       results |-> Inserted(acc.results, fed, d)]

Feed(c) ==
  /\ phase = "feed" /\ c \in todo
  /\ LET all == FoldLeft(FeedOne, [dirs |-> dir_tree, valid |-> valid_dirs,
                                   results |-> result_table], Group(c))
     IN  /\ dir_tree' = all.dirs
         /\ valid_dirs' = all.valid
         /\ result_table' = all.results
  /\ todo' = todo \ {c}
  /\ UNCHANGED <<cfg, phase, aborted, out>>

\* g_queue_sort by rm_tm_sort_paths_reverse and by rm_tm_sort_paths is stable.
DeepestFirst(dirs) ==
  LET depth == Max({Len(d) : d \in ToSet(dirs)} \cup {0})
  IN  FlattenSeq([n \in 1..depth + 1 |-> SelectSeq(dirs, LAMBDA d : Len(d) = depth + 1 - n)])
ShallowestFirst(dirs) ==
  LET depth == Max({Len(d) : d \in ToSet(dirs)} \cup {0})
  IN  FlattenSeq([n \in 1..depth + 1 |-> SelectSeq(dirs, LAMBDA d : Len(d) = n - 1)])

\* rm_tm_finish, once the shredder has fed everything.
Finish ==
  /\ phase = "feed" /\ todo = {}
  /\ phase' = "cluster"
  /\ todo' = DeepestFirst(valid_dirs)
  /\ UNCHANGED <<cfg, dir_tree, valid_dirs, result_table, aborted, out>>

\* rm_tm_cluster_up: the directory is merged into its parent, and the parent,
\* if that makes it full, into its own, before the next valid directory.
ClusterUp ==
  /\ phase = "cluster" /\ todo # <<>>
  /\ LET d       == Head(todo)
         p       == Dir(d)
         parent  == Search(dir_tree, p, DirectoryNew(p))
         merged  == Insert([dir_tree EXCEPT ![d].was_merged = TRUE], p,
                        IF dir_tree[d].was_merged THEN parent
                        ELSE AddSubdir(parent, dir_tree[d], d))
     IN  /\ dir_tree' = MarkInserted(merged, p)
         /\ result_table' = Inserted(result_table, merged, p)
         /\ todo' = IF Full(merged[p]) /\ p # <<>>
                    THEN <<p>> \o Tail(todo) ELSE Tail(todo)
  /\ UNCHANGED <<cfg, valid_dirs, phase, aborted, out>>

\* rm_tm_extract starts with the groups of at least two, unless rmlint was aborted.
Extract ==
  /\ phase = "cluster" /\ todo = <<>>
  /\ phase' = IF aborted THEN "done" ELSE "extract"
  /\ todo' = {key \in DOMAIN result_table : Len(result_table[key]) >= 2}
  /\ UNCHANGED <<cfg, dir_tree, valid_dirs, result_table, aborted, out>>

-----------------------------------------------------------------------------
\* A directory and all that was merged into it, through directories that pass.
Subtree(table, d, Pass(_)) ==
  {e \in DOMAIN table : /\ IsPrefix(d, e)
                        /\ \A k \in Len(d)..Len(e) :
                             /\ SubSeq(e, 1, k) \in DOMAIN table
                             /\ Pass(table[SubSeq(e, 1, k)])
                             /\ k > Len(d) => table[SubSeq(e, 1, k)].was_merged}

Whole(table, d) == Subtree(table, d, LAMBDA e : TRUE)
FilesOf(table, d) == UNION {table[e].known_files : e \in Whole(table, d)}

\* Mutant: only the directory itself is marked.
MarkFinishedFlat(table, d) == [table EXCEPT ![d].finished = TRUE]
\* rm_tm_mark_finished stops at what is finished already.
MarkFinished(table, d) ==
  LET marked == Subtree(table, d, LAMBDA e : ~e.finished)
  IN  [e \in DOMAIN table |-> IF e \in marked THEN [table[e] EXCEPT !.finished = TRUE]
                              ELSE table[e]]

\* rm_tm_mark_original_files: what is below is free to be a duplicate again.
MarkOriginalFiles(table, d) ==
  [e \in DOMAIN table |-> IF e \in Whole(table, d)
                          THEN [table[e] EXCEPT !.finished = FALSE] ELSE table[e]]

\* The directories of a group that no group before it has finished, in the order
\* in which the loop finds them.
Unreported(acc, d) ==
  IF acc.table[d].finished THEN acc
  ELSE [table |-> MarkFinished(acc.table, d), dirs |-> <<d>> \o acc.dirs]

\* rm_tm_sort_orig_criteria.
DirOutranks(d, e) ==
  LET n == dir_tree[d].prefd_files
      m == dir_tree[e].prefd_files
  IN  IF n # m THEN (IF option.keepUntagged THEN n < m ELSE m < n)
      ELSE LET prefd(x) == dir_tree[x].prefd_files >= dir_tree[x].dupe_count
           IN  IF prefd(d) # prefd(e) THEN prefd(d) ELSE Better(d, e)

\* Mutant: no directory but the first is protected by its tags.
KeptDirsFirst(dirs) == {dirs[1]}
\* The first is the original, and so are those that consist of protected files.
KeptDirs(dirs) ==
  {dirs[1]} \cup {d \in ToSet(dirs) :
     LET prefd == {f \in FilesOf(dir_tree, d) : tree.prefd[f]}
     IN  \/ Cardinality(prefd) = dir_tree[d].dupe_count /\ option.keepTagged
         \/ prefd = {} /\ option.keepUntagged}

\* rm_tm_output_group, of files or directories with the originals among them.
OutputGroup(kind, seq, kept) ==
  IF Len(seq) < 2 \/ ToSet(seq) \subseteq kept THEN {}
  ELSE {[kind |-> kind, paths |-> ToSet(seq), kept |-> kept]}

Each(kind, files) == {[kind |-> kind, paths |-> {f}, kept |-> {f}] : f \in files}

\* rm_tm_cmp_directory_groups; the order of equals is that of a hash table.
NextGroups == {k \in todo : \A j \in todo :
  dir_tree[Head(result_table[j])].mergeups <= dir_tree[Head(result_table[k])].mergeups}

\* rm_tm_filter_hidden_directories.
Visible(dirs) == IF option.partialHidden THEN SelectSeq(dirs, LAMBDA d : ~Hidden(d)) ELSE dirs

\* One turn of the first loop of rm_tm_extract.
ExtractGroup(key) ==
  /\ phase = "extract" /\ ~aborted /\ key \in NextGroups
  /\ LET dirs     == ShallowestFirst(result_table[key])
         found    == FoldLeft(Unreported, [table |-> dir_tree, dirs |-> <<>>], Visible(dirs))
         ranked   == SortSeq(found.dirs, DirOutranks)
         marked   == IF ranked = <<>> THEN found.table
                     ELSE MarkOriginalFiles(found.table, ranked[1])
         parts    == UNION {{e \in Whole(marked, d) : ~marked[e].was_dupe_extracted} :
                              d \in ToSet(ranked)}
         rest     == {d \in ToSet(ranked) : option.writeUnfinished /\ marked[d].finished}
     IN  /\ dir_tree' = [e \in DOMAIN marked |->
               IF e \in parts THEN [marked[e] EXCEPT !.was_dupe_extracted = TRUE] ELSE marked[e]]
         /\ out' = out
              \cup Each("part", UNION {marked[e].known_files : e \in parts})
              \cup Each("unique", UNION {FilesOf(marked, d) : d \in rest})
              \cup (IF ranked = <<>> THEN {}
                    ELSE OutputGroup("dir", ranked, KeptDirs(ranked)))
  /\ todo' = todo \ {key}
  /\ UNCHANGED <<cfg, valid_dirs, result_table, phase, aborted>>

-----------------------------------------------------------------------------
\* rm_tm_iter_unfinished_files: the files of all that is unfinished, by digest.
ForwardUnresolved ==
  /\ phase = "extract" /\ (todo = {} \/ aborted)
  /\ phase' = "files"
  /\ todo' = {[digest |-> c, files |-> {f \in Fed(tree) : /\ tree.content[f] = c
                                                          /\ ~dir_tree[Dir(f)].finished}] :
                c \in {tree.content[f] : f \in {h \in Fed(tree) : ~dir_tree[Dir(h)].finished}}}
  /\ dir_tree' = [d \in DOMAIN dir_tree |-> [dir_tree[d] EXCEPT !.finished = TRUE]]
  /\ UNCHANGED <<cfg, valid_dirs, result_table, aborted, out>>

\* rm_shred_cmp_orig_criteria and rm_shred_group_find_original.
Outranks(f, h) ==
  IF tree.prefd[f] # tree.prefd[h] THEN tree.prefd[f] # option.keepUntagged
  ELSE Better(f, h)

\* What rm_shred_group_find_original keeps of a group of files.
KeptFiles(files) ==
  {f \in files : \/ \A h \in files \ {f} : Outranks(f, h)
                 \/ tree.prefd[f] /\ option.keepTagged
                 \/ ~tree.prefd[f] /\ option.keepUntagged}

\* The second loop of rm_tm_extract.
OutputFiles(g) ==
  /\ phase = "files" /\ g \in todo
  /\ LET files == IF option.partialHidden
                  THEN {f \in g.files : \A k \in 1..Len(f) : f[k] \notin tree.hidden}
                  ELSE g.files
     IN  out' = out \cup (IF Cardinality(files) >= 2 /\ option.findDuplicates
                          THEN OutputGroup("dup", SetToSeq(files), KeptFiles(files))
                          ELSE IF option.writeUnfinished THEN Each("unique", files) ELSE {})
  /\ todo' = todo \ {g}
  /\ UNCHANGED <<cfg, dir_tree, valid_dirs, result_table, phase, aborted>>

Return ==
  /\ phase = "files" /\ todo = {}
  /\ phase' = "done"
  /\ UNCHANGED <<cfg, dir_tree, valid_dirs, result_table, todo, aborted, out>>

\* rm_session_abort, from a signal handler.
Abort ==
  /\ ~aborted /\ phase \in {"cluster", "extract"}
  /\ aborted' = TRUE
  /\ UNCHANGED <<cfg, dir_tree, valid_dirs, result_table, todo, phase, out>>

Done == phase = "done" /\ UNCHANGED vars

Init ==
  /\ cfg \in [tree : Trees, option : Options]
  /\ dir_tree = EmptyTrie /\ result_table = << >>
  /\ valid_dirs = <<>> /\ phase = "feed" /\ aborted = FALSE /\ out = {}
  /\ todo = Digests

\* rm_tm_feed, group by group, then rm_tm_finish.
Next ==
  \/ phase = "feed" /\ \E c \in todo : Feed(c)
  \/ phase = "extract" /\ \E key \in todo : ExtractGroup(key)
  \/ phase = "files" /\ \E g \in todo : OutputFiles(g)
  \/ Finish \/ ClusterUp \/ Extract \/ ForwardUnresolved \/ Return \/ Abort \/ Done

Spec == Init /\ [][Next]_vars

-----------------------------------------------------------------------------
(* Properties *)

Groups(kind) == {g \in out : g.kind = kind}

\* What a removal script made of the report removes.
Removed == {f \in DOMAIN tree.content :
              \/ \E g \in Groups("dup") : f \in g.paths \ g.kept
              \/ \E g \in Groups("dir") : \E d \in g.paths \ g.kept : IsPrefix(d, f)}

\* Whatever is reported, as directories and as files together, every content of
\* which something is removed is kept in some place that no group removes.
EveryContentIsKept ==
  \A f \in Removed : \E h \in DOMAIN tree.content \ Removed : tree.content[h] = tree.content[f]

\* How often a content occurs below a directory.
Occurrences(d, c) == Cardinality({f \in DOMAIN tree.content : IsPrefix(d, f) /\ tree.content[f] = c})

\* "Two directories are considered equal if they contain the exact same data" and
\* "rm_directory_equal really compares all the file's hashes": directories are reported as duplicates of each other only if
\* they hold the same contents, each as often.
DirectoriesAreEqual ==
  \A g \in Groups("dir") : \A d, e \in g.paths : \A c \in Range(tree.content) :
    Occurrences(d, c) = Occurrences(e, c)

\* "figure out which directories consist fully out of equal duplicates": nothing of a directory that
\* is reported is a file without a duplicate, an error, or a path that the user
\* gave, and the directory is not above one.
DirectoriesAreWhole ==
  \A g \in Groups("dir") : \A d \in g.paths :
    /\ \A p \in DOMAIN tree.entries :
         Below(d, p) => tree.entries[p] # "error" /\ (Counted(p) => p \in Fed(tree))
    /\ \A p \in tree.given : ~Below(d, p)

\* What goes with its directory is in no other group, neither by itself nor in a
\* directory: "mark all subdirs of it as finished so they do not get reported
\* twice".
RemovedOnce ==
  \A g \in Groups("dir") : \A d \in g.paths \ g.kept : \A h \in out \ {g} :
    /\ h.kind = "dup" => \A f \in h.paths : ~IsPrefix(d, f)
    /\ h.kind = "dir" => \A e \in h.paths : ~IsPrefix(d, e)

\* A tagged file does not go with its directory, nor one that -K protects.
ProtectedFilesStay ==
  \A f \in Removed : /\ ~(tree.prefd[f] /\ option.keepTagged)
                     /\ ~(~tree.prefd[f] /\ option.keepUntagged)
=============================================================================
