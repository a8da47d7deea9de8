---------------------------- MODULE PostProcess ----------------------------
(***************************************************************************)
(* What the thread of the result pool makes of one finished group (the     *)
(* second half of lib/shredder.c): clusters of checksum twins and of       *)
(* hardlinks are unbundled to a flat list; files with the basename of the  *)
(* best one, and files outside the mtime window, are split off into groups *)
(* of their own, recursively; what is left is tested again, its originals  *)
(* are chosen, and the group is reported, as duplicates or as unique files.*)
(*                                                                         *)
(* The files and the options are chosen in the initial state, from the     *)
(* sets that the constants give: a run looks at one group for each choice. *)
(* The recursion is a stack of frames, one for each call of                *)
(* rm_shred_group_postprocess.                                             *)
(***************************************************************************)
EXTENDS Integers, Sequences, FiniteSets, FiniteSetsExt, SequencesExt

CONSTANTS
  Files,        \* 1..n, by rank: what rm_pp_cmp_criterion makes of -S
  Options,      \* the options to choose from, see OptionRecord
  Attributes(_), \* the metadata a file may have that these options read
  Inode,        \* Inode[f]: hardlinks of one inode are bundled under one of them
  Twins         \* sequences of inodes with one external checksum; the first hosts

AttributeRecord == [prefd : BOOLEAN, mtime : Nat, name : STRING]

\* window = -1 and barrier = 0 stand for --mtime-window and --newer-than not given.
OptionRecord ==
  [keepTagged : BOOLEAN, keepUntagged : BOOLEAN, mustTagged : BOOLEAN,
   mustUntagged : BOOLEAN, unmatchedBasenames : BOOLEAN, window : {-1} \cup Nat,
   barrier : Nat, keepHardlinked : BOOLEAN]

PostProcessAssumption ==
  /\ Files = 1..Cardinality(Files) /\ Files # {}
  /\ Options \subseteq OptionRecord
  /\ \A o \in Options : Attributes(o) \subseteq AttributeRecord
  /\ DOMAIN Inode = Files
  /\ \A t \in Twins : Len(t) > 1 /\ IsInjective(t)

\* The links of an inode share all metadata but their names and paths.
Links(f) == {h \in Files : Inode[h] = Inode[f]}

VARIABLES
  file,         \* the metadata of each file
  cfg,          \* the options
  held_files,   \* the group as it comes from the result pool, being unbundled
  cursor,       \* the place in it that rm_shred_result_factory has come to
  cluster,      \* RmFile.cluster
  stack,        \* the calls of rm_shred_group_postprocess, innermost last
  is_original,
  lint_type,
  reported,     \* the groups that went to the output
  total_lint_size

vars == <<file, cfg, held_files, cursor, cluster, stack, is_original, lint_type,
          reported, total_lint_size>>

NoFile == 0

\* rm_pp_cmp_orig_criteria among links of an inode, by which rm_preprocess
\* sorted them.
Better(f, h) == IF file[f].prefd # file[h].prefd THEN file[f].prefd ELSE f < h

\* RmFile.hardlinks, NULL for an inode with one link, starts with its head.
HasHardlinks(f) == Links(f) # {f}
Hardlinks(f)    == SetToSortSeq(Links(f), Better)
HeadOf(inode)   == CHOOSE f \in Files :
                     Inode[f] = inode /\ \A h \in Links(f) \ {f} : Better(f, h)
IsHardlink(f)   == f # HeadOf(Inode[f])
Bundled(f)      == IF IsHardlink(f) THEN <<>> ELSE Tail(Hardlinks(f))
IsNew(f)        == file[f].mtime >= cfg.barrier

\* RmFile.cluster of a host: twins, or itself alone if it has hardlinks.
InitialCluster(f) ==
  IF \E t \in Twins : t[1] = Inode[f]
  THEN LET t == CHOOSE t \in Twins : t[1] = Inode[f]
       IN  [k \in DOMAIN t |-> HeadOf(t[k])]
  ELSE IF HasHardlinks(f) THEN <<f>> ELSE <<>>

\* The flags that the options of cfg make the group need.
NeedsPref  == cfg.mustTagged \/ cfg.keepUntagged
NeedsNPref == cfg.mustUntagged \/ cfg.keepTagged
NeedsNew   == cfg.barrier > 0

\* rm_file_n_files, rm_file_n_prefd, rm_file_n_nprefd and rm_file_n_new, of a cluster.
Counts(S) ==
  [n_files  |-> Cardinality(S),
   n_prefd  |-> Cardinality({f \in S : file[f].prefd}),
   n_nprefd |-> Cardinality({f \in S : ~file[f].prefd}),
   n_new    |-> Cardinality({f \in S : IsNew(f)})]

\* rm_shred_group_qualifies, of the counters of a frame.
Qualifies(g) ==
  /\ g.num_files >= 2
  /\ NeedsPref => g.n_pref > 0
  /\ NeedsNPref => g.n_npref > 0
  /\ NeedsNew => g.n_new # 0
  /\ cfg.unmatchedBasenames => g.unique_basename = NoFile

\* A group of these files, in this order, with counters that are right.
GroupOf(files) ==
  LET S == ToSet(files)
      n == Counts(S)
  IN  [files |-> files,
       num_files |-> n.n_files,
       n_pref    |-> n.n_prefd,
       n_npref   |-> n.n_nprefd,
       n_new     |-> n.n_new,
       unique_basename |-> IF \E f, h \in S : file[f].name # file[h].name
                           THEN NoFile ELSE files[1]]

Status(g) == IF Qualifies(g) THEN "finishing" ELSE "dormant"

Init ==
  /\ cfg \in Options
  /\ file \in {a \in [Files -> Attributes(cfg)] :
                 \A f \in Files : \A h \in Links(f) :
                    a[h].mtime = a[f].mtime}
  /\ held_files = SetToSortSeq({f \in Files :
                     /\ ~IsHardlink(f)
                     /\ \A t \in Twins : Inode[f] \notin ToSet(Tail(t))}, >)
  /\ cluster = [f \in Files |-> IF IsHardlink(f) THEN <<>> ELSE InitialCluster(f)]
  /\ cursor = 1
  /\ stack = <<>>
  /\ is_original = [f \in Files |-> FALSE]
  /\ lint_type = [f \in Files |-> "duplicate"]
  /\ reported = {} /\ total_lint_size = 0

-----------------------------------------------------------------------------
\* One turn of the loop of rm_shred_result_factory: the guests of the cluster
\* that f hosts, and the other links of its inode, go to the end of the list.
Unbundle(f) ==
  LET guests == Reverse(SelectSeq(cluster[f], LAMBDA h : h # f))
  IN  /\ held_files' = held_files \o guests \o Bundled(f)
      /\ cluster' = [h \in Files |-> IF h \in ToSet(cluster[f]) THEN <<>> ELSE cluster[h]]
      /\ cursor' = cursor + 1

ResultFactory ==
  /\ cursor \in DOMAIN held_files
  /\ Unbundle(held_files[cursor])
  /\ UNCHANGED <<file, cfg, stack, is_original, lint_type, reported, total_lint_size>>

\* A group as rm_shred_group_finalise left it: it qualified, or it did not.
Call(g, status) == [group |-> g, status |-> status, pc |-> "basenames"]

StartPostprocess ==
  /\ cursor = Len(held_files) + 1 /\ stack = <<>> /\ reported = {}
  /\ stack' = <<Call(GroupOf(held_files), Status(GroupOf(held_files)))>>
  /\ UNCHANGED <<file, cfg, held_files, cursor, cluster, is_original, lint_type,
                 reported, total_lint_size>>

-----------------------------------------------------------------------------
\* rm_shred_cmp_orig_criteria: whether a comes before b.  A group holds regular
\* files or symbolic links, never both (rm_file_cmp), and the rank decides
\* between any two files, so that the first and the last test drop out.
Outranks(a, b) ==
  IF file[a].prefd # file[b].prefd
  THEN file[a].prefd # (cfg.keepUntagged \/ cfg.mustUntagged)
  ELSE a < b

\* g_queue_sort is stable.
StableSort(s, Before(_, _)) ==
  LET place(i) == 1 + Cardinality({j \in DOMAIN s :
                        \/ Before(s[j], s[i])
                        \/ j < i /\ ~Before(s[i], s[j])})
  IN  [k \in DOMAIN s |-> s[CHOOSE i \in DOMAIN s : place(i) = k]]

Ranked(s)  == StableSort(s, Outranks)
ByMtime(s) == StableSort(s, LAMBDA a, b : file[a].mtime < file[b].mtime)

\* Files that --keep-all-tagged or --keep-all-untagged protects.
Protected(f) == \/ file[f].prefd /\ cfg.keepTagged
                \/ ~file[f].prefd /\ cfg.keepUntagged

\* Mutant: only the best file is an original.
OriginalsBestOnly(files, status) ==
  IF status = "finishing" THEN {Ranked(files)[1]} ELSE {}

\* The originals that rm_shred_group_find_original chooses.
Originals(files, status) ==
  IF status = "finishing"
  THEN {f \in ToSet(files) : Protected(f)} \cup {Ranked(files)[1]} ELSE {}

\* rm_shred_group_find_original, of the flags of the files.
FindOriginal(files, status) ==
  /\ is_original' = [f \in Files |-> IF f \in ToSet(files)
                                     THEN f \in Originals(files, status) ELSE is_original[f]]
  /\ lint_type' = [f \in Files |-> IF f \in ToSet(files) /\ status # "finishing"
                                   THEN "unique" ELSE lint_type[f]]

-----------------------------------------------------------------------------
\* rm_shred_group_push_file, of a group that is not hashed any more: a hardlink
\* is counted with all the links of its inode.
PushFile(g, f) ==
  LET n == Counts(Links(f))
  IN  [files |-> <<f>> \o g.files,
       num_files |-> g.num_files + n.n_files,
       n_pref    |-> g.n_pref + n.n_prefd,
       n_npref   |-> g.n_npref + n.n_nprefd,
       n_new     |-> g.n_new + n.n_new,
       unique_basename |->
          IF g.num_files = 0 THEN f
          ELSE IF /\ g.unique_basename # NoFile
                  /\ file[f].name # file[g.unique_basename].name
          THEN NoFile ELSE g.unique_basename]

NoGroup == [files |-> <<>>, num_files |-> 0, n_pref |-> 0, n_npref |-> 0, n_new |-> 0,
            unique_basename |-> NoFile]


\* What rm_shred_group_transfer does to the group that f leaves: it lowers
\* n_new for a file that is not new, and leaves unique_basename alone.
TakeOut(g, f) ==
  [g EXCEPT !.files = SelectSeq(@, LAMBDA h : h # f),
            !.num_files = @ - 1,
            !.n_pref = @ - (IF file[f].prefd THEN 1 ELSE 0),
            !.n_npref = @ - (IF file[f].prefd THEN 0 ELSE 1),
            !.n_new = @ - (IF IsNew(f) THEN 0 ELSE 1)]

\* rm_shred_group_transfer of some files of g, one after the other.
Transferred(moved)   == FoldLeft(PushFile, NoGroup, moved)
LeftBehind(g, moved) == FoldLeft(TakeOut, g, moved)

Top    == stack[Len(stack)]
Active(pc) == stack # <<>> /\ Top.pc = pc

\* The caller goes on at pc with what is left to it; the call for the rejects,
\* if there are any, is made first.
Split(files, moved, pc) ==
  LET left == LeftBehind([Top.group EXCEPT !.files = files], moved)
      rest == [Top EXCEPT !.group = left, !.pc = pc]
  IN  stack' = Front(stack) \o <<rest>>
                 \o (IF moved = <<>> THEN <<>>
                     ELSE <<Call(Transferred(moved), Top.status)>>)

\* The files but the best that have its basename.
Namesakes(ranked) ==
  SelectSeq(Tail(ranked), LAMBDA f : file[f].name = file[ranked[1]].name)

\* rm_shred_group_find_original and rm_shred_basename_rejects.
BasenameRejects ==
  /\ Active("basenames")
  /\ FindOriginal(Top.group.files, Top.status)
  /\ LET ranked == Ranked(Top.group.files)
         moved  == IF cfg.unmatchedBasenames /\ Top.status = "finishing"
                   THEN Namesakes(ranked) ELSE <<>>
     IN  Split(ranked, moved, "mtimes")
  /\ UNCHANGED <<file, cfg, held_files, cursor, cluster, reported, total_lint_size>>

\* The places in s before which the mtime jumps by more than the window.
Gap(s) == {k \in 2..Len(s) : file[s[k]].mtime - file[s[k - 1]].mtime > cfg.window}

\* rm_shred_mtime_rejects: everything after the first gap is split off.
MtimeRejects ==
  /\ Active("mtimes")
  /\ LET sorted == ByMtime(Top.group.files)
     IN  IF cfg.window < 0
         THEN Split(Top.group.files, <<>>, "report")
         ELSE Split(sorted, IF Gap(sorted) = {} THEN <<>>
                            ELSE SubSeq(sorted, Min(Gap(sorted)), Len(sorted)), "report")
  /\ UNCHANGED <<file, cfg, held_files, cursor, cluster, is_original, lint_type, reported,
                 total_lint_size>>

\* rm_shred_tag_hardlink_rejects: the links of the originals that come before
\* the first file that is none.
HardlinksOfOriginals(ranked, orig) ==
  LET leading == {k \in DOMAIN ranked : \A n \in 1..k : ranked[n] \in orig}
  IN  {ranked[n] : n \in {n \in DOMAIN ranked : \E k \in leading :
                             k < n /\ Inode[ranked[n]] = Inode[ranked[k]]}}

\* rm_shred_dupe_totals: a bundle of hardlinks is counted once, for its head.
Freed(f) == ~IsHardlink(f)

\* The end of rm_shred_group_postprocess: the criteria are tested again, the
\* originals chosen and the group is reported.
Report ==
  /\ Active("report")
  /\ LET g      == Top.group
         status == Status(g)
         ranked == Ranked(g.files)
         found  == Originals(g.files, status)
         orig   == IF cfg.keepHardlinked /\ status = "finishing"
                   THEN found \cup HardlinksOfOriginals(ranked, found) ELSE found
         dupes  == {f \in ToSet(g.files) : status = "finishing" /\ f \notin orig}
     IN  /\ is_original' = [f \in Files |-> IF f \in ToSet(g.files) THEN f \in orig
                                            ELSE is_original[f]]
         /\ lint_type' = [f \in Files |-> IF f \in ToSet(g.files) /\ status # "finishing"
                                          THEN "unique" ELSE lint_type[f]]
         /\ total_lint_size' = total_lint_size + Cardinality({f \in dupes : Freed(f)})
         /\ reported' = reported \cup {[files |-> ranked, status |-> status]}
  /\ stack' = Front(stack)
  /\ UNCHANGED <<file, cfg, held_files, cursor, cluster>>

Done == stack = <<>> /\ reported # {} /\ UNCHANGED vars

Next == ResultFactory \/ StartPostprocess \/ BasenameRejects \/ MtimeRejects \/ Report \/ Done

Spec == Init /\ [][Next]_vars

-----------------------------------------------------------------------------
(* Properties *)

Over == stack = <<>> /\ reported # {}

Duplicates(r) == {f \in ToSet(r.files) : r.status = "finishing" /\ ~is_original[f]}

\* However a group is unbundled and split, each of its files is reported once.
EachFileReportedOnce ==
  Over => \A f \in Files : /\ \E r \in reported : f \in ToSet(r.files)
                           /\ \A r, q \in reported : f \in ToSet(r.files) \cap ToSet(q.files) => r = q
                           /\ \A r \in reported : Len(r.files) = Cardinality(ToSet(r.files))

\* "Don't delete any duplicates that are in tagged paths (-k) or that are in
\* non-tagged paths (-K)", and whatever is removed, a file of its group stays.
SomethingIsKept ==
  Over => \A r \in reported :
    r.status = "finishing" => /\ \E f \in ToSet(r.files) : is_original[f]
                              /\ \A f \in Duplicates(r) : ~Protected(f)

\* Two duplicates are linked by a chain of files whose mtimes are within the
\* window, for all the groups that are split off.
WithinWindow ==
  Over /\ cfg.window >= 0 =>
    \A r \in reported : \A f \in ToSet(r.files) :
      LET later == {file[h].mtime - file[f].mtime : h \in ToSet(r.files)} \cap (Nat \ {0})
      IN  later # {} => Min(later) <= cfg.window

\* What is reported as duplicates is what fulfils the criteria: the counters
\* that rm_shred_group_transfer adjusts give the answer that counting gives.
\* "Re-check whether what is left of the group still meets all criteria."
RecheckIsExact == Over => \A r \in reported : r.status = Status(GroupOf(r.files))

\* Links that came into the rejects, each counted with all links of the inode, and left
\* them again one by one, since r lies between two gaps and they after it.
LinksPassedThrough(r) ==
  /\ \E f \in Files : \A h \in ToSet(r.files) : file[f].mtime < file[h].mtime
  /\ \E f \in Files : HasHardlinks(f) /\ \A h \in ToSet(r.files) : file[h].mtime < file[f].mtime

\* It is, but that such a group may pass it; and no group that meets the criteria fails it.
RecheckMissesNothing ==
  Over => \A r \in reported :
    r.status # Status(GroupOf(r.files)) => r.status = "finishing" /\ LinksPassedThrough(r)

\* --unmatched-basename, "only consider those files as dupes that do not share
\* the same basename": no duplicate has the basename of the best original.
BasenamesDiffer ==
  Over /\ cfg.unmatchedBasenames =>
    \A r \in reported : \A f \in Duplicates(r) : file[f].name # file[r.files[1]].name

\* --keep-hardlinked, "rmlint will not delete any files that are hardlinked to
\* an original in their respective group".
HardlinksAreKept ==
  Over /\ cfg.keepHardlinked =>
    \A r \in reported : \A f \in Duplicates(r) : \A h \in ToSet(r.files) :
      is_original[h] => Inode[h] # Inode[f]

\* "Deleting hardlinks does not free any space [...] unless all of them would
\* be removed": the size that is reported is the number of inodes that go.  Two
\* cases are left out, in which a head is counted while another link stays: -K
\* and -M rank untagged links above the head, which was chosen with tagged files
\* first; --unmatched-basename puts links with other names in other groups.
LintSizeIsFreed ==
  Over /\ ~(cfg.keepUntagged \/ cfg.mustUntagged \/ cfg.unmatchedBasenames) =>
    total_lint_size =
      Cardinality({Inode[f] : f \in {h \in Files :
        \A l \in Links(h) : lint_type[l] = "duplicate" /\ ~is_original[l]}})
=============================================================================
