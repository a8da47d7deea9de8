------------------------------- MODULE Replay -------------------------------
(***************************************************************************)
(* rmlint --replay: reports that earlier runs wrote as JSON documents      *)
(* (lib/formats/json.c) are read again, filtered, grouped anew and passed  *)
(* to the formatters (lib/replay.c, rm_cmd_replay_main in lib/cmdline.c).  *)
(* No content is read: an entry is believed if the modification time of    *)
(* its path is the one that it states.                                     *)
(*                                                                         *)
(* The initial state chooses earlier runs, a file system, which is edited  *)
(* before the replay starts, and the options of the replay.                *)
(***************************************************************************)
EXTENDS Integers, Sequences, FiniteSets, SequencesExt, PathTrie

CONSTANT Replays   \* what to choose from, see ReplayAssumption

VARIABLES
  cfg,          \* the choice
  disk,         \* node: inode of a path; data: what an inode holds, and its mtime
  polly,        \* the parrot: the document, the place in it, its directory_trie,
                \* and the files that are being unpacked from a directory
  last_digest,  \* <<>> for NULL
  group,        \* the group that is being read
  groups,       \* cage->groups
  parts,        \* part_of_directory_entries
  out,          \* what went to the formatters or, "fed", to the directory merger
  phase,
  budget        \* edits that may still be made

vars == <<cfg, disk, polly, last_digest, group, groups, parts, out, phase, budget>>

DupeTypes == {"duplicate", "duplicate dir"}
LintTypes == {"emptydir", "emptyfile", "badlink"}
PartOfDir == "part of directory"

\* must and keep are -m, -M and -k, -K; older is --newer-than (min_mtime), {} without;
\* basename is -b; order is what -S makes of the paths, best first; longer holds the
\* pairs of names of which the second is the first and more letters.
ReplayAssumption ==
  \A r \in Replays :
    /\ \A k \in DOMAIN r.runs : r.runs[k].merge \in BOOLEAN /\ r.runs[k].prefd \in BOOLEAN
    /\ r.keep \in {"none", "tagged", "untagged"} /\ r.must \in {"none", "tagged", "untagged"}
    /\ r.types \subseteq DupeTypes \cup LintTypes \cup {"unique"}
    /\ r.min \in Nat /\ r.max \in Nat /\ r.older \subseteq Nat /\ r.edits \in Nat
    /\ IsInjective(r.order) /\ DOMAIN r.node \subseteq ToSet(r.order)

-----------------------------------------------------------------------------
(* lib/formats/json.c *)

\* rm_fmt_elem: what a run lists of its results, and as what.
Listed(result, run) ==
  result.type = "unique" => run.unique \/ (result.digest # {} /\ run.write_unfinished)

\* A unique file is an original unless the run would not look at its like.
Element(result, run) ==
  [result EXCEPT
     !.original = IF result.type = "unique"
                  THEN ~(run.keep = "tagged" /\ ~result.prefd)
                         /\ ~(run.keep = "untagged" /\ result.prefd)
                  ELSE @,
     !.parent = IF result.type = PartOfDir THEN @ ELSE <<>>]

Document(run) ==
  LET listed == SelectSeq(run.results, LAMBDA r : Listed(r, run))
  IN  [k \in DOMAIN listed |-> Element(listed[k], run)]

-----------------------------------------------------------------------------
Unread(k) == [doc |-> k, index |-> 1, trie |-> EmptyTrie, unpacker |-> <<>>]

Init ==
  /\ cfg \in Replays
  /\ disk = [node |-> cfg.node, data |-> cfg.data]
  /\ polly = Unread(1)
  /\ last_digest = <<>> /\ group = <<>> /\ groups = <<>> /\ parts = <<>> /\ out = <<>>
  /\ phase = "edit" /\ budget = cfg.edits

Inode(p) == disk.node[p]
Data(p)  == disk.data[Inode(p)]
Exists(p) == p \in DOMAIN disk.node

Touch(data, i) == [data EXCEPT ![i].mtime = @ + 1]

\* Contents change under all names of an inode; the mtime of the directory does not.
Write ==
  \E p \in cfg.editable :
    /\ phase = "edit" /\ budget > 0 /\ Exists(p)
    /\ disk' = [disk EXCEPT !.data = [Touch(disk.data, Inode(p)) EXCEPT ![Inode(p)].content = "new"]]
    /\ budget' = budget - 1
    /\ UNCHANGED <<cfg, polly, last_digest, group, groups, parts, out, phase>>

Delete ==
  \E p \in cfg.editable :
    /\ phase = "edit" /\ budget > 0 /\ Exists(p)
    /\ disk' = [node |-> [q \in DOMAIN disk.node \ {p} |-> disk.node[q]],
                data |-> IF Exists(Front(p)) THEN Touch(disk.data, Inode(Front(p)))
                         ELSE disk.data]
    /\ budget' = budget - 1
    /\ UNCHANGED <<cfg, polly, last_digest, group, groups, parts, out, phase>>

Start ==
  /\ phase = "edit"
  /\ phase' = "load"
  /\ UNCHANGED <<cfg, disk, polly, last_digest, group, groups, parts, out, budget>>

-----------------------------------------------------------------------------
(* rm_parrot_next *)

Run     == cfg.runs[polly.doc]
Unpacks == Run.merge /\ ~cfg.merge_directories
Packs   == \E k \in DOMAIN cfg.runs : cfg.merge_directories /\ ~cfg.runs[k].merge

\* Mutant: what changed since is believed.
ReadableWhenever(e) == Exists(e.path)

\* rm_parrot_try_next: the path is there, and as old as the document says.
Readable(e) == Exists(e.path) /\ Data(e.path).mtime = e.mtime

\* A directory has the size that the document states.
FileOf(e) ==
  [type |-> e.type, path |-> e.path, original |-> e.original, digest |-> e.digest,
   mtime |-> e.mtime, depth |-> e.depth, prefd |-> FALSE,
   size |-> IF e.type = "duplicate dir" THEN e.size ELSE Data(e.path).size]

AddChild(trie, e) ==
  IF e.type = PartOfDir
  THEN Insert(trie, e.parent, Append(Search(trie, e.parent, <<>>), FileOf(e)))
  ELSE trie

\* rm_parrot_iter_dir_children over the directory and those below it.
Unpacked(trie, dirs) ==
  [k \in DOMAIN FlattenSeq([d \in DOMAIN dirs |-> trie[dirs[d]]]) |->
     [FlattenSeq([d \in DOMAIN dirs |-> trie[dirs[d]]])[k] EXCEPT !.type = "duplicate"]]

Cleared(trie, dirs) == [p \in DOMAIN trie |-> IF p \in dirs THEN <<>> ELSE trie[p]]

\* strncmp(file_path, rmpath->path, path_len) == 0
StartsWith(path, given) ==
  /\ Len(given) \in 1..Len(path)
  /\ IsPrefix(Front(given), path)
  /\ \/ Last(given) = path[Len(given)]
     \/ <<Last(given), path[Len(given)]>> \in cfg.longer

\* rm_parrot_check_path: the longest of the paths given.
Matches(path) == {g \in cfg.paths : StartsWith(path, g.path)}
Highest(path) == CHOOSE g \in Matches(path) : \A h \in Matches(path) : StartsWith(g.path, h.path)

Hidden(path) == \E k \in DOMAIN path : path[k] \in cfg.dotted

\* rm_parrot_check_depth, _size, _hidden, _permissions, _types, _crossdev and _path.
Passes(f) ==
  /\ f.depth <= cfg.depth
  /\ f.type \in DupeTypes => cfg.min <= f.size /\ f.size <= cfg.max
  /\ cfg.ignore_hidden => ~Hidden(f.path)
  /\ f.path \notin cfg.forbidden
  /\ f.type \in cfg.types \cup {PartOfDir}
  /\ cfg.crossdev \/ Data(f.path).dev \in {Data(g.path).dev : g \in {h \in cfg.paths : Exists(h.path)}}
  /\ Matches(f.path) # {}

Tagged(f) == [f EXCEPT !.prefd = Highest(f.path).prefd \/ Run.prefd]

WithGroup(gs, g) == IF g = <<>> THEN gs ELSE Append(gs, g)

\* Two digests without bytes are equal ("this non-sense is used in replays").
StartsGroup(f) == \/ f.digest = {} /\ f.original
                  \/ last_digest # <<>> /\ f.digest # last_digest[1]

\* The body of the loop of rm_parrot_cage_load.
Take(f) ==
  IF ~Passes(f)
  THEN UNCHANGED <<last_digest, group, groups, parts>>
  ELSE IF f.type = PartOfDir
  THEN parts' = Append(parts, Tagged(f)) /\ UNCHANGED <<last_digest, group, groups>>
  ELSE /\ last_digest' = IF last_digest = <<>> \/ StartsGroup(f) THEN <<f.digest>>
                         ELSE last_digest
       /\ groups' = IF StartsGroup(f) THEN WithGroup(groups, group) ELSE groups
       /\ group' = IF StartsGroup(f) THEN <<Tagged(f)>> ELSE Append(group, Tagged(f))
       /\ UNCHANGED parts

Reading  == phase = "load" /\ polly.unpacker = <<>> /\ polly.index <= Len(Document(Run))
Advanced == [polly EXCEPT !.index = @ + 1]

ReadElement ==
  LET e == Document(Run)[polly.index]
  IN  /\ Reading
      /\ IF ~Readable(e)
         THEN polly' = Advanced /\ UNCHANGED <<last_digest, group, groups, parts>>
         ELSE /\ ~(Unpacks /\ e.type = "duplicate dir")
              /\ polly' = [Advanced EXCEPT !.trie = AddChild(@, e)]
              /\ Take(FileOf(e))
      /\ UNCHANGED <<cfg, disk, out, phase, budget>>

\* The files of a duplicate directory take its place, in any order of its directories.
UnpackDirectory ==
  LET e == Document(Run)[polly.index]
  IN  /\ Reading
      /\ Readable(e) /\ Unpacks /\ e.type = "duplicate dir"
      /\ LET dirs == VisitedFrom(polly.trie, e.path)
         IN  \E s \in SetToSeqs(dirs) :
               polly' = [Advanced EXCEPT !.unpacker = Unpacked(polly.trie, s),
                                      !.trie = Cleared(polly.trie, dirs)]
      /\ UNCHANGED <<cfg, disk, last_digest, group, groups, parts, out, phase, budget>>

ReadUnpacked ==
  /\ phase = "load" /\ polly.unpacker # <<>>
  /\ Take(Head(polly.unpacker))
  /\ polly' = [polly EXCEPT !.unpacker = Tail(@)]
  /\ UNCHANGED <<cfg, disk, out, phase, budget>>

-----------------------------------------------------------------------------
(* rm_parrot_cage_flush *)

\* Mutant: groups stay apart.
MergeOneNever(merged, g) == Append(merged, g)

\* rm_parrot_merge_identical_groups: to the last group with this checksum, if it is of
\* the same type.
MergeOne(merged, g) ==
  LET same == {k \in DOMAIN merged : merged[k][1].digest = g[1].digest}
      last == CHOOSE k \in same : \A l \in same : l <= k
  IN  IF g[1].digest # {} /\ same # {} /\ merged[last][1].type = g[1].type
      THEN [merged EXCEPT ![last] = @ \o g]
      ELSE Append(merged, g)

MergeIdentical(gs) == FoldLeft(MergeOne, <<>>, gs)

\* A single part of a directory is dropped, more of them come first.
EndDocument ==
  LET read == (IF Len(parts) > 1 THEN <<parts>> ELSE <<>>) \o WithGroup(groups, group)
      last == polly.doc = Len(cfg.runs)
  IN  /\ phase = "load" /\ polly.unpacker = <<>> /\ polly.index > Len(Document(Run))
      /\ groups' = IF last THEN MergeIdentical(read) ELSE read
      /\ phase' = IF last THEN "flush" ELSE "load"
      /\ polly' = IF last THEN polly ELSE Unread(polly.doc + 1)
      /\ group' = <<>> /\ parts' = <<>> /\ last_digest' = <<>>
      /\ UNCHANGED <<cfg, disk, out, budget>>

\* The test that --newer-than makes: not one file is older.
AllNewer(g) == cfg.older # {} /\ \A k \in DOMAIN g : \A t \in cfg.older : g[k].mtime >= t

\* rm_file_cmp of two files of a report.
Alike(f, h) == f.size = h.size /\ (cfg.basename => Last(f.path) = Last(h.path))

\* rm_parrot_fix_match_opts: only files with a twin.
FixMatchOpts(g) ==
  LET twinned == {k \in DOMAIN g : \E l \in DOMAIN g \ {k} : Alike(g[k], g[l])}
  IN  IF cfg.basename THEN FoldLeftDomain(LAMBDA s, k : IF k \in twinned THEN Append(s, g[k]) ELSE s, <<>>, g)
      ELSE g

FixMustMatchTagged(g) ==
  LET some(pref) == \E k \in DOMAIN g : g[k].prefd = pref
  IN  IF /\ \A k \in DOMAIN g : g[k].type \in DupeTypes
         /\ (cfg.must = "tagged" /\ ~some(TRUE)) \/ (cfg.must = "untagged" /\ ~some(FALSE))
      THEN <<>> ELSE g

\* rm_parrot_fix_duplicate_entries: the first entry of a path is kept.
FixDuplicateEntries(g) ==
  FoldLeftDomain(LAMBDA s, k :
    IF g[k].type # PartOfDir
       /\ \E l \in 1..k - 1 : g[l].type # PartOfDir /\ g[l].path = g[k].path
    THEN s ELSE Append(s, g[k]), <<>>, g)

Place(path) == CHOOSE k \in DOMAIN cfg.order : cfg.order[k] = path

\* rm_shred_cmp_orig_criteria; the tag decides the other way if tagged files may not be kept.
Best(f, h) ==
  IF f.prefd # h.prefd THEN f.prefd = ~(cfg.keep = "untagged" \/ cfg.must = "untagged")
  ELSE Place(f.path) <= Place(h.path)

Keeps(f) == (cfg.keep = "tagged" /\ f.prefd) \/ (cfg.keep = "untagged" /\ ~f.prefd)

\* rm_parrot_cage_write_group.  The length of the list still counts the duplicate
\* entries, which are unlinked as if from the list of groups.
WriteGroup ==
  LET g        == Head(groups)
      filtered == FixMustMatchTagged(FixMatchOpts(IF AllNewer(g) THEN <<>> ELSE g))
      sorted   == SortSeq(FixDuplicateEntries(filtered), Best)
  IN  /\ phase = "flush" /\ groups # <<>>
      /\ groups' = Tail(groups)
      /\ out' = IF Len(g) < 2 THEN out
                ELSE out \o [k \in DOMAIN sorted |->
                       [sorted[k] EXCEPT !.original = (k = 1 \/ Keeps(sorted[k])) /\ sorted[k].type \in DupeTypes]
                         @@ [twins |-> Len(filtered),
                             fed |-> Packs /\ sorted[k].type = "duplicate"]]
      /\ UNCHANGED <<cfg, disk, polly, last_digest, group, parts, phase, budget>>

Finish ==
  /\ phase = "flush" /\ groups = <<>>
  /\ phase' = "done"
  /\ UNCHANGED <<cfg, disk, polly, last_digest, group, groups, parts, out, budget>>

Done == phase = "done" /\ UNCHANGED vars

Next == \/ Write \/ Delete \/ Start
        \/ ReadElement \/ UnpackDirectory \/ ReadUnpacked \/ EndDocument
        \/ WriteGroup \/ Finish \/ Done

Spec == Init /\ [][Next]_vars

-----------------------------------------------------------------------------
(* Properties *)

IsDuplicate(k) == out[k].type \in DupeTypes /\ ~out[k].original /\ ~out[k].fed
Gone(p) == \E k \in DOMAIN out : IsDuplicate(k) /\ IsPrefix(out[k].path, p)
Files == {p \in DOMAIN disk.node : Data(p).kind = "file"}

\* Whatever the runs, the filters and the edits: were the duplicates removed that a
\* replay reports, every content would still be in a file.
NothingVanishes ==
  phase = "done" =>
    \A p \in Files : Gone(p) => \E q \in Files : ~Gone(q) /\ Data(q).content = Data(p).content

\* "make sure that no files are deleted from b.json" (docs/rmlint.1.rst): with -k no file
\* is reported for removal that is under a preferred path, or in a preferred document.
PreferredStay ==
  phase = "done" /\ cfg.keep = "tagged" =>
    \A k \in DOMAIN out : IsDuplicate(k) =>
      /\ ~Highest(out[k].path).prefd
      /\ \A r \in DOMAIN cfg.runs : cfg.runs[r].prefd =>
           \A e \in ToSet(cfg.runs[r].results) : e.path # out[k].path

\* What the documents say that a replay without filters repeats.
Said ==
  {e \in UNION {ToSet(Document(cfg.runs[k])) : k \in DOMAIN cfg.runs} :
     e.type \in IF cfg.merge_directories THEN DupeTypes ELSE {"duplicate", PartOfDir}}
Twins(e) == {f.path : f \in {h \in Said : h.digest = e.digest}}

\* A replay without filters of what has not changed since reports each duplicate once,
\* in a group with its twins of all documents, of which the best is the original: also
\* the files of duplicate directories when these are not asked for.
ReplayRepeats ==
  phase = "done" /\ cfg.plain /\ budget = cfg.edits =>
    /\ \A e \in Said : Cardinality(Twins(e)) > 1 =>
         Cardinality({k \in DOMAIN out : out[k].path = e.path /\ out[k].type \in DupeTypes}) = 1
    /\ \A k \in DOMAIN out : out[k].type \in DupeTypes =>
         \E e \in Said : /\ e.path = out[k].path
                         /\ out[k].original <=> \A p \in Twins(e) : Place(e.path) <= Place(p)

\* "only duplicates from previous runs are printed" (docs/rmlint.1.rst): a duplicate
\* comes after an original that is its twin in one of the documents.
OnlyOldDuplicates ==
  \A k \in DOMAIN out : out[k].type \in DupeTypes /\ ~out[k].original =>
    \E l \in 1..k - 1 :
      /\ out[l].original
      /\ \E r \in DOMAIN cfg.runs : \E n \in DOMAIN cfg.runs[r].twins :
           {out[k].path, out[l].path} \subseteq cfg.runs[r].twins[n]
=============================================================================
