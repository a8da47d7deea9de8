------------------------------ MODULE Traverse ------------------------------
(***************************************************************************)
(* The traversal (lib/traverse.c) on the bundled fts(3) (lib/fts/fts.c):   *)
(* for every path of the command line a walk, several of them at a time on *)
(* threads of the scheduler, that list the files they find and the         *)
(* directories that turn out to be empty.                                  *)
(*                                                                         *)
(* A path is a sequence of names.  Counters that are only displayed        *)
(* (ignored_files, ignored_folders) are left out.                          *)
(***************************************************************************)
EXTENDS Integers, Sequences, FiniteSets, FiniteSetsExt, SequencesExt, Functions

CONSTANTS Sites     \* the file systems to walk, see SiteRecord

\* What there is at each path; a link has a target, which need not exist and is
\* no link.  quality is what rm_traverse_file finds out about a file.
NodeRecord == [kind : {"dir", "unreadable", "file", "fifo", "link", "gone"}, target : Seq(STRING),
               dev : Nat, quality : {"plain", "empty", "denied", "badid", "nonstripped",
                                     "outsize", "evil", "clamped", "output"}]

SiteRecord(s) ==
  /\ \A p \in DOMAIN s.nodes : s.nodes[p] \in NodeRecord /\ (p # <<>> => Front(p) \in DOMAIN s.nodes)
  /\ ToSet(s.given) \subseteq DOMAIN s.nodes
  /\ s.threads \in Nat \ {0}

TraverseAssumption == \A s \in Sites : SiteRecord(s)

VARIABLES
  cfg,           \* the site and the options, chosen in the initial state
  walks,         \* for each given path its RmTravBuffer and the stack of its walk
  all_files,     \* session->tables->all_files
  total_files,
  phase,         \* what rm_traverse_tree is doing
  aborted

vars == <<cfg, walks, all_files, total_files, phase, aborted>>

node     == cfg.site.nodes
option   == cfg.option
given    == cfg.site.given
Hidden(path) == path # <<>> /\ Last(path) \in cfg.site.dotted

-----------------------------------------------------------------------------
(* fts(3), as rmlint uses it: FTS_PHYSICAL | FTS_COMFOLLOW | FTS_NOCHDIR.  The *)
(* stack holds the open directories and the current node, each with the        *)
(* siblings that come after it.  real is what the path leads to, once links on *)
(* it were followed; self is the entry itself.                                 *)

\* fts_stat, of what is at a path or, with follow, behind a link at it.
Stat(stack, path, self, follow) ==
  LET at   == IF follow /\ node[self].kind = "link" THEN node[self].target ELSE self
      info == IF at \notin DOMAIN node THEN "SLNONE"
              ELSE CASE node[at].kind \in {"dir", "unreadable"} ->
                          IF \E k \in DOMAIN stack : stack[k].real = at THEN "DC" ELSE "D"
                     [] node[at].kind = "file" -> "F"
                     [] node[at].kind = "fifo" -> "DEFAULT"
                     [] node[at].kind = "link" -> "SL"
                     [] node[at].kind = "gone" -> "NS"
  IN  [path |-> path, self |-> self, real |-> at, info |-> info, instr |-> "none", rest |-> <<>>]

\* The entries of a directory in the order of readdir(3).
Entries(real) ==
  SetToSortSeq({p \in DOMAIN node : p # <<>> /\ Front(p) = real},
               LAMBDA p, q : cfg.site.readdir[Last(p)] < cfg.site.readdir[Last(q)])

Cur(w)   == Last(w.stack)
Level(w) == Len(w.stack) - 1

\* fts_build and the first child of the current directory.
Descend(w) ==
  LET here    == Cur(w)
      entries == Entries(here.real)
      at(p)   == Stat(w.stack, Append(here.path, Last(p)), p, FALSE)
  IN  IF node[here.real].kind = "unreadable"
      THEN [w EXCEPT !.stack = Front(@) \o <<[here EXCEPT !.info = "DNR"]>>]
      ELSE IF entries = <<>>
      THEN [w EXCEPT !.stack = Front(@) \o <<[here EXCEPT !.info = "DP"]>>]
      ELSE [w EXCEPT !.stack = Append(@, [at(entries[1]) EXCEPT
                !.rest = [k \in 1..Len(entries) - 1 |-> at(entries[k + 1])]])]

\* The next sibling, or else the parent in postorder; past the root the stack is empty.
Advance(w) ==
  LET here == Cur(w)
      open == Front(w.stack)
  IN  [w EXCEPT !.stack =
         IF here.rest # <<>> THEN Append(open, [Head(here.rest) EXCEPT !.rest = Tail(here.rest)])
         ELSE IF open = <<>> THEN <<>>
         ELSE Front(open) \o <<[Last(open) EXCEPT !.info = "DP"]>>]

\* fts_read, with what fts_set left at the current node.
Read(w) ==
  LET here == Cur(w)
      top(ent) == [w EXCEPT !.stack = Front(@) \o <<[ent EXCEPT !.rest = here.rest]>>]
  IN  IF here.info = "INIT" THEN top(Stat(<<>>, here.path, here.self, TRUE))
      ELSE IF here.instr = "FOLLOW" /\ here.info \in {"SL", "SLNONE"}
      THEN top(Stat(Front(w.stack), here.path, here.self, TRUE))
      ELSE IF here.info = "D" /\ here.instr = "SKIP" THEN top([here EXCEPT !.info = "DP", !.instr = "none"])
      ELSE IF here.info = "D" THEN Descend(w)
      ELSE Advance(w)

\* fts_set.
Set(w, instr) == [w EXCEPT !.stack = Front(@) \o <<[Last(@) EXCEPT !.instr = instr]>>]

-----------------------------------------------------------------------------
(* rm_traverse_directory *)

\* rm_traverse_file: the lint type that it detects, "none" for a file that it ignores.
DetectedType(quality) ==
  CASE quality = "output" -> "none"
    [] quality = "empty" /\ option.findEmptyfiles -> "emptyfile"
    [] quality = "denied" /\ option.permissions -> "none"
    [] quality = "badid" /\ option.findBadids -> "badid"
    [] quality = "nonstripped" /\ option.findNonstripped -> "nonstripped"
    [] quality = "outsize" /\ option.limits -> "none"
    [] quality \in {"evil", "clamped"} -> "none"
    [] OTHER -> "dupe"

\* readlink(2) of what is no link fails, and the file is left out.
Followed(self, isSymlink) == ~(isSymlink /\ option.followSymlinks) \/ node[self].kind = "link"

\* rm_traverse_is_hidden.
IsHidden(w) ==
  option.partialHidden /\ (Hidden(Cur(w).path) \/ \E k \in 0..Level(w) : k \in w.isHidden)

\* What ADD_FILE appends, if anything; UNKNOWN is for rm_traverse_file to detect.
AddFile(w, type, isSymlink) ==
  LET here  == Cur(w)
      found == IF type # "UNKNOWN" THEN type
               ELSE IF node[here.real].kind \in {"file", "fifo"}
               THEN DetectedType(node[here.real].quality) ELSE "dupe"
  IN  [w EXCEPT !.add = IF found # "none" /\ Followed(here.self, isSymlink)
         THEN <<[path |-> IF isSymlink /\ option.followSymlinks THEN here.real ELSE here.path,
                 lint |-> found, hidden |-> IsHidden(w),
                 symlink |-> isSymlink /\ ~option.followSymlinks]>>
         ELSE <<>>]

NotEmpty(w) == [w EXCEPT !.clear = TRUE]

\* Mutant: a directory is entered at the maximum depth.
DescendsTooFar(w) ==
  /\ option.depth = 0 \/ Level(w) <= option.depth
  /\ option.crossdev \/ node[Cur(w).real].dev = node[w.root].dev
\* A directory in preorder: whether to go into it.
Descends(w) ==
  /\ option.depth = 0 \/ Level(w) < option.depth
  /\ option.crossdev \/ node[Cur(w).real].dev = node[w.root].dev

Preorder(w) ==
  IF ~Descends(w) THEN NotEmpty(Set(w, "SKIP"))
  ELSE [w EXCEPT !.isEmptydir = @ \cup {Level(w) + 1},
                 !.isHidden = IF Level(w) \in @ \/ Hidden(Cur(w).path)
                              THEN @ \cup {Level(w) + 1} ELSE @ \ {Level(w) + 1},
                 !.haveOpen = TRUE]

Postorder(w) ==
  LET flagged == Level(w) + 1 \in w.isEmptydir /\ option.findEmptydirs
  IN  [(IF flagged THEN AddFile(w, "emptydir", FALSE) ELSE w) EXCEPT !.isHidden = @ \ {Level(w) + 1}]

Symlink(w) ==
  LET bad == node[Cur(w).real].target \notin DOMAIN node
  IN  IF option.followSymlinks THEN [Set(NotEmpty(w), "FOLLOW") EXCEPT !.nextIsSymlink = TRUE]
      ELSE IF bad /\ option.findBadlinks THEN AddFile(NotEmpty(w), "badlink", FALSE)
      ELSE IF option.seeSymlinks THEN AddFile(NotEmpty(w), "UNKNOWN", TRUE)
      ELSE NotEmpty(w)

\* The switch over what fts_read returned.
Handle(w) ==
  CASE Cur(w).info = "D"  -> Preorder(w)
    [] Cur(w).info = "DP" -> Postorder(w)
    [] Cur(w).info \in {"DC", "DNR", "NS"} -> NotEmpty(w)
    [] Cur(w).info = "SLNONE" ->
         IF option.findBadlinks THEN AddFile(NotEmpty(w), "badlink", FALSE) ELSE NotEmpty(w)
    [] Cur(w).info = "SL" -> Symlink(w)
    [] Cur(w).info \in {"F", "DEFAULT"} ->
         [AddFile(NotEmpty(w), "UNKNOWN", w.nextIsSymlink) EXCEPT !.nextIsSymlink = FALSE]

\* Mutant: only the directory that the entry is in is not empty.
ClearFlagsHere(w) ==
  [w EXCEPT !.isEmptydir = IF w.clear THEN @ \ {Level(w)} ELSE @, !.clear = FALSE]
\* All directories that are open are not empty.
ClearFlags(w) ==
  [w EXCEPT !.isEmptydir = IF w.clear /\ w.haveOpen THEN {} ELSE @,
            !.haveOpen = @ /\ ~w.clear,
            !.clear = FALSE]

\* A hidden entry with --no-hidden; the flags are cleared with the next one that is not hidden.
IgnoreHidden(w) ==
  [(IF Cur(w).info = "D" THEN Set(w, "SKIP") ELSE w) EXCEPT
     !.clear = TRUE, !.isEmptydir = @ \ {Level(w)}]

Ignored(w) == option.ignoreHidden /\ Level(w) > 0 /\ Hidden(Cur(w).path)

\* One turn of the loop: fts_read and everything up to the next one but the list.
Turn(w) == LET r == Read(w)
           IN  IF r.stack = <<>> THEN r
               ELSE IF Ignored(r) THEN IgnoreHidden(r) ELSE ClearFlags(Handle(r))

-----------------------------------------------------------------------------
\* rm_trav_buffer_new and fts_open.
NewWalk(path) ==
  [root |-> path, pc |-> "given", add |-> <<>>,
   stack |-> <<[path |-> path, self |-> path, real |-> path, info |-> "INIT", instr |-> "none", rest |-> <<>>]>>,
   isEmptydir |-> {}, isHidden |-> {}, haveOpen |-> FALSE, clear |-> FALSE, nextIsSymlink |-> FALSE]

Pc(i, pc) == walks[i].pc = pc
Goto(i, w, pc) == walks' = [walks EXCEPT ![i] = [w EXCEPT !.pc = pc]]

\* A file that is given is hidden by any name of its path.
GivenHidden(i) == option.partialHidden /\ \E k \in DOMAIN given[i] : Hidden(SubSeq(given[i], 1, k))

\* rm_traverse_tree takes the next path: files and links that lead nowhere it lists itself,
\* directories are pushed on their disk, everything else is passed over.
TakePath(i) ==
  /\ phase = "paths" /\ Pc(i, "given") /\ \A j \in 1..i - 1 : walks[j].pc \in {"pushed", "done"}
  /\ LET kind == node[given[i]].kind
         own  == kind = "file" \/ (kind = "link" /\ ~option.followSymlinks)
         w    == AddFile([walks[i] EXCEPT !.stack = <<Stat(<<>>, given[i], given[i], FALSE)>>],
                         IF kind = "link" THEN "badlink" ELSE "UNKNOWN", FALSE)
     IN  IF ~aborted /\ kind \in {"dir", "unreadable"} THEN Goto(i, walks[i], "pushed")
         ELSE IF aborted \/ ~own \/ w.add = <<>> THEN Goto(i, walks[i], "done")
         ELSE Goto(i, [w EXCEPT !.stack = <<>>, !.add = <<[@[1] EXCEPT !.hidden = GivenHidden(i)]>>],
                   "append")
  /\ UNCHANGED <<cfg, all_files, total_files, phase, aborted>>

\* rm_mds_start, after the last path.
StartWalks ==
  /\ phase = "paths" /\ \A i \in DOMAIN walks : walks[i].pc \in {"pushed", "done"}
  /\ phase' = "walks"
  /\ UNCHANGED <<cfg, walks, all_files, total_files, aborted>>

Running == {i \in DOMAIN walks : walks[i].pc \in {"read", "append", "count"}}

\* A thread of the disk takes the walk.
Begin(i) ==
  /\ phase = "walks" /\ Pc(i, "pushed") /\ Cardinality(Running) < cfg.site.threads
  /\ Goto(i, walks[i], "read")
  /\ UNCHANGED <<cfg, all_files, total_files, phase, aborted>>

WalkOn(i) ==
  /\ Pc(i, "read")
  /\ LET w == Turn(walks[i])
     IN  IF aborted THEN Goto(i, walks[i], "done")
         ELSE Goto(i, w, IF w.stack = <<>> THEN "done" ELSE IF w.add = <<>> THEN "read" ELSE "append")
  /\ UNCHANGED <<cfg, all_files, total_files, phase, aborted>>

\* rm_file_list_insert_file, under the lock of the list.
AppendFile(i) ==
  /\ Pc(i, "append")
  /\ all_files' = Append(all_files, walks[i].add[1])
  /\ Goto(i, walks[i], "count")
  /\ UNCHANGED <<cfg, total_files, phase, aborted>>

\* g_atomic_int_add of total_files.
Count(i) ==
  /\ Pc(i, "count")
  /\ total_files' = total_files + 1
  /\ Goto(i, [walks[i] EXCEPT !.add = <<>>], IF walks[i].stack = <<>> THEN "done" ELSE "read")
  /\ UNCHANGED <<cfg, all_files, phase, aborted>>

\* rm_mds_finish returns.
Finish ==
  /\ phase = "walks" /\ \A i \in DOMAIN walks : Pc(i, "done")
  /\ phase' = "done"
  /\ UNCHANGED <<cfg, walks, all_files, total_files, aborted>>

\* rm_session_abort, from a signal handler.
Abort ==
  /\ option.mayAbort /\ phase # "done" /\ ~aborted
  /\ aborted' = TRUE
  /\ UNCHANGED <<cfg, walks, all_files, total_files, phase>>

Done == phase = "done" /\ UNCHANGED vars

Init ==
  /\ \E s \in Sites : \E o \in s.options : cfg = [site |-> s, option |-> o]
  /\ walks = [i \in DOMAIN given |-> NewWalk(given[i])]
  /\ all_files = <<>> /\ total_files = 0 /\ phase = "paths" /\ aborted = FALSE

Next ==
  \/ \E i \in DOMAIN walks : TakePath(i) \/ Begin(i) \/ WalkOn(i) \/ AppendFile(i) \/ Count(i)
  \/ StartWalks \/ Finish \/ Abort \/ Done

Spec == Init /\ [][Next]_vars

-----------------------------------------------------------------------------
(* Properties *)

Over == phase = "done" /\ ~aborted

Listed(lint) == {k \in DOMAIN all_files : all_files[k].lint = lint}

\* A directory that is listed as empty has nothing but such directories in it, however the
\* walk was cut short: a removal script calls rmdir for it.
EmptyDirsAreEmpty ==
  \A k \in Listed("emptydir") : \A p \in DOMAIN node :
    IsStrictPrefix(all_files[k].path, p) => node[p].kind = "dir"

\* And those that have are listed; --no-hidden is left out, with which an empty directory
\* that readdir gives right after a hidden entry is taken for not empty.
EmptyDirsAreFound ==
  phase = "done" /\ ~aborted /\ option.findEmptydirs /\ ~option.ignoreHidden /\ option.depth = 0
    /\ option.crossdev =>
    \A p \in DOMAIN node :
      /\ \E i \in DOMAIN given : IsPrefix(given[i], p)
      /\ \A q \in DOMAIN node : IsPrefix(p, q) => node[q].kind = "dir"
      => \E k \in Listed("emptydir") : all_files[k].path = p

\* The names between a given path and a path below it, which the walk must pass.
Passable(root, p) ==
  \A k \in Len(root) + 1..Len(p) :
    /\ ~(option.ignoreHidden /\ Hidden(SubSeq(p, 1, k)))
    /\ node[SubSeq(p, 1, k - 1)].kind = "dir"
    /\ option.depth = 0 \/ k - 1 - Len(root) < option.depth
    /\ option.crossdev \/ node[SubSeq(p, 1, k - 1)].dev = node[root].dev

\* Where a regular file is found: as a given path and below given directories.
Findings(p) == {i \in DOMAIN given : IsPrefix(given[i], p) /\ Passable(given[i], p)}

\* The same for the links to it that are followed; links to directories would add to these.
Ways(p) == {w \in (DOMAIN given) \X (DOMAIN node) :
              /\ w[1] \in Findings(w[2])
              /\ w[2] = p \/ (option.followSymlinks /\ node[w[2]].kind = "link" /\ node[w[2]].target = p)}

\* "rmlint finds space waste and other broken things": each regular file that a walk can reach
\* is listed once for every walk that reaches it, with the type that it has, and
\* they are counted; threads lose no file and no count.  "-f will always follow symbolic links": through a
\* directory it may find some several times.
FilesAreListed ==
  Over =>
    /\ total_files = Len(all_files)
    /\ \A p \in DOMAIN node : node[p].kind = "file" =>
         LET times == Cardinality({k \in DOMAIN all_files : all_files[k].path = p})
             due   == IF DetectedType(node[p].quality) = "none" THEN 0 ELSE Cardinality(Ways(p))
         IN  times = due \/ (option.followSymlinks /\ times > due)

\* --partial-hidden keeps hidden duplicates only within hidden directories: what is
\* marked is what has a dot in its name or in a directory at or below the given path.
HiddenIsExact ==
  \A k \in DOMAIN all_files : \A i \in DOMAIN given :
    LET f == all_files[k]
    IN  ~option.followSymlinks /\ Findings(f.path) = {i} /\ given[i] # f.path =>
          (f.hidden <=> /\ option.partialHidden
                        /\ \E n \in Len(given[i])..Len(f.path) : Hidden(SubSeq(f.path, 1, n)))
=============================================================================
