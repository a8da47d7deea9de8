---------------------------- MODULE RemovalScript ----------------------------
(***************************************************************************)
(* The shell script that rmlint leaves behind, as the sh formatter writes  *)
(* it (lib/formats/sh.c.in) and as it runs later (lib/formats/sh.sh), one  *)
(* command of the shell a step.  Users change files, and the script may be *)
(* interrupted between two commands and started again.                     *)
(*                                                                         *)
(* A path is the sequence of its names.  rmlint's answers to --dedupe and  *)
(* --equal and the user's command are taken for what they promise.         *)
(***************************************************************************)
EXTENDS Integers, Sequences, SequencesExt, FiniteSets

CONSTANTS Scripts    \* scenarios: see ScriptRecord

EntryTypes == {"duplicate", "duplicate dir", "unique", "part of directory",
               "emptydir", "emptyfile", "badlink", "nonstripped", "badids"}
HandlerNames == {"cmd", "clone", "reflink", "hardlink", "symlink", "remove"}

\* The files and what they hold, the report, the configuration of the formatter, and how often users
\* change something, the script is run, and is interrupted.
ScriptRecord(c) ==
  /\ \A p \in DOMAIN c.node : c.node[p].inode \in DOMAIN c.data /\ p \in Seq(STRING) /\ Len(p) > 0
  /\ \A p, q \in DOMAIN c.node : IsStrictPrefix(q, p) => c.node[q].kind = "dir"
  /\ IsFiniteSet(DOMAIN c.node)
  /\ c.report \in Seq(Range(c.report))
  /\ \A n \in DOMAIN c.report : c.report[n].path \in DOMAIN c.node /\ c.report[n].type \in EntryTypes
  /\ c.config.key = "handler" => c.config.order \in Seq(HandlerNames)
  /\ \A i \in DOMAIN c.data : i \in DOMAIN c.dev
  /\ c.edits \in Nat /\ c.runs \in Nat /\ c.kills \in Nat

OfGroup(e) == e.type \in {"duplicate", "duplicate dir"}

\* The report lists d as a duplicate of o, the last original before it.
Pair(c, d, o) ==
  \E m, n \in DOMAIN c.report :
    /\ m < n /\ OfGroup(c.report[m]) /\ c.report[m].original /\ c.report[m].path = o
    /\ OfGroup(c.report[n]) /\ ~c.report[n].original /\ c.report[n].path = d
    /\ \A k \in m + 1..n - 1 : ~(OfGroup(c.report[k]) /\ c.report[k].original)

File(c, p) == c.node[p].kind = "file"
Content(c, p) == c.data[c.node[p].inode]

\* The files of a tree with a content.
FilesWith(c, p, x) == {q \in DOMAIN c.node : IsPrefix(p, q) /\ File(c, q) /\ Content(c, q) = x}

\* What rmlint found is so: a duplicate holds each content as often as its original, and a file that is
\* listed as empty is empty.  Empty files do not count (rm_tm_count_files).
PairIsEqual(c, d, o) ==
  /\ c.node[d].kind = c.node[o].kind
  /\ \A x \in Range(c.data) \ {""} : Cardinality(FilesWith(c, d, x)) = Cardinality(FilesWith(c, o, x))

\* A duplicate or an original is a file with a content, or a directory that holds one.
MemberIsFull(c, e) ==
  OfGroup(e) =>
    /\ c.node[e.path].kind \in {"file", "dir"}
    /\ \E x \in Range(c.data) \ {""} : FilesWith(c, e.path, x) # {}

LintIsSo(c, e) ==
  /\ e.type = "emptyfile" => File(c, e.path) /\ Content(c, e.path) = ""
  /\ e.type = "badlink" => c.node[e.path].kind = "link"

\* No duplicate lies in another or in an original, nor one of them in a duplicate.
MembersAreApart(c) ==
  \A m, n \in DOMAIN c.report :
    m # n /\ OfGroup(c.report[m]) /\ OfGroup(c.report[n]) /\ ~c.report[m].original =>
      ~IsPrefix(c.report[m].path, c.report[n].path) /\ ~IsPrefix(c.report[n].path, c.report[m].path)

\* What shares its inode with a duplicate that can be reflinked belongs to the duplicate's group, or to
\* equal directories of which one holds the group's original.
NamesAreTogether(c, d, o, d2, o2) ==
  File(c, d) /\ c.dev[c.node[d].inode] \in c.reflinkfs =>
    \A p \in DOMAIN c.node :
      /\ File(c, p) /\ c.node[p].inode = c.node[d].inode
      /\ IsPrefix(d2, p) \/ IsPrefix(o2, p)
      => IsPrefix(o2, o)

ReportIsRight(c) ==
  /\ \A n \in DOMAIN c.report : LintIsSo(c, c.report[n]) /\ MemberIsFull(c, c.report[n])
  /\ MembersAreApart(c)
  /\ \A d, o \in DOMAIN c.node : Pair(c, d, o) => PairIsEqual(c, d, o)
  /\ \A d, o, d2, o2 \in DOMAIN c.node : Pair(c, d, o) /\ Pair(c, d2, o2) => NamesAreTogether(c, d, o, d2, o2)

RemovalScriptAssumption == \A c \in Scripts : ScriptRecord(c) /\ ReportIsRight(c)

VARIABLES
  cfg,
  fs,              \* node: path to inode and kind; data: inode to content
  report,          \* the results that are still to be written
  last_original,
  script,          \* its lines; there until it deletes itself; ran once it went to its end
  sh,              \* the shell that runs it
  budget,
  touched,         \* what users changed since the report
  lost             \* contents that the script destroyed although it had to see that it must not

vars == <<cfg, fs, report, last_original, script, sh, budget, touched, lost>>

-----------------------------------------------------------------------------
(* The file system *)

Paths == DOMAIN fs.node
Is(p, kind) == p \in Paths /\ fs.node[p].kind = kind
Target(p) == IF Is(p, "link") THEN fs.node[p].to ELSE p
Exists(p) == Target(p) \in Paths
IsDir(p)  == Is(Target(p), "dir")
IsFile(p) == Is(Target(p), "file")
Inode(p)  == fs.node[Target(p)].inode
Data(p)   == fs.data[Inode(p)]

Tree(p) == {q \in Paths : IsPrefix(p, q)}
Inside(p) == Tree(p) \ {p}
Contents == {Data(p) : p \in {q \in Paths : Is(q, "file")}}

\* How often a tree holds each content; rmlint --equal counts no empty files either.
Held(p) == [c \in Range(fs.data) \ {""} |-> Cardinality({q \in Tree(Target(p)) : Is(q, "file") /\ Data(q) = c})]

WithNode(p, n) == [fs EXCEPT !.node = [q \in Paths \cup {p} |-> IF q = p THEN n ELSE @[q]]]
Without(p) == [fs EXCEPT !.node = [q \in Paths \ {p} |-> @[q]]]
WithData(i, c) == [fs EXCEPT !.data[i] = c]

-----------------------------------------------------------------------------
(* Writing the script *)

\* rm_fmt_head: the presets, of which the first that is given counts.
Handlers ==
  CASE cfg.config.key = "handler" -> cfg.config.order
    [] cfg.config.key = "clone" -> <<"clone", "reflink", "hardlink", "symlink">>
    [] cfg.config.key \in {"link", "reflink"} -> <<"reflink", "hardlink", "symlink">>
    [] cfg.config.key = "hardlink" -> <<"hardlink", "symlink">>
    [] cfg.config.key = "symlink" -> <<"symlink">>
    [] OTHER -> <<"cmd", "remove">>

\* What the traversal saw of a file.
Seen(p) == cfg.node[p].inode
SameDevice(d, o) == cfg.dev[Seen(d)] = cfg.dev[Seen(o)]

\* rm_mounts_can_reflink, for file systems of one partition each.
CanReflink(d, o) == SameDevice(d, o) /\ cfg.dev[Seen(d)] \in cfg.reflinkfs

\* rm_util_link_type, asked when the line is written.
LinkType(d, o) ==
  IF ~Exists(d) \/ ~Exists(o) THEN "error"
  ELSE IF ~(Is(d, "file") /\ Is(o, "file")) THEN "not file"
  ELSE IF Inode(d) = Inode(o) THEN "hardlink"
  ELSE IF {Inode(d), Inode(o)} \in cfg.clones THEN "reflink"
  ELSE "none"

\* The commands that a handler emits for a duplicate: one, or none if it does not apply.
CloneHandler(command, d, o) ==
  IF ~CanReflink(d, o) THEN {}
  ELSE CASE LinkType(d, o) = "reflink" -> {"skip_reflink"}
         [] LinkType(d, o) \in {"hardlink", "none"} -> {command}
         [] OTHER -> {}

\* Mutant: links across devices.
HardlinkHandlerAnywhere(d, o) == IF Seen(d) = Seen(o) THEN {"skip_hardlink"} ELSE {"cp_hardlink"}
HardlinkHandler(d, o) ==
  IF ~SameDevice(d, o) THEN {}
  ELSE IF Seen(d) = Seen(o) THEN {"skip_hardlink"} ELSE {"cp_hardlink"}

Emit(h, d, o) ==
  CASE h = "cmd" -> IF cfg.user_cmd THEN {"user_command"} ELSE {}
    [] h = "clone" -> CloneHandler("clone", d, o)
    [] h = "reflink" -> CloneHandler("cp_reflink", d, o)
    [] h = "symlink" -> {"cp_symlink"}
    [] h = "hardlink" -> HardlinkHandler(d, o)
    [] h = "remove" -> {"remove_cmd"}

\* What the first handler that applies emits.
Chosen(d, o) ==
  LET fits == {n \in DOMAIN Handlers : Emit(Handlers[n], d, o) # {}}
  IN  UNION {Emit(Handlers[n], d, o) : n \in {k \in fits : \A m \in fits : k <= m}}

Line(cmd, dup, orig) == [cmd |-> cmd, dup |-> dup, orig |-> orig]

\* rm_fmt_write_duplicate: the lines of a duplicate or an original.
DuplicateLines(e) ==
  IF e.original THEN <<Line("original_cmd", e.path, e.path)>>
  ELSE IF last_original = << >> \/ Chosen(e.path, last_original) = {} THEN << >>
  ELSE <<Line(CHOOSE c \in Chosen(e.path, last_original) : TRUE, e.path, last_original)>>

LintCommand(type) ==
  CASE type = "emptydir"  -> "handle_emptydir"
    [] type = "emptyfile" -> "handle_emptyfile"
    [] type = "badlink"   -> "handle_bad_symlink"
    [] type \in {"nonstripped", "badids"} -> "strip or chown"

\* rm_fmt_elem.
WriteElem ==
  /\ report # << >>
  /\ LET e == Head(report)
         lines == CASE e.type \in {"unique", "part of directory"} -> << >>
                    [] e.type \in {"duplicate", "duplicate dir"} -> DuplicateLines(e)
                    [] OTHER -> <<Line(LintCommand(e.type), e.path, e.path)>>
     IN  /\ script' = [script EXCEPT !.lines = @ \o lines]
         /\ last_original' = IF e.type \in {"duplicate", "duplicate dir"} /\ e.original THEN e.path ELSE last_original
  /\ report' = Tail(report)
  /\ UNCHANGED <<cfg, fs, sh, budget, touched, lost>>

-----------------------------------------------------------------------------
(* Running the script *)

Off == [pc |-> "off"]
At(pc) == sh.pc = pc
Goto(pc) == sh' = [sh EXCEPT !.pc = pc]

\* The options are parsed; a dry run keeps the script.
Start(o) ==
  /\ At("off") /\ report = << >> /\ script.there /\ budget.runs > 0
  /\ sh' = [pc |-> "line", n |-> 1, opt |-> o, cmd |-> "", quiet |-> TRUE, dir |-> << >>]
  /\ budget' = [budget EXCEPT !.runs = @ - 1]
  /\ UNCHANGED <<cfg, fs, report, last_original, script, touched, lost>>

L == script.lines[sh.n]
OnLine(commands) == At("line") /\ sh.n <= Len(script.lines) /\ L.cmd \in commands
NextLine == sh' = [sh EXCEPT !.pc = "line", !.n = @ + 1, !.quiet = TRUE]
RunUnchanged == UNCHANGED <<cfg, report, last_original, script, budget, touched>>

\* The command may rely on what it has just checked, and on what it does not check if no user came
\* near the two paths.
Compared == sh.opt.paranoid /\ L.cmd \in {"cp_symlink", "cp_hardlink", "cp_reflink", "remove_cmd"}
Relies == sh.quiet /\ (Compared \/ (L.dup \notin touched /\ L.orig \notin touched))

\* The script changes the file system, and with it what is left of it.
Becomes(new) ==
  /\ fs' = new
  /\ LET left == {new.data[new.node[p].inode] : p \in {q \in DOMAIN new.node : new.node[q].kind = "file"}}
     IN  lost' = lost \cup {c \in Contents \ left : c # "" /\ Relies}

\* These change no content: comments, chown and strip, the user's command, and --dedupe, which the
\* kernel refuses unless the files are equal.
Keep ==
  /\ OnLine({"original_cmd", "skip_hardlink", "skip_reflink", "strip or chown", "user_command", "clone"})
  /\ NextLine /\ UNCHANGED <<fs, lost>> /\ RunUnchanged

\* handle_emptyfile and handle_bad_symlink: rm -f.
RemoveLint ==
  /\ OnLine({"handle_emptyfile", "handle_bad_symlink"})
  /\ NextLine
  /\ IF L.dup \in Paths /\ ~Is(L.dup, "dir") /\ ~sh.opt.dry THEN Becomes(Without(L.dup)) ELSE UNCHANGED <<fs, lost>>
  /\ RunUnchanged

\* handle_emptydir: rmdir.
RemoveEmptyDir ==
  /\ OnLine({"handle_emptydir"})
  /\ NextLine
  /\ IF Is(L.dup, "dir") /\ Inside(L.dup) = {} /\ ~sh.opt.dry THEN Becomes(Without(L.dup)) ELSE UNCHANGED <<fs, lost>>
  /\ RunUnchanged

\* cp_symlink, cp_hardlink, cp_reflink and remove_cmd begin; directories are never hardlinked or cloned.
HandleDuplicate ==
  /\ OnLine({"cp_symlink", "cp_hardlink", "cp_reflink", "remove_cmd"})
  /\ sh' = [sh EXCEPT !.pc = "check original", !.quiet = TRUE,
                      !.cmd = IF IsDir(L.dup) /\ L.cmd \in {"cp_hardlink", "cp_reflink"} THEN "cp_symlink" ELSE L.cmd]
  /\ UNCHANGED <<fs, lost>> /\ RunUnchanged

\* original_check.
\* Mutant: the original is not looked for.
OriginalThereAlways == TRUE
OriginalThere == Exists(L.orig)

CheckOriginal ==
  /\ At("check original")
  /\ IF OriginalThere THEN Goto("check duplicate") ELSE NextLine
  /\ UNCHANGED <<fs, lost>> /\ RunUnchanged

CheckDuplicate ==
  /\ At("check duplicate")
  /\ IF Exists(L.dup) /\ L.dup # L.orig THEN Goto(IF sh.opt.paranoid THEN "compare" ELSE "act") ELSE NextLine
  /\ UNCHANGED <<fs, lost>> /\ RunUnchanged

\* check_for_equality: cmp for files, else rmlint --equal.
Equal(d, o) ==
  /\ Exists(d) /\ Exists(o)
  /\ IF IsFile(d) THEN IsFile(o) /\ Data(d) = Data(o) ELSE IsDir(o) /\ Held(d) = Held(o)

Compare ==
  /\ At("compare")
  /\ IF Equal(L.dup, L.orig) THEN Goto("act") ELSE NextLine
  /\ UNCHANGED <<fs, lost>> /\ RunUnchanged

\* With -i the user may decline.
Act ==
  /\ At("act")
  /\ \/ sh.opt.dry /\ NextLine
     \/ ~sh.opt.dry /\ Goto(IF sh.cmd = "cp_reflink" THEN "copy" ELSE "rm")
     \/ sh.opt.ask /\ sh.cmd = "remove_cmd" /\ NextLine
  /\ UNCHANGED <<fs, lost>> /\ RunUnchanged

\* rm -rf, one unlink or rmdir after the other.
RemoveTree ==
  /\ At("rm")
  /\ IF L.dup \in Paths
     THEN \E p \in Tree(L.dup) : Inside(p) = {} /\ Becomes(Without(p)) /\ UNCHANGED sh
     ELSE /\ sh' = [sh EXCEPT !.pc = IF sh.cmd = "remove_cmd" THEN "clean" ELSE "link", !.dir = Front(L.dup)]
          /\ UNCHANGED <<fs, lost>>
  /\ RunUnchanged

\* ln -s and ln; the latter fails across devices or if the original has gone.
Link ==
  /\ At("link")
  /\ NextLine
  /\ IF sh.cmd = "cp_symlink"
     THEN Becomes(WithNode(L.dup, [kind |-> "link", to |-> L.orig, inode |-> Seen(L.dup)]))
     ELSE IF Is(L.orig, "file") /\ cfg.dev[Inode(L.orig)] = cfg.dev[Seen(L.dup)]
     THEN Becomes(WithNode(L.dup, [kind |-> "file", inode |-> Inode(L.orig)]))
     ELSE UNCHANGED <<fs, lost>>
  /\ RunUnchanged

\* cp --reflink=always writes into the duplicate's inode, which it empties first.
Copy ==
  /\ At("copy")
  /\ NextLine
  /\ IF IsFile(L.orig) /\ IsFile(L.dup) /\ Inode(L.dup) # Inode(L.orig)
     THEN Becomes(WithData(Inode(L.dup), IF cfg.dev[Inode(L.dup)] = cfg.dev[Inode(L.orig)]
                                           /\ cfg.dev[Inode(L.dup)] \in cfg.reflinkfs
                                         THEN Data(L.orig) ELSE ""))
     ELSE UNCHANGED <<fs, lost>>
  /\ RunUnchanged

\* remove_cmd with -c: ls and rmdir, upwards; the root is never empty.
Clean ==
  /\ At("clean")
  /\ IF sh.opt.clean /\ sh.dir # << >> /\ Inside(sh.dir) = {} THEN Goto("rmdir") ELSE NextLine
  /\ UNCHANGED <<fs, lost>> /\ RunUnchanged

CleanDir ==
  /\ At("rmdir")
  /\ sh' = [sh EXCEPT !.pc = "clean", !.dir = Front(@)]
  /\ IF Is(sh.dir, "dir") /\ Inside(sh.dir) = {} THEN Becomes(Without(sh.dir)) ELSE UNCHANGED <<fs, lost>>
  /\ RunUnchanged

\* rm_fmt_foot: the script deletes itself, unless -x or -n were given.
Foot ==
  /\ At("line") /\ sh.n > Len(script.lines)
  /\ script' = [script EXCEPT !.there = sh.opt.keep \/ sh.opt.dry, !.ran = ~sh.opt.dry]
  /\ sh' = Off
  /\ UNCHANGED <<cfg, fs, report, last_original, budget, touched, lost>>

\* CTRL-C, between two commands.
Interrupt ==
  /\ ~At("off") /\ budget.kills > 0
  /\ sh' = Off
  /\ budget' = [budget EXCEPT !.kills = @ - 1]
  /\ UNCHANGED <<cfg, fs, report, last_original, script, touched, lost>>

-----------------------------------------------------------------------------
(* Users *)

Above(p) == {SubSeq(p, 1, n) : n \in 1..Len(p) - 1}
Names(p) == {q \in Paths : Is(q, "file") /\ Inode(q) = Inode(p)}

Disturb(paths) ==
  /\ budget.edits > 0
  /\ budget' = [budget EXCEPT !.edits = @ - 1]
  /\ touched' = touched \cup paths
  /\ sh' = IF At("off") THEN sh ELSE [sh EXCEPT !.quiet = FALSE]
  /\ UNCHANGED <<cfg, report, last_original, script, lost>>

Rewrite(p) ==
  /\ Is(p, "file")
  /\ Disturb(Names(p) \cup UNION {Above(q) : q \in Names(p)})
  /\ fs' = WithData(Inode(p), "new")

Unlink(p) ==
  /\ Is(p, "file")
  /\ Disturb(Above(p))
  /\ fs' = Without(p)

Over == At("off") /\ report = << >> /\ (budget.runs = 0 \/ ~script.there)
Done == Over /\ UNCHANGED vars

Init ==
  /\ cfg \in Scripts
  /\ fs = [node |-> cfg.node, data |-> cfg.data]
  /\ report = cfg.report /\ last_original = << >>
  /\ script = [lines |-> << >>, there |-> TRUE, ran |-> FALSE]
  /\ sh = Off
  /\ budget = [edits |-> cfg.edits, runs |-> cfg.runs, kills |-> cfg.kills]
  /\ touched = {} /\ lost = {}

Next ==
  \/ WriteElem \/ \E o \in cfg.options : Start(o)
  \/ Keep \/ RemoveLint \/ RemoveEmptyDir \/ HandleDuplicate
  \/ CheckOriginal \/ CheckDuplicate \/ Compare \/ Act \/ RemoveTree \/ Link \/ Copy
  \/ Clean \/ CleanDir \/ Foot \/ Interrupt
  \/ \E p \in Paths : Rewrite(p) \/ Unlink(p)
  \/ Done

Spec == Init /\ [][Next]_vars

-----------------------------------------------------------------------------
(* Properties *)

\* The script never destroys the last copy of a content: not when users deleted originals or
\* changed files between the report and the run, nor when it is interrupted and run again.  A user who
\* changes something between the check of a pair and its removal may lose data, and so may one who
\* changes one of the pair when -p is not given or fills a file that was reported as empty.
NothingIsLost == lost = {}

\* A run ended that nobody disturbed.
Calm == script.ran /\ At("off") /\ budget.edits = cfg.edits /\ budget.kills = cfg.kills
Reads(p) == IF IsDir(p) THEN Held(p) ELSE [c \in {Data(p)} |-> 1]
Before(p) ==
  IF cfg.node[p].kind = "dir"
  THEN [c \in Range(fs.data) \ {""} |-> Cardinality(FilesWith(cfg, p, c))]
  ELSE [c \in {cfg.data[cfg.node[p].inode]} |-> 1]

Acted(cmds) == {script.lines[n].dup : n \in {k \in DOMAIN script.lines : script.lines[k].cmd \in cmds}}
Linked == Acted({"cp_symlink", "cp_hardlink", "cp_reflink", "original_cmd"})
Removed == Acted({"remove_cmd"})
\* The files that had content and were not in a directory that was replaced.
Others == {p \in DOMAIN cfg.node : /\ cfg.node[p].kind = "file" /\ cfg.data[Seen(p)] # "" /\ p \notin Removed
                                  /\ Above(p) \cap (Linked \cup Removed) = {}}

\* A run that nobody disturbed has done what its lines say, and nothing else: a duplicate that was
\* to be linked reads as before under its old name, one that was to be removed is gone, and
\* every other path holds what it held.
RunDoesWhatItSays ==
  Calm =>
    /\ \A p \in Linked \cup Others : Exists(p) /\ Reads(p) = Before(p)
    /\ \A p \in Removed : p \notin Paths \/ \E o \in cfg.options : o.ask
===============================================================================
