---------------------------- MODULE MCRemovalScript ----------------------------
(* The reports and file systems that MCStages gives to RemovalScript. *)
EXTENDS Integers, Sequences, TLC

ScriptFile(i) == [kind |-> "file", inode |-> i]
ScriptDir(i) == [kind |-> "dir", inode |-> i]
ScriptLink(i, to) == [kind |-> "link", inode |-> i, to |-> to]

Original(path) == [type |-> "duplicate", path |-> path, original |-> TRUE]
Duplicate(path) == [type |-> "duplicate", path |-> path, original |-> FALSE]
OriginalDir(path) == [type |-> "duplicate dir", path |-> path, original |-> TRUE]
DuplicateDir(path) == [type |-> "duplicate dir", path |-> path, original |-> FALSE]
ScriptLint(type, path) == [type |-> type, path |-> path, original |-> FALSE]

ScriptPlain == [dry |-> FALSE, paranoid |-> FALSE, clean |-> FALSE, ask |-> FALSE, keep |-> FALSE]
ScriptCareful == [ScriptPlain EXCEPT !.paranoid = TRUE, !.keep = TRUE]

Preset(key) == [key |-> key]
Order(order) == [key |-> "handler", order |-> order]

\* Two groups: an original o with the duplicates d, on the same device, and e, on another; k is
\* another name of d that is kept, and p of another group with its duplicate in a directory.
FlatScript ==
  [node |-> (<<"o">> :> ScriptFile("i1")) @@ (<<"d">> :> ScriptFile("i2")) @@ (<<"k">> :> ScriptFile("i2"))
            @@ (<<"m">> :> ScriptDir("i5")) @@ (<<"m", "e">> :> ScriptFile("i3")),
   data |-> ("i1" :> "a") @@ ("i2" :> "a") @@ ("i3" :> "a") @@ ("i5" :> ""),
   dev |-> ("i1" :> 1) @@ ("i2" :> 1) @@ ("i3" :> 2) @@ ("i5" :> 2),
   report |-> <<Original(<<"o">>), Duplicate(<<"d">>), Duplicate(<<"m", "e">>)>>,
   config |-> Preset("default"), user_cmd |-> FALSE, reflinkfs |-> {1}, clones |-> {},
   options |-> {ScriptPlain, ScriptCareful}, edits |-> 2, runs |-> 2, kills |-> 1]

\* Two equal directories, of which one also holds an empty file, and what else a report lists.
DirScript ==
  [node |-> (<<"s">> :> ScriptDir("i1")) @@ (<<"s", "x">> :> ScriptFile("i2")) @@ (<<"s", "y">> :> ScriptFile("i3"))
            @@ (<<"t">> :> ScriptDir("i4")) @@ (<<"t", "x">> :> ScriptFile("i5")) @@ (<<"t", "y">> :> ScriptFile("i6"))
            @@ (<<"s", "z">> :> ScriptFile("i7")),
   data |-> ("i7" :> "") @@ ("i1" :> "") @@ ("i2" :> "a") @@ ("i3" :> "b") @@ ("i4" :> "") @@ ("i5" :> "a") @@ ("i6" :> "b"),
   dev |-> [i \in {"i1", "i2", "i3", "i4", "i5", "i6", "i7"} |-> 1],
   report |-> <<OriginalDir(<<"s">>), DuplicateDir(<<"t">>), ScriptLint("part of directory", <<"t", "x">>),
                ScriptLint("unique", <<"s", "y">>), ScriptLint("emptyfile", <<"s", "z">>)>>,
   config |-> Preset("default"), user_cmd |-> FALSE, reflinkfs |-> {1}, clones |-> {},
   options |-> {ScriptPlain, ScriptCareful}, edits |-> 1, runs |-> 2, kills |-> 1]

LintScript ==
  [node |-> (<<"u">> :> ScriptDir("i1")) @@ (<<"u", "v">> :> ScriptDir("i2")) @@ (<<"z">> :> ScriptFile("i3"))
            @@ (<<"l">> :> ScriptLink("i4", <<"nowhere">>)) @@ (<<"b">> :> ScriptFile("i5"))
            @@ (<<"w">> :> ScriptDir("i6")) @@ (<<"w", "c">> :> ScriptFile("i7")),
   data |-> [i \in {"i1", "i2", "i3", "i4", "i6"} |-> ""] @@ ("i5" :> "a") @@ ("i7" :> "a"),
   dev |-> [i \in {"i1", "i2", "i3", "i4", "i5", "i6", "i7"} |-> 1],
   report |-> <<ScriptLint("emptydir", <<"u", "v">>), ScriptLint("emptydir", <<"u">>), ScriptLint("emptyfile", <<"z">>), ScriptLint("badlink", <<"l">>),
                ScriptLint("nonstripped", <<"b">>), ScriptLint("badids", <<"b">>), Original(<<"b">>), Duplicate(<<"w", "c">>)>>,
   config |-> Preset("default"), user_cmd |-> FALSE, reflinkfs |-> {}, clones |-> {},
   options |-> {[ScriptPlain EXCEPT !.clean = TRUE], [ScriptCareful EXCEPT !.ask = TRUE], [ScriptCareful EXCEPT !.dry = TRUE]},
   edits |-> 1, runs |-> 2, kills |-> 1]

RemovalScripts ==
  {FlatScript, LintScript, DirScript, [DirScript EXCEPT !.config = Preset("link")]}
  \cup {[FlatScript EXCEPT !.config = Preset(key), !.edits = 1] : key \in {"clone", "link", "hardlink", "symlink"}}
  \cup {[FlatScript EXCEPT !.config = Order(<<"hardlink">>), !.edits = 0],
        [FlatScript EXCEPT !.config = Order(<<"cmd", "remove">>), !.user_cmd = TRUE, !.edits = 0, !.runs = 1],
        [FlatScript EXCEPT !.config = Preset("reflink"), !.clones = {{"i1", "i2"}}, !.edits = 1],
        \* d is a hardlink of o
        [FlatScript EXCEPT !.config = Preset("hardlink"), !.node = (<<"d">> :> ScriptFile("i1")) @@ @, !.edits = 1]}
==============================================================================
