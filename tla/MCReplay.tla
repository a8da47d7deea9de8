------------------------------ MODULE MCReplay ------------------------------
(* Earlier runs, file systems and options that MCStages gives to Replay. *)
EXTENDS Integers, Sequences, FiniteSets, TLC

ReplayData(kind, content, size) ==
  [kind |-> kind, content |-> content, size |-> size, mtime |-> 1, dev |-> 1]
ReplayFile(content) == ReplayData("file", content, 2)

ReplayResult(type, path, original, digest) ==
  [type |-> type, path |-> path, original |-> original, digest |-> digest, prefd |-> FALSE,
   mtime |-> 1, size |-> 2, depth |-> Len(path), parent |-> <<>>]
ReplayOriginal(path, c) == ReplayResult("duplicate", path, TRUE, {c})
ReplayDupe(path, c)     == ReplayResult("duplicate", path, FALSE, {c})
ReplayPart(path, c, d)  == [ReplayResult("part of directory", path, FALSE, {c}) EXCEPT !.parent = d]

\* A run, and the groups that it found.
ReplayRun(results, twins) ==
  [results |-> results, twins |-> twins, merge |-> FALSE, prefd |-> FALSE, keep |-> "none",
   unique |-> FALSE, write_unfinished |-> FALSE]

ReplayBase ==
  [runs |-> <<>>, node |-> << >>, data |-> << >>, order |-> <<>>, editable |-> {}, edits |-> 0,
   paths |-> {[path |-> <<"t">>, prefd |-> FALSE]}, longer |-> {}, dotted |-> {}, forbidden |-> {},
   keep |-> "none", must |-> "none", types |-> {"duplicate", "duplicate dir", "emptydir", "badlink"},
   merge_directories |-> FALSE, min |-> 1, max |-> 9, older |-> {}, depth |-> 9,
   ignore_hidden |-> TRUE, crossdev |-> TRUE, basename |-> FALSE, plain |-> TRUE]

\* Three equal files; one run looked at t/x, another at t/y and t/x/b.
RFa == <<"t", "x", "a">>
RFb == <<"t", "x", "b">>
RFc == <<"t", "y", "b">>
ReplayTwoRuns(digest) ==
  [ReplayBase EXCEPT
     !.node = (RFa :> "i1") @@ (RFb :> "i2") @@ (RFc :> "i3"),
     !.data = [i \in {"i1", "i2", "i3"} |-> ReplayFile("A")],
     !.order = <<RFa, RFb, RFc>>, !.editable = {RFa, RFb, RFc}, !.edits = 2,
     !.runs = <<ReplayRun(<<ReplayOriginal(RFb, digest), ReplayDupe(RFc, digest)>>, <<{RFb, RFc}>>),
                ReplayRun(<<ReplayOriginal(RFa, "A"), ReplayDupe(RFb, "A")>>, <<{RFa, RFb}>>)>>]

\* Options that filter, one or two at a time; the document that is preferred is loaded first.
ReplayFiltered ==
  LET base == [ReplayTwoRuns("A") EXCEPT !.plain = FALSE]
      tag  == [base EXCEPT !.runs[1].prefd = TRUE]
      sub  == [base EXCEPT !.paths = {[path |-> <<"t">>, prefd |-> FALSE], [path |-> <<"t", "y">>, prefd |-> TRUE]}]
  IN  {[o EXCEPT !.keep = k, !.must = m] : o \in {tag, sub}, k \in {"none", "tagged", "untagged"},
                                           m \in {"none", "tagged", "untagged"}}
      \cup {[base EXCEPT !.basename = TRUE], [base EXCEPT !.older = {1}], [base EXCEPT !.older = {2}],
            [base EXCEPT !.depth = 2], [base EXCEPT !.forbidden = {RFb}],
            [base EXCEPT !.dotted = {"a"}], [base EXCEPT !.max = 1],
            [base EXCEPT !.crossdev = FALSE, !.data["i3"].dev = 2],
            [base EXCEPT !.paths = {[path |-> <<"t", "x">>, prefd |-> FALSE]}]}

\* Equal directories t/d and t/e with a subdirectory each, and a third copy of a file.
RDd == <<"t", "d">>
RDe == <<"t", "e">>
ReplayDirs ==
  [ReplayBase EXCEPT
     !.node = (RDd :> "d1") @@ (RDe :> "d2") @@ (RDd \o <<"f">> :> "i1") @@ (RDe \o <<"f">> :> "i2")
              @@ (RDd \o <<"s", "g">> :> "i3") @@ (RDe \o <<"s", "g">> :> "i4") @@ (<<"t", "f">> :> "i5")
              @@ (<<"t", "z">> :> "d3") @@ (<<"t", "u">> :> "i6"),
     !.data = [i \in {"d1", "d2", "d3"} |-> ReplayData("dir", i, 1)]
              @@ [i \in {"i1", "i2", "i5"} |-> ReplayFile("F")] @@ [i \in {"i3", "i4"} |-> ReplayFile("G")]
              @@ ("i6" :> ReplayFile("U")),
     !.order = <<RDd, RDd \o <<"f">>, RDd \o <<"s", "g">>, RDe, RDe \o <<"f">>, RDe \o <<"s", "g">>,
                 <<"t", "f">>, <<"t", "z">>, <<"t", "u">>>>,
     !.editable = {<<"t", "f">>, RDd, RDe, <<"t", "z">>}, !.edits = 1,
     !.runs = <<[ReplayRun(<<
        ReplayResult("emptydir", <<"t", "z">>, FALSE, {}),
        ReplayResult("unique", <<"t", "u">>, FALSE, {"U"}),
        ReplayPart(RDd \o <<"f">>, "F", RDd), ReplayPart(RDd \o <<"s", "g">>, "G", RDd \o <<"s">>),
        ReplayPart(RDe \o <<"f">>, "F", RDe), ReplayPart(RDe \o <<"s", "g">>, "G", RDe \o <<"s">>),
        ReplayResult("duplicate dir", RDd, TRUE, {"D"}), ReplayResult("duplicate dir", RDe, FALSE, {"D"}),
        ReplayOriginal(RDd \o <<"f">>, "F"), ReplayDupe(<<"t", "f">>, "F")>>, <<>>)
        EXCEPT !.merge = TRUE, !.unique = TRUE]>>]

\* The hardlinks of two inodes: groups that were never hashed.
RHa == <<"t", "x", "a">>
RHb == <<"t", "y", "b">>
RHl == <<"t", "x", "l">>
RHm == <<"t", "x", "m">>
ReplayLinks ==
  [ReplayBase EXCEPT
     !.node = (RHa :> "i1") @@ (RHl :> "i1") @@ (RHb :> "i2") @@ (RHm :> "i2"),
     !.data = ("i1" :> ReplayFile("A")) @@ ("i2" :> ReplayFile("B")),
     !.order = <<RHa, RHb, RHl, RHm>>, !.plain = FALSE,
     !.runs = <<ReplayRun(<<ReplayResult("duplicate", RHa, TRUE, {}), ReplayResult("duplicate", RHl, FALSE, {}),
                            ReplayResult("duplicate", RHb, TRUE, {}), ReplayResult("duplicate", RHm, FALSE, {})>>,
                          <<{RHa, RHl}, {RHb, RHm}>>)>>]

ReplaysHashed ==
  {ReplayTwoRuns("A"), [ReplayTwoRuns("other") EXCEPT !.plain = FALSE], ReplayLinks, ReplayDirs, [ReplayDirs EXCEPT !.merge_directories = TRUE],
   [ReplayTwoRuns("A") EXCEPT !.merge_directories = TRUE, !.edits = 0]} \cup ReplayFiltered

\* The subdirectory t/x holds both names of one file, and one name of the other.
ReplaysUnhashed == {[ReplayLinks EXCEPT !.paths = {[path |-> <<"t", "x">>, prefd |-> FALSE]}]}
=============================================================================
