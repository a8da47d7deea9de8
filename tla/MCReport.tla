------------------------------ MODULE MCReport ------------------------------
(* The results that MCStages gives to Report. *)
EXTENDS Integers, Sequences, FiniteSets, TLC

ReportResult(type, path, original, digest, size) ==
  [type |-> type, path |-> path, original |-> original, digest |-> digest, size |-> size,
   folder |-> IF path \in {"b2", "c1"} THEN 1 ELSE 2, mtime |-> IF path = "a1" THEN 2 ELSE 1,
   path_index |-> IF path \in {"a1", "c1"} THEN 2 ELSE 1]

ReportOriginal(path, d, size)  == ReportResult("duplicate", path, TRUE, {d}, size)
ReportDuplicate(path, d, size) == ReportResult("duplicate", path, FALSE, {d}, size)
ReportUnique(path, digest)     == ReportResult("unique", path, FALSE, digest, 1)
ReportPart(path, original, d)  == ReportResult("part of directory", path, original, {d}, 1)
ReportDir(path, original, d)   == ReportResult("duplicate dir", path, original, {d}, 1)

ReportFinished(files)   == [finished |-> TRUE, files |-> files]
ReportUnfinished(files) == [finished |-> FALSE, files |-> files]

\* Three groups, of which -k splits the second, files without duplicate and other lint.
ReportClasses(tagged) ==
  {ReportFinished(<<ReportOriginal("a1", "A", 1), ReportDuplicate("a2", "A", 1), ReportDuplicate("a3", "A", 1)>>),
   ReportFinished(<<ReportOriginal("b1", "B", 2), ReportResult("duplicate", "b2", tagged, {"B"}, 2)>>
                  \o (IF tagged THEN <<ReportDuplicate("b3", "B", 2)>> ELSE <<>>)),
   ReportFinished(<<ReportOriginal("c1", "C", 3), ReportOriginal("c2", "C", 3)>>),
   ReportUnfinished(<<ReportUnique("u", {})>>)}

ReportMerged ==
  <<<<ReportPart("a1", TRUE, "A"), ReportPart("a2", FALSE, "A"), ReportDir("d1", TRUE, "D"), ReportDir("d2", FALSE, "D")>>,
    <<ReportOriginal("b1", "B", 2), ReportDuplicate("b2", "B", 2)>>>>

ReportCriteria ==
  {<<>>, <<[by |-> "s", upper |-> FALSE]>>, <<[by |-> "s", upper |-> TRUE], [by |-> "o", upper |-> FALSE]>>,
   <<[by |-> "a", upper |-> FALSE], [by |-> "m", upper |-> TRUE]>>,
   <<[by |-> "p", upper |-> TRUE], [by |-> "n", upper |-> FALSE]>>}

ReportPrints ==
  [run_equal_mode : {FALSE}, replay : BOOLEAN, cache : BOOLEAN, fdupes : BOOLEAN,
   merge_directories : {FALSE}, total_files : {9}, paths : {<<"a">>}, inode : {[a |-> 1]},
   content : {[a |-> 1]}, criteria : ReportCriteria,
   lint : {<<ReportResult("emptydir", "e", FALSE, {}, 0), ReportResult("emptyfile", "f", FALSE, {}, 0)>>},
   classes : {ReportClasses(FALSE), ReportClasses(TRUE)}, merged : {<<>>}]
  \cup
  [run_equal_mode : {FALSE}, replay : {FALSE}, cache : {TRUE}, fdupes : {FALSE},
   merge_directories : {TRUE}, total_files : {9}, paths : {<<"a">>}, inode : {[a |-> 1]},
   content : {[a |-> 1]}, criteria : ReportCriteria,
   lint : {<<ReportResult("emptydir", "e", FALSE, {}, 0)>>},
   classes : {ReportClasses(FALSE)}, merged : {ReportMerged}]

\* rmlint --equal: paths, the inodes and contents of these, the files found below them, and what
\* the search makes of the files.
ReportEqual(paths, total_files, inode, content, classes, merged) ==
  [run_equal_mode |-> TRUE, replay |-> FALSE, cache |-> TRUE, fdupes |-> FALSE,
   merge_directories |-> TRUE, total_files |-> total_files, paths |-> paths, inode |-> inode,
   content |-> content, criteria |-> <<>>, lint |-> <<>>, classes |-> classes, merged |-> merged]

ReportApart == "a" :> 1 @@ "b" :> 2 @@ "c" :> 3 @@ "d" :> 4

ReportPairAB == <<ReportOriginal("a", "A", 1), ReportDuplicate("b", "A", 1)>>
ReportDirsAB ==
  <<ReportPart("a/x", TRUE, "A"), ReportPart("b/x", FALSE, "A"), ReportDir("a", TRUE, "D"), ReportDir("b", FALSE, "D")>>
ReportFilesAB == ReportFinished(<<ReportOriginal("a/x", "A", 1), ReportDuplicate("b/x", "A", 1)>>)

ReportEquals ==
  {\* nothing to compare
   ReportEqual(<<"a", "b">>, 1, ReportApart, "a" :> 1 @@ "b" :> 2,
     {ReportUnfinished(<<ReportUnique("a", {})>>)}, <<>>),
   \* two links of one file
   ReportEqual(<<"a", "b">>, 2, "a" :> 1 @@ "b" :> 1, "a" :> 1 @@ "b" :> 1,
     {ReportFinished(ReportPairAB)}, <<ReportPairAB>>),
   \* two equal files; two of one size; two of different sizes
   ReportEqual(<<"a", "b">>, 2, ReportApart, "a" :> 1 @@ "b" :> 1,
     {ReportFinished(ReportPairAB)}, <<ReportPairAB>>),
   ReportEqual(<<"a", "b">>, 2, ReportApart, "a" :> 1 @@ "b" :> 2,
     {ReportUnfinished(<<ReportUnique("a", {"A"})>>), ReportUnfinished(<<ReportUnique("b", {"B"})>>)}, <<>>),
   ReportEqual(<<"a", "b">>, 2, ReportApart, "a" :> 1 @@ "b" :> 2,
     {ReportUnfinished(<<ReportUnique("a", {})>>), ReportUnfinished(<<ReportUnique("b", {})>>)}, <<>>),
   \* two equal ones and another, of the same size and of another size
   ReportEqual(<<"a", "b", "c">>, 3, ReportApart, "a" :> 1 @@ "b" :> 1 @@ "c" :> 2,
     {ReportFinished(ReportPairAB), ReportUnfinished(<<ReportUnique("c", {"C"})>>)}, <<ReportPairAB>>),
   ReportEqual(<<"a", "b", "c">>, 3, ReportApart, "a" :> 1 @@ "b" :> 1 @@ "c" :> 2,
     {ReportFinished(ReportPairAB), ReportUnfinished(<<ReportUnique("c", {})>>)}, <<ReportPairAB>>),
   \* three equal ones; two pairs
   ReportEqual(<<"a", "b", "c">>, 3, ReportApart, "a" :> 1 @@ "b" :> 1 @@ "c" :> 1,
     {ReportFinished(Append(ReportPairAB, ReportDuplicate("c", "A", 1)))}, <<Append(ReportPairAB, ReportDuplicate("c", "A", 1))>>),
   ReportEqual(<<"a", "b", "c", "d">>, 4, ReportApart, "a" :> 1 @@ "b" :> 1 @@ "c" :> 2 @@ "d" :> 2,
     {ReportFinished(ReportPairAB), ReportFinished(<<ReportOriginal("c", "C", 1), ReportDuplicate("d", "C", 1)>>)},
     <<ReportPairAB, <<ReportOriginal("c", "C", 1), ReportDuplicate("d", "C", 1)>>>>),
   \* two directories that are equal, that differ in a file, and of which one has another file
   ReportEqual(<<"a", "b">>, 2, ReportApart, "a" :> 1 @@ "b" :> 1, {ReportFilesAB}, <<ReportDirsAB>>),
   ReportEqual(<<"a", "b">>, 4, ReportApart, "a" :> 1 @@ "b" :> 2,
     {ReportFilesAB, ReportUnfinished(<<ReportUnique("a/y", {"Y"})>>), ReportUnfinished(<<ReportUnique("b/y", {"Z"})>>)},
     <<ReportFilesAB.files>>),
   ReportEqual(<<"a", "b">>, 3, ReportApart, "a" :> 1 @@ "b" :> 2,
     {ReportFilesAB, ReportUnfinished(<<ReportUnique("a/y", {})>>)}, <<ReportFilesAB.files>>),
   \* two equal directories and one whose file has a size of its own
   ReportEqual(<<"a", "b", "c">>, 3, ReportApart, "a" :> 1 @@ "b" :> 1 @@ "c" :> 2,
     {ReportFilesAB, ReportUnfinished(<<ReportUnique("c/x", {})>>)}, <<ReportDirsAB>>)}

ReportsTold == ReportPrints \cup ReportEquals

\* Two equal directories and one whose file has the size of theirs.
ReportsMissed ==
  {ReportEqual(<<"a", "b", "c">>, 3, ReportApart, "a" :> 1 @@ "b" :> 1 @@ "c" :> 2,
     {ReportFilesAB, ReportUnfinished(<<ReportUnique("c/x", {"C"})>>)}, <<ReportDirsAB>>)}
=============================================================================
