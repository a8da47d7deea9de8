---------------------------- MODULE MCTreeMerge ----------------------------
(* The file systems and options that MCStages gives to TreeMerge. *)
EXTENDS Integers, Sequences, SequencesExt

PathPrefixes(paths) == UNION {{SubSeq(p, 1, k) : k \in 0..Len(p)} : p \in paths}

\* Paths ranked by the order of the names in them, first element first.
RankBy(names, paths) ==
  LET place(n) == IF n \in ToSet(names) THEN CHOOSE k \in DOMAIN names : names[k] = n ELSE 0
      digit(p, k) == IF k \in DOMAIN p THEN place(p[k]) ELSE 0
  IN  [p \in PathPrefixes(paths) |->
         1000 * digit(p, 1) + 100 * digit(p, 2) + 10 * digit(p, 3) + digit(p, 4)]

\* A tree of these files, all of them counted, but for the others.
Tree(content, others, tagged, names) ==
  [content |-> content,
   entries |-> [f \in DOMAIN content |-> "file"] @@ others,
   prefd   |-> [f \in DOMAIN content |-> f[1] \in tagged],
   given   |-> {<<f[1]>> : f \in DOMAIN content},
   hidden  |-> {".h"},
   rank    |-> RankBy(names, DOMAIN content)]

Nothing == << >>
Orders  == {<<"p", "q", "s", "a", "b", "t", ".h">>, <<"t", "b", "a", "s", "q", "p", ".h">>}

\* p and q are equal, each with an equal s, and t is like s.
Nested == <<"p", "a">> :> "x" @@ <<"p", "s", "a">> :> "y" @@ <<"p", "s", "b">> :> "z" @@
          <<"q", "b">> :> "x" @@ <<"q", "s", "b">> :> "y" @@ <<"q", "s", "t">> :> "z" @@
          <<"t", "a">> :> "y" @@ <<"t", "b">> :> "z"

\* p and q are alike but for their subdirectories, of which t has both contents.
Uneven == <<"p", "a">> :> "x" @@ <<"p", "s", "a">> :> "y" @@ <<"q", "a">> :> "x" @@
          <<"q", "s", "a">> :> "z" @@ <<"t", "a">> :> "y" @@ <<"t", "b">> :> "z"

\* Hidden directories, equal to each other and to t.
Dotted == <<"p", ".h", "a">> :> "x" @@ <<"p", ".h", "b">> :> "y" @@
          <<"q", ".h", "a">> :> "x" @@ <<"q", ".h", "b">> :> "y" @@ <<"t", "a">> :> "x" @@ <<"t", "b">> :> "y"

\* A name that is given is below another one that is given.
GivenTwice(t) == [t EXCEPT !.given = @ \cup {<<"p", "s">>}]

Others == {Nothing, <<"q", "s", "x">> :> "error", <<"p", "s", "x">> :> "empty",
           <<"t", "x">> :> "symlink", <<"q", "x">> :> "file"}

MergeTrees ==
  {Tree(Nested, o, tagged, names) : o \in Others, tagged \in {{}, {"p", "t"}}, names \in Orders}
  \cup {GivenTwice(Tree(Nested, Nothing, {}, names)) : names \in Orders}
  \cup {Tree(c, Nothing, tagged, names) :
          c \in {Uneven, Dotted}, tagged \in {{}, {"q"}}, names \in Orders}

MergePlain == [keepTagged |-> FALSE, keepUntagged |-> FALSE, honourDirLayout |-> FALSE,
          partialHidden |-> FALSE, findDuplicates |-> TRUE, writeUnfinished |-> FALSE,
          findEmptyfiles |-> TRUE, followSymlinks |-> FALSE]
MergeOptions == {MergePlain, [MergePlain EXCEPT !.keepTagged = TRUE], [MergePlain EXCEPT !.keepUntagged = TRUE],
              [MergePlain EXCEPT !.honourDirLayout = TRUE], [MergePlain EXCEPT !.partialHidden = TRUE],
              [MergePlain EXCEPT !.findDuplicates = FALSE, !.writeUnfinished = TRUE],
              [MergePlain EXCEPT !.findEmptyfiles = FALSE, !.followSymlinks = TRUE]}

\* p/s/t and q/s/t hold two equal files each, but not the same.
Cancelling == <<"p", "s", "t", "a">> :> "x" @@ <<"p", "s", "t", "b">> :> "x" @@
              <<"q", "s", "t", "a">> :> "y" @@ <<"q", "s", "t", "b">> :> "y"
\* The same as Nested, but that t holds nothing but the directory that is like s:
\* t is merged as often as p and q are, and its group may come first.
Chained == [f \in (DOMAIN Nested \ {<<"t", "a">>, <<"t", "b">>}) \cup
                    {<<"t", "s", "a">>, <<"t", "s", "b">>} |->
              IF f[1] = "t" THEN Nested[<<"t", f[3]>>] ELSE Nested[f]]
\* The directories have mtimes of their own: q is older than p, p/s than q/s.
ChainedTrees ==
  {[Tree(Chained, Nothing, {}, <<"p", "q", "s", "a", "b", "t">>) EXCEPT
      !.rank[<<"q">>] = 0, !.rank[<<"p", "s">>] = 1]}

CancellingTrees == {Tree(Cancelling, Nothing, {}, names) : names \in Orders}
=============================================================================
