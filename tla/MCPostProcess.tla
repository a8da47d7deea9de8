--------------------------- MODULE MCPostProcess ---------------------------
(* The groups of files that MCStages gives to PostProcess. *)
EXTENDS Integers

PostFiles  == 1..4

\* Files 2 and 4 are links of one inode, which is a twin of file 1.
PostInode == [f \in PostFiles |-> IF f \in {2, 4} THEN 2 ELSE f]
PostTwins == {<<1, 2>>}

PostBase == [keepTagged |-> FALSE, keepUntagged |-> FALSE, mustTagged |-> FALSE,
         mustUntagged |-> FALSE, unmatchedBasenames |-> FALSE, window |-> -1,
         barrier |-> 0, keepHardlinked |-> FALSE]

\* -k, -K, -m and -M, but -kM and -Km, which rmlint refuses, by themselves,
\* with a window and with --unmatched-basename.
TagOptions ==
  {[PostBase EXCEPT !.keepTagged = k, !.keepUntagged = K, !.mustTagged = m,
                !.mustUntagged = M, !.keepHardlinked = h] :
     k \in BOOLEAN, K \in BOOLEAN, m \in BOOLEAN, M \in BOOLEAN, h \in BOOLEAN}
AllowedTags == {o \in TagOptions : /\ ~(o.keepTagged /\ o.mustUntagged)
                                   /\ ~(o.keepUntagged /\ o.mustTagged)}
PostOptions ==
  AllowedTags \cup {[o EXCEPT !.window = 1] : o \in AllowedTags}
              \cup {[o EXCEPT !.unmatchedBasenames = TRUE] : o \in AllowedTags}

\* What these options do not read need not vary.  With a window of 1 the mtimes have two
\* gaps, and two that are near each other.
PostAttributes(o) ==
  [prefd : BOOLEAN,
   mtime : IF o.window >= 0 THEN {1, 2, 4, 6} ELSE {1},
   name  : IF o.unmatchedBasenames THEN {"a", "b"} ELSE {"a"}]
=============================================================================
