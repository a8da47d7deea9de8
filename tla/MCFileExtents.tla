----------------------------- MODULE MCFileExtents -----------------------------
(* The pairs of files that MCStages gives to FileExtents: three blocks each. *)
EXTENDS Integers, Sequences, FiniteSets, SequencesExt, FiniteSetsExt

ExtentHole == -1

\* The extents of a file whose blocks are where map says, cut at the blocks in cuts besides where
\* they must be.
Extents(map, cuts) ==
  LET there  == {b \in DOMAIN map : map[b] # ExtentHole}
      starts == {b \in there : b = 0 \/ b \in cuts \/ map[b] # map[b - 1] + 1 \/ map[b] = 0}
      End(b) == Min({e \in b + 1..Cardinality(DOMAIN map) : e \notin there \ starts})
      extent(b) == [logical |-> b, physical |-> map[b], length |-> End(b) - b]
  IN  [n \in 1..Cardinality(starts) |-> extent(SetToSortSeq(starts, LAMBDA x, y : x < y)[n])]

Maps == [0..2 -> {ExtentHole, 1, 2, 3}]

ExtentPairs ==
  {[a |-> Extents(m[1], {}), b |-> Extents(m[2], cuts)] :
     m \in {x \in Maps \X Maps : x[1][0] \in {ExtentHole, 1}}, cuts \in SUBSET {1, 2}}
  \cup {[a |-> <<[logical |-> 0, physical |-> p[1], length |-> 1]>>,
         b |-> <<[logical |-> 0, physical |-> p[2], length |-> 1]>>] : p \in {0, 4} \X {0, 4}}
  \cup {[a |-> <<[logical |-> 0, physical |-> 5, length |-> 1], [logical |-> 1, physical |-> 0, length |-> 2]>>,
         b |-> <<[logical |-> 0, physical |-> 5, length |-> 1], [logical |-> 1, physical |-> 0, length |-> 2]>>]}
================================================================================
