-------------------------- MODULE FileExtentsProofs --------------------------
(***************************************************************************)
(* Proofs about FileExtents, for any pair of files, however their extents  *)
(* lie and are cut: rm_util_link_type says "reflink" only of files that    *)
(* share every block, "none" only of files that do not, and never fails    *)
(* for want of progress.                                                   *)
(***************************************************************************)
EXTENDS FileExtents, SequenceTheorems, FiniteSetTheorems, NaturalsInduction, TLAPS

-----------------------------------------------------------------------------
(* The inductive invariant. *)

Names == {"a", "b"}
End(f, n) == files[f][n].logical + files[f][n].length

\* Block i of the file is at ph on the disk.
Block(f, i, ph) ==
  \E n \in DOMAIN files[f] :
    /\ files[f][n].logical <= i /\ i < End(f, n)
    /\ ph = IF files[f][n].physical = Unknown THEN Unknown
            ELSE files[f][n].physical + (i - files[f][n].logical)

\* The extents from the m-th to the k-th follow each other on the disk and in the file, up to
\* offset o; the m-th is the first that does not end before the round.
Run(f, m, k, o) ==
  /\ m \in 1..k /\ k \in DOMAIN files[f]
  /\ files[f][m].logical >= logical_current
  /\ \A n \in 1..m - 1 : End(f, n) <= logical_current
  /\ \A n \in m..k : files[f][n].physical = files[f][m].physical + (files[f][n].logical - files[f][m].logical)
  /\ \A i \in files[f][m].logical..o - 1 : \E n \in m..k : files[f][n].logical <= i /\ i < End(f, n)
  /\ o = End(f, k)

\* What FS_IOC_FIEMAP must say for the run to go on.
Follows(f, k) ==
  /\ files[f][k + 1].physical = files[f][k].physical + files[f][k].length
  /\ files[f][k + 1].physical = files[f][k].physical + (files[f][k + 1].logical - files[f][k].logical)

\* What a call for f returns: with the run from where the round begins, or, if the file has no
\* extents, with nothing.
Result(f, result) ==
  \/ files[f] = << >> /\ logical_current = 0 /\ result = Nothing
  \/ \E m, k \in DOMAIN files[f] :
       /\ Run(f, m, k, End(f, k))
       /\ result = Outcome(files[f][m], End(f, k), k = Len(files[f]))
       /\ k < Len(files[f]) => ~Follows(f, k)

\* The call for f is on its way.
Progress(f) ==
  \/ /\ reading = Call(f, logical_current) /\ found[f] = Nothing
  \/ \E m, k \in DOMAIN files[f] :
       /\ Run(f, m, k, reading.offset) /\ k < Len(files[f])
       /\ reading = [file |-> f, offset |-> End(f, k), first |-> FALSE, fm_last |-> files[f][k]]
       /\ found[f] = Outcome(files[f][m], 0, FALSE)

\* What the rounds so far have established.
SameSoFar ==
  /\ \A i, ph \in Nat : i < logical_current => (Block("a", i, ph) <=> Block("b", i, ph))
  /\ \A n \in DOMAIN files["a"] : files["a"][n].logical < logical_current => files["a"][n].physical # Unknown
  /\ \A f \in Names :
       /\ \A n \in DOMAIN files[f] : End(f, n) <= logical_current \/ files[f][n].logical >= logical_current
       /\ logical_current = 0 \/ \E n \in DOMAIN files[f] : files[f][n].logical >= logical_current

InRound ==
  \/ reading.file = "a" /\ Progress("a") /\ found["b"] = Nothing
  \/ reading.file = "b" /\ Progress("b") /\ Result("a", found["a"])
  \/ reading.file = "compare" /\ Result("a", found["a"]) /\ Result("b", found["b"])

IInv ==
  /\ files \in Pairs /\ logical_current \in Nat
  /\ DOMAIN found = Names
  /\ SameSoFar
  /\ Running => InRound
  /\ ReflinksShareAll

-----------------------------------------------------------------------------
(* Facts about extents and blocks. *)

LEMMA ExtentTypes ==
  ASSUME FileExtentsAssumption, files \in Pairs, NEW f \in Names
  PROVE  /\ Len(files[f]) \in Nat /\ DOMAIN files[f] = 1..Len(files[f])
         /\ \A n \in DOMAIN files[f] : /\ files[f][n] \in Extent
                                       /\ files[f][n].logical \in Nat /\ files[f][n].physical \in Nat
                                       /\ files[f][n].length \in Nat /\ files[f][n].length > 0
                                       /\ End(f, n) \in Nat /\ files[f][n].logical < End(f, n)
         /\ \A n, k \in DOMAIN files[f] : n < k => End(f, n) <= files[f][k].logical
         /\ (files[f] = << >>) <=> (Len(files[f]) = 0)
<1>1. files[f] \in Seq(Extent)
  BY DEF FileExtentsAssumption, Names
<1>2. /\ Len(files[f]) \in Nat /\ DOMAIN files[f] = 1..Len(files[f])
      /\ \A n \in DOMAIN files[f] : files[f][n] \in Extent
  BY <1>1
<1>3. \A n \in DOMAIN files[f] : /\ files[f][n].logical \in Nat /\ files[f][n].physical \in Nat
                                 /\ files[f][n].length \in Nat /\ files[f][n].length > 0
  BY <1>2 DEF Extent
<1>4. \A n \in DOMAIN files[f] : End(f, n) \in Nat /\ files[f][n].logical < End(f, n)
  BY <1>3 DEF End
<1>5. \A n, k \in DOMAIN files[f] : n < k => End(f, n) <= files[f][k].logical
  BY DEF FileExtentsAssumption, Names, End
<1>6. (files[f] = << >>) <=> (Len(files[f]) = 0)
  BY <1>1, EmptySeq
<1>7. QED
  BY <1>2, <1>3, <1>4, <1>5, <1>6

\* A block is in one place.
LEMMA BlockIsUnique ==
  ASSUME FileExtentsAssumption, files \in Pairs, NEW f \in Names,
         NEW n \in DOMAIN files[f], NEW k \in DOMAIN files[f], NEW i \in Nat,
         files[f][n].logical <= i, i < End(f, n), files[f][k].logical <= i, i < End(f, k)
  PROVE  n = k
<1>1. n \in Nat /\ k \in Nat
  BY ExtentTypes
<1>2. ~(n < k) /\ ~(k < n)
  <2> DEFINE ln == files[f][n].logical  en == End(f, n)  lk == files[f][k].logical  ek == End(f, k)
  <2>1. ln \in Nat /\ en \in Nat /\ lk \in Nat /\ ek \in Nat
    BY ExtentTypes
  <2>2. (n < k => en <= lk) /\ (k < n => ek <= ln)
    BY ExtentTypes
  <2>3. ln <= i /\ i < en /\ lk <= i /\ i < ek
    OBVIOUS
  <2> HIDE DEF ln, en, lk, ek
  <2>4. QED
    BY <2>1, <2>2, <2>3
<1>3. QED
  BY <1>1, <1>2

LEMMA BlockTypes ==
  ASSUME FileExtentsAssumption, files \in Pairs, NEW f \in Names, NEW i, NEW ph, Block(f, i, ph), i \in Int
  PROVE  i \in Nat /\ ph \in Nat
<1>1. PICK n \in DOMAIN files[f] :
        /\ files[f][n].logical <= i /\ i < End(f, n)
        /\ ph = IF files[f][n].physical = Unknown THEN Unknown
                ELSE files[f][n].physical + (i - files[f][n].logical)
  BY DEF Block
<1>2. files[f][n].logical \in Nat /\ files[f][n].physical \in Nat
  BY ExtentTypes
<1>3. QED
  BY <1>1, <1>2 DEF Unknown

\* BlockMap is the set of those blocks.
LEMMA BlockMaps ==
  ASSUME FileExtentsAssumption, files \in Pairs
  PROVE  BlockMap("a") = BlockMap("b") <=> \A i, ph \in Nat : Block("a", i, ph) <=> Block("b", i, ph)
<1>1. ASSUME NEW f \in Names
      PROVE  BlockMap(f) = {x \in Nat \X Nat : Block(f, x[1], x[2])}
  <2> DEFINE place(e, i) == IF e.physical = Unknown THEN Unknown ELSE e.physical + i
             blocks(n) == {<<files[f][n].logical + i, place(files[f][n], i)>> : i \in 0..files[f][n].length - 1}
  <2>1. ASSUME NEW x
        PROVE  x \in BlockMap(f) <=> \E n \in DOMAIN files[f] : x \in blocks(n)
    BY DEF BlockMap
  <2>2. ASSUME NEW n \in DOMAIN files[f], NEW x \in blocks(n)
        PROVE  x \in Nat \X Nat /\ Block(f, x[1], x[2])
    <3>1. PICK i \in 0..files[f][n].length - 1 : x = <<files[f][n].logical + i, place(files[f][n], i)>>
      BY <2>2
    <3>2. files[f][n].logical \in Nat /\ files[f][n].physical \in Nat /\ files[f][n].length \in Nat
      BY ExtentTypes
    <3>3. place(files[f][n], i) \in Nat
      BY <3>2 DEF Unknown
    <3>4. i \in Nat /\ i < files[f][n].length
      BY <3>2
    <3> DEFINE l == files[f][n].logical
    <3>5. l <= l + i /\ l + i < End(f, n) /\ (l + i) - l = i /\ l + i \in Nat
      BY <3>2, <3>4 DEF End
    <3>6. x[1] = l + i /\ x[2] = place(files[f][n], i)
      BY <3>1
    <3>7. x \in Nat \X Nat
      BY <3>1, <3>3, <3>5
    <3>8. Block(f, x[1], x[2])
      BY <3>5, <3>6 DEF Block
    <3>9. QED
      BY <3>7, <3>8
  <2>3. ASSUME NEW x \in Nat \X Nat, Block(f, x[1], x[2])
        PROVE  \E n \in DOMAIN files[f] : x \in blocks(n)
    <3>1. PICK n \in DOMAIN files[f] :
            /\ files[f][n].logical <= x[1] /\ x[1] < End(f, n)
            /\ x[2] = IF files[f][n].physical = Unknown THEN Unknown
                      ELSE files[f][n].physical + (x[1] - files[f][n].logical)
      BY <2>3 DEF Block
    <3>2. files[f][n].logical \in Nat /\ files[f][n].physical \in Nat /\ files[f][n].length \in Nat
      BY ExtentTypes
    <3> DEFINE l == files[f][n].logical
               i == x[1] - l
    <3>3. x[1] \in Nat /\ x = <<x[1], x[2]>>
      OBVIOUS
    <3>4. i \in 0..files[f][n].length - 1 /\ l + i = x[1]
      BY <3>1, <3>2, <3>3 DEF End
    <3>5. x[2] = place(files[f][n], i)
      BY <3>1
    <3>6. x = <<l + i, place(files[f][n], i)>>
      BY <3>3, <3>4, <3>5
    <3>7. x \in blocks(n)
      BY <3>4, <3>6
    <3>8. QED
      BY <3>7
  <2> HIDE DEF blocks
  <2>4. QED
    BY <2>1, <2>2, <2>3
<1>2. BlockMap("a") = {x \in Nat \X Nat : Block("a", x[1], x[2])} /\ BlockMap("b") = {x \in Nat \X Nat : Block("b", x[1], x[2])}
  BY <1>1 DEF Names
<1>3. ASSUME BlockMap("a") = BlockMap("b"), NEW i \in Nat, NEW ph \in Nat
      PROVE  Block("a", i, ph) <=> Block("b", i, ph)
  <2>1. <<i, ph>> \in BlockMap("a") <=> <<i, ph>> \in BlockMap("b")
    BY <1>3
  <2>2. <<i, ph>>[1] = i /\ <<i, ph>>[2] = ph /\ <<i, ph>> \in Nat \X Nat
    OBVIOUS
  <2>3. QED
    BY <2>1, <2>2, <1>2
<1>4. ASSUME \A i, ph \in Nat : Block("a", i, ph) <=> Block("b", i, ph)
      PROVE  BlockMap("a") = BlockMap("b")
  <2>1. \A x \in Nat \X Nat : x[1] \in Nat /\ x[2] \in Nat
    OBVIOUS
  <2>2. QED
    BY <1>2, <1>4, <2>1
<1>5. QED
  BY <1>3, <1>4

-----------------------------------------------------------------------------
(* Facts about runs. *)

LEMMA RunTypes ==
  ASSUME FileExtentsAssumption, files \in Pairs, logical_current \in Nat, NEW f \in Names,
         NEW m, NEW k, NEW o, Run(f, m, k, o)
  PROVE  /\ m \in DOMAIN files[f] /\ k \in DOMAIN files[f] /\ m \in Nat /\ k \in Nat /\ m <= k
         /\ files[f][m].logical \in Nat /\ files[f][m].physical \in Nat
         /\ o \in Nat /\ files[f][m].logical >= logical_current /\ files[f][m].logical < o
<1>1. m \in 1..k /\ k \in DOMAIN files[f]
  BY DEF Run
<1>2. m \in DOMAIN files[f] /\ m \in Nat /\ k \in Nat /\ m <= k
  BY <1>1, ExtentTypes
<1>3. o = End(f, k) /\ files[f][m].logical >= logical_current
  BY DEF Run
<1>4. files[f][m].logical < o
  <2>1. CASE m = k
    BY <2>1, <1>2, <1>3, ExtentTypes
  <2>2. CASE m < k
    <3>1. End(f, m) <= files[f][k].logical
      BY <2>2, <1>1, <1>2, ExtentTypes
    <3>2. /\ files[f][m].logical \in Nat /\ files[f][k].logical \in Nat
          /\ End(f, m) \in Nat /\ End(f, k) \in Nat
          /\ files[f][m].logical < End(f, m) /\ files[f][k].logical < End(f, k)
      BY <1>1, <1>2, ExtentTypes
    <3>3. QED
      BY <3>1, <3>2, <1>3
  <2>3. QED
    BY <1>2, <2>1, <2>2
<1>5. QED
  BY <1>1, <1>2, <1>3, <1>4, ExtentTypes

\* The extents of a run and the others do not mix.
LEMMA RunPlaces ==
  ASSUME FileExtentsAssumption, files \in Pairs, logical_current \in Nat, NEW f \in Names,
         NEW m, NEW k, NEW o, Run(f, m, k, o), NEW n \in DOMAIN files[f]
  PROVE  /\ n < m => End(f, n) <= logical_current
         /\ n >= m => files[f][n].logical >= files[f][m].logical
         /\ n <= k => End(f, n) <= o
         /\ n > k => files[f][n].logical >= o
<1>1. /\ m \in DOMAIN files[f] /\ k \in DOMAIN files[f] /\ m \in Nat /\ k \in Nat /\ n \in Nat /\ n >= 1
      /\ files[f][m].logical \in Nat /\ o = End(f, k)
  BY RunTypes, ExtentTypes DEF Run
<1>2. n < m => End(f, n) <= logical_current
  <2>1. n < m => n \in 1..m - 1
    BY <1>1
  <2>2. QED
    BY <2>1 DEF Run
<1>3. n >= m => files[f][n].logical >= files[f][m].logical
  <2>1. n > m => End(f, m) <= files[f][n].logical
    BY <1>1, ExtentTypes
  <2>2. files[f][m].logical < End(f, m) /\ End(f, m) \in Nat /\ files[f][n].logical \in Nat
    BY <1>1, ExtentTypes
  <2>3. n > m => files[f][n].logical >= files[f][m].logical
    BY <1>1, <2>1, <2>2
  <2>4. n = m => files[f][n].logical >= files[f][m].logical
    BY <1>1
  <2>5. QED
    BY <1>1, <2>3, <2>4
<1>4. n <= k => End(f, n) <= o
  <2>1. n < k => End(f, n) <= files[f][k].logical
    BY <1>1, ExtentTypes
  <2>2. /\ files[f][k].logical < End(f, k) /\ End(f, k) \in Nat /\ files[f][k].logical \in Nat
        /\ End(f, n) \in Nat
    BY <1>1, ExtentTypes
  <2>3. n < k => End(f, n) <= o
    BY <1>1, <2>1, <2>2
  <2>4. n = k => End(f, n) <= o
    BY <1>1, <2>2
  <2>5. QED
    BY <1>1, <2>3, <2>4
<1>5. n > k => files[f][n].logical >= o
  <2>1. n > k => End(f, k) <= files[f][n].logical
    BY <1>1, ExtentTypes
  <2>2. End(f, k) \in Nat /\ files[f][n].logical \in Nat
    BY <1>1, ExtentTypes
  <2>3. QED
    BY <1>1, <2>1, <2>2
<1>6. QED
  BY <1>2, <1>3, <1>4, <1>5

\* A run starts with the first block of its round.
LEMMA FirstBlock ==
  ASSUME FileExtentsAssumption, files \in Pairs, logical_current \in Nat, NEW f \in Names,
         NEW m, NEW k, NEW o, Run(f, m, k, o)
  PROVE  /\ Block(f, files[f][m].logical, files[f][m].physical)
         /\ \A i, ph \in Nat : logical_current <= i /\ i < files[f][m].logical => ~Block(f, i, ph)
<1> DEFINE l == files[f][m].logical
           p == files[f][m].physical
<1>1. m \in DOMAIN files[f] /\ m \in Nat /\ l \in Nat /\ p \in Nat
  BY RunTypes
<1>2. Block(f, l, p)
  <2>1. l <= l /\ l < End(f, m) /\ p = IF p = Unknown THEN Unknown ELSE p + (l - l)
    BY <1>1, ExtentTypes DEF Unknown
  <2>2. QED
    BY <1>1, <2>1 DEF Block
<1>3. ASSUME NEW i \in Nat, NEW ph \in Nat, logical_current <= i, i < l, Block(f, i, ph) PROVE FALSE
  <2>1. PICK n \in DOMAIN files[f] : files[f][n].logical <= i /\ i < End(f, n)
    BY <1>3 DEF Block
  <2>2. n \in Nat /\ files[f][n].logical \in Nat /\ End(f, n) \in Nat
    BY ExtentTypes
  <2>3. ~(n < m)
    BY <2>1, <2>2, <1>3, RunPlaces
  <2>4. files[f][n].logical >= l
    BY <1>1, <2>2, <2>3, RunPlaces
  <2> HIDE DEF l
  <2>5. QED
    BY <1>1, <1>3, <2>1, <2>2, <2>4
<1>4. QED
  BY <1>2, <1>3

\* The blocks of a run follow each other on the disk.
LEMMA RunBlocks ==
  ASSUME FileExtentsAssumption, files \in Pairs, logical_current \in Nat, NEW f \in Names,
         NEW m, NEW k, NEW o, Run(f, m, k, o), files[f][m].physical # Unknown,
         NEW i \in Nat, files[f][m].logical <= i, i < o, NEW ph \in Nat
  PROVE  Block(f, i, ph) <=> ph = files[f][m].physical + (i - files[f][m].logical)
<1> DEFINE l == files[f][m].logical
           p == files[f][m].physical
<1>1. m \in DOMAIN files[f] /\ m \in Nat /\ k \in Nat /\ l \in Nat /\ p \in Nat /\ o \in Nat /\ k \in DOMAIN files[f]
  BY RunTypes
<1>2. PICK n \in m..k : files[f][n].logical <= i /\ i < End(f, n)
  <2>1. i \in l..o - 1
    BY <1>1
  <2>2. QED
    BY <2>1 DEF Run
<1>3. n \in DOMAIN files[f] /\ n >= m
  BY <1>1, ExtentTypes
<1> DEFINE ln == files[f][n].logical
           pn == files[f][n].physical
<1>4. ln \in Nat /\ pn \in Nat /\ pn = p + (ln - l) /\ ln >= l
  <2>1. ln \in Nat /\ pn \in Nat
    BY <1>3, ExtentTypes
  <2>2. pn = p + (ln - l)
    BY <1>2 DEF Run
  <2>3. ln >= l
    BY <1>3, RunPlaces
  <2>4. QED
    BY <2>1, <2>2, <2>3
<1>5. ph = p + (i - l) => Block(f, i, ph)
  <2> SUFFICES ASSUME ph = p + (i - l) PROVE Block(f, i, ph)
    OBVIOUS
  <2>1. pn # Unknown /\ ph = pn + (i - ln)
    <3> HIDE DEF l, p, ln, pn
    <3>1. p # Unknown
      BY DEF p
    <3>2. QED
      BY <1>1, <1>4, <3>1 DEF Unknown
  <2>2. QED
    BY <1>2, <1>3, <2>1 DEF Block
<1>6. Block(f, i, ph) => ph = p + (i - l)
  <2> SUFFICES ASSUME Block(f, i, ph) PROVE ph = p + (i - l)
    OBVIOUS
  <2>1. PICK q \in DOMAIN files[f] :
          /\ files[f][q].logical <= i /\ i < End(f, q)
          /\ ph = IF files[f][q].physical = Unknown THEN Unknown
                  ELSE files[f][q].physical + (i - files[f][q].logical)
    BY DEF Block
  <2>2. q = n
    BY <1>2, <1>3, <2>1, BlockIsUnique
  <2>3. ph = IF pn = Unknown THEN Unknown ELSE pn + (i - ln)
    BY <2>1, <2>2
  <2>4. p # Unknown
    OBVIOUS
  <2> HIDE DEF l, p, ln, pn
  <2>5. QED
    BY <1>1, <1>4, <2>3, <2>4 DEF Unknown
<1>7. QED
  BY <1>5, <1>6

-----------------------------------------------------------------------------
(* What the comparison of two runs says of the files. *)

SameBlocks(f, g) == \A i, ph \in Nat : Block(f, i, ph) <=> Block(g, i, ph)

LEMMA SameStart ==
  ASSUME FileExtentsAssumption, files \in Pairs, logical_current \in Nat,
         NEW f \in Names, NEW g \in Names, SameBlocks(f, g),
         NEW m, NEW k, NEW o, Run(f, m, k, o), NEW n, NEW j, NEW q, Run(g, n, j, q)
  PROVE  files[g][n].logical <= files[f][m].logical
<1> DEFINE l == files[f][m].logical
<1>1. l \in Nat /\ files[f][m].physical \in Nat /\ l >= logical_current /\ files[g][n].logical \in Nat
  BY RunTypes
<1>2. Block(g, l, files[f][m].physical)
  BY <1>1, FirstBlock DEF SameBlocks
<1>3. ~(l < files[g][n].logical)
  BY <1>1, <1>2, FirstBlock
<1>4. QED
  BY <1>1, <1>3

LEMMA SamePlace ==
  ASSUME FileExtentsAssumption, files \in Pairs, logical_current \in Nat,
         NEW f \in Names, NEW g \in Names, SameBlocks(f, g),
         NEW m, NEW k, NEW o, Run(f, m, k, o), NEW n, NEW j, NEW q, Run(g, n, j, q),
         files[f][m].physical # Unknown, files[g][n].logical = files[f][m].logical
  PROVE  files[g][n].physical = files[f][m].physical
<1> DEFINE l == files[f][m].logical
           p == files[f][m].physical
           r == files[g][n].physical
<1>1. l \in Nat /\ p \in Nat /\ r \in Nat /\ o \in Nat /\ l < o
  BY RunTypes
<1>2. Block(g, l, r)
  BY FirstBlock
<1>3. Block(f, l, r)
  BY <1>1, <1>2 DEF SameBlocks
<1>4. r = p + (l - l)
  <2>1. l <= l
    BY <1>1
  <2>2. QED
    BY <1>1, <1>3, <2>1, RunBlocks
<1>5. QED
  BY <1>1, <1>4

\* A run that could have gone on has not stopped.
LEMMA SameEnd ==
  ASSUME FileExtentsAssumption, files \in Pairs, logical_current \in Nat,
         NEW f \in Names, NEW g \in Names, SameBlocks(f, g),
         NEW m, NEW k, NEW o, Run(f, m, k, o), NEW n, NEW j, NEW q, Run(g, n, j, q),
         files[f][m].physical # Unknown, files[g][n].logical = files[f][m].logical,
         files[g][n].physical = files[f][m].physical,
         k < Len(files[f]) => ~Follows(f, k)
  PROVE  q <= o
<1> SUFFICES ASSUME ~(q <= o) PROVE FALSE
  OBVIOUS
<1> DEFINE l == files[f][m].logical
           p == files[f][m].physical
           ph == p + (o - l)
<1>1. /\ l \in Nat /\ p \in Nat /\ p # 0 /\ o \in Nat /\ q \in Nat /\ l < o /\ o < q
      /\ k \in Nat /\ k \in DOMAIN files[f] /\ k >= m /\ m \in Nat
  BY RunTypes DEF Unknown
<1>2. ph \in Nat /\ ph > 0 /\ l <= o
  <2> HIDE DEF l, p
  <2>1. QED
    BY <1>1
<1>3. Block(g, o, ph)
  BY <1>1, <1>2, RunBlocks, SMTT(30)
<1>4. Block(f, o, ph)
  BY <1>1, <1>2, <1>3 DEF SameBlocks
<1>5. PICK e \in DOMAIN files[f] :
        /\ files[f][e].logical <= o /\ o < End(f, e)
        /\ ph = IF files[f][e].physical = Unknown THEN Unknown
                ELSE files[f][e].physical + (o - files[f][e].logical)
  BY <1>4 DEF Block
<1>6. e \in Nat /\ files[f][e].logical \in Nat /\ files[f][e].physical \in Nat /\ End(f, e) \in Nat
  BY ExtentTypes
<1>7. e > k
  <2>1. ~(e <= k)
    <3>1. e <= k => End(f, e) <= o
      BY RunPlaces
    <3>2. QED
      BY <3>1, <1>1, <1>5, <1>6
  <2>2. QED
    BY <2>1, <1>1, <1>6
<1>8. k + 1 \in DOMAIN files[f] /\ k < Len(files[f]) /\ k + 1 > k /\ k + 1 <= e
  BY <1>1, <1>6, <1>7, ExtentTypes, SMTT(30)
<1>9. files[f][k + 1].logical >= o
  BY <1>8, RunPlaces
<1>10. e = k + 1
  <2>1. k + 1 < e => End(f, k + 1) <= files[f][e].logical
    BY <1>8, ExtentTypes
  <2>2. /\ files[f][k + 1].logical < End(f, k + 1) /\ files[f][k + 1].logical \in Nat
        /\ End(f, k + 1) \in Nat
    BY <1>8, ExtentTypes
  <2>3. ~(k + 1 < e)
    BY <2>1, <2>2, <1>1, <1>5, <1>6, <1>9
  <2>4. QED
    BY <2>3, <1>1, <1>6, <1>8
<1> DEFINE a == files[f][k]
           b == files[f][k + 1]
<1>11. b.logical = o /\ b.physical = ph
  <2>1. b.logical = o
    BY <1>5, <1>6, <1>9, <1>10, <1>1
  <2>2. b.physical # Unknown
    BY <1>2, <1>5, <1>10 DEF Unknown
  <2>3. ph = b.physical + (o - b.logical)
    BY <1>5, <1>10, <2>2
  <2>4. b.physical \in Nat
    BY <1>6, <1>10
  <2> HIDE DEF b, ph
  <2>5. QED
    BY <2>1, <2>3, <2>4, <1>1
<1>12. /\ a.logical \in Nat /\ a.physical \in Nat /\ a.length \in Nat
       /\ a.physical = p + (a.logical - l) /\ o = a.logical + a.length
  <2>1. k \in m..k
    BY <1>1
  <2>2. a.physical = p + (a.logical - l) /\ o = a.logical + a.length
    BY <2>1 DEF Run, End
  <2>3. QED
    BY <1>1, <2>2, ExtentTypes
<1>13. b.physical = a.physical + a.length /\ b.physical = a.physical + (b.logical - a.logical)
  <2> DEFINE al == a.logical
             ap == a.physical
             an == a.length
  <2>1. /\ al \in Nat /\ ap \in Nat /\ an \in Nat /\ l \in Nat /\ p \in Nat
        /\ ap = p + (al - l) /\ o = al + an
    BY <1>1, <1>12
  <2>2. b.logical = o /\ b.physical = p + (o - l)
    BY <1>11
  <2> HIDE DEF al, ap, an, l, p
  <2>3. p + (o - l) = ap + an /\ p + (o - l) = ap + (o - al)
    BY <2>1
  <2>4. b.physical = ap + an /\ b.physical = ap + (b.logical - al)
    BY <2>2, <2>3
  <2>5. QED
    BY <2>4 DEF al, ap, an
<1>14. QED
  BY <1>8, <1>13 DEF Follows

LEMMA SameLast ==
  ASSUME FileExtentsAssumption, files \in Pairs, logical_current \in Nat,
         NEW f \in Names, NEW g \in Names, SameBlocks(f, g),
         NEW m, NEW k, NEW o, Run(f, m, k, o), NEW n, NEW j, Run(g, n, j, o),
         k = Len(files[f])
  PROVE  j = Len(files[g])
<1> SUFFICES ASSUME j # Len(files[g]) PROVE FALSE
  OBVIOUS
<1>1. j \in Nat /\ j \in DOMAIN files[g] /\ o \in Nat /\ k \in Nat
  BY RunTypes
<1>2. j + 1 \in DOMAIN files[g] /\ j + 1 > j
  BY <1>1, ExtentTypes
<1> DEFINE b == files[g][j + 1]
<1>3. b.logical >= o /\ b.logical \in Nat /\ b.physical \in Nat /\ b.logical < End(g, j + 1)
  BY <1>2, RunPlaces, ExtentTypes
<1> DEFINE ph == IF b.physical = Unknown THEN Unknown ELSE b.physical + (b.logical - b.logical)
<1>4. ph \in Nat
  <2> HIDE DEF b
  <2>1. QED
    BY <1>3 DEF Unknown
<1>5. Block(g, b.logical, ph)
  <2>1. b.logical <= b.logical
    BY <1>3
  <2>2. QED
    BY <1>2, <1>3, <2>1 DEF Block
<1>6. Block(f, b.logical, ph)
  BY <1>3, <1>4, <1>5 DEF SameBlocks
<1>7. PICK e \in DOMAIN files[f] : b.logical < End(f, e)
  BY <1>6 DEF Block
<1>8. e <= k /\ End(f, e) \in Nat
  BY <1>7, ExtentTypes
<1>9. End(f, e) <= o
  BY <1>8, RunPlaces
<1> HIDE DEF b
<1>10. QED
  BY <1>1, <1>3, <1>7, <1>8, <1>9

\* Runs that are the same leave nothing to tell the files apart before they end.
LEMMA Extended ==
  ASSUME FileExtentsAssumption, files \in Pairs, logical_current \in Nat, SameSoFar,
         NEW m, NEW k, NEW o, Run("a", m, k, o), NEW n, NEW j, Run("b", n, j, o),
         files["a"][m].physical # Unknown,
         files["b"][n].logical = files["a"][m].logical,
         files["b"][n].physical = files["a"][m].physical
  PROVE  /\ \A i, ph \in Nat : i < o => (Block("a", i, ph) <=> Block("b", i, ph))
         /\ \A e \in DOMAIN files["a"] : files["a"][e].logical < o => files["a"][e].physical # Unknown
<1> DEFINE l == files["a"][m].logical
           p == files["a"][m].physical
<1>1. l \in Nat /\ p \in Nat /\ p # 0 /\ o \in Nat /\ m \in Nat /\ k \in Nat /\ l >= logical_current /\ l < o
  BY RunTypes DEF Names, Unknown
<1>2. ASSUME NEW i \in Nat, NEW ph \in Nat, i < o
      PROVE  Block("a", i, ph) <=> Block("b", i, ph)
  <2>1. CASE i < logical_current
    BY <2>1 DEF SameSoFar
  <2>2. CASE logical_current <= i /\ i < l
    BY <2>2, FirstBlock DEF Names
  <2>3. CASE l <= i
    <3>1. Block("a", i, ph) <=> ph = p + (i - l)
      BY <2>3, <1>2, RunBlocks DEF Names
    <3>2. Block("b", i, ph) <=> ph = p + (i - l)
      BY <2>3, <1>2, RunBlocks DEF Names
    <3>3. QED
      BY <3>1, <3>2
  <2> HIDE DEF l
  <2>4. QED
    BY <1>1, <2>1, <2>2, <2>3
<1>3. ASSUME NEW e \in DOMAIN files["a"], files["a"][e].logical < o
      PROVE  files["a"][e].physical # Unknown
  <2> DEFINE le == files["a"][e].logical
             pe == files["a"][e].physical
  <2>1. e \in Nat /\ le \in Nat /\ pe \in Nat /\ End("a", e) \in Nat /\ le < End("a", e)
    BY ExtentTypes DEF Names
  <2>2. CASE e < m
    <3>1. End("a", e) <= logical_current
      BY <2>2, RunPlaces DEF Names
    <3>2. le < logical_current
      BY <3>1, <2>1
    <3>3. QED
      BY <3>2 DEF SameSoFar
  <2>3. CASE e >= m
    <3>1. e <= k
      <4>1. e > k => le >= o
        BY RunPlaces DEF Names
      <4>2. QED
        BY <4>1, <1>3, <2>1, <1>1
    <3>2. pe = p + (le - l)
      BY <3>1, <2>1, <2>3, <1>1 DEF Run
    <3>3. le >= l
      BY <2>3, RunPlaces DEF Names
    <3> HIDE DEF le, pe, l, p
    <3>4. pe # Unknown
      BY <3>2, <3>3, <2>1, <1>1 DEF Unknown
    <3>5. QED
      BY <3>4 DEF pe
  <2>4. QED
    BY <2>1, <2>2, <2>3, <1>1
<1>4. QED
  BY <1>2, <1>3

-----------------------------------------------------------------------------
(* Each operation preserves the invariant. *)

\* A set of numbers that is not empty has a least one.
LEMMA FirstPlace ==
  ASSUME NEW S \in SUBSET Nat, S # {}
  PROVE  Min(S) \in S /\ \A k \in S : Min(S) <= k
<1> DEFINE R == {ss \in Nat \X Nat : ss[1] < ss[2]}
<1>1. R = OpToRel(<, Nat)
  BY Zenon DEF OpToRel
<1>2. IsWellFoundedOn(R, Nat)
  BY Zenon, <1>1, NatLessThanWellFounded
<1>3. \A m, n \in Nat : m < n => <<m, n>> \in R
  OBVIOUS
<1> HIDE DEF R
<1>4. PICK x \in S : \A y \in S : ~(<<y, x>> \in R)
  BY <1>2, WFMin
<1>5. ASSUME NEW y \in S PROVE x <= y
  <2>1. x \in Nat /\ y \in Nat
    OBVIOUS
  <2>2. ~(y < x)
    BY <2>1, <1>3, <1>4
  <2>3. QED
    BY <2>1, <2>2
<1>6. QED
  BY <1>5 DEF Min

LEMMA InitIInv == ASSUME FileExtentsAssumption, Init PROVE IInv
<1>1. files \in Pairs /\ logical_current = 0 /\ DOMAIN found = Names /\ verdict = "none yet"
  BY DEF Init, Names
<1>2. SameSoFar
  <2>1. ASSUME NEW f \in Names, NEW n \in DOMAIN files[f]
        PROVE  ~(files[f][n].logical < 0) /\ files[f][n].logical >= 0
    <3>1. files[f][n].logical \in Nat
      BY <1>1, ExtentTypes
    <3>2. QED
      BY <3>1
  <2>2. \A i \in Nat : ~(i < 0)
    OBVIOUS
  <2>3. "a" \in Names
    BY DEF Names
  <2>4. QED
    BY <1>1, <2>1, <2>2, <2>3 DEF SameSoFar
<1>3. InRound
  BY DEF Init, InRound, Progress, Call
<1>4. ReflinksShareAll
  BY <1>1 DEF ReflinksShareAll
<1>5. QED
  BY <1>1, <1>2, <1>3, <1>4 DEF IInv

\* The first extent that the kernel reports for a round begins a run.
LEMMA RunBegins ==
  ASSUME FileExtentsAssumption, files \in Pairs, logical_current \in Nat, SameSoFar,
         NEW f \in Names, Fiemap(f, logical_current) # {},
         NEW n, n = Min(Fiemap(f, logical_current))
  PROVE  n \in DOMAIN files[f] /\ Run(f, n, n, End(f, n))
<1>1. Fiemap(f, logical_current) \in SUBSET Nat
  BY ExtentTypes DEF Fiemap
<1>2. n \in Fiemap(f, logical_current) /\ \A q \in Fiemap(f, logical_current) : n <= q
  BY <1>1, FirstPlace
<1>3. n \in DOMAIN files[f] /\ End(f, n) > logical_current /\ n \in Nat /\ n >= 1
  BY <1>2, ExtentTypes DEF Fiemap, End
<1>4. /\ files[f][n].logical \in Nat /\ files[f][n].physical \in Nat /\ End(f, n) \in Nat
      /\ DOMAIN files[f] = 1..Len(files[f]) /\ Len(files[f]) \in Nat
  BY <1>3, ExtentTypes
<1>5. files[f][n].logical >= logical_current
  <2>1. End(f, n) <= logical_current \/ files[f][n].logical >= logical_current
    BY <1>3 DEF SameSoFar
  <2>2. QED
    BY <2>1, <1>3, <1>4
<1>6. ASSUME NEW q \in 1..n - 1 PROVE End(f, q) <= logical_current
  <2>1. q \in DOMAIN files[f] /\ ~(n <= q)
    BY <1>3, <1>4
  <2>2. End(f, q) \in Nat
    BY <2>1, ExtentTypes
  <2>3. ~(End(f, q) > logical_current)
    BY <2>1, <1>2 DEF Fiemap, End
  <2>4. QED
    BY <2>2, <2>3
<1>7. \A q \in n..n : files[f][q].physical = files[f][n].physical + (files[f][q].logical - files[f][n].logical)
  <2>1. n..n = {n}
    BY <1>3
  <2> DEFINE l == files[f][n].logical
             p == files[f][n].physical
  <2>2. p = p + (l - l)
    BY <1>4
  <2>3. QED
    BY <2>1, <2>2
<1>8. \A i \in files[f][n].logical..End(f, n) - 1 : \E q \in n..n : files[f][q].logical <= i /\ i < End(f, q)
  BY <1>3, <1>4
<1>9. QED
  BY <1>3, <1>5, <1>6, <1>7, <1>8 DEF Run

\* The next extent is the one that the kernel reports after a run.
LEMMA NextExtent ==
  ASSUME FileExtentsAssumption, files \in Pairs, logical_current \in Nat,
         NEW f \in Names, NEW m, NEW k, NEW o, Run(f, m, k, o), k < Len(files[f])
  PROVE  Fiemap(f, o) # {} /\ Min(Fiemap(f, o)) = k + 1
<1>1. /\ k \in Nat /\ o \in Nat /\ k \in DOMAIN files[f]
      /\ DOMAIN files[f] = 1..Len(files[f]) /\ Len(files[f]) \in Nat
  BY RunTypes, ExtentTypes
<1>2. k + 1 \in DOMAIN files[f] /\ k + 1 > k
  BY <1>1
<1>3. End(f, k + 1) > o
  <2>1. /\ files[f][k + 1].logical \in Nat /\ End(f, k + 1) \in Nat
        /\ files[f][k + 1].logical < End(f, k + 1)
    BY <1>2, ExtentTypes
  <2>2. files[f][k + 1].logical >= o
    BY <1>2, RunPlaces
  <2>3. QED
    BY <2>1, <2>2, <1>1
<1>4. k + 1 \in Fiemap(f, o)
  BY <1>2, <1>3 DEF Fiemap, End
<1>5. Fiemap(f, o) \in SUBSET Nat
  BY ExtentTypes DEF Fiemap
<1>6. Min(Fiemap(f, o)) \in Fiemap(f, o) /\ \A q \in Fiemap(f, o) : Min(Fiemap(f, o)) <= q
  BY <1>4, <1>5, FirstPlace
<1> DEFINE n == Min(Fiemap(f, o))
<1>7. n \in DOMAIN files[f] /\ n \in Nat /\ n <= k + 1 /\ End(f, n) > o
  BY <1>4, <1>5, <1>6 DEF Fiemap, End
<1>8. ~(n <= k)
  <2>1. n <= k => End(f, n) <= o
    BY <1>7, RunPlaces
  <2>2. End(f, n) \in Nat
    BY <1>7, ExtentTypes
  <2>3. QED
    BY <2>1, <2>2, <1>1, <1>7
<1> HIDE DEF n
<1>9. n = k + 1
  BY <1>1, <1>7, <1>8
<1>10. QED
  BY <1>4, <1>9 DEF n

LEMMA RunGoesOn ==
  ASSUME FileExtentsAssumption, files \in Pairs, logical_current \in Nat,
         NEW f \in Names, NEW m, NEW k, NEW o, Run(f, m, k, o), k < Len(files[f]), Follows(f, k)
  PROVE  Run(f, m, k + 1, End(f, k + 1))
<1> DEFINE l == files[f][m].logical
           p == files[f][m].physical
           e == files[f][k]
           d == files[f][k + 1]
<1>1. /\ k \in Nat /\ m \in Nat /\ m >= 1 /\ m <= k /\ o \in Nat /\ k \in DOMAIN files[f] /\ l \in Nat /\ p \in Nat
      /\ DOMAIN files[f] = 1..Len(files[f]) /\ Len(files[f]) \in Nat
  BY RunTypes, ExtentTypes DEF Run
<1>2. k + 1 \in DOMAIN files[f] /\ k \in m..k
  BY <1>1
<1>3. /\ e.logical \in Nat /\ e.physical \in Nat /\ e.length \in Nat
      /\ d.logical \in Nat /\ d.physical \in Nat /\ End(f, k + 1) \in Nat
  BY <1>1, <1>2, ExtentTypes
<1>4. e.physical = p + (e.logical - l) /\ o = e.logical + e.length
  BY <1>2 DEF Run, End
<1>5. d.logical = o /\ d.physical = p + (d.logical - l)
  <2> DEFINE el == e.logical
             ep == e.physical
             en == e.length
             dl == d.logical
             dp == d.physical
  <2>1. dp = ep + en /\ dp = ep + (dl - el)
    BY DEF Follows
  <2>2. /\ el \in Nat /\ ep \in Nat /\ en \in Nat /\ dl \in Nat /\ dp \in Nat /\ l \in Nat /\ p \in Nat
        /\ ep = p + (el - l) /\ o = el + en
    BY <1>1, <1>3, <1>4
  <2> HIDE DEF el, ep, en, dl, dp, l, p
  <2>3. dl = o /\ dp = p + (dl - l)
    BY <2>1, <2>2
  <2>4. QED
    BY <2>3 DEF dl, dp
<1>6. ASSUME NEW q \in m..k + 1
      PROVE  files[f][q].physical = p + (files[f][q].logical - l)
  <2>1. q \in m..k \/ q = k + 1
    BY <1>1
  <2>2. CASE q \in m..k
    BY <2>2 DEF Run
  <2>3. CASE q = k + 1
    BY <2>3, <1>5
  <2>4. QED
    BY <2>1, <2>2, <2>3
<1>7. ASSUME NEW i \in l..End(f, k + 1) - 1
      PROVE  \E q \in m..k + 1 : files[f][q].logical <= i /\ i < End(f, q)
  <2>1. CASE i < o
    <3>1. i \in l..o - 1
      <4> HIDE DEF l
      <4>1. QED
        BY <2>1, <1>1, <1>3, <1>7
    <3>2. PICK q \in m..k : files[f][q].logical <= i /\ i < End(f, q)
      BY <3>1 DEF Run
    <3>3. q \in m..k + 1
      BY <1>1
    <3>4. QED
      BY <3>2, <3>3
  <2>2. CASE ~(i < o)
    <3>1. d.logical <= i /\ i < End(f, k + 1)
      <4> HIDE DEF l, d
      <4>1. QED
        BY <2>2, <1>1, <1>3, <1>5, <1>7
    <3>2. k + 1 \in m..k + 1
      BY <1>1
    <3>3. QED
      BY <3>1, <3>2
  <2>3. QED
    BY <2>1, <2>2
<1>8. m \in 1..k + 1
  BY <1>1
<1>9. QED
  BY <1>2, <1>6, <1>7, <1>8 DEF Run

LEMMA ResultStays ==
  ASSUME UNCHANGED <<files, logical_current>>, NEW g \in Names, Result(g, found'[g])
  PROVE  Result(g, found[g])'
<1>1. CASE files[g] = << >> /\ logical_current = 0 /\ found'[g] = Nothing
  BY <1>1 DEF Result, Nothing
<1>2. ASSUME NEW m \in DOMAIN files[g], NEW k \in DOMAIN files[g], Run(g, m, k, End(g, k)),
             found'[g] = Outcome(files[g][m], End(g, k), k = Len(files[g])),
             k < Len(files[g]) => ~Follows(g, k)
      PROVE  Result(g, found[g])'
  <2>1. Run(g, m, k, End(g, k))' /\ (k < Len(files[g]) => ~Follows(g, k))' /\ End(g, k)' = End(g, k)
    BY <1>2 DEF Run, End, Follows
  <2>2. Outcome(files[g][m], End(g, k), k = Len(files[g]))' = found'[g]
    BY <1>2 DEF Outcome, End
  <2>3. QED
    BY <1>2, <2>1, <2>2 DEF Result
<1>3. QED
  BY <1>1, <1>2 DEF Result

\* A call that returns as it should leaves the round as it should be.
LEMMA Returned ==
  ASSUME NEW f \in Names, f = reading.file, NEW start, NEW next, NEW is_last, Progress(f), IInv, Running,
         Return(start, next, is_last), Result(f, Outcome(start, next, is_last)),
         UNCHANGED <<files, logical_current, verdict>>
  PROVE  IInv'
<1> DEFINE r == Outcome(start, next, is_last)
<1>1. found' = [found EXCEPT ![f] = r] /\ DOMAIN found = Names
  BY DEF Return, IInv
<1>2. found'[f] = r /\ DOMAIN found' = Names /\ \A g \in Names : g # f => found'[g] = found[g]
  BY <1>1
<1>3. \A g \in Names : Result(g, found'[g]) => Result(g, found[g])'
  BY ResultStays
<1>4. InRound'
  <2>1. InRound
    BY DEF IInv
  <2>2. CASE f = "a"
    <3>1. reading' = Call("b", logical_current') /\ reading'.file = "b"
      BY <2>2 DEF Return, Call
    <3>2. found'["b"] = Nothing
      BY <1>2, <2>1, <2>2 DEF InRound, Names
    <3>3. Result("a", found["a"])'
      BY <1>2, <1>3, <2>2 DEF Names
    <3>4. Progress("b")'
      BY <3>1, <3>2 DEF Progress, Call, Nothing
    <3>5. QED
      BY <3>1, <3>3, <3>4 DEF InRound
  <2>3. CASE f = "b"
    <3>1. reading'.file = "compare"
      <4>1. "file" \in DOMAIN reading
        <5>1. CASE reading = Call(f, logical_current)
          BY <5>1 DEF Call
        <5>2. ASSUME NEW n, NEW x, NEW y, reading = [file |-> f, offset |-> n, first |-> x, fm_last |-> y]
              PROVE  "file" \in DOMAIN reading
          BY <5>2
        <5>3. QED
          BY <5>1, <5>2 DEF Progress
      <4>2. QED
        BY <2>3, <4>1 DEF Return
    <3>2. Result("a", found["a"])
      BY <2>1, <2>3 DEF InRound
    <3>3. found'["a"] = found["a"] /\ found'["b"] = r
      BY <1>2, <2>3 DEF Names
    <3>4. Result("a", found["a"])' /\ Result("b", found["b"])'
      BY <1>3, <2>3, <3>2, <3>3 DEF Names
    <3>5. QED
      BY <3>1, <3>4 DEF InRound
  <2>4. QED
    BY <2>2, <2>3 DEF Names
<1>5. SameSoFar'
  BY DEF IInv, SameSoFar, Block, End
<1>6. ReflinksShareAll'
  BY DEF IInv, ReflinksShareAll, BlockMap, Known
<1>7. QED
  BY <1>2, <1>4, <1>5, <1>6 DEF IInv, Running

\* A file that runs on has more extents, so that only a file without any has none to report.
LEMMA NoExtentStep == ASSUME FileExtentsAssumption, IInv, NoExtent PROVE IInv'
<1> DEFINE f == reading.file
<1>1. files \in Pairs /\ logical_current \in Nat /\ SameSoFar /\ Running /\ InRound
  BY DEF IInv, NoExtent, Asking
<1>2. f \in Names /\ Progress(f)
  BY <1>1 DEF NoExtent, Asking, InRound, Names
<1>3. Fiemap(f, reading.offset) = {}
  BY DEF NoExtent
<1>4. CASE reading = Call(f, logical_current) /\ found[f] = Nothing
  <2>1. reading.offset = logical_current
    BY <1>4 DEF Call
  <2>2. ASSUME NEW n \in DOMAIN files[f] PROVE ~(files[f][n].logical >= logical_current)
    <3>1. /\ files[f][n].logical \in Nat /\ End(f, n) \in Nat /\ files[f][n].logical < End(f, n)
      BY <1>1, <1>2, ExtentTypes
    <3>2. ~(End(f, n) > logical_current)
      BY <1>3, <2>1 DEF Fiemap, End
    <3>3. QED
      BY <1>1, <3>1, <3>2
  <2>3. logical_current = 0
    BY <1>1, <1>2, <2>2 DEF SameSoFar
  <2>4. files[f] = << >>
    <3> SUFFICES ASSUME Len(files[f]) # 0 PROVE FALSE
      BY <1>1, <1>2, ExtentTypes
    <3>1. 1 \in DOMAIN files[f]
      BY <1>1, <1>2, ExtentTypes
    <3>2. files[f][1].logical \in Nat
      BY <1>1, <1>2, <3>1, ExtentTypes
    <3>3. QED
      BY <2>2, <2>3, <3>1, <3>2
  <2>5. Outcome(found[f], reading.offset, FALSE) = Nothing
    BY <1>4, <2>1, <2>3 DEF Nothing, Outcome
  <2>6. Result(f, Outcome(found[f], reading.offset, FALSE))
    BY <2>3, <2>4, <2>5 DEF Result
  <2>7. QED
    BY <1>1, <1>2, <2>6, Returned DEF NoExtent
<1>5. CASE ~(reading = Call(f, logical_current) /\ found[f] = Nothing)
  <2>1. PICK m \in DOMAIN files[f], k \in DOMAIN files[f] : Run(f, m, k, reading.offset) /\ k < Len(files[f])
    BY <1>2, <1>5 DEF Progress
  <2>2. QED
    BY <1>1, <1>2, <1>3, <2>1, NextExtent
<1>6. QED
  BY <1>4, <1>5

\* What ReadExtent does with the extent n after the run from the m-th, which n continues or begins.
LEMMA Extends ==
  ASSUME FileExtentsAssumption, IInv, ReadExtent, NEW f \in Names, f = reading.file, Progress(f),
         NEW m, NEW n \in DOMAIN files[f], n = Min(Fiemap(f, reading.offset)),
         Run(f, m, n, End(f, n)), m \in DOMAIN files[f],
         reading.first \/ Contiguous(files[f][n]), NEW start,
         start = IF reading.first THEN files[f][n] ELSE found[f],
         start.physical = files[f][m].physical, start.logical = files[f][m].logical,
         DOMAIN reading = {"file", "offset", "first", "fm_last"}
  PROVE  IInv'
<1> DEFINE e == files[f][n]
<1>1. files \in Pairs /\ logical_current \in Nat /\ Running /\ InRound /\ DOMAIN found = Names
  BY DEF IInv, ReadExtent, Asking
<1>2. UNCHANGED <<files, logical_current, verdict>>
  BY DEF ReadExtent
<1>3. CASE n = Len(files[f])
  <2>1. Return(start, End(f, n), TRUE)
    BY <1>3 DEF ReadExtent, End
  <2>2. Outcome(start, End(f, n), TRUE) = Outcome(files[f][m], End(f, n), n = Len(files[f]))
    <3>1. Outcome(start, End(f, n), TRUE) = Outcome(files[f][m], End(f, n), TRUE)
      BY DEF Outcome
    <3>2. (n = Len(files[f])) = TRUE
      BY <1>3
    <3>3. QED
      BY Zenon, <3>1, <3>2
  <2>3. Result(f, Outcome(start, End(f, n), TRUE))
    <3>1. ~(n < Len(files[f]))
      BY <1>1, <1>3, ExtentTypes
    <3>2. QED
      BY Zenon, <2>2, <3>1 DEF Result
  <2>4. QED
    BY <1>1, <1>2, <2>1, <2>3, Returned
<1>4. CASE n # Len(files[f])
  <2>1. /\ found' = [found EXCEPT ![f] = Outcome(start, 0, FALSE)]
        /\ reading' = [reading EXCEPT !.offset = e.logical + e.length, !.first = FALSE, !.fm_last = e]
    BY <1>4 DEF ReadExtent
  <2>2. /\ found'[f] = Outcome(files[f][m], 0, FALSE) /\ DOMAIN found' = Names
        /\ \A g \in Names : g # f => found'[g] = found[g]
    BY <1>1, <2>1 DEF Outcome
  <2>3. /\ reading' = [file |-> f, offset |-> End(f, n), first |-> FALSE, fm_last |-> e]
        /\ reading'.file = f /\ reading'.offset = End(f, n)
    BY <2>1 DEF End
  <2>4. n < Len(files[f])
    BY <1>1, <1>4, ExtentTypes
  <2>5. Progress(f)'
    <3>1. Run(f, m, n, End(f, n))' /\ End(f, n)' = End(f, n) /\ (n < Len(files[f]))'
      BY <1>2, <2>4 DEF Run, End
    <3>2. /\ Run(f, m, n, reading.offset)'
          /\ reading' = [file |-> f, offset |-> End(f, n)', first |-> FALSE, fm_last |-> files'[f][n]]
          /\ found'[f] = Outcome(files'[f][m], 0, FALSE)
      <4>1. Run(f, m, n, reading.offset)'
        BY <2>3, <3>1 DEF Run
      <4>2. QED
        BY <1>2, <2>2, <2>3, <3>1, <4>1
    <3>3. QED
      BY <1>2, <3>1, <3>2 DEF Progress, Outcome
  <2>6. InRound'
    <3>1. CASE f = "a"
      <4>1. found'["b"] = Nothing
        BY <1>1, <2>2, <3>1 DEF InRound, Names
      <4>2. QED
        BY <2>3, <2>5, <3>1, <4>1 DEF InRound, Nothing
    <3>2. CASE f = "b"
      <4>1. Result("a", found["a"]) /\ found'["a"] = found["a"]
        BY <1>1, <2>2, <3>2 DEF InRound, Names
      <4>2. Result("a", found["a"])'
        BY <1>2, <4>1, ResultStays DEF Names
      <4>3. QED
        BY <2>3, <2>5, <3>2, <4>2 DEF InRound
    <3>3. QED
      BY <3>1, <3>2 DEF Names
  <2>7. SameSoFar'
    BY <1>2 DEF IInv, SameSoFar, Block, End
  <2>8. ReflinksShareAll'
    BY <1>2 DEF IInv, ReflinksShareAll, BlockMap, Known
  <2>9. QED
    BY <1>1, <1>2, <2>2, <2>6, <2>7, <2>8 DEF IInv
<1>5. QED
  BY <1>3, <1>4

LEMMA ReadExtentStep == ASSUME FileExtentsAssumption, IInv, ReadExtent PROVE IInv'
<1> DEFINE f == reading.file
           n == Min(Fiemap(f, reading.offset))
<1>1. files \in Pairs /\ logical_current \in Nat /\ SameSoFar /\ Running /\ InRound
  BY DEF IInv, ReadExtent, Asking
<1>2. f \in Names /\ Progress(f)
  BY <1>1 DEF ReadExtent, Asking, InRound, Names
<1>3. Fiemap(f, reading.offset) # {}
  BY DEF ReadExtent
<1>4. CASE reading = Call(f, logical_current) /\ found[f] = Nothing
  <2>1. reading.offset = logical_current /\ reading.first /\ DOMAIN reading = {"file", "offset", "first", "fm_last"}
    BY <1>4 DEF Call
  <2>2. n \in DOMAIN files[f] /\ Run(f, n, n, End(f, n))
    BY <1>1, <1>2, <1>3, <2>1, RunBegins
  <2> HIDE DEF n, f
  <2>3. ASSUME NEW start, start = IF reading.first THEN files[f][n] ELSE found[f]
        PROVE  IInv'
    <3>1. start.physical = files[f][n].physical /\ start.logical = files[f][n].logical
      BY <2>1, <2>3
    <3>2. QED
      BY <1>2, <2>1, <2>2, <2>3, <3>1, Extends DEF f, n
  <2>4. QED
    BY <2>3
<1>5. CASE ~(reading = Call(f, logical_current) /\ found[f] = Nothing)
  <2>1. PICK m \in DOMAIN files[f], k \in DOMAIN files[f] :
          /\ Run(f, m, k, reading.offset) /\ k < Len(files[f])
          /\ reading = [file |-> f, offset |-> End(f, k), first |-> FALSE, fm_last |-> files[f][k]]
          /\ found[f] = Outcome(files[f][m], 0, FALSE)
    BY <1>2, <1>5 DEF Progress
  <2>2. n = k + 1
    BY <1>1, <1>2, <2>1, NextExtent
  <2>3. n \in DOMAIN files[f] /\ k \in Nat
    BY <1>1, <1>2, <2>1, <2>2, ExtentTypes
  <2>4. /\ reading.offset = End(f, k) /\ ~reading.first /\ reading.fm_last = files[f][k]
        /\ DOMAIN reading = {"file", "offset", "first", "fm_last"}
    BY <2>1
  <2>5. Contiguous(files[f][n]) <=> Follows(f, k)
    BY <2>2, <2>4 DEF Contiguous, Follows
  <2>6. found[f].physical = files[f][m].physical /\ found[f].logical = files[f][m].logical
    BY <2>1 DEF Outcome
  <2>7. CASE Follows(f, k)
    <3>1. Run(f, m, n, End(f, n))
      BY <1>1, <1>2, <2>1, <2>2, <2>7, RunGoesOn
    <3> HIDE DEF n, f
    <3>2. QED
      BY <1>2, <2>1, <2>3, <2>4, <2>5, <2>6, <2>7, <3>1, Extends DEF f, n
  <2>8. CASE ~Follows(f, k)
    <3>1. Return(found[f], End(f, k), FALSE) /\ UNCHANGED <<files, logical_current, verdict>>
      BY <2>4, <2>5, <2>8 DEF ReadExtent
    <3>2. Outcome(found[f], End(f, k), FALSE) = Outcome(files[f][m], End(f, k), k = Len(files[f]))
      <4>1. Outcome(found[f], End(f, k), FALSE) = Outcome(files[f][m], End(f, k), FALSE)
        BY <2>6 DEF Outcome
      <4>2. (k = Len(files[f])) = FALSE
        <5>1. Len(files[f]) \in Nat
          BY <1>1, <1>2, ExtentTypes
        <5>2. QED
          BY <2>1, <2>3, <5>1
      <4>3. QED
        BY Zenon, <4>1, <4>2
    <3>3. Result(f, Outcome(found[f], End(f, k), FALSE))
      BY Zenon, <2>1, <2>4, <2>8, <3>2 DEF Result
    <3>4. QED
      BY <1>1, <1>2, <3>1, <3>3, Returned
  <2>9. QED
    BY <2>7, <2>8
<1>6. QED
  BY <1>4, <1>5

\* Files that share every block and have every block somewhere give the same result.
LEMMA SameResult ==
  ASSUME FileExtentsAssumption, files \in Pairs, logical_current \in Nat,
         Result("a", found["a"]), Result("b", found["b"]), SameBlocks("a", "b"), Known("a")
  PROVE  found["a"] = found["b"]
<1>1. SameBlocks("b", "a")
  BY DEF SameBlocks
<1>2. ASSUME NEW f \in Names, NEW g \in Names, SameBlocks(f, g), files[g] = << >>,
             NEW m, NEW k, NEW o, Run(f, m, k, o)
      PROVE  FALSE
  <2>1. files[f][m].logical \in Nat /\ files[f][m].physical \in Nat
    BY <1>2, RunTypes
  <2>2. Block(g, files[f][m].logical, files[f][m].physical)
    BY <1>2, <2>1, FirstBlock DEF SameBlocks
  <2>3. DOMAIN files[g] = {}
    BY <1>2
  <2>4. QED
    BY <2>2, <2>3 DEF Block
<1>3. CASE files["a"] = << >> /\ found["a"] = Nothing
  <2>1. CASE files["b"] = << >> /\ found["b"] = Nothing
    BY <1>3, <2>1
  <2>2. ASSUME NEW m, NEW k, Run("b", m, k, End("b", k)) PROVE FALSE
    BY <1>1, <1>2, <1>3, <2>2 DEF Names
  <2>3. QED
    BY <2>1, <2>2 DEF Result
<1>4. ASSUME NEW m \in DOMAIN files["a"], NEW k \in DOMAIN files["a"], Run("a", m, k, End("a", k)),
             found["a"] = Outcome(files["a"][m], End("a", k), k = Len(files["a"])),
             k < Len(files["a"]) => ~Follows("a", k)
      PROVE  found["a"] = found["b"]
  <2>1. CASE files["b"] = << >> /\ found["b"] = Nothing
    BY <1>2, <1>4, <2>1 DEF Names
  <2>2. ASSUME NEW n \in DOMAIN files["b"], NEW j \in DOMAIN files["b"], Run("b", n, j, End("b", j)),
               found["b"] = Outcome(files["b"][n], End("b", j), j = Len(files["b"])),
               j < Len(files["b"]) => ~Follows("b", j)
        PROVE  found["a"] = found["b"]
    <3> DEFINE la == files["a"][m].logical
               lb == files["b"][n].logical
               ea == End("a", k)
               eb == End("b", j)
    <3>1. /\ la \in Nat /\ lb \in Nat /\ ea \in Nat /\ eb \in Nat
      BY <1>4, <2>2, RunTypes DEF Names
    <3>2. la <= lb /\ lb <= la
      BY <1>1, <1>4, <2>2, SameStart DEF Names
    <3>3. la = lb
      <4> HIDE DEF la, lb
      <4>1. QED
        BY <3>1, <3>2
    <3>4. files["a"][m].physical # Unknown
      BY DEF Known
    <3>5. files["b"][n].physical = files["a"][m].physical
      BY <1>4, <2>2, <3>3, <3>4, SamePlace DEF Names
    <3>6. ea <= eb /\ eb <= ea
      BY <1>1, <1>4, <2>2, <3>3, <3>4, <3>5, SameEnd DEF Names
    <3>7. ea = eb
      <4> HIDE DEF ea, eb
      <4>1. QED
        BY <3>1, <3>6
    <3>8. (k = Len(files["a"])) = (j = Len(files["b"]))
      <4>1. Run("b", n, j, ea) /\ Run("a", m, k, ea)
        BY <1>4, <2>2, <3>7
      <4>2. k = Len(files["a"]) => j = Len(files["b"])
        BY <4>1, SameLast DEF Names
      <4>3. j = Len(files["b"]) => k = Len(files["a"])
        BY <1>1, <4>1, SameLast DEF Names
      <4>4. QED
        BY <4>2, <4>3
    <3> DEFINE ka == k = Len(files["a"])
               jb == j = Len(files["b"])
    <3>9. found["a"] = Outcome(files["a"][m], ea, ka) /\ found["b"] = Outcome(files["b"][n], eb, jb) /\ ka = jb
      BY <1>4, <2>2, <3>8
    <3> HIDE DEF ka, jb, ea, eb
    <3>10. QED
      BY <3>3, <3>5, <3>7, <3>9 DEF Outcome
  <2>3. QED
    BY <2>1, <2>2 DEF Result
<1>5. QED
  BY <1>3, <1>4 DEF Result

\* Equal results with a place on the disk are of runs that are the same.
LEMMA SameRuns ==
  ASSUME Result("a", found["a"]), Result("b", found["b"]), found["a"] = found["b"],
         found["a"].physical # Unknown
  PROVE  \E m, k \in DOMAIN files["a"], n, j \in DOMAIN files["b"] :
           /\ Run("a", m, k, found["a"].next) /\ Run("b", n, j, found["a"].next)
           /\ files["a"][m].physical # Unknown
           /\ files["b"][n].logical = files["a"][m].logical
           /\ files["b"][n].physical = files["a"][m].physical
           /\ found["a"].is_last => k = Len(files["a"]) /\ j = Len(files["b"])
           /\ ~found["a"].is_last => k # Len(files["a"]) /\ j # Len(files["b"])
<1>1. Nothing.physical = Unknown
  BY DEF Nothing, Unknown
<1>2. PICK m, k \in DOMAIN files["a"] :
        /\ Run("a", m, k, End("a", k))
        /\ found["a"] = Outcome(files["a"][m], End("a", k), k = Len(files["a"]))
  BY <1>1 DEF Result
<1>3. PICK n, j \in DOMAIN files["b"] :
        /\ Run("b", n, j, End("b", j))
        /\ found["b"] = Outcome(files["b"][n], End("b", j), j = Len(files["b"]))
  BY <1>1 DEF Result
<1>4. /\ found["a"].physical = files["a"][m].physical /\ found["a"].logical = files["a"][m].logical
      /\ found["a"].next = End("a", k) /\ found["a"].is_last = (k = Len(files["a"]))
  BY <1>2 DEF Outcome
<1>5. /\ found["a"].physical = files["b"][n].physical /\ found["a"].logical = files["b"][n].logical
      /\ found["a"].next = End("b", j) /\ found["a"].is_last = (j = Len(files["b"]))
  BY <1>3 DEF Outcome
<1>6. Run("a", m, k, found["a"].next) /\ Run("b", n, j, found["a"].next)
  BY <1>2, <1>3, <1>4, <1>5
<1>7. QED
  BY <1>4, <1>5, <1>6

LEMMA CompareStep == ASSUME FileExtentsAssumption, IInv, CompareOffsets PROVE IInv'
<1> DEFINE a == found["a"]
           b == found["b"]
           result == IF a # b THEN "none"
                     ELSE IF a.physical = Unknown THEN "maybe"
                     ELSE IF a.next <= logical_current THEN "error"
                     ELSE IF a.is_last THEN "reflink" ELSE "none yet"
<1>1. /\ files \in Pairs /\ logical_current \in Nat /\ SameSoFar /\ DOMAIN found = Names
      /\ Result("a", a) /\ Result("b", b)
  BY DEF IInv, CompareOffsets, InRound
<1>2. files' = files /\ verdict' = result
  BY DEF CompareOffsets
<1>3. logical_current' = logical_current => SameSoFar'
  <2> SUFFICES ASSUME logical_current' = logical_current PROVE SameSoFar'
    OBVIOUS
  <2>1. UNCHANGED <<files, logical_current>>
    BY <1>2
  <2> HIDE DEF result
  <2>2. QED
    BY <1>1, <2>1 DEF SameSoFar, Block, End
<1>4. BlockMap("a")' = BlockMap("a") /\ BlockMap("b")' = BlockMap("b") /\ (Known("a")' <=> Known("a"))
  BY <1>2 DEF BlockMap, Known
<1>5. result # "none yet" => UNCHANGED <<logical_current, reading, found>>
  BY DEF CompareOffsets
<1>6. SUFFICES /\ result # "none yet" => ReflinksShareAll'
               /\ result = "none yet" => DOMAIN found' = Names /\ logical_current' \in Nat /\ SameSoFar' /\ InRound'
  <2>1. result = "none yet" => ReflinksShareAll'
    BY <1>2 DEF ReflinksShareAll
  <2>2. result # "none yet" => ~Running' /\ DOMAIN found' = Names /\ logical_current' \in Nat /\ SameSoFar'
    BY <1>1, <1>2, <1>3, <1>5 DEF Running
  <2> HIDE DEF result
  <2>3. QED
    BY <1>1, <1>2, <2>1, <2>2 DEF IInv
<1>7. CASE a # b
  <2>1. result = "none"
    BY <1>7
  <2>2. ~(SameBlocks("a", "b") /\ Known("a"))
    BY <1>1, <1>7, SameResult
  <2>3. BlockMap("a") # BlockMap("b") \/ ~Known("a")
    BY <1>1, <2>2, BlockMaps DEF SameBlocks
  <2> HIDE DEF result
  <2>4. QED
    BY <1>2, <1>4, <2>1, <2>3 DEF ReflinksShareAll
<1>8. CASE a = b /\ a.physical = Unknown
  <2>1. result = "maybe"
    BY <1>8
  <2>2. ~Known("a") \/ files["a"] = << >>
    <3>1. ASSUME NEW m \in DOMAIN files["a"], NEW k \in DOMAIN files["a"],
                 a = Outcome(files["a"][m], End("a", k), k = Len(files["a"]))
          PROVE  ~Known("a")
      <4>1. a.physical = files["a"][m].physical
        BY <3>1 DEF Outcome
      <4>2. QED
        BY <1>8, <4>1 DEF Known
    <3>2. files["a"] = << >> \/ \E m, k \in DOMAIN files["a"] : a = Outcome(files["a"][m], End("a", k), k = Len(files["a"]))
      BY Zenon, <1>1 DEF Result
    <3> HIDE DEF a
    <3>3. QED
      BY Zenon, <3>1, <3>2
  <2> HIDE DEF result
  <2>3. QED
    BY <1>2, <1>4, <2>1, <2>2 DEF ReflinksShareAll
<1>9. CASE a = b /\ a.physical # Unknown
  <2> DEFINE o == a.next
  <2>1. PICK m, k \in DOMAIN files["a"], n, j \in DOMAIN files["b"] :
          /\ Run("a", m, k, o) /\ Run("b", n, j, o)
          /\ files["a"][m].physical # Unknown
          /\ files["b"][n].logical = files["a"][m].logical
          /\ files["b"][n].physical = files["a"][m].physical
          /\ a.is_last => k = Len(files["a"]) /\ j = Len(files["b"])
          /\ ~a.is_last => k # Len(files["a"]) /\ j # Len(files["b"])
    BY <1>1, <1>9, SameRuns
  <2>2. /\ files["a"][m].logical \in Nat /\ o \in Nat
        /\ files["a"][m].logical >= logical_current /\ files["a"][m].logical < o
    BY <1>1, <2>1, RunTypes DEF Names
  <2>3. ~(o <= logical_current)
    BY <1>1, <2>2
  <2>4. result = IF a.is_last THEN "reflink" ELSE "none yet"
    BY <1>9, <2>3
  <2>5. /\ \A i, ph \in Nat : i < o => (Block("a", i, ph) <=> Block("b", i, ph))
        /\ \A e \in DOMAIN files["a"] : files["a"][e].logical < o => files["a"][e].physical # Unknown
    BY <1>1, <2>1, Extended
  <2>6. ASSUME NEW f \in Names, NEW e \in DOMAIN files[f]
        PROVE  End(f, e) <= o \/ files[f][e].logical >= o
    <3>1. CASE f = "a"
      <4>1. e \in Nat /\ k \in Nat
        BY <1>1, <2>1, <2>6, <3>1, ExtentTypes, SMTT(30) DEF Names
      <4>2. (e <= k => End(f, e) <= o) /\ (e > k => files[f][e].logical >= o)
        BY <1>1, <2>1, <2>6, <3>1, RunPlaces DEF Names
      <4>3. QED
        BY <4>1, <4>2
    <3>2. CASE f = "b"
      <4>1. e \in Nat /\ j \in Nat
        BY <1>1, <2>1, <2>6, <3>2, ExtentTypes DEF Names
      <4>2. (e <= j => End(f, e) <= o) /\ (e > j => files[f][e].logical >= o)
        BY <1>1, <2>1, <2>6, <3>2, RunPlaces DEF Names
      <4>3. QED
        BY <4>1, <4>2
    <3>3. QED
      BY <3>1, <3>2 DEF Names
  <2>7. ASSUME NEW f \in Names, NEW d, NEW x, NEW q \in DOMAIN files[f], Run(f, d, q, o)
        PROVE  /\ q = Len(files[f]) => \A e \in DOMAIN files[f] : End(f, e) <= o
               /\ q # Len(files[f]) => \E e \in DOMAIN files[f] : files[f][e].logical >= o
    <3>1. q \in Nat /\ DOMAIN files[f] = 1..Len(files[f]) /\ Len(files[f]) \in Nat
      BY <1>1, <2>7, ExtentTypes
    <3>2. q = Len(files[f]) => \A e \in DOMAIN files[f] : End(f, e) <= o
      BY <1>1, <2>7, <3>1, RunPlaces
    <3>3. q # Len(files[f]) => q + 1 \in DOMAIN files[f] /\ q + 1 > q
      BY <2>7, <3>1
    <3>4. QED
      BY <1>1, <2>7, <3>2, <3>3, RunPlaces
  <2>8. CASE a.is_last
    <3>1. result = "reflink"
      BY <2>4, <2>8
    <3>2. \A f \in Names : \A e \in DOMAIN files[f] : End(f, e) <= o
      BY <2>1, <2>7, <2>8 DEF Names
    <3>3. Known("a")
      <4>1. ASSUME NEW e \in DOMAIN files["a"] PROVE files["a"][e].logical < o
        <5>1. /\ files["a"][e].logical < End("a", e) /\ files["a"][e].logical \in Nat
              /\ End("a", e) \in Nat /\ End("a", e) <= o
          BY <1>1, <3>2, ExtentTypes DEF Names
        <5>2. QED
          BY <2>2, <5>1
      <4>2. QED
        BY <2>5, <4>1 DEF Known
    <3>4. ASSUME NEW f \in Names, NEW i \in Nat, NEW ph \in Nat, Block(f, i, ph) PROVE i < o
      <4>1. PICK e \in DOMAIN files[f] : i < End(f, e)
        BY <3>4 DEF Block
      <4>2. End(f, e) \in Nat /\ End(f, e) <= o
        BY <1>1, <3>2, ExtentTypes
      <4>3. QED
        BY <2>2, <4>1, <4>2
    <3>5. \A i, ph \in Nat : Block("a", i, ph) <=> Block("b", i, ph)
      BY <2>5, <3>4 DEF Names
    <3>6. BlockMap("a") = BlockMap("b")
      BY <1>1, <3>5, BlockMaps
    <3> HIDE DEF result
    <3>7. QED
      BY <1>2, <1>4, <3>1, <3>3, <3>6 DEF ReflinksShareAll
  <2>9. CASE ~a.is_last
    <3>1. result = "none yet"
      BY <2>4, <2>9
    <3>2. /\ logical_current' = o /\ reading' = Call("a", o)
          /\ found' = [f \in {"a", "b"} |-> Nothing]
      BY <3>1 DEF CompareOffsets
    <3>3. \A f \in Names : \E e \in DOMAIN files[f] : files[f][e].logical >= o
      BY <2>1, <2>7, <2>9 DEF Names
    <3>4. SameSoFar'
      BY <1>2, <2>5, <2>6, <3>2, <3>3, ZenonT(30) DEF SameSoFar, Block, End
    <3>5. InRound'
      BY <3>2 DEF InRound, Progress, Call, Nothing
    <3>6. DOMAIN found' = Names /\ logical_current' \in Nat
      BY <2>2, <3>2 DEF Names
    <3> HIDE DEF result
    <3>7. QED
      BY <3>1, <3>4, <3>5, <3>6
  <2>10. QED
    BY <2>8, <2>9
<1>10. QED
  BY <1>7, <1>8, <1>9

-----------------------------------------------------------------------------
(* The theorem. *)

\* For any files that satisfy the assumption, as the lemma is needed for an instance.
LEMMA Initially == FileExtentsAssumption /\ Init => IInv
  BY InitIInv

LEMMA Inductive == FileExtentsAssumption /\ IInv /\ [Next]_vars => IInv'
<1> SUFFICES ASSUME FileExtentsAssumption, IInv, [Next]_vars PROVE IInv'
  OBVIOUS
<1>1. CASE NoExtent
  BY <1>1, NoExtentStep
<1>2. CASE ReadExtent
  BY <1>2, ReadExtentStep
<1>3. CASE CompareOffsets
  BY <1>3, CompareStep
<1>4. CASE UNCHANGED vars
  <2>1. UNCHANGED <<files, logical_current, reading, found, verdict>>
    BY <1>4 DEF vars
  <2>2. SameSoFar' /\ ReflinksShareAll'
    BY <2>1 DEF IInv, SameSoFar, Block, End, ReflinksShareAll, BlockMap, Known
  <2>3. Running' => InRound'
    <3>1. InRound => InRound'
      <4>1. \A f \in Names : Result(f, found[f]) => Result(f, found[f])'
        BY <2>1, ResultStays
      <4>2. \A f \in Names : Progress(f) => Progress(f)'
        BY <2>1 DEF Progress, Run, End, Call, Nothing, Outcome
      <4>3. QED
        BY <2>1, <4>1, <4>2 DEF InRound, Names, Nothing
    <3>2. QED
      BY <2>1, <3>1 DEF IInv, Running
  <2>4. QED
    BY <2>1, <2>2, <2>3 DEF IInv
<1>5. QED
  BY <1>1, <1>2, <1>3, <1>4 DEF Next, Done

\* Files that are called reflinks share every block, files that share every block are called
\* reflinks, and the search always gets on (rm_util_link_type, lib/utilities.c).
THEOREM ReflinksAreShared ==
  ASSUME FileExtentsAssumption
  PROVE  Spec => []ReflinksShareAll
<1>1. IInv => ReflinksShareAll
  BY DEF IInv
<1> QED
  BY <1>1, Initially, Inductive, FileExtentsAssumption, PTL DEF Spec
=============================================================================
