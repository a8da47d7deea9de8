---------------------------- MODULE StagesProofs ----------------------------
(***************************************************************************)
(* What is proved of the parts of MCStages, in the words of the properties *)
(* that the run checks: while a part runs its invariant holds, since the   *)
(* part is chosen once and its steps are those of its own module. Those of *)
(* the removal script need what a sane report says; those of other lint    *)
(* what a fold over a sequence preserves; the last ones, of the options,   *)
(* are inductions over the terms of -T and over the command line.          *)
(***************************************************************************)
EXTENDS MCStages, SequenceTheorems, FiniteSetTheorems, WellFoundedInduction, TLAPS

\* The inductive invariant of DedupeProofs, of the part that it is about.
CacheInv == part = "dedupe" => Cache!IInv

LEMMA CacheInvariance == Spec => []CacheInv
<1>1. Init => CacheInv
  <2>1. Init /\ part = "dedupe" => Cache!Init
    BY DEF Init
  <2> QED
    BY <2>1, Cache!Initially, StagesAssumption DEF CacheInv
<1>2. CacheInv /\ [Next]_vars => CacheInv'
  <2>1. [Next]_vars => part' = part /\ (part = "dedupe" => [Cache!Next]_Cache!vars)
    BY DEF Next, vars, Cache!vars, Cache!cacheVars
  <2> QED
    BY <2>1, Cache!Inductive, StagesAssumption DEF CacheInv
<1> QED
  BY <1>1, <1>2, PTL DEF Spec

\* No search trusts, and none leaves behind, a checksum that is not that of the file (xattr.c).
THEOREM ChecksumsStayTrue == Spec => []ChecksumsAreTrue
<1>1. CacheInv => ChecksumsAreTrue
  BY DEF CacheInv, ChecksumsAreTrue, Cache!IInv, Cache!SearchIsTrue, Cache!StoredPairs,
         Cache!TrustedChecksumIsTrue, Cache!StoredChecksumIsTrue, Cache!Absent
<1> QED
  BY <1>1, CacheInvariance, PTL

\* rmlint --dedupe succeeds only if the source is shared (session.c).
THEOREM DedupeSucceedsHonestly == Spec => []SuccessMeansDeduplicated
<1>1. CacheInv => SuccessMeansDeduplicated
  BY Cache!HonestIfInvariant DEF CacheInv, SuccessMeansDeduplicated
<1> QED
  BY <1>1, CacheInvariance, PTL

-----------------------------------------------------------------------------
\* The inductive invariant of ParanoidDigestProofs, likewise.
DigestInv == part = "digest" => Digest!IInv

LEMMA DigestInvariance == Spec => []DigestInv
<1>1. Init => DigestInv
  <2>1. Init /\ part = "digest" => Digest!Init
    BY DEF Init
  <2> QED
    BY <2>1, Digest!Initially, StagesAssumption DEF DigestInv
<1>2. DigestInv /\ [Next]_vars => DigestInv'
  <2>1. [Next]_vars => part' = part /\ (part = "digest" => [Digest!Next]_Digest!vars)
    BY DEF Next, vars, Digest!vars, Digest!digestVars
  <2> QED
    BY <2>1, Digest!Inductive, StagesAssumption DEF DigestInv
<1> QED
  BY <1>1, <1>2, PTL DEF Spec

\* Paranoid digests that compare themselves while others arrive end in the same group exactly if
\* their files are equal, and none of them misses a candidate (checksum.c).
THEOREM DigestsAlwaysAgree == Spec => []DigestsAgree
<1>1. DigestInv => DigestsAgree
  BY Digest!ClassesIfInvariant, Digest!TriedIfInvariant, StagesAssumption
  DEF DigestInv, DigestsAgree, Digest!IInv
<1> QED
  BY <1>1, DigestInvariance, PTL

-----------------------------------------------------------------------------
\* The inductive invariant of FileExtentsProofs, likewise.
OffsetsInv == part = "offsets" => Offsets!IInv

LEMMA OffsetsInvariance == Spec => []OffsetsInv
<1>1. Init => OffsetsInv
  <2>1. Init /\ part = "offsets" => Offsets!Init
    BY DEF Init
  <2> QED
    BY <2>1, Offsets!Initially, StagesAssumption DEF OffsetsInv
<1>2. OffsetsInv /\ [Next]_vars => OffsetsInv'
  <2>1. [Next]_vars => part' = part /\ (part = "offsets" => [Offsets!Next]_Offsets!vars)
    BY DEF Next, vars, Offsets!vars
  <2> QED
    BY <2>1, Offsets!Inductive, StagesAssumption DEF OffsetsInv
<1> QED
  BY <1>1, <1>2, PTL DEF Spec

\* Two files are called reflinks exactly if they share all their blocks (utilities.c).
THEOREM ReflinksAlwaysShareAll == Spec => []ReflinksShareAll
<1>1. OffsetsInv => ReflinksShareAll
  BY DEF OffsetsInv, ReflinksShareAll, Offsets!IInv
<1> QED
  BY <1>1, OffsetsInvariance, PTL
-----------------------------------------------------------------------------
\* The inductive invariant of RemovalScriptProofs, likewise.
ScriptInv == part = "script" => Script!IInv /\ Script!RunInv

LEMMA ScriptInvariance == Spec => []ScriptInv
<1>1. Init => ScriptInv
  <2>1. Init /\ part = "script" => Script!Init
    BY DEF Init
  <2> QED
    BY <2>1, Script!Initially, Script!RunInitially, StagesAssumption DEF ScriptInv
<1>2. ScriptInv /\ [Next]_vars => ScriptInv'
  <2>1. [Next]_vars => part' = part /\ (part = "script" => [Script!Next]_Script!vars)
    BY DEF Next, vars, Script!vars
  <2> QED
    BY <2>1, Script!Inductive, Script!RunInductive, StagesAssumption DEF ScriptInv
<1> QED
  BY <1>1, <1>2, PTL DEF Spec

\* The script destroys no last copy of a content, whatever the options, the edits of users, the
\* interruptions and the further runs (sh.sh).
THEOREM NothingIsEverLost == Spec => []NothingIsLost
<1>1. ScriptInv => NothingIsLost
  BY DEF ScriptInv, NothingIsLost, Script!IInv
<1> QED
  BY <1>1, ScriptInvariance, PTL

\* A run of the script that nobody disturbs, and that has come to its end, did to every file what
\* the script's lines say of it and left every other file as it was (sh.c, sh.sh).
THEOREM RunsDoWhatTheySay == Spec => []RunDoesWhatItSays
<1>1. ScriptInv => RunDoesWhatItSays
  BY Script!RanAsItSays, StagesAssumption DEF ScriptInv, RunDoesWhatItSays
<1> QED
  BY <1>1, ScriptInvariance, PTL
-----------------------------------------------------------------------------
(* Folds: a recursion over the places of a sequence has a solution, since one over the *)
(* first m places extends to the next. *)

\* Induction over the numbers up to n.
LEMMA NumbersUp ==
  ASSUME NEW n \in Nat, NEW Q \in SUBSET (0..n), 0 \in Q, \A m \in 0..n - 1 : m \in Q => m + 1 \in Q
  PROVE  Q = 0..n
<1> SUFFICES ASSUME (0..n) \ Q # {} PROVE FALSE
  OBVIOUS
<1> DEFINE R == {ss \in Nat \X Nat : ss[1] < ss[2]}
<1>1. R = OpToRel(<, Nat)
  BY Zenon DEF OpToRel
<1>2. IsWellFoundedOn(R, Nat)
  BY Zenon, <1>1, NatLessThanWellFounded
<1>3. \A i, j \in Nat : i < j => <<i, j>> \in R
  OBVIOUS
<1> HIDE DEF R
<1>4. PICK x \in (0..n) \ Q : \A y \in (0..n) \ Q : ~(<<y, x>> \in R)
  <2>1. (0..n) \ Q \in SUBSET Nat
    OBVIOUS
  <2> QED
    BY <1>2, <2>1, WFMin
<1>5. x - 1 \in 0..n - 1 /\ x - 1 \in 0..n /\ x \in Nat /\ x - 1 \in Nat /\ x - 1 < x /\ x - 1 + 1 = x
  BY <1>4
<1> QED
  BY <1>3, <1>4, <1>5

LEMMA GreatestExists ==
  ASSUME NEW n \in Nat, NEW T \in SUBSET (1..n), T # {}
  PROVE  \E x \in T : \A y \in T : x >= y
<1> SUFFICES ASSUME \A x \in T : \E y \in T : y > x PROVE FALSE
  OBVIOUS
<1> DEFINE Q == {m \in 0..n : \A y \in T : y <= n - m}
<1>1. 0 \in Q /\ Q \in SUBSET (0..n)
  OBVIOUS
<1>2. ASSUME NEW m \in 0..n - 1, m \in Q PROVE m + 1 \in Q
  <2>1. \A y \in T : y \in Int /\ y <= n - m
    BY <1>2
  <2>2. n - m \notin T
    BY <2>1
  <2>3. \A y \in T : y <= n - (m + 1)
    BY <2>1, <2>2
  <2> QED
    BY <2>3
<1> HIDE DEF Q
<1>3. n \in Q
  BY <1>1, <1>2, NumbersUp
<1>4. PICK y \in T : y <= n - n
  BY <1>3 DEF Q
<1>5. y \in 1..n /\ n - n = 0
  OBVIOUS
<1> QED
  BY <1>4, <1>5

LEMMA LeastExists ==
  ASSUME NEW n \in Nat, NEW T \in SUBSET (1..n), T # {}
  PROVE  \E x \in T : \A y \in T : x <= y
<1> DEFINE R == {n + 1 - x : x \in T}
<1>1. R \in SUBSET (1..n) /\ R # {}
  <2>1. \A x \in 1..n : n + 1 - x \in 1..n
    OBVIOUS
  <2> QED
    BY <2>1
<1>2. PICK r \in R : \A q \in R : r >= q
  BY <1>1, GreatestExists
<1>3. PICK x \in T : r = n + 1 - x
  OBVIOUS
<1>4. ASSUME NEW y \in T PROVE x <= y
  <2>1. n + 1 - y \in R
    OBVIOUS
  <2>2. n + 1 - x >= n + 1 - y
    BY <1>2, <1>3, <2>1
  <2>3. x \in Int /\ y \in Int
    OBVIOUS
  <2> HIDE DEF R
  <2> QED
    BY <2>2, <2>3
<1> QED
  BY <1>4

Greatest(T) == CHOOSE x \in T : \A y \in T : x >= y

LEMMA GreatestIs ==
  ASSUME NEW n \in Nat, NEW T \in SUBSET (1..n), T # {}
  PROVE  /\ Greatest(T) \in T /\ \A y \in T : Greatest(T) >= y
         /\ \A x \in T : (\A y \in T : x >= y) => Greatest(T) = x
<1>1. Greatest(T) \in T /\ \A y \in T : Greatest(T) >= y
  BY GreatestExists DEF Greatest
<1> HIDE DEF Greatest
<1>2. ASSUME NEW x \in T, \A y \in T : x >= y PROVE Greatest(T) = x
  <2>1. Greatest(T) >= x /\ x >= Greatest(T) /\ x \in 1..n /\ Greatest(T) \in 1..n
    BY <1>1, <1>2
  <2> QED
    BY <2>1
<1> QED
  BY <1>1, <1>2

\* F is the fold of op over each set of places.
FoldsBy(F, op, base, s, n) ==
  F = [T \in SUBSET (1..n) |->
         IF T = {} THEN base ELSE op[<<F[T \ {Greatest(T)}], s[Greatest(T)]>>]]

LEMMA FoldExists ==
  ASSUME NEW U, NEW E, NEW op \in [U \X E -> U], NEW base \in U, NEW n \in Nat, NEW s \in [1..n -> E]
  PROVE  \E F \in [SUBSET (1..n) -> U] : FoldsBy(F, op, base, s, n)
<1> DEFINE Q == {m \in 0..n : \E F \in [SUBSET (1..m) -> U] : FoldsBy(F, op, base, s, m)}
<1>1. 0 \in Q /\ Q \in SUBSET (0..n)
  <2> DEFINE F == [T \in SUBSET (1..0) |-> base]
  <2>1. \A T \in SUBSET (1..0) : T = {}
    OBVIOUS
  <2>2. F \in [SUBSET (1..0) -> U] /\ FoldsBy(F, op, base, s, 0)
    BY <2>1 DEF FoldsBy
  <2> QED
    BY <2>2
<1>2. ASSUME NEW m \in 0..n - 1, m \in Q PROVE m + 1 \in Q
  <2>1. PICK F \in [SUBSET (1..m) -> U] : FoldsBy(F, op, base, s, m)
    BY <1>2
  <2> DEFINE G == [T \in SUBSET (1..(m + 1)) |->
                     IF m + 1 \in T THEN op[<<F[T \ {m + 1}], s[m + 1]>>] ELSE F[T]]
             One(T) == IF T = {} THEN base ELSE op[<<G[T \ {Greatest(T)}], s[Greatest(T)]>>]
  <2>2. m \in Nat /\ m + 1 \in Nat /\ m + 1 \in 1..n /\ m + 1 \in 0..n /\ s[m + 1] \in E
    OBVIOUS
  <2>3. \A T \in SUBSET (1..(m + 1)) : T \ {m + 1} \in SUBSET (1..m)
    <3>1. \A i \in 1..(m + 1) : i # m + 1 => i \in 1..m
      BY <2>2
    <3> QED
      BY <3>1
  <2>4. G \in [SUBSET (1..(m + 1)) -> U]
    <3> SUFFICES ASSUME NEW T \in SUBSET (1..(m + 1)) PROVE G[T] \in U
      OBVIOUS
    <3>1. CASE m + 1 \in T
      BY <2>2, <2>3, <3>1
    <3>2. CASE m + 1 \notin T
      BY <2>3, <3>2
    <3> QED
      BY <3>1, <3>2
  <2>5. ASSUME NEW T \in SUBSET (1..(m + 1)), m + 1 \in T PROVE G[T] = One(T)
    <3>1. m + 1 \in T /\ \A y \in T : m + 1 >= y
      BY <2>2, <2>5
    <3>2. Greatest(T) = m + 1
      BY <2>2, <3>1, GreatestIs
    <3>3. T \ {m + 1} \in SUBSET (1..(m + 1)) /\ G[T \ {m + 1}] = F[T \ {m + 1}]
      BY <2>3
    <3> QED
      BY <3>1, <3>2, <3>3
  <2>6. ASSUME NEW T \in SUBSET (1..(m + 1)), m + 1 \notin T, T # {} PROVE G[T] = One(T)
    <3>1. T \in SUBSET (1..m) /\ G[T] = F[T]
      BY <2>3, <2>6
    <3>2. Greatest(T) \in T
      BY <2>2, <2>6, <3>1, GreatestIs
    <3> HIDE DEF Greatest
    <3>3. T \ {Greatest(T)} \in SUBSET (1..(m + 1)) /\ m + 1 \notin T \ {Greatest(T)}
      BY <2>6
    <3>4. G[T \ {Greatest(T)}] = F[T \ {Greatest(T)}]
      BY <3>3
    <3>5. F[T] = op[<<F[T \ {Greatest(T)}], s[Greatest(T)]>>]
      BY <2>1, <2>6, <3>1 DEF FoldsBy
    <3> HIDE DEF G
    <3> QED
      BY <2>6, <3>1, <3>4, <3>5
  <2>7. G[{}] = One({})
    <3>1. {} \in SUBSET (1..m) /\ {} \in SUBSET (1..(m + 1)) /\ m + 1 \notin {}
      OBVIOUS
    <3>2. F[{}] = base
      BY <2>1, <3>1 DEF FoldsBy
    <3> QED
      BY <3>1, <3>2
  <2>8. FoldsBy(G, op, base, s, m + 1)
    <3>1. \A T \in SUBSET (1..(m + 1)) : G[T] = One(T)
      BY <2>5, <2>6, <2>7
    <3>2. G = [T \in SUBSET (1..(m + 1)) |-> One(T)]
      <4> HIDE DEF One
      <4> QED
        BY <3>1
    <3> QED
      BY <3>2 DEF FoldsBy
  <2> HIDE DEF G
  <2> QED
    BY <2>2, <2>4, <2>8
<1> HIDE DEF Q
<1>3. n \in Q
  BY <1>1, <1>2, NumbersUp
<1> QED
  BY <1>3 DEF Q

LEMMA PlacesUpTo ==
  ASSUME NEW n \in Nat, NEW m \in 0..n - 1
  PROVE  /\ 1..(m + 1) \in SUBSET (1..n) /\ 1..(m + 1) # {} /\ m + 1 \in 1..n
         /\ Greatest(1..(m + 1)) = m + 1 /\ (1..(m + 1)) \ {m + 1} = 1..m
<1>1. m \in Nat /\ m + 1 \in Nat /\ m + 1 \in 1..n /\ m + 1 \in 1..(m + 1)
  OBVIOUS
<1>2. 1..(m + 1) \in SUBSET (1..n) /\ \A i \in 1..(m + 1) : m + 1 >= i
  BY <1>1
<1>3. Greatest(1..(m + 1)) = m + 1
  BY <1>1, <1>2, GreatestIs
<1>4. \A i \in Int : i \in 1..m <=> i \in 1..(m + 1) /\ i # m + 1
  BY <1>1
<1> QED
  BY <1>1, <1>2, <1>3, <1>4

LEMMA FoldStays ==
  ASSUME NEW n \in Nat, NEW H, NEW V, H[{}] \in V,
         \A m \in 0..n - 1 : H[1..m] \in V => H[1..(m + 1)] \in V
  PROVE  H[1..n] \in V
<1> DEFINE Q == {m \in 0..n : H[1..m] \in V}
<1>1. 0 \in Q /\ Q \in SUBSET (0..n)
  OBVIOUS
<1>2. \A m \in 0..n - 1 : m \in Q => m + 1 \in Q
  OBVIOUS
<1> HIDE DEF Q
<1>3. n \in Q
  BY <1>1, <1>2, NumbersUp
<1> QED
  BY <1>3 DEF Q

-----------------------------------------------------------------------------
(* Preprocess, in the registers: other lint is written in an order in which it can be removed. *)

SortFolds(H, s, n) ==
  H = [T \in SUBSET (1..n) |->
         IF T = {} THEN << >> ELSE Pre!SortedInto(H[T \ {Greatest(T)}], s[Greatest(T)])]

\* The sort leaves the files what they are.
LEMMA SortedIsOf ==
  ASSUME NEW D, NEW s \in Seq(D)
  PROVE  Pre!Sorted(s) \in Seq(D)
<1> DEFINE n == Len(s)
           op == [p \in Seq(D) \X D |-> Pre!SortedInto(p[1], p[2])]
<1>1. n \in Nat /\ DOMAIN s = 1..n /\ s \in [1..n -> D]
  OBVIOUS
<1>2. ASSUME NEW v \in Seq(D), NEW f \in D PROVE Pre!SortedInto(v, f) \in Seq(D)
  <2> DEFINE S == {k \in DOMAIN v : Pre!CmpFull(v[k], f) > 0} \cup {Len(v) + 1}
  <2>1. Len(v) + 1 \in Nat /\ S \in SUBSET (1..(Len(v) + 1)) /\ S # {}
    OBVIOUS
  <2>2. Pre!Min(S) \in S
    BY <2>1, LeastExists DEF Pre!Min
  <2> DEFINE i == Pre!Min(S)
  <2>3. i \in 1..(Len(v) + 1)
    BY <2>1, <2>2
  <2>4. Pre!SortedInto(v, f) = SubSeq(v, 1, i - 1) \o <<f>> \o SubSeq(v, i, Len(v))
    BY DEF Pre!SortedInto, Pre!InsertAt
  <2> HIDE DEF i, S
  <2>5. SubSeq(v, 1, i - 1) \in Seq(D) /\ SubSeq(v, i, Len(v)) \in Seq(D)
    BY <2>3
  <2> QED
    BY <2>4, <2>5
<1>3. op \in [Seq(D) \X D -> Seq(D)] /\ \A v \in Seq(D), f \in D : op[<<v, f>>] = Pre!SortedInto(v, f)
  BY <1>2
<1> HIDE DEF n, op
<1>4. PICK F \in [SUBSET (1..n) -> Seq(D)] : FoldsBy(F, op, << >>, s, n)
  <2>1. << >> \in Seq(D)
    OBVIOUS
  <2> QED
    BY <1>1, <1>3, <2>1, FoldExists, Zenon
<1>5. SortFolds(F, s, n)
  <2>1. ASSUME NEW T \in SUBSET (1..n), T # {}
        PROVE  op[<<F[T \ {Greatest(T)}], s[Greatest(T)]>>] = Pre!SortedInto(F[T \ {Greatest(T)}], s[Greatest(T)])
    <3>1. Greatest(T) \in 1..n /\ T \ {Greatest(T)} \in SUBSET (1..n)
      BY <1>1, <2>1, GreatestIs
    <3> HIDE DEF Greatest
    <3> QED
      BY <1>1, <1>3, <3>1
  <2> QED
    BY <1>4, <2>1, Zenon DEF FoldsBy, SortFolds
<1> DEFINE H == CHOOSE H : SortFolds(H, s, n)
<1>6. SortFolds(H, s, n)
  BY <1>5
<1>7. Pre!Sorted(s) = H[1..n]
  BY <1>1 DEF Pre!Sorted, Pre!FoldLeft, Pre!MapThenFoldSet, Pre!Max, Greatest, SortFolds
<1> HIDE DEF H
<1>8. H[{}] \in Seq(D)
  BY <1>6 DEF SortFolds
<1>9. ASSUME NEW m \in 0..n - 1, H[1..m] \in Seq(D) PROVE H[1..(m + 1)] \in Seq(D)
  <2>1. H[1..(m + 1)] = Pre!SortedInto(H[1..m], s[m + 1])
    <3> DEFINE T == 1..(m + 1)
    <3>1. T \in SUBSET (1..n) /\ T # {} /\ Greatest(T) = m + 1 /\ T \ {m + 1} = 1..m
      BY <1>1, PlacesUpTo, Zenon
    <3> HIDE DEF T
    <3>2. H[T] = Pre!SortedInto(H[T \ {Greatest(T)}], s[Greatest(T)])
      BY <1>6, <3>1 DEF SortFolds
    <3> QED
      BY <3>1, <3>2 DEF T
  <2>2. s[m + 1] \in D
    BY <1>1
  <2> QED
    BY <1>2, <1>9, <2>1, <2>2
<1>10. H[1..n] \in Seq(D)
  BY Zenon, <1>1, <1>8, <1>9, FoldStays
<1> QED
  BY <1>7, <1>10

Unless(v, f) == IF \E h \in Pre!ToSet(v) : Pre!PathDouble(f, h) THEN v ELSE Append(v, f)

UnlessFolds(H, s, n) ==
  H = [T \in SUBSET (1..n) |->
         IF T = {} THEN << >> ELSE Unless(H[T \ {Greatest(T)}], s[Greatest(T)])]

LEMMA WithoutDoublesIsOf ==
  ASSUME NEW D, NEW s \in Seq(D)
  PROVE  Pre!WithoutDoubles(s) \in Seq(D)
<1> DEFINE n == Len(s)
           op == [p \in Seq(D) \X D |-> Unless(p[1], p[2])]
<1>1. n \in Nat /\ DOMAIN s = 1..n /\ s \in [1..n -> D]
  OBVIOUS
<1>2. ASSUME NEW v \in Seq(D), NEW f \in D PROVE Unless(v, f) \in Seq(D)
  BY DEF Unless
<1>3. op \in [Seq(D) \X D -> Seq(D)] /\ \A v \in Seq(D), f \in D : op[<<v, f>>] = Unless(v, f)
  BY <1>2
<1> HIDE DEF n, op
<1>4. PICK F \in [SUBSET (1..n) -> Seq(D)] : FoldsBy(F, op, << >>, s, n)
  <2>1. << >> \in Seq(D)
    OBVIOUS
  <2> QED
    BY <1>1, <1>3, <2>1, FoldExists, Zenon
<1>5. UnlessFolds(F, s, n)
  <2>1. ASSUME NEW T \in SUBSET (1..n), T # {}
        PROVE  op[<<F[T \ {Greatest(T)}], s[Greatest(T)]>>] = Unless(F[T \ {Greatest(T)}], s[Greatest(T)])
    <3>1. Greatest(T) \in 1..n /\ T \ {Greatest(T)} \in SUBSET (1..n)
      BY <1>1, <2>1, GreatestIs
    <3> HIDE DEF Greatest
    <3> QED
      BY <1>1, <1>3, <3>1
  <2> QED
    BY <1>4, <2>1, Zenon DEF FoldsBy, UnlessFolds
<1> DEFINE H == CHOOSE H : UnlessFolds(H, s, n)
<1>6. UnlessFolds(H, s, n)
  BY <1>5
<1>7. Pre!WithoutDoubles(s) = H[1..n]
  BY <1>1 DEF Pre!WithoutDoubles, Pre!FoldLeft, Pre!MapThenFoldSet, Pre!Max, Greatest, UnlessFolds, Unless
<1> HIDE DEF H
<1>8. H[{}] \in Seq(D)
  BY <1>6 DEF UnlessFolds
<1>9. ASSUME NEW m \in 0..n - 1, H[1..m] \in Seq(D) PROVE H[1..(m + 1)] \in Seq(D)
  <2>1. H[1..(m + 1)] = Unless(H[1..m], s[m + 1])
    <3> DEFINE T == 1..(m + 1)
    <3>1. T \in SUBSET (1..n) /\ T # {} /\ Greatest(T) = m + 1 /\ T \ {m + 1} = 1..m
      BY <1>1, PlacesUpTo, Zenon
    <3> HIDE DEF T
    <3>2. H[T] = Unless(H[T \ {Greatest(T)}], s[Greatest(T)])
      BY <1>6, <3>1 DEF UnlessFolds
    <3> QED
      BY <3>1, <3>2 DEF T
  <2>2. s[m + 1] \in D
    BY <1>1
  <2> QED
    BY <1>2, <1>9, <2>1, <2>2
<1>10. H[1..n] \in Seq(D)
  BY Zenon, <1>1, <1>8, <1>9, FoldStays
<1> QED
  BY <1>7, <1>10

\* A path is ordered before all that begin with it.
LEMMA LongerIsAfter ==
  ASSUME NEW P \in Seq(Nat), NEW R \in Seq(Nat), Len(P) < Len(R), \A k \in 1..Len(P) : P[k] = R[k]
  PROVE  Pre!CompareText(R, P) = 1
<1>1. Len(P) \in Nat /\ Len(R) \in Nat
  OBVIOUS
<1>2. Pre!Min({Len(R), Len(P)}) = Len(P)
  <2>1. \A x \in {Len(R), Len(P)} : (\A y \in {Len(R), Len(P)} : x <= y) <=> x = Len(P)
    BY <1>1
  <2> QED
    BY <2>1 DEF Pre!Min
<1> DEFINE S == {k \in 0..Len(P) : SubSeq(R, 1, k) = SubSeq(P, 1, k)}
<1>3. Len(P) \in S
  <2>1. SubSeq(R, 1, Len(P)) \in Seq(Nat) /\ SubSeq(P, 1, Len(P)) \in Seq(Nat)
        /\ Len(SubSeq(R, 1, Len(P))) = Len(P) /\ Len(SubSeq(P, 1, Len(P))) = Len(P)
    BY <1>1
  <2>2. \A k \in 1..Len(P) : SubSeq(R, 1, Len(P))[k] = SubSeq(P, 1, Len(P))[k]
    BY <1>1
  <2>3. SubSeq(R, 1, Len(P)) = SubSeq(P, 1, Len(P))
    BY <2>1, <2>2, SeqEqual
  <2> QED
    BY <1>1, <2>3
<1>4. \A x \in S : (\A y \in S : x >= y) <=> x = Len(P)
  <2>1. \A x \in S : x \in Int /\ x <= Len(P)
    BY <1>1
  <2> HIDE DEF S
  <2> QED
    BY <1>1, <1>3, <2>1
<1>5. Pre!Max(S) = Len(P)
  <2> HIDE DEF S
  <2> QED
    BY <1>3, <1>4 DEF Pre!Max
<1>6. Pre!CompareText(R, P) = Pre!Sign(Len(R) - Len(P))
  BY <1>2, <1>5 DEF Pre!CompareText
<1> QED
  BY <1>1, <1>6 DEF Pre!Sign

LEMMA InsideIsAfter ==
  ASSUME NEW P \in Seq(Nat), NEW R \in Seq(Nat),
         Pre!IsStrictPrefix(P \o <<Pre!Slash>>, R \o <<Pre!Slash>>)
  PROVE  Pre!CompareText(R, P) = 1
<1> DEFINE p == P \o <<Pre!Slash>>
           r == R \o <<Pre!Slash>>
<1>1. Pre!Slash \in Nat
  BY DEF Pre!Slash
<1>2. /\ p \in Seq(Nat) /\ r \in Seq(Nat) /\ Len(p) = Len(P) + 1 /\ Len(r) = Len(R) + 1
      /\ Len(P) \in Nat /\ Len(R) \in Nat
      /\ \A k \in 1..Len(P) : p[k] = P[k]
      /\ \A k \in 1..Len(R) : r[k] = R[k]
  BY <1>1
<1>3. Len(p) <= Len(r) /\ SubSeq(p, 1, Len(p)) = SubSeq(r, 1, Len(p)) /\ p # r
  BY DEF Pre!IsStrictPrefix, Pre!IsPrefix
<1> HIDE DEF p, r
<1>4. \A k \in 1..Len(p) : p[k] = r[k]
  <2>1. \A k \in 1..Len(p) : SubSeq(p, 1, Len(p))[k] = p[k] /\ SubSeq(r, 1, Len(p))[k] = r[k]
    BY <1>2, <1>3
  <2> QED
    BY <1>3, <2>1
<1>5. Len(p) # Len(r)
  BY <1>2, <1>3, <1>4, SeqEqual
<1>6. Len(P) < Len(R)
  BY <1>2, <1>3, <1>5
<1>7. ASSUME NEW k \in 1..Len(P) PROVE P[k] = R[k]
  <2>1. k \in 1..Len(p) /\ k \in 1..Len(R)
    BY <1>2, <1>6
  <2>2. p[k] = P[k] /\ r[k] = R[k] /\ p[k] = r[k]
    BY <1>2, <1>4, <2>1
  <2> QED
    BY <2>2
<1> QED
  BY <1>6, <1>7, LongerIsAfter

all_files  == r2
node_table == r3
other_lint == r6
written    == r8
pre_phase  == r9

USE DEF all_files, node_table, other_lint, written, pre_phase

Places == DOMAIN Pre!file
Removable == {f \in Places : Pre!Reported(f)}

\* Of two directories, the first may be removed before the second.
GoesFirst(f, h) ==
  Pre!file[f].lint = "emptydir" /\ Pre!file[h].lint = "emptydir" => Pre!CompareText(Pre!Path(h), Pre!Path(f)) <= 0

\* What is written goes before all that is still to be written.
LintInv ==
  part = "preprocess" =>
    /\ r1 \in PreScenarios
    /\ all_files \in Seq(Places) /\ node_table \in Seq(Seq(Places))
    /\ other_lint \subseteq Removable /\ written \in Seq(Removable)
    /\ pre_phase \in {"sort", "group"} => written = << >>
    /\ \A i \in DOMAIN written, f \in Places, h \in other_lint : f = written[i] => f # h /\ GoesFirst(f, h)
    /\ \A i, j \in DOMAIN written, f, h \in Places :
         i < j /\ f = written[i] /\ h = written[j] => f # h /\ GoesFirst(f, h)

LEMMA ScenariosAreRight ==
  ASSUME r1 \in PreScenarios
  PROVE  /\ IsFiniteSet(Places)
         /\ \A f \in Places : Pre!Path(f) \in Seq(Nat)
<1>1. Pre!ScenarioRecord(r1)
  BY StagesAssumption DEF StagesAssumption, Pre!PreprocessAssumption
<1>2. IsFiniteSet(Places)
  <2>1. Pre!IsFiniteSet(Places)
    BY <1>1 DEF Pre!ScenarioRecord, Places, Pre!file
  <2> QED
    BY <2>1, Zenon DEF Pre!IsFiniteSet, IsFiniteSet
<1>3. ASSUME NEW f \in Places PROVE Pre!Path(f) \in Seq(Nat)
  <2>1. /\ Pre!file[f].parent \in Seq(Nat) /\ Pre!file[f].name.stem \in Seq(Nat)
        /\ Pre!file[f].name.ext \in Seq(Seq(Nat))
    BY <1>1 DEF Pre!ScenarioRecord, Places, Pre!file, Pre!Texts
  <2>2. Pre!Dot \in Nat /\ Pre!Slash \in Nat
    BY DEF Pre!Dot, Pre!Slash
  <2>3. Pre!file[f].name.ext # << >> => Pre!file[f].name.ext[1] \in Seq(Nat)
    BY <2>1
  <2>4. Pre!Basename(f) \in Seq(Nat)
    BY <2>1, <2>2, <2>3 DEF Pre!Basename
  <2> QED
    BY <2>1, <2>2, <2>4 DEF Pre!Path
<1> QED
  BY <1>2, <1>3

LEMMA LintStarts == Init => LintInv
<1> SUFFICES ASSUME part = "preprocess", Pre!Init PROVE LintInv
  BY DEF Init, LintInv
<1>1. r1 \in PreScenarios /\ other_lint = {} /\ written = << >> /\ node_table = << >>
  BY DEF Pre!Init
<1>2. all_files \in Seq(Places)
  <2>1. all_files \in [1..Cardinality(Places) -> Places]
    <3>1. all_files \in [1..Pre!Cardinality(Places) -> Places]
      BY DEF Pre!Init, Pre!SetToSeqs, Places, Pre!file
    <3>2. Pre!Cardinality(Places) = Cardinality(Places)
      BY Zenon DEF Pre!Cardinality, Cardinality
    <3> QED
      BY <3>1, <3>2
  <2>2. Cardinality(Places) \in Nat
    BY <1>1, ScenariosAreRight, FS_CardinalityType
  <2> QED
    BY <2>1, <2>2
<1> QED
  BY <1>1, <1>2 DEF LintInv

\* Lint of a cluster is of its files.
LEMMA LintOfCluster ==
  ASSUME NEW c \in Seq(Places)
  PROVE  Pre!Handled(c).lint \subseteq Removable
<1> DEFINE unique == IF Len(c) > 1 /\ ~Pre!option.equalMode THEN Pre!WithoutDoubles(c) ELSE c
<1>1. unique \in Seq(Places)
  BY WithoutDoublesIsOf
<1>2. Pre!Handled(c).lint = {f \in Pre!ToSet(unique) : Pre!Reported(f)}
  BY DEF Pre!Handled
<1> HIDE DEF unique
<1>3. Pre!ToSet(unique) \subseteq Places
  BY <1>1 DEF Pre!ToSet
<1> QED
  BY <1>2, <1>3 DEF Removable

LEMMA PushedNode ==
  ASSUME NEW table \in Seq(Seq(Places)), NEW f \in Places
  PROVE  Pre!PushNode(table, f) \in Seq(Seq(Places))
<1>1. \A k \in DOMAIN table : table[k] \in Seq(Places) /\ Append(table[k], f) \in Seq(Places)
  OBVIOUS
<1>2. <<f>> \in Seq(Places)
  OBVIOUS
<1> DEFINE more == [k \in DOMAIN table |-> IF Pre!file[table[k][1]].inode = Pre!file[f].inode
                                          THEN Append(table[k], f) ELSE table[k]]
<1>3. more \in Seq(Seq(Places))
  <2>1. more \in [1..Len(table) -> Seq(Places)] /\ Len(table) \in Nat
    BY <1>1
  <2> QED
    BY <2>1
<1> QED
  BY <1>2, <1>3 DEF Pre!PushNode

LEMMA CollectKeeps ==
  ASSUME LintInv, part = "preprocess", Pre!Collect, part' = part
  PROVE  LintInv'
<1>1. /\ r1 \in PreScenarios /\ r1' = r1 /\ all_files \in Seq(Places) /\ all_files # << >>
      /\ node_table \in Seq(Seq(Places)) /\ other_lint \subseteq Removable
      /\ pre_phase = "group" /\ pre_phase' = pre_phase /\ written = << >> /\ written' = written
      /\ all_files' = Tail(all_files)
  BY Zenon DEF LintInv, Pre!Collect
<1>2. Places' = Places /\ Removable' = Removable
  BY <1>1 DEF Places, Removable, Pre!Reported, Pre!file, Pre!option, Pre!Mtime
<1>3. Head(all_files) \in Places /\ Tail(all_files) \in Seq(Places)
  BY <1>1
<1> DEFINE f == Head(all_files)
           table == Pre!PushNode(node_table, f)
           lints == UNION {c.lint : c \in {Pre!Handled(table[k]) : k \in DOMAIN table}}
<1>4. table \in Seq(Seq(Places))
  BY <1>1, <1>3, PushedNode
<1>5. /\ node_table' = << >> \/ node_table' = table
      /\ other_lint' = other_lint \cup lints \/ other_lint' = other_lint
  <2>1. CASE Pre!Closes(f)
    BY <2>1, Zenon DEF Pre!Collect
  <2>2. CASE ~Pre!Closes(f)
    BY <2>2, Zenon DEF Pre!Collect
  <2> QED
    BY <2>1, <2>2
<1>6. node_table' \in Seq(Seq(Places))
  <2>1. << >> \in Seq(Seq(Places))
    OBVIOUS
  <2> HIDE DEF table
  <2> QED
    BY <1>4, <1>5, <2>1
<1> HIDE DEF table
<1>7. \A k \in DOMAIN table : Pre!Handled(table[k]).lint \subseteq Removable
  BY <1>4, LintOfCluster
<1>8. other_lint' \subseteq Removable
  <2>1. lints \subseteq Removable
    BY <1>7
  <2> QED
    BY <1>1, <1>5, <2>1
<1> QED
  BY <1>1, <1>2, <1>3, <1>6, <1>8 DEF LintInv

LEMMA WriteKeeps ==
  ASSUME LintInv, part = "preprocess", NEW f \in other_lint, Pre!WriteOtherLint(f), part' = part
  PROVE  LintInv'
<1>1. /\ r1 \in PreScenarios /\ r1' = r1 /\ all_files \in Seq(Places) /\ all_files' = all_files
      /\ node_table \in Seq(Seq(Places)) /\ node_table' = node_table
      /\ other_lint \subseteq Removable /\ other_lint' = other_lint \ {f}
      /\ pre_phase = "lint" /\ pre_phase' = pre_phase
      /\ written \in Seq(Removable) /\ written' = Append(written, f)
  BY DEF LintInv, Pre!WriteOtherLint
<1>2. Places' = Places /\ Removable' = Removable
  BY <1>1 DEF Places, Removable, Pre!Reported, Pre!file, Pre!option, Pre!Mtime
<1>3. \A g, h : GoesFirst(g, h)' <=> GoesFirst(g, h)
  BY <1>1 DEF GoesFirst, Pre!Path, Pre!Basename, Pre!file
<1>4. \A h \in other_lint : GoesFirst(f, h)
  BY DEF Pre!WriteOtherLint, Pre!ComesFirst, Pre!LintPlace, GoesFirst
<1> DEFINE n == Len(written)
<1>5. /\ n \in Nat /\ DOMAIN written = 1..n /\ DOMAIN written' = 1..(n + 1)
      /\ written'[n + 1] = f /\ \A i \in 1..n : written'[i] = written[i]
      /\ written' \in Seq(Removable)
  BY <1>1
<1> HIDE DEF n
<1>6. \A i \in DOMAIN written, g \in Places, h \in other_lint : g = written[i] => g # h /\ GoesFirst(g, h)
  BY DEF LintInv
<1>7. \A i, j \in DOMAIN written, g, h \in Places :
         i < j /\ g = written[i] /\ h = written[j] => g # h /\ GoesFirst(g, h)
  BY DEF LintInv
<1> HIDE DEF GoesFirst
<1>8. ASSUME NEW i \in 1..(n + 1), NEW g \in Places, NEW h \in other_lint', g = written'[i]
      PROVE  g # h /\ GoesFirst(g, h)
  <2>1. h \in other_lint /\ h # f
    BY <1>1
  <2>2. CASE i \in 1..n
    BY <1>5, <1>6, <1>8, <2>1, <2>2
  <2>3. CASE i = n + 1
    BY <1>4, <1>5, <1>8, <2>1, <2>3
  <2> QED
    BY <1>5, <2>2, <2>3
<1>9. ASSUME NEW i \in 1..(n + 1), NEW j \in 1..(n + 1), NEW g \in Places, NEW h \in Places,
             i < j, g = written'[i], h = written'[j]
      PROVE  g # h /\ GoesFirst(g, h)
  <2>1. i \in 1..n /\ g = written[i]
    BY <1>5, <1>9
  <2>2. CASE j \in 1..n
    BY <1>5, <1>7, <1>9, <2>1, <2>2
  <2>3. CASE j = n + 1
    BY <1>5, <1>6, <1>9, <2>1, <2>3
  <2> QED
    BY <1>5, <2>2, <2>3
<1>10. \A i \in DOMAIN written', g \in Places', h \in other_lint' : g = written'[i] => g # h /\ GoesFirst(g, h)'
  BY <1>2, <1>3, <1>5, <1>8
<1>11. \A i, j \in DOMAIN written', g, h \in Places' :
         i < j /\ g = written'[i] /\ h = written'[j] => g # h /\ GoesFirst(g, h)'
  BY <1>2, <1>3, <1>5, <1>9
<1>12. written' \in Seq(Removable')
  BY <1>2, <1>5
<1> QED
  BY <1>1, <1>2, <1>12, <1>10, <1>11 DEF LintInv

LEMMA LintStays == LintInv /\ [Next]_vars => LintInv'
<1> SUFFICES ASSUME LintInv, part = "preprocess", part' = part, [Pre!Next]_Pre!vars PROVE LintInv'
  <2>1. [Next]_vars => part' = part /\ (part = "preprocess" => [Pre!Next]_Pre!vars)
    BY DEF Next, vars, Pre!vars
  <2> QED
    BY <2>1 DEF LintInv
<1>1. ASSUME NEW f \in other_lint, Pre!WriteOtherLint(f) PROVE LintInv'
  BY <1>1, WriteKeeps
<1>2. CASE Pre!Collect
  BY <1>2, CollectKeeps
<1>3. ASSUME r1' = r1, all_files' \in Seq(Places), node_table' = node_table, other_lint' = other_lint,
             written' = written, pre_phase' \in {"sort", "group"} => pre_phase \in {"sort", "group"}
      PROVE  LintInv'
  <2>1. Places' = Places /\ Removable' = Removable
    BY <1>3 DEF Places, Removable, Pre!Reported, Pre!file, Pre!option, Pre!Mtime
  <2>2. \A g, h : GoesFirst(g, h)' <=> GoesFirst(g, h)
    BY <1>3 DEF GoesFirst, Pre!Path, Pre!Basename, Pre!file
  <2> HIDE DEF GoesFirst
  <2> QED
    BY <1>3, <2>1, <2>2 DEF LintInv
<1>4. r1 \in PreScenarios /\ all_files \in Seq(Places)
  BY DEF LintInv
<1>5. CASE Pre!Sort
  BY <1>3, <1>4, <1>5, SortedIsOf DEF Pre!Sort
<1>6. CASE Pre!EndOfFiles \/ Pre!Return \/ Pre!Abort \/ Pre!Done \/ UNCHANGED Pre!vars
  BY <1>3, <1>4, <1>6 DEF Pre!EndOfFiles, Pre!Return, Pre!Abort, Pre!Done, Pre!vars
<1> QED
  BY <1>1, <1>2, <1>5, <1>6 DEF Pre!Next

\* Other lint is written so that it can be removed in that order: a directory after those that
\* are in it, each once, and nothing that is protected (preprocess.c).
THEOREM LintCanBeRemoved == Spec => []LintIsRemovable
<1>1. LintInv => LintIsRemovable
  <2> SUFFICES ASSUME LintInv, part = "preprocess" PROVE Pre!LintIsRemovable
    BY DEF LintIsRemovable
  <2>1. r1 \in PreScenarios /\ written \in Seq(Removable)
    BY DEF LintInv
  <2>2. \A i \in DOMAIN written : /\ written[i] \in Places /\ Pre!Reported(written[i])
                                 /\ Pre!Path(written[i]) \in Seq(Nat)
    BY <2>1, ScenariosAreRight DEF Removable
  <2>3. \A i, j \in DOMAIN written : i < j => written[i] # written[j] /\ GoesFirst(written[i], written[j])
    BY <2>2 DEF LintInv
  <2>4. \A i, j \in DOMAIN written : i # j => i < j \/ j < i
    BY <2>1
  <2>5. ASSUME NEW i \in DOMAIN written, NEW j \in DOMAIN written, i # j PROVE written[i] # written[j]
    BY <2>3, <2>4, <2>5
  <2>6. ASSUME NEW i \in DOMAIN written, NEW j \in DOMAIN written,
               Pre!file[written[i]].lint = "emptydir", Pre!file[written[j]].lint = "emptydir",
               Pre!IsStrictPrefix(Pre!Path(written[i]) \o <<Pre!Slash>>, Pre!Path(written[j]) \o <<Pre!Slash>>)
        PROVE  j < i
    <3>1. Pre!CompareText(Pre!Path(written[j]), Pre!Path(written[i])) = 1
      BY <2>2, <2>6, InsideIsAfter
    <3>2. i # j
      BY <2>6 DEF Pre!IsStrictPrefix
    <3>3. ~(i < j)
      BY <2>3, <2>6, <3>1 DEF GoesFirst
    <3> QED
      BY <2>4, <3>2, <3>3
  <2>7. \A f \in Pre!ToSet(written) : /\ ~(Pre!option.keepTagged /\ Pre!file[f].prefd)
                                    /\ ~(Pre!option.keepUntagged /\ ~Pre!file[f].prefd)
    BY <2>2 DEF Pre!ToSet, Pre!Reported
  <2> QED
    BY <2>5, <2>6, <2>7 DEF Pre!LintIsRemovable
<1> QED
  BY <1>1, LintStarts, LintStays, PTL DEF Spec
-----------------------------------------------------------------------------
(* Options.  Its state is in the registers; the names are those of the module. *)

cmdline == r1
argv    == r2
on      == r3
formats == r5
json_paths == r8
error   == r9
phase   == r10

USE DEF cmdline, argv, on, formats, json_paths, error, phase

-----------------------------------------------------------------------------
(* Terms of -T act one after the other: FoldLeft is what the last term about each type says. *)

IsLast(x, T) == T \in SUBSET Nat /\ x \in T /\ \A i \in T : i <= x

LEMMA LastExists ==
  ASSUME NEW n \in Nat, NEW T \in SUBSET (1..n), T # {}
  PROVE  IsLast(Cmd!Max(T), T)
<1>1. \E x \in T : \A y \in T : x >= y
  <2> SUFFICES ASSUME \A x \in T : \E y \in T : y > x PROVE FALSE
    OBVIOUS
  <2> DEFINE Q == {m \in 0..n : \A y \in T : y <= n - m}
  <2>1. 0 \in Q /\ Q \in SUBSET (0..n)
    OBVIOUS
  <2>2. ASSUME NEW m \in 0..n - 1, m \in Q PROVE m + 1 \in Q
    <3>1. \A y \in T : y \in Int /\ y <= n - m
      BY <2>2
    <3>2. n - m \notin T
      BY <3>1
    <3>3. \A y \in T : y <= n - (m + 1)
      BY <3>1, <3>2
    <3> QED
      BY <3>3
  <2> HIDE DEF Q
  <2>3. Q = 0..n
    BY <2>1, <2>2, NumbersUp
  <2>4. n \in Q
    BY <2>3
  <2>5. PICK y \in T : y <= n - n
    BY <2>4 DEF Q
  <2>6. y \in 1..n /\ n - n = 0
    OBVIOUS
  <2> QED
    BY <2>5, <2>6
<1> QED
  <2>1. Cmd!Max(T) \in T /\ \A y \in T : Cmd!Max(T) >= y
    BY <1>1 DEF Cmd!Max
  <2>2. T \in SUBSET Nat
    OBVIOUS
  <2>3. \A y \in T : y <= Cmd!Max(T)
    BY <2>1, <2>2
  <2> QED
    BY <2>1, <2>2, <2>3 DEF IsLast

LEMMA LastIsOne ==
  ASSUME NEW T, NEW x, NEW y, IsLast(x, T), IsLast(y, T)
  PROVE  x = y
<1>1. x \in Nat /\ y \in Nat /\ x <= y /\ y <= x
  BY DEF IsLast
<1> QED
  BY <1>1

LEMMA EnablesTypes ==
  ASSUME NEW name
  PROVE  Cmd!Enables(name) \subseteq Cmd!LintTypes
BY DEF Cmd!Enables, Cmd!LintTypes

\* What one term makes of the types that are on.
Acted(on1, term) == IF term.on THEN on1 \cup Cmd!Enables(term.name) ELSE on1 \ Cmd!Enables(term.name)

\* Of the terms at the places T of args, the last one about y adds it.
SaysLast(args, T, y) ==
  \E i \in T : /\ y \in Cmd!Enables(args[i].name) /\ args[i].on
              /\ \A j \in T : j > i => y \notin Cmd!Enables(args[j].name)

\* What is on after these terms.
After(s, args, T) ==
  {y \in s \cup Cmd!LintTypes :
     (y \in s /\ \A i \in T : y \notin Cmd!Enables(args[i].name)) \/ SaysLast(args, T, y)}

LEMMA AfterOneMore ==
  ASSUME NEW s, NEW args, NEW T, NEW x, IsLast(x, T)
  PROVE  After(s, args, T) = Acted(After(s, args, T \ {x}), args[x])
<1> DEFINE En(i) == Cmd!Enables(args[i].name)
           Before == After(s, args, T \ {x})
<1>1. \A i : En(i) \subseteq s \cup Cmd!LintTypes
  BY EnablesTypes
<1>2. x \in T /\ (\A i \in T : i \in Nat /\ i <= x)
  BY DEF IsLast
<1>3. ASSUME NEW y \in s \cup Cmd!LintTypes, y \in En(x)
      PROVE  y \in After(s, args, T) <=> args[x].on
  <2>1. \A i \in T : i # x => ~(\A j \in T : j > i => y \notin En(j))
    <3>1. \A i \in T : i # x => x > i
      BY <1>2
    <3> QED
      BY <1>2, <1>3, <3>1
  <2>2. \A j \in T : ~(j > x)
    BY <1>2
  <2> HIDE DEF En
  <2>3. y \in After(s, args, T) <=>
          \E i \in T : y \in En(i) /\ args[i].on /\ \A j \in T : j > i => y \notin En(j)
    BY <1>2, <1>3 DEF After, SaysLast, En
  <2> QED
    BY <1>2, <1>3, <2>1, <2>2, <2>3
<1>4. ASSUME NEW y \in s \cup Cmd!LintTypes, y \notin En(x)
      PROVE  y \in After(s, args, T) <=> y \in Before
  <2> HIDE DEF En
  <2>1. y \in After(s, args, T) <=>
          \/ y \in s /\ \A i \in T : y \notin En(i)
          \/ \E i \in T : y \in En(i) /\ args[i].on /\ \A j \in T : j > i => y \notin En(j)
    BY DEF After, SaysLast, En
  <2>2. y \in Before <=>
          \/ y \in s /\ \A i \in T \ {x} : y \notin En(i)
          \/ \E i \in T \ {x} :
               y \in En(i) /\ args[i].on /\ \A j \in T \ {x} : j > i => y \notin En(j)
    BY DEF After, SaysLast, En
  <2> QED
    BY <1>2, <1>4, <2>1, <2>2
<1>5. After(s, args, T) \subseteq s \cup Cmd!LintTypes /\ Before \subseteq s \cup Cmd!LintTypes
  BY DEF After
<1> HIDE DEF En, Before
<1>6. After(s, args, T) = IF args[x].on THEN Before \cup En(x) ELSE Before \ En(x)
  BY <1>1, <1>3, <1>4, <1>5
<1> QED
  BY <1>6 DEF En, Before, Acted

\* F is the fold over each set of places in D.
Folds(F, s, args, D) ==
  F = [T \in D |->
         IF T = {} THEN s
         ELSE Acted(F[T \ {Cmd!Max(T)}], args[Cmd!Max(T)])]

LEMMA AfterFolds ==
  ASSUME NEW s, NEW args, NEW n \in Nat
  PROVE  Folds([T \in SUBSET (1..n) |-> After(s, args, T)], s, args, SUBSET (1..n))
<1> DEFINE G == [T \in SUBSET (1..n) |-> After(s, args, T)]
<1>1. G[{}] = s
  BY DEF After, SaysLast
<1>2. ASSUME NEW T \in SUBSET (1..n), T # {}
      PROVE  G[T] = Acted(G[T \ {Cmd!Max(T)}], args[Cmd!Max(T)])
  <2> DEFINE x == Cmd!Max(T)
  <2>1. IsLast(x, T)
    BY <1>2, LastExists
  <2>2. G[T] = After(s, args, T) /\ G[T \ {x}] = After(s, args, T \ {x})
    OBVIOUS
  <2> HIDE DEF x, G
  <2>3. After(s, args, T) = Acted(After(s, args, T \ {x}), args[x])
    BY <2>1, AfterOneMore
  <2> QED
    BY <2>2, <2>3 DEF x
<1> QED
  BY <1>1, <1>2 DEF Folds

LEMMA FoldUnfolds ==
  ASSUME NEW s, NEW args, NEW n \in Nat, DOMAIN args = 1..n
  PROVE  \E F : Folds(F, s, args, SUBSET (1..n)) /\ Cmd!OneByOne(s, args) = F[1..n]
<1> DEFINE F == CHOOSE F : Folds(F, s, args, SUBSET (1..n))
<1>1. Folds(F, s, args, SUBSET (1..n))
  BY AfterFolds
<1>2. Cmd!OneByOne(s, args) = F[1..n]
  BY DEF Cmd!OneByOne, Cmd!FoldLeft, Cmd!MapThenFoldSet, Folds, Acted
<1> QED
  BY <1>1, <1>2

LEMMA FoldsAreAfter ==
  ASSUME NEW s, NEW args, NEW n \in Nat, NEW F, Folds(F, s, args, SUBSET (1..n))
  PROVE  F[1..n] = After(s, args, 1..n)
<1>1. F[{}] = s
  BY DEF Folds
<1> DEFINE Q == {m \in 0..n : F[1..m] = After(s, args, 1..m)}
<1>2. 0 \in Q /\ Q \in SUBSET (0..n)
  BY <1>1 DEF After, SaysLast
<1>3. ASSUME NEW m \in 0..n - 1, m \in Q PROVE m + 1 \in Q
  <2>1. F[1..m] = After(s, args, 1..m)
    BY <1>3
  <2> HIDE DEF Q
  <2>2. 1..(m + 1) \in SUBSET (1..n) /\ m + 1 \in 0..n
    OBVIOUS
  <2>3. IsLast(m + 1, 1..(m + 1))
    BY DEF IsLast
  <2>4. (1..(m + 1)) \ {m + 1} = 1..m
    <3>1. m \in Int
      OBVIOUS
    <3>2. \A i \in Int : i \in 1..m <=> i \in 1..(m + 1) /\ i # m + 1
      BY <3>1
    <3> QED
      BY <3>1, <3>2
  <2>5. F[(1..(m + 1)) \ {m + 1}] = After(s, args, (1..(m + 1)) \ {m + 1})
    BY <2>1, <2>4
  <2>6. F[1..(m + 1)] = After(s, args, 1..(m + 1))
    <3> DEFINE T == 1..(m + 1)
    <3>1. T \in SUBSET (1..n) /\ T # {}
      BY <2>2, <2>3 DEF IsLast
    <3>2. IsLast(Cmd!Max(T), T)
      BY <3>1, LastExists
    <3> DEFINE x == Cmd!Max(T)
    <3>3. F[T \ {x}] = After(s, args, T \ {x})
      <4>1. x = m + 1
        BY <2>3, <3>2, LastIsOne
      <4> QED
        BY <2>5, <4>1
    <3> HIDE DEF T
    <3>4. F[T] = Acted(F[T \ {x}], args[x])
      BY <3>1 DEF Folds
    <3> HIDE DEF x
    <3>5. IsLast(x, T)
      BY <3>2 DEF x
    <3>6. After(s, args, T) = Acted(After(s, args, T \ {x}), args[x])
      BY <3>5, AfterOneMore
    <3>7. F[T] = After(s, args, T)
      BY <3>3, <3>4, <3>6
    <3> QED
      BY <3>7 DEF T
  <2> QED
    BY <2>2, <2>6 DEF Q
<1> HIDE DEF Q
<1>4. n \in Q
  BY <1>2, <1>3, NumbersUp
<1> QED
  BY <1>4 DEF Q

\* A type is on exactly if the last term about it adds it or, if there is none, it was on.
LEMMA FoldIsAfter ==
  ASSUME NEW s, NEW args, NEW n \in Nat, DOMAIN args = 1..n
  PROVE  Cmd!OneByOne(s, args) = After(s, args, 1..n)
BY FoldUnfolds, FoldsAreAfter

-----------------------------------------------------------------------------
(* What an option makes of the fields that are true. *)

\* What excludes each other in every state of the parser.
FlagsAgree(s) ==
  /\ ~({"follow_symlinks", "see_symlinks"} \subseteq s)
  /\ "merge_directories" \in s => "cache_file_structs" \in s
  /\ ~({"partial_hidden", "ignore_hidden"} \subseteq s)

\* What lint types have nothing to do with.
Modes == {"run_equal_mode", "replay", "progress_enabled"}

SameModes(s, t) == \A f \in Modes : f \in t <=> f \in s
SameTypes(s, t) == \A type \in Cmd!LintTypes : type \in t <=> type \in s

LEMMA MergeEffect ==
  ASSUME NEW s, FlagsAgree(s)
  PROVE  /\ FlagsAgree(Cmd!MergeDirectories(s)) /\ SameModes(s, Cmd!MergeDirectories(s))
         /\ \A type \in Cmd!LintTypes :
              type \in Cmd!MergeDirectories(s) <=> type \in s \/ type = "merge_directories"
BY DEF FlagsAgree, SameModes, Modes, Cmd!MergeDirectories, Cmd!PartialHidden, Cmd!LintTypes

IsList(args) == \E n \in Nat : DOMAIN args = 1..n

LEMMA TypesEffect ==
  ASSUME NEW s, FlagsAgree(s), NEW args, IsList(args)
  PROVE  /\ FlagsAgree(Cmd!ParseLintTypes(s, args)) /\ SameModes(s, Cmd!ParseLintTypes(s, args))
         /\ \A type \in Cmd!LintTypes :
              type \in Cmd!ParseLintTypes(s, args) <=> SaysLast(args, DOMAIN args, type)
<1>0. PICK n \in Nat : DOMAIN args = 1..n
  BY DEF IsList
<1> DEFINE named == Cmd!OneByOne(s \ Cmd!LintTypes, args)
           says(y) == SaysLast(args, 1..n, y)
<1>1. \A y : says(y) => y \in Cmd!LintTypes
  BY EnablesTypes DEF SaysLast
<1>2. named = After(s \ Cmd!LintTypes, args, 1..n)
  BY <1>0, FoldIsAfter
<1> HIDE DEF named
<1>3. \A y : y \in named <=> y \in s \ Cmd!LintTypes \/ says(y)
  <2>1. \A y : y \notin Cmd!LintTypes => \A i : y \notin Cmd!Enables(args[i].name)
    BY EnablesTypes
  <2> HIDE DEF says
  <2>2. \A y : y \in After(s \ Cmd!LintTypes, args, 1..n) <=>
          /\ y \in s \cup Cmd!LintTypes
          /\ \/ y \in s \ Cmd!LintTypes /\ \A i \in 1..n : y \notin Cmd!Enables(args[i].name)
             \/ says(y)
    BY DEF After, says
  <2> QED
    BY <1>1, <1>2, <2>1, <2>2
<1> HIDE DEF says
<1>4. FlagsAgree(named) \/ "merge_directories" \in named
  BY <1>1, <1>3 DEF FlagsAgree, Cmd!LintTypes
<1>5. SameModes(s, named)
  BY <1>1, <1>3 DEF SameModes, Modes, Cmd!LintTypes
<1>6. Cmd!ParseLintTypes(s, args) = IF "merge_directories" \in named THEN Cmd!MergeDirectories(named) ELSE named
  BY DEF Cmd!ParseLintTypes, named
<1>7. CASE "merge_directories" \notin named
  <2>1. \A type \in Cmd!LintTypes : type \in named <=> says(type)
    BY <1>3
  <2> QED
    BY <1>0, <1>4, <1>5, <1>6, <1>7, <2>1 DEF says
<1>8. CASE "merge_directories" \in named
  <2> DEFINE t == Cmd!MergeDirectories(named)
  <2>1. /\ "merge_directories" \in t /\ "cache_file_structs" \in t
        /\ "follow_symlinks" \notin t /\ "ignore_hidden" \notin t
    BY DEF Cmd!MergeDirectories, Cmd!PartialHidden
  <2>2. SameModes(named, t) /\ (\A type \in Cmd!LintTypes : type \in t <=> type \in named)
    BY <1>8 DEF SameModes, Modes, Cmd!MergeDirectories, Cmd!PartialHidden, Cmd!LintTypes
  <2> HIDE DEF t
  <2>3. FlagsAgree(t) /\ SameModes(s, t)
    BY <1>5, <2>1, <2>2 DEF FlagsAgree, SameModes
  <2>4. \A type \in Cmd!LintTypes : type \in t <=> says(type)
    BY <1>3, <2>2
  <2>5. Cmd!ParseLintTypes(s, args) = t
    BY <1>6, <1>8 DEF t
  <2> QED
    BY <1>0, <2>3, <2>4, <2>5 DEF says
<1> QED
  BY <1>7, <1>8

\* t are the types that are on after an option of this name with these terms, s those before.
TypesAct(s, t, name, terms) ==
  /\ name \in {"types", "equal"} =>
       \A type \in Cmd!LintTypes : type \in t <=> SaysLast(terms, DOMAIN terms, type)
  /\ name = "merge_directories" =>
       \A type \in Cmd!LintTypes : type \in t <=> type \in s \/ type = "merge_directories"
  /\ name \notin {"types", "equal", "merge_directories"} => SameTypes(s, t)

LEMMA SwitchEffect ==
  ASSUME NEW s, FlagsAgree(s), NEW args, IsList(args), NEW name \in Cmd!Switches
  PROVE  /\ FlagsAgree(Cmd!Switched(s, name, args)) /\ SameModes(s, Cmd!Switched(s, name, args))
         /\ TypesAct(s, Cmd!Switched(s, name, args), name, args)
         /\ name \notin {"equal", "replay", "output", "add_output", "progress", "no_progress"}
<1>0. name \notin {"equal", "replay", "output", "add_output", "progress", "no_progress"}
  BY DEF Cmd!Switches, Cmd!Sets, Cmd!Clears
<1>1. CASE name = "types"
  <2>1. Cmd!Switched(s, name, args) = Cmd!ParseLintTypes(s, args)
    BY <1>1 DEF Cmd!Switched, Cmd!Sets
  <2> QED
    BY <1>0, <1>1, <2>1, TypesEffect DEF TypesAct
<1>2. CASE name = "merge_directories"
  <2>1. Cmd!Switched(s, name, args) = Cmd!MergeDirectories(s)
    BY <1>2 DEF Cmd!Switched, Cmd!Sets
  <2> QED
    BY <1>0, <1>2, <2>1, MergeEffect DEF TypesAct
<1>3. CASE name \in Cmd!Sets
  <2>1. Cmd!Switched(s, name, args) = s \cup {name}
    BY <1>3 DEF Cmd!Switched, Cmd!Sets
  <2> QED
    BY <1>0, <1>3, <2>1
    DEF FlagsAgree, SameModes, Modes, SameTypes, TypesAct, Cmd!Sets, Cmd!LintTypes
<1>4. CASE name \in Cmd!Switches \ (Cmd!Sets \cup {"types", "merge_directories"})
  <2>1. name \in {"no_hardlinked", "see_symlinks", "follow_symlinks", "no_follow_symlinks",
                  "partial_hidden", "hidden", "no_hidden", "no_partial_hidden",
                  "honour_dir_layout", "xattr", "sortby"}
    BY <1>4 DEF Cmd!Switches, Cmd!Clears
  <2> DEFINE t == Cmd!Switched(s, name, args)
  <2>2. FlagsAgree(t)
    <3> DEFINE G == {"follow_symlinks", "see_symlinks", "merge_directories", "cache_file_structs",
                     "partial_hidden", "ignore_hidden"}
               H == {"partial_hidden", "hidden", "no_hidden", "no_partial_hidden"}
               L == {"see_symlinks", "follow_symlinks", "no_follow_symlinks"}
    <3>1. CASE name \in L
      <4>1. ~({"follow_symlinks", "see_symlinks"} \subseteq t)
        BY <3>1 DEF FlagsAgree, Cmd!Switched, Cmd!Sets
      <4>2. \A f \in G \ {"follow_symlinks", "see_symlinks"} : f \in t <=> f \in s
        BY <3>1 DEF Cmd!Switched, Cmd!Sets
      <4> QED
        BY <4>1, <4>2 DEF FlagsAgree
    <3>2. CASE name \in H
      <4>1. ~({"partial_hidden", "ignore_hidden"} \subseteq t)
        BY <3>2 DEF FlagsAgree, Cmd!Switched, Cmd!Sets, Cmd!PartialHidden
      <4>2. \A f \in G \ {"partial_hidden", "ignore_hidden"} : f \in t <=> f \in s
        BY <3>2 DEF Cmd!Switched, Cmd!Sets, Cmd!PartialHidden
      <4> QED
        BY <4>1, <4>2 DEF FlagsAgree
    <3>3. CASE name \in {"no_hardlinked", "honour_dir_layout", "xattr", "sortby"}
      <4>1. \A f \in G \ {"cache_file_structs"} : f \in t <=> f \in s
        BY <3>3 DEF Cmd!Switched, Cmd!Sets
      <4>2. "cache_file_structs" \in s => "cache_file_structs" \in t
        BY <3>3 DEF Cmd!Switched, Cmd!Sets
      <4> QED
        BY <4>1, <4>2 DEF FlagsAgree
    <3> QED
      BY <2>1, <3>1, <3>2, <3>3
  <2>3. SameModes(s, t)
    BY <2>1 DEF SameModes, Modes, Cmd!Switched, Cmd!Sets, Cmd!PartialHidden
  <2>4. SameTypes(s, t)
    BY <2>1 DEF SameTypes, Cmd!LintTypes, Cmd!Switched, Cmd!Sets, Cmd!PartialHidden
  <2> HIDE DEF t
  <2>5. TypesAct(s, t, name, args)
    BY <2>1, <2>4 DEF TypesAct
  <2> QED
    BY <1>0, <2>2, <2>3, <2>5 DEF t
<1> QED
  BY <1>1, <1>2, <1>3, <1>4

\* What rm_cmd_parse_equal makes of the fields that are true.
EqualOn(s) ==
  (Cmd!ParseLintTypes(Cmd!MergeDirectories(s), Cmd!EqualTypes) \ {"partial_hidden", "ignore_hidden"})
    \cup {"run_equal_mode"}

LEMMA EqualEffect ==
  ASSUME NEW s, FlagsAgree(s)
  PROVE  /\ FlagsAgree(EqualOn(s)) /\ TypesAct(s, EqualOn(s), "equal", Cmd!EqualTypes)
         /\ \A f \in Modes : f \in EqualOn(s) <=> f \in s \/ f = "run_equal_mode"
<1> DEFINE m == Cmd!MergeDirectories(s)
           t == Cmd!ParseLintTypes(m, Cmd!EqualTypes)
<1>1. IsList(Cmd!EqualTypes)
  <2>1. DOMAIN Cmd!EqualTypes = 1..2
    BY DEF Cmd!EqualTypes
  <2> QED
    BY <2>1 DEF IsList
<1>2. FlagsAgree(m) /\ SameModes(s, m)
  BY MergeEffect
<1> HIDE DEF m
<1>3. /\ FlagsAgree(t) /\ SameModes(m, t)
      /\ \A type \in Cmd!LintTypes : type \in t <=> SaysLast(Cmd!EqualTypes, DOMAIN Cmd!EqualTypes, type)
  BY <1>1, <1>2, TypesEffect DEF t
<1>4. EqualOn(s) = (t \ {"partial_hidden", "ignore_hidden"}) \cup {"run_equal_mode"}
  BY DEF EqualOn, m
<1> HIDE DEF t
<1>5. FlagsAgree(EqualOn(s))
  BY <1>3, <1>4 DEF FlagsAgree
<1>6. TypesAct(s, EqualOn(s), "equal", Cmd!EqualTypes)
  <2>1. \A type \in Cmd!LintTypes : type \in EqualOn(s) <=> type \in t
    BY <1>4 DEF Cmd!LintTypes
  <2> QED
    BY <1>3, <2>1 DEF TypesAct
<1>7. \A f \in Modes : f \in EqualOn(s) <=> f \in s \/ f = "run_equal_mode"
  BY <1>2, <1>3, <1>4 DEF SameModes, Modes
<1> QED
  BY <1>5, <1>6, <1>7

-----------------------------------------------------------------------------
(* The inductive invariant of Options. *)

OptionName(i) == cmdline.options[i].name
OptionCount == Len(cmdline.options)

\* The first k options have acted.
Taken(k) ==
  /\ k \in 0..OptionCount
  /\ phase = "options" => argv = SubSeq(cmdline.options, k + 1, OptionCount)
  /\ phase = "options" \/ (phase = "done" /\ error) \/ k = OptionCount

\* m is the last of them that sets all types.
SetsTypesLast(m, k) ==
  /\ m \in 0..k /\ (m = 0 \/ OptionName(m) \in {"types", "equal"})
  /\ \A i \in m + 1..k : OptionName(i) \notin {"types", "equal"}

Chosen(m, k, type) ==
  \/ IF m = 0 THEN type \in Cmd!Enables("defaults")
              ELSE SaysLast(Cmd!Named(m), DOMAIN Cmd!Named(m), type)
  \/ type = "merge_directories" /\ \E i \in m + 1..k : OptionName(i) = "merge_directories"

TypesSoFar(k) ==
  \E m \in Nat : SetsTypesLast(m, k) /\ \A type \in Cmd!LintTypes : type \in on <=> Chosen(m, k, type)

Outputs == {"output", "add_output", "progress", "no_progress"}
EqualFormats == <<Cmd!Formatter("_equal", "stdout")>>
Spared == {"stdout", "rmlint.replay.sh", "rmlint.replay.json"}

ModesSoFar(k) ==
  /\ \A i \in 1..k : /\ OptionName(i) = "replay" => "replay" \in on
                     /\ OptionName(i) = "equal" => "run_equal_mode" \in on
  /\ json_paths \subseteq cmdline.json /\ (json_paths # {} => "replay" \in on)

\* Without options about outputs nothing but --equal adds a formatter before the end.
FormatsSoFar ==
  Cmd!Names \cap Outputs = {} =>
    /\ "progress_enabled" \notin on
    /\ "run_equal_mode" \in on => formats = EqualFormats
    /\ "run_equal_mode" \notin on /\ phase # "done" => formats = << >>
    /\ "replay" \in on => Cmd!Files \subseteq Spared

Repaired ==
  /\ phase = "exclude" \/ Cmd!Searches =>
       ("partial_hidden" \in on => "merge_directories" \in on)
  /\ Cmd!Searches => /\ ~Cmd!Both("keep_all_tagged", "must_match_untagged")
                     /\ ~Cmd!Both("keep_all_untagged", "must_match_tagged")

ParserInv ==
  /\ cmdline \in CommandLines /\ error \in BOOLEAN
  /\ phase \in {"options", "paths", "stdin", "fix", "exclude", "done"}
  /\ FlagsAgree(on) /\ FormatsSoFar /\ Repaired
  /\ \E k \in Nat : Taken(k) /\ TypesSoFar(k) /\ ModesSoFar(k)

LEMMA ListsAreLists ==
  ASSUME Cmd!OptionsAssumption, NEW c \in CommandLines
  PROVE  /\ c.options \in Seq(Cmd!ToSet(c.options))
         /\ \A k \in DOMAIN c.options : IsList(c.options[k].args)
<1>1. \A k \in DOMAIN c.options : c.options[k].args \in Seq(Cmd!ToSet(c.options[k].args))
  BY DEF Cmd!OptionsAssumption, Cmd!IsSequence
<1>2. ASSUME NEW k \in DOMAIN c.options PROVE IsList(c.options[k].args)
  <2>1. c.options[k].args \in Seq(Cmd!ToSet(c.options[k].args))
    BY <1>1
  <2>2. Len(c.options[k].args) \in Nat /\ DOMAIN c.options[k].args = 1..Len(c.options[k].args)
    BY <2>1
  <2> QED
    BY <2>2 DEF IsList
<1> QED
  BY <1>2 DEF Cmd!OptionsAssumption, Cmd!IsSequence

LEMMA FirstOfRest ==
  ASSUME NEW S, NEW list \in Seq(S), NEW k \in 0..Len(list), NEW rest, rest # << >>,
         rest = SubSeq(list, k + 1, Len(list))
  PROVE  k + 1 \in 1..Len(list) /\ Head(rest) = list[k + 1] /\ Tail(rest) = SubSeq(list, k + 2, Len(list))
<1>1. k + 1 \in 1..Len(list)
  BY SubSeqEmpty
<1>2. /\ Head(SubSeq(list, k + 1, Len(list))) = list[k + 1]
      /\ Tail(SubSeq(list, k + 1, Len(list))) = SubSeq(list, (k + 1) + 1, Len(list))
  BY <1>1, HeadTailOfSubSeq
<1>3. (k + 1) + 1 = k + 2
  OBVIOUS
<1> QED
  BY <1>1, <1>2, <1>3

\* What an option does to the modes and the formatters.
OutputsAct(o) ==
  /\ "replay" \in on' <=> "replay" \in on \/ o = "replay"
  /\ "run_equal_mode" \in on' <=> "run_equal_mode" \in on \/ o = "equal"
  /\ json_paths' \subseteq json_paths \cup (IF o = "replay" THEN cmdline.json ELSE {})
  /\ o \notin Outputs => /\ "progress_enabled" \in on' <=> "progress_enabled" \in on
                         /\ formats' = IF o = "equal" THEN EqualFormats ELSE formats

TermsOf(o) == IF o = "equal" THEN Cmd!EqualTypes ELSE Cmd!Args

\* An option that is taken keeps the invariant if it acts as its name says.
LEMMA NextOption ==
  ASSUME Cmd!OptionsAssumption, ParserInv, NEW o, Cmd!Given(o), Cmd!Shift,
         cmdline' = cmdline, phase' = phase, error' \in BOOLEAN, FlagsAgree(on'),
         TypesAct(on, on', o, TermsOf(o)), OutputsAct(o)
  PROVE  ParserInv'
<1>1. PICK k \in Nat : Taken(k) /\ TypesSoFar(k) /\ ModesSoFar(k)
  BY DEF ParserInv
<1>2. phase = "options" /\ argv # << >> /\ cmdline \in CommandLines
  BY DEF Cmd!Given, ParserInv
<1>3. /\ k + 1 \in 1..OptionCount /\ OptionName(k + 1) = o /\ Cmd!Args = cmdline.options[k + 1].args
      /\ argv' = SubSeq(cmdline.options, k + 2, OptionCount)
  <2>1. /\ k + 1 \in 1..Len(cmdline.options) /\ Head(argv) = cmdline.options[k + 1]
        /\ Tail(argv) = SubSeq(cmdline.options, k + 2, Len(cmdline.options))
    <3>1. cmdline.options \in Seq(Cmd!ToSet(cmdline.options))
      BY <1>2, ListsAreLists
    <3>2. k \in 0..Len(cmdline.options) /\ argv = SubSeq(cmdline.options, k + 1, Len(cmdline.options))
      BY <1>1, <1>2 DEF Taken, OptionCount
    <3> QED
      BY <1>2, <3>1, <3>2, FirstOfRest
  <2> QED
    BY <2>1 DEF Cmd!Given, Cmd!Args, Cmd!Shift, OptionName, OptionCount
<1>4. Taken(k + 1)'
  BY <1>2, <1>3 DEF Taken, OptionCount
<1>5. TypesSoFar(k + 1)'
  <2>1. PICK m \in Nat :
          SetsTypesLast(m, k) /\ \A type \in Cmd!LintTypes : type \in on <=> Chosen(m, k, type)
    BY <1>1 DEF TypesSoFar
  <2>2. CASE o \in {"types", "equal"}
    <3>1. SetsTypesLast(k + 1, k + 1)
      BY <1>3, <2>2 DEF SetsTypesLast
    <3>2. Cmd!Named(k + 1) = TermsOf(o)
      BY <1>3 DEF Cmd!Named, TermsOf, OptionName
    <3>3. \A type \in Cmd!LintTypes : type \in on' <=> Chosen(k + 1, k + 1, type)
      <4>1. \A type \in Cmd!LintTypes : type \in on' <=> SaysLast(TermsOf(o), DOMAIN TermsOf(o), type)
        BY <2>2 DEF TypesAct
      <4>2. k + 1 # 0 /\ ~(\E i \in (k + 1) + 1..k + 1 : TRUE)
        OBVIOUS
      <4> QED
        BY <3>2, <4>1, <4>2 DEF Chosen
    <3>4. SetsTypesLast(k + 1, k + 1)' /\ \A type : Chosen(k + 1, k + 1, type)' <=> Chosen(k + 1, k + 1, type)
      BY <3>1 DEF SetsTypesLast, Chosen, OptionName, Cmd!Named
    <3> QED
      BY <3>3, <3>4 DEF TypesSoFar
  <2>3. CASE o \notin {"types", "equal"}
    <3>1. SetsTypesLast(m, k + 1)
      BY <1>3, <2>1, <2>3 DEF SetsTypesLast
    <3>2. \A type \in Cmd!LintTypes : type \in on' <=> Chosen(m, k + 1, type)
      <4>1. m + 1..k + 1 = (m + 1..k) \cup {k + 1}
        BY <2>1 DEF SetsTypesLast
      <4>2. \A type : Chosen(m, k + 1, type) <=>
              Chosen(m, k, type) \/ (type = "merge_directories" /\ o = "merge_directories")
        BY <1>3, <4>1 DEF Chosen
      <4>3. \A type \in Cmd!LintTypes :
              type \in on' <=> type \in on \/ (type = "merge_directories" /\ o = "merge_directories")
        BY <2>3 DEF TypesAct, SameTypes
      <4> QED
        BY <2>1, <4>2, <4>3
    <3>3. SetsTypesLast(m, k + 1)' /\ \A type : Chosen(m, k + 1, type)' <=> Chosen(m, k + 1, type)
      BY <3>1 DEF SetsTypesLast, Chosen, OptionName, Cmd!Named
    <3> QED
      BY <3>2, <3>3 DEF TypesSoFar
  <2> QED
    BY <2>2, <2>3
<1>6. ModesSoFar(k + 1)'
  <2>1. \A i \in 1..k + 1 : i \in 1..k \/ i = k + 1
    OBVIOUS
  <2> QED
    BY <1>1, <1>3, <2>1 DEF ModesSoFar, OutputsAct, OptionName
<1>7. FormatsSoFar'
  <2> SUFFICES ASSUME Cmd!Names \cap Outputs = {} PROVE FormatsSoFar'
    BY DEF FormatsSoFar, Cmd!Names
  <2>1. o \notin Outputs
    <3>1. k + 1 \in DOMAIN cmdline.options
      BY <1>2, <1>3, ListsAreLists DEF OptionCount
    <3> QED
      BY <1>3, <3>1 DEF Cmd!Names, OptionName
  <2>2. /\ "progress_enabled" \notin on' /\ ("run_equal_mode" \in on' => formats' = EqualFormats)
        /\ ("run_equal_mode" \notin on' => formats' = << >>)
    BY <1>2, <2>1 DEF ParserInv, FormatsSoFar, OutputsAct
  <2>3. {formats'[n].file : n \in DOMAIN formats'} \subseteq Spared
    BY <2>2 DEF EqualFormats, Cmd!Formatter, Spared
  <2> QED
    BY <2>2, <2>3 DEF FormatsSoFar, Cmd!Files, EqualFormats, Cmd!Formatter
<1>8. Repaired'
  BY <1>2 DEF Repaired, Cmd!Searches
<1> QED
  BY <1>1, <1>2, <1>4, <1>5, <1>6, <1>7, <1>8 DEF ParserInv

\* A callback that returns false keeps it as well.
LEMMA Refused ==
  ASSUME ParserInv, phase = "options", Cmd!Refuse
  PROVE  ParserInv'
<1>1. /\ cmdline' = cmdline /\ on' = on /\ formats' = formats /\ json_paths' = json_paths
      /\ error' = TRUE /\ phase' = "done"
  BY DEF Cmd!Refuse
<1>2. PICK k \in Nat : Taken(k) /\ TypesSoFar(k) /\ ModesSoFar(k)
  BY DEF ParserInv
<1>3. Taken(k)' /\ ModesSoFar(k)'
  BY <1>1, <1>2 DEF Taken, ModesSoFar, OptionName, OptionCount
<1>4. TypesSoFar(k)'
  BY <1>1, <1>2 DEF TypesSoFar, SetsTypesLast, Chosen, OptionName, Cmd!Named
<1>5. FormatsSoFar' /\ Repaired'
  BY <1>1 DEF ParserInv, FormatsSoFar, Repaired, Cmd!Searches, Cmd!Names, Cmd!Files
<1> QED
  BY <1>1, <1>2, <1>3, <1>4, <1>5 DEF ParserInv

\* What the invariant speaks of.
Relevant == Cmd!LintTypes \cup Modes \cup {"follow_symlinks", "see_symlinks", "cache_file_structs",
                                           "partial_hidden", "ignore_hidden"}

\* An option that has to do with none of this, or only with outputs.
LEMMA OtherOption ==
  ASSUME Cmd!OptionsAssumption, ParserInv, NEW o, Cmd!Given(o), Cmd!Shift,
         cmdline' = cmdline, phase' = phase, json_paths' = json_paths, error' \in BOOLEAN,
         o \notin {"types", "equal", "merge_directories", "replay"},
         \A f \in Relevant : (f = "progress_enabled" /\ o \in Outputs) \/ (f \in on' <=> f \in on),
         o \notin Outputs => formats' = formats
  PROVE  ParserInv'
<1>1. FlagsAgree(on')
  BY DEF ParserInv, FlagsAgree, Relevant, Cmd!LintTypes
<1>2. TypesAct(on, on', o, TermsOf(o))
  BY DEF TypesAct, SameTypes, Relevant, Cmd!LintTypes
<1>3. OutputsAct(o)
  BY DEF OutputsAct, Relevant, Modes
<1> QED
  BY <1>1, <1>2, <1>3, NextOption

LEMMA SwitchKeeps ==
  ASSUME Cmd!OptionsAssumption, ParserInv, Cmd!Switch
  PROVE  ParserInv'
<1>1. PICK name \in Cmd!Switches :
        /\ Cmd!Given(name) /\ on' = Cmd!Switched(on, name, Cmd!Args) /\ Cmd!Shift
        /\ UNCHANGED <<cmdline, formats, json_paths, error, phase>>
  BY DEF Cmd!Switch
<1>2. IsList(Cmd!Args)
  <2>1. PICK k \in Nat : Taken(k) /\ TypesSoFar(k) /\ ModesSoFar(k)
    BY DEF ParserInv
  <2>2. cmdline \in CommandLines /\ phase = "options" /\ argv # << >>
    BY <1>1 DEF ParserInv, Cmd!Given
  <2>3. cmdline.options \in Seq(Cmd!ToSet(cmdline.options))
    BY <2>2, ListsAreLists
  <2>4. k \in 0..Len(cmdline.options) /\ argv = SubSeq(cmdline.options, k + 1, Len(cmdline.options))
    BY <2>1, <2>2 DEF Taken, OptionCount
  <2>5. k + 1 \in 1..Len(cmdline.options) /\ Head(argv) = cmdline.options[k + 1]
    BY <2>2, <2>3, <2>4, FirstOfRest
  <2>6. k + 1 \in DOMAIN cmdline.options
    BY <2>3, <2>5
  <2> QED
    BY <2>2, <2>5, <2>6, ListsAreLists DEF Cmd!Args
<1>3. /\ FlagsAgree(on') /\ SameModes(on, on') /\ TypesAct(on, on', name, Cmd!Args)
      /\ name \notin {"equal", "replay", "output", "add_output", "progress", "no_progress"}
  BY <1>1, <1>2, SwitchEffect DEF ParserInv
<1>4. OutputsAct(name)
  BY <1>1, <1>3 DEF OutputsAct, SameModes, Modes
<1>5. TypesAct(on, on', name, TermsOf(name))
  BY <1>3 DEF TermsOf
<1> QED
  BY <1>1, <1>3, <1>4, <1>5, NextOption DEF ParserInv

LEMMA LimitsKeep ==
  ASSUME Cmd!OptionsAssumption, ParserInv,
         Cmd!ParseSizes \/ Cmd!ParseClamp \/ Cmd!ParseTimestamp \/ Cmd!ParsePermissions
           \/ Cmd!ParseParanoia \/ Cmd!ParseAlgorithm
  PROVE  ParserInv'
<1> DEFINE Unrelated(o) ==
      /\ Cmd!Given(o) /\ Cmd!Shift
      /\ o \notin Outputs \cup {"types", "equal", "merge_directories", "replay"}
      /\ UNCHANGED <<cmdline, formats, json_paths, phase>> /\ error' \in BOOLEAN
      /\ \A f \in Relevant : f \in on' <=> f \in on
<1>1. ASSUME NEW o, Unrelated(o) PROVE ParserInv'
  BY <1>1, OtherOption
<1>2. error \in BOOLEAN
  BY DEF ParserInv
<1>3. \A o : Cmd!Given(o) => phase = "options"
  BY DEF Cmd!Given
<1> HIDE DEF Unrelated
<1>4. ASSUME NEW o, Cmd!Given(o), Cmd!Refuse PROVE ParserInv'
  BY <1>3, <1>4, Refused
<1>5. CASE Cmd!ParseSizes
  <2>1. (Cmd!Given("size") /\ Cmd!Refuse) \/ Unrelated("size")
    BY <1>2, <1>5 DEF Cmd!ParseSizes, Unrelated, Outputs
  <2> QED
    BY <2>1, <1>1, <1>4
<1>6. CASE Cmd!ParseClamp
  <2>1. PICK which \in {"clamp_low", "clamp_top"} :
          /\ Cmd!Given(which)
          /\ \/ Cmd!Refuse
             \/ /\ \E f \in {"use_absolute_start_offset", "use_absolute_end_offset"} :
                      on' \in {(on \ {f}) \cup {"clamp_is_used"}, (on \cup {f}) \cup {"clamp_is_used"}}
                /\ Cmd!Shift /\ UNCHANGED <<cmdline, formats, json_paths, error, phase>>
    BY <1>6 DEF Cmd!ParseClamp
  <2>2. Cmd!Refuse \/ Unrelated(which)
    BY <1>2, <2>1 DEF Unrelated, Outputs, Relevant, Modes, Cmd!LintTypes
  <2> QED
    BY <2>1, <2>2, <1>1, <1>4
<1>7. CASE Cmd!ParseTimestamp
  <2>1. (Cmd!Given("timestamp") /\ Cmd!Refuse) \/ Unrelated("timestamp")
    BY <1>2, <1>7 DEF Cmd!ParseTimestamp, Unrelated, Outputs, Relevant, Modes, Cmd!LintTypes
  <2> QED
    BY <2>1, <1>1, <1>4
<1>8. CASE Cmd!ParsePermissions
  <2>1. (Cmd!Given("perms") /\ Cmd!Refuse) \/ Unrelated("perms")
    BY <1>2, <1>8 DEF Cmd!ParsePermissions, Unrelated, Outputs
  <2> QED
    BY <2>1, <1>1, <1>4
<1>9. CASE Cmd!ParseParanoia
  <2>1. PICK o \in {"paranoid", "less_paranoid"} :
          /\ Cmd!Given(o) /\ Cmd!Shift /\ error' \in BOOLEAN
          /\ UNCHANGED <<cmdline, on, formats, json_paths, phase>>
    BY <1>9 DEF Cmd!ParseParanoia
  <2>2. Unrelated(o)
    BY <2>1 DEF Unrelated, Outputs
  <2> QED
    BY <2>2, <1>1
<1>10. CASE Cmd!ParseAlgorithm
  <2>1. (Cmd!Given("algorithm") /\ Cmd!Refuse) \/ Unrelated("algorithm")
    BY <1>2, <1>10 DEF Cmd!ParseAlgorithm, Unrelated, Outputs
  <2> QED
    BY <2>1, <1>1, <1>4
<1> QED
  BY <1>5, <1>6, <1>7, <1>8, <1>9, <1>10

LEMMA OutputsKeep ==
  ASSUME Cmd!OptionsAssumption, ParserInv,
         Cmd!ParseOutput \/ Cmd!ParseProgress \/ Cmd!ParseNoProgress
  PROVE  ParserInv'
<1>1. CASE Cmd!ParseOutput
  <2>1. PICK o \in {"output", "add_output"} :
          /\ Cmd!Given(o) /\ Cmd!Shift /\ error' \in BOOLEAN
          /\ UNCHANGED <<cmdline, on, json_paths, phase>>
    BY <1>1 DEF Cmd!ParseOutput
  <2> QED
    BY <2>1, OtherOption DEF Outputs
<1>2. CASE Cmd!ParseProgress
  BY <1>2, OtherOption DEF Cmd!ParseProgress, Outputs, ParserInv
<1>3. CASE Cmd!ParseNoProgress
  BY <1>3, OtherOption DEF Cmd!ParseNoProgress, Outputs, ParserInv
<1> QED
  BY <1>1, <1>2, <1>3

LEMMA EqualKeeps ==
  ASSUME Cmd!OptionsAssumption, ParserInv, Cmd!ParseEqual
  PROVE  ParserInv'
<1>1. /\ Cmd!Given("equal") /\ Cmd!Shift /\ on' = EqualOn(on) /\ formats' = EqualFormats
      /\ UNCHANGED <<cmdline, json_paths, error, phase>>
  BY DEF Cmd!ParseEqual, EqualOn, EqualFormats
<1>2. /\ FlagsAgree(on') /\ TypesAct(on, on', "equal", Cmd!EqualTypes)
      /\ \A f \in Modes : f \in on' <=> f \in on \/ f = "run_equal_mode"
  BY <1>1, EqualEffect DEF ParserInv
<1>3. OutputsAct("equal")
  BY <1>1, <1>2 DEF OutputsAct, Modes
<1>4. TypesAct(on, on', "equal", TermsOf("equal"))
  BY <1>2 DEF TermsOf
<1> QED
  BY <1>1, <1>2, <1>3, <1>4, NextOption DEF ParserInv

LEMMA ReplayKeeps ==
  ASSUME Cmd!OptionsAssumption, ParserInv, Cmd!ParseReplay
  PROVE  ParserInv'
<1>1. /\ Cmd!Given("replay") /\ Cmd!Shift /\ on' = on \cup {"replay", "cache_file_structs"}
      /\ UNCHANGED <<cmdline, formats, error, phase>>
      /\ json_paths' \subseteq json_paths \cup cmdline.json
  BY DEF Cmd!ParseReplay, Cmd!AddPath
<1>2. FlagsAgree(on')
  BY <1>1 DEF ParserInv, FlagsAgree
<1>3. TypesAct(on, on', "replay", TermsOf("replay"))
  BY <1>1 DEF TypesAct, SameTypes, Cmd!LintTypes
<1>4. OutputsAct("replay")
  BY <1>1 DEF OutputsAct
<1> QED
  BY <1>1, <1>2, <1>3, <1>4, NextOption DEF ParserInv

-----------------------------------------------------------------------------
(* After the options nothing but the paths changes until the end. *)

LEMMA NoRest ==
  ASSUME NEW S, NEW list \in Seq(S), NEW k \in 0..Len(list), SubSeq(list, k + 1, Len(list)) = << >>
  PROVE  k = Len(list)
<1> SUFFICES ASSUME k # Len(list) PROVE FALSE
  OBVIOUS
<1>1. k + 1 \in 1..Len(list) /\ Len(list) \in k + 1..Len(list)
  OBVIOUS
<1>2. Len(SubSeq(list, k + 1, Len(list))) = Len(list) - (k + 1) + 1
  BY <1>1, SubSeqProperties
<1>3. Len(<< >>) = 0 /\ Len(list) \in Int /\ k \in Int
  OBVIOUS
<1>4. Len(list) - (k + 1) + 1 = 0
  BY <1>2, <1>3, Zenon
<1> QED
  BY <1>3, <1>4

\* What is known of the options stays if none is taken and what they decide stays.
LEMMA AfterOptions ==
  ASSUME Cmd!OptionsAssumption, ParserInv, phase = "options" => argv = << >>, phase # "done",
         cmdline' = cmdline, phase' \in {"paths", "stdin", "fix", "exclude", "done"},
         error' \in BOOLEAN, SameTypes(on, on'), SameModes(on, on'),
         json_paths' \subseteq cmdline.json, json_paths' # {} => "replay" \in on,
         FlagsAgree(on'), FormatsSoFar', Repaired'
  PROVE  ParserInv'
<1>1. PICK k \in Nat : Taken(k) /\ TypesSoFar(k) /\ ModesSoFar(k)
  BY DEF ParserInv
<1>2. k = OptionCount
  <2>1. CASE phase = "options"
    <3>1. cmdline.options \in Seq(Cmd!ToSet(cmdline.options))
      BY ListsAreLists DEF ParserInv
    <3>2. k \in 0..Len(cmdline.options) /\ SubSeq(cmdline.options, k + 1, Len(cmdline.options)) = << >>
      BY <1>1, <2>1 DEF Taken, OptionCount
    <3> QED
      BY <3>1, <3>2, NoRest DEF OptionCount
  <2> QED
    BY <1>1, <2>1 DEF Taken
<1>3. Taken(k)'
  BY <1>1, <1>2 DEF Taken, OptionCount
<1>4. TypesSoFar(k)'
  BY <1>1 DEF TypesSoFar, SetsTypesLast, Chosen, OptionName, Cmd!Named, SameTypes
<1>5. ModesSoFar(k)'
  BY <1>1 DEF ModesSoFar, OptionName, SameModes, Modes
<1> QED
  BY <1>1, <1>3, <1>4, <1>5 DEF ParserInv

\* A step of the paths.
LEMMA PathsKeep ==
  ASSUME Cmd!OptionsAssumption, ParserInv,
         Cmd!OptionsDone \/ Cmd!TakePath \/ Cmd!PathsDone \/ Cmd!ReadStdin
  PROVE  ParserInv'
<1> DEFINE Marks == {"all_paths_valid", "read_stdin", "stdin_paths_preferred"}
<1>1. /\ phase = "options" => argv = << >>
      /\ phase \notin {"exclude", "done"}
      /\ UNCHANGED <<cmdline, formats, error>> /\ phase' \in {"paths", "stdin", "fix"}
      /\ \A f : f \notin Marks => (f \in on' <=> f \in on)
      /\ json_paths' \subseteq json_paths \cup cmdline.json
      /\ json_paths' # json_paths => "replay" \in on
  <2>1. CASE Cmd!OptionsDone
    BY <2>1 DEF Cmd!OptionsDone
  <2>2. CASE Cmd!TakePath
    <3>1. /\ phase = "paths" /\ UNCHANGED <<cmdline, formats, error, phase>>
          /\ \A f : f \notin Marks => (f \in on' <=> f \in on)
      BY <2>2 DEF Cmd!TakePath, Cmd!Valid
    <3>2. \/ json_paths' = json_paths
          \/ Cmd!AddPath(Head(argv), Cmd!IsPrefd, "replay" \in on)
      BY <2>2 DEF Cmd!TakePath
    <3> QED
      BY <3>1, <3>2 DEF Cmd!AddPath
  <2>3. CASE Cmd!PathsDone
    BY <2>3 DEF Cmd!PathsDone
  <2>4. CASE Cmd!ReadStdin
    <3>1. /\ phase = "stdin" /\ phase' \in {"stdin", "fix"} /\ UNCHANGED <<cmdline, formats, error>>
          /\ \A f : f \notin Marks => (f \in on' <=> f \in on)
      BY <2>4 DEF Cmd!ReadStdin, Cmd!Valid
    <3>2. \/ json_paths' = json_paths
          \/ Cmd!AddPath(Head(argv), "stdin_paths_preferred" \in on, "replay" \in on)
      BY <2>4 DEF Cmd!ReadStdin
    <3> QED
      BY <3>1, <3>2 DEF Cmd!AddPath
  <2> QED
    BY <2>1, <2>2, <2>3, <2>4
<1> DEFINE Same(f) == f \in on' <=> f \in on
<1>2. \A f \in Relevant : Same(f)
  BY <1>1 DEF Relevant, Modes, Cmd!LintTypes
<1> HIDE DEF Same
<1>3. SameTypes(on, on') /\ SameModes(on, on')
  BY <1>2 DEF SameTypes, SameModes, Relevant, Same
<1>4. FlagsAgree(on')
  BY <1>2 DEF ParserInv, FlagsAgree, Relevant, Cmd!LintTypes, Same
<1>5. FormatsSoFar'
  BY <1>1, <1>3 DEF ParserInv, FormatsSoFar, Cmd!Names, Cmd!Files, SameModes, Modes
<1>6. Repaired'
  BY <1>1 DEF Repaired, Cmd!Searches
<1>7. json_paths' \subseteq cmdline.json /\ (json_paths' # {} => "replay" \in on)
  BY <1>1 DEF ParserInv, ModesSoFar
<1>8. error' \in BOOLEAN
  BY <1>1 DEF ParserInv
<1> QED
  BY <1>1, <1>3, <1>4, <1>5, <1>6, <1>7, <1>8, AfterOptions

LEMMA GiveUpKeeps ==
  ASSUME Cmd!OptionsAssumption, ParserInv, Cmd!GiveUp
  PROVE  ParserInv'
<1>1. /\ phase = "fix" /\ phase' = "done" /\ UNCHANGED <<cmdline, on, formats, json_paths>>
      /\ error' \in BOOLEAN /\ (Cmd!Special \/ error')
  BY DEF Cmd!GiveUp
<1>2. FormatsSoFar'
  BY <1>1 DEF ParserInv, FormatsSoFar, Cmd!Names, Cmd!Files
<1>3. Repaired'
  BY <1>1 DEF Repaired, Cmd!Searches, Cmd!Special
<1>4. SameTypes(on, on') /\ SameModes(on, on') /\ FlagsAgree(on')
  BY <1>1 DEF SameTypes, SameModes, ParserInv
<1>5. json_paths' \subseteq cmdline.json /\ (json_paths' # {} => "replay" \in on)
  BY <1>1 DEF ParserInv, ModesSoFar
<1> QED
  BY <1>1, <1>2, <1>3, <1>4, <1>5, AfterOptions

LEMMA FixKeeps ==
  ASSUME Cmd!OptionsAssumption, ParserInv, Cmd!Fix
  PROVE  ParserInv'
<1>1. /\ phase = "fix" /\ phase' = "exclude" /\ UNCHANGED <<cmdline, json_paths, error>>
      /\ on' = IF "partial_hidden" \in on /\ "merge_directories" \notin on
               THEN (on \ {"partial_hidden"}) \cup {"ignore_hidden"} ELSE on
      /\ "progress_enabled" \notin on => formats' = formats
  BY DEF Cmd!Fix
<1>2. SameTypes(on, on') /\ SameModes(on, on')
  BY <1>1 DEF SameTypes, SameModes, Modes, Cmd!LintTypes
<1>3. FlagsAgree(on')
  BY <1>1 DEF ParserInv, FlagsAgree
<1>4. FormatsSoFar'
  BY <1>1, <1>2 DEF ParserInv, FormatsSoFar, Cmd!Names, Cmd!Files, SameModes, Modes
<1>5. Repaired'
  BY <1>1 DEF Repaired, Cmd!Searches
<1>6. json_paths' \subseteq cmdline.json /\ (json_paths' # {} => "replay" \in on) /\ error' \in BOOLEAN
  BY <1>1 DEF ParserInv, ModesSoFar
<1> QED
  BY <1>1, <1>2, <1>3, <1>4, <1>5, <1>6, AfterOptions

LEMMA ExcludeKeeps ==
  ASSUME Cmd!OptionsAssumption, ParserInv, Cmd!Exclude
  PROVE  ParserInv'
<1>1. /\ phase = "exclude" /\ phase' = "done" /\ UNCHANGED <<cmdline, on, json_paths>>
      /\ error' \in BOOLEAN
      /\ ~error' => /\ ~Cmd!Both("keep_all_tagged", "must_match_untagged")
                    /\ ~Cmd!Both("keep_all_untagged", "must_match_tagged")
      /\ formats' = formats \/ ("run_equal_mode" \notin on /\ formats' = Cmd!WithDefaults(formats))
  BY DEF Cmd!Exclude, Cmd!NeedsDefaults
<1>2. Repaired'
  BY <1>1 DEF ParserInv, Repaired, Cmd!Searches, Cmd!Both
<1>3. FormatsSoFar'
  <2> SUFFICES ASSUME Cmd!Names \cap Outputs = {} PROVE FormatsSoFar'
    BY <1>1 DEF FormatsSoFar, Cmd!Names
  <2>1. CASE formats' = formats
    BY <1>1, <2>1 DEF ParserInv, FormatsSoFar, Cmd!Names, Cmd!Files
  <2>2. CASE "run_equal_mode" \notin on /\ formats' = Cmd!WithDefaults(formats)
    <3>1. formats = << >> /\ "progress_enabled" \notin on
      BY <1>1, <2>2 DEF ParserInv, FormatsSoFar
    <3>2. ASSUME "replay" \in on PROVE Cmd!Files' \subseteq Spared
      <4> DEFINE F(name, file) == Cmd!Formatter(name, file)
                 shown == <<F("pretty", "stdout"), F("summary", "stdout")>>
                 saved == <<F("sh", "rmlint.replay.sh"), F("json", "rmlint.replay.json")>>
      <4>1. formats' = << >> \o shown \o saved
        BY <2>2, <3>1, <3>2 DEF Cmd!WithDefaults
      <4>2. /\ << >> \o shown = shown /\ shown \in Seq(Cmd!ToSet(shown)) /\ Len(shown) = 2
            /\ saved \in Seq(Cmd!ToSet(saved)) /\ Len(saved) = 2
        BY DEF Cmd!ToSet
      <4>3. \A f \in Cmd!ToSet(shown) \cup Cmd!ToSet(saved) : f.file \in Spared
        BY DEF Cmd!ToSet, Cmd!Formatter, Spared
      <4> HIDE DEF shown, saved
      <4>4. shown \o saved \in Seq(Cmd!ToSet(shown) \cup Cmd!ToSet(saved))
        BY <4>2
      <4>5. \A n \in DOMAIN formats' : formats'[n] \in Cmd!ToSet(shown) \cup Cmd!ToSet(saved)
        <5> DEFINE all == shown \o saved
                   S == Cmd!ToSet(shown) \cup Cmd!ToSet(saved)
        <5>1. formats' = all /\ all \in Seq(S)
          BY <4>1, <4>2, <4>4
        <5> HIDE DEF all, S
        <5>2. \A n \in DOMAIN all : all[n] \in S
          BY <5>1
        <5> QED
          BY <5>1, <5>2 DEF S
      <4> QED
        BY <4>3, <4>5 DEF Cmd!Files
    <3> QED
      BY <1>1, <2>2, <3>1, <3>2 DEF FormatsSoFar
  <2> QED
    BY <1>1, <2>1, <2>2
<1>4. SameTypes(on, on') /\ SameModes(on, on') /\ FlagsAgree(on')
  BY <1>1 DEF SameTypes, SameModes, ParserInv
<1>5. json_paths' \subseteq cmdline.json /\ (json_paths' # {} => "replay" \in on)
  BY <1>1 DEF ParserInv, ModesSoFar
<1> QED
  BY <1>1, <1>2, <1>3, <1>4, <1>5, AfterOptions

LEMMA ParserInitially ==
  ASSUME Cmd!OptionsAssumption, Cmd!Init
  PROVE  ParserInv
<1>1. /\ cmdline \in CommandLines /\ argv = cmdline.options /\ formats = << >> /\ json_paths = {}
      /\ error = FALSE /\ phase = "options"
      /\ on = (Cmd!LintTypes \ {"find_nonstripped", "merge_directories"})
                \cup {"ignore_hidden", "find_hardlinked_dupes", "see_symlinks"}
  BY DEF Cmd!Init
<1>2. Taken(0)
  <2>1. cmdline.options \in Seq(Cmd!ToSet(cmdline.options))
    BY <1>1, ListsAreLists
  <2>2. SubSeq(cmdline.options, 1, Len(cmdline.options)) = cmdline.options /\ Len(cmdline.options) \in Nat
    BY <2>1, SubSeqFull
  <2>3. 0 + 1 = 1
    OBVIOUS
  <2> QED
    BY <1>1, <2>2, <2>3 DEF Taken, OptionCount
<1>3. TypesSoFar(0)
  <2>1. SetsTypesLast(0, 0)
    BY DEF SetsTypesLast
  <2>2. \A type \in Cmd!LintTypes : type \in on <=> type \in Cmd!Enables("defaults")
    BY <1>1 DEF Cmd!LintTypes, Cmd!Enables
  <2>3. \A type : Chosen(0, 0, type) <=> type \in Cmd!Enables("defaults")
    <3>1. ~(\E i \in 0 + 1..0 : TRUE)
      OBVIOUS
    <3> QED
      BY <3>1 DEF Chosen
  <2> QED
    BY <2>1, <2>2, <2>3 DEF TypesSoFar
<1>4. ModesSoFar(0)
  BY <1>1 DEF ModesSoFar
<1>5. FlagsAgree(on)
  BY <1>1 DEF FlagsAgree, Cmd!LintTypes
<1>6. FormatsSoFar
  BY <1>1 DEF FormatsSoFar, Cmd!LintTypes, Cmd!Files
<1>7. Repaired
  BY <1>1 DEF Repaired, Cmd!Searches
<1> QED
  BY <1>1, <1>2, <1>3, <1>4, <1>5, <1>6, <1>7 DEF ParserInv

LEMMA ParserStays ==
  ASSUME ParserInv, UNCHANGED Cmd!vars
  PROVE  ParserInv'
<1>1. UNCHANGED <<cmdline, argv, on, formats, json_paths, error, phase>>
  BY DEF Cmd!vars
<1>2. PICK k \in Nat : Taken(k) /\ TypesSoFar(k) /\ ModesSoFar(k)
  BY DEF ParserInv
<1>3. Taken(k)' /\ ModesSoFar(k)'
  BY <1>1, <1>2 DEF Taken, ModesSoFar, OptionName, OptionCount
<1>4. TypesSoFar(k)'
  BY <1>1, <1>2 DEF TypesSoFar, SetsTypesLast, Chosen, OptionName, Cmd!Named
<1>5. FormatsSoFar'
  BY <1>1 DEF ParserInv, FormatsSoFar, Cmd!Names, Cmd!Files
<1>6. Repaired'
  BY <1>1 DEF ParserInv, Repaired, Cmd!Searches, Cmd!Special, Cmd!Both
<1> QED
  BY <1>1, <1>2, <1>3, <1>4, <1>5, <1>6 DEF ParserInv

LEMMA ParserSteps ==
  ASSUME Cmd!OptionsAssumption, ParserInv, [Cmd!Next]_Cmd!vars
  PROVE  ParserInv'
<1>1. CASE Cmd!Switch
  BY <1>1, SwitchKeeps
<1>2. CASE \/ Cmd!ParseSizes \/ Cmd!ParseClamp \/ Cmd!ParseTimestamp \/ Cmd!ParsePermissions
           \/ Cmd!ParseParanoia \/ Cmd!ParseAlgorithm
  BY <1>2, LimitsKeep
<1>3. CASE Cmd!ParseOutput \/ Cmd!ParseProgress \/ Cmd!ParseNoProgress
  BY <1>3, OutputsKeep
<1>4. CASE Cmd!ParseEqual
  BY <1>4, EqualKeeps
<1>5. CASE Cmd!ParseReplay
  BY <1>5, ReplayKeeps
<1>6. CASE Cmd!OptionsDone \/ Cmd!TakePath \/ Cmd!PathsDone \/ Cmd!ReadStdin
  BY <1>6, PathsKeep
<1>7. CASE Cmd!GiveUp
  BY <1>7, GiveUpKeeps
<1>8. CASE Cmd!Fix
  BY <1>8, FixKeeps
<1>9. CASE Cmd!Exclude
  BY <1>9, ExcludeKeeps
<1>10. CASE Cmd!Done \/ UNCHANGED Cmd!vars
  BY <1>10, ParserStays DEF Cmd!Done
<1> QED
  BY <1>1, <1>2, <1>3, <1>4, <1>5, <1>6, <1>7, <1>8, <1>9, <1>10 DEF Cmd!Next

-----------------------------------------------------------------------------
(* What the invariant says of the search that starts. *)

LEMMA MaxIsLast ==
  ASSUME NEW T, NEW x, IsLast(x, T)
  PROVE  Cmd!Max(T) = x
<1>1. x \in T /\ \A y \in T : x >= y /\ y \in Nat
  BY DEF IsLast
<1>2. Cmd!Max(T) \in T /\ \A y \in T : Cmd!Max(T) >= y
  BY <1>1 DEF Cmd!Max
<1> QED
  BY <1>1, <1>2

LEMMA LastDecides ==
  ASSUME NEW args, IsList(args), NEW y, NEW naming,
         naming = {i \in DOMAIN args : y \in Cmd!Enables(args[i].name)}
  PROVE  SaysLast(args, DOMAIN args, y) <=> naming # {} /\ args[Cmd!Max(naming)].on
<1>1. PICK n \in Nat : DOMAIN args = 1..n
  BY DEF IsList
<1>2. \A i \in DOMAIN args : i \in Nat
  BY <1>1
<1>3. SaysLast(args, DOMAIN args, y) <=> \E i \in naming : args[i].on /\ \A j \in naming : ~(j > i)
  BY DEF SaysLast
<1>4. CASE naming # {}
  <2>1. IsLast(Cmd!Max(naming), naming)
    BY <1>1, <1>4, LastExists
  <2>2. \A i \in naming : (\A j \in naming : ~(j > i)) <=> i = Cmd!Max(naming)
    BY <2>1 DEF IsLast
  <2>3. Cmd!Max(naming) \in naming
    BY <2>1 DEF IsLast
  <2> QED
    BY <1>3, <1>4, <2>2, <2>3
<1> QED
  BY <1>3, <1>4

LEMMA TypesAreChosen ==
  ASSUME Cmd!OptionsAssumption, ParserInv
  PROVE  Cmd!LintTypesAreThoseNamedLast
<1> SUFFICES ASSUME Cmd!Searches, NEW type \in Cmd!LintTypes PROVE type \in on <=> Cmd!Wanted(type)
  BY DEF Cmd!LintTypesAreThoseNamedLast
<1>1. cmdline \in CommandLines /\ cmdline.options \in Seq(Cmd!ToSet(cmdline.options))
  BY ListsAreLists DEF ParserInv
<1>2. OptionCount \in Nat /\ DOMAIN cmdline.options = 1..OptionCount
  BY <1>1 DEF OptionCount
<1>3. PICK m \in Nat : SetsTypesLast(m, OptionCount) /\ (type \in on <=> Chosen(m, OptionCount, type))
  BY DEF ParserInv, Taken, TypesSoFar, Cmd!Searches
<1>4. Cmd!LastTypes = m
  <2> DEFINE T == {0} \cup {k \in DOMAIN cmdline.options : cmdline.options[k].name \in {"types", "equal"}}
  <2>1. \A k \in T : k \in Nat /\ k <= m
    BY <1>2, <1>3 DEF SetsTypesLast, OptionName
  <2>2. m \in T
    BY <1>2, <1>3 DEF SetsTypesLast, OptionName
  <2>3. IsLast(m, T)
    BY <2>1, <2>2 DEF IsLast
  <2> HIDE DEF T
  <2>4. Cmd!Max(T) = m
    BY <2>3, MaxIsLast
  <2> QED
    BY <2>4 DEF T, Cmd!LastTypes
<1>5. (\E k \in DOMAIN cmdline.options : k > m /\ cmdline.options[k].name = "merge_directories")
        <=> \E i \in m + 1..OptionCount : OptionName(i) = "merge_directories"
  BY <1>2 DEF OptionName
<1> DEFINE naming == {i \in DOMAIN Cmd!Named(m) : type \in Cmd!Enables(Cmd!Named(m)[i].name)}
<1>6. m # 0 => (SaysLast(Cmd!Named(m), DOMAIN Cmd!Named(m), type)
                  <=> naming # {} /\ Cmd!Named(m)[Cmd!Max(naming)].on)
  <2> SUFFICES ASSUME m # 0 PROVE IsList(Cmd!Named(m))
    BY LastDecides
  <2>1. m \in DOMAIN cmdline.options
    BY <1>2, <1>3 DEF SetsTypesLast
  <2>2. IsList(cmdline.options[m].args)
    BY <1>1, <2>1, ListsAreLists
  <2>3. IsList(Cmd!EqualTypes)
    <3>1. DOMAIN Cmd!EqualTypes = 1..2
      BY DEF Cmd!EqualTypes
    <3> QED
      BY <3>1 DEF IsList
  <2> QED
    BY <2>2, <2>3 DEF Cmd!Named
<1>7. Cmd!Wanted(type) <=>
        \/ IF m = 0 THEN type \in Cmd!Enables("defaults")
                    ELSE naming # {} /\ Cmd!Named(m)[Cmd!Max(naming)].on
        \/ type = "merge_directories"
             /\ \E k \in DOMAIN cmdline.options : k > m /\ cmdline.options[k].name = "merge_directories"
  BY <1>4 DEF Cmd!Wanted
<1> QED
  BY <1>3, <1>5, <1>6, <1>7 DEF Chosen

LEMMA SearchIsConsistent ==
  ASSUME Cmd!OptionsAssumption, ParserInv
  PROVE  Cmd!OptionsAreConsistent /\ Cmd!EqualStandsAlone
<1>1. Cmd!OptionsAreConsistent
  BY DEF ParserInv, Cmd!OptionsAreConsistent, FlagsAgree, Repaired, Cmd!Both
<1>2. ASSUME Cmd!Searches, "equal" \in Cmd!Names, Cmd!Names \cap Outputs = {}
      PROVE  formats = EqualFormats
  <2>1. PICK i \in DOMAIN cmdline.options : OptionName(i) = "equal"
    BY <1>2 DEF Cmd!Names, OptionName
  <2>2. i \in 1..OptionCount
    BY <2>1, ListsAreLists DEF ParserInv, OptionCount
  <2>3. "run_equal_mode" \in on
    BY <1>2, <2>1, <2>2 DEF ParserInv, Taken, ModesSoFar, Cmd!Searches
  <2> QED
    BY <1>2, <2>3 DEF ParserInv, FormatsSoFar
<1> QED
  BY <1>1, <1>2 DEF Cmd!EqualStandsAlone, Outputs, EqualFormats

LEMMA DocumentsAreSpared ==
  ASSUME Cmd!OptionsAssumption, ParserInv
  PROVE  Cmd!ReplaySparesItsDocuments
<1> SUFFICES ASSUME Cmd!Names \cap Outputs = {} PROVE Cmd!Files \cap json_paths = {}
  BY DEF Cmd!ReplaySparesItsDocuments, Outputs
<1>1. json_paths \subseteq cmdline.json /\ (json_paths # {} => "replay" \in on)
  BY DEF ParserInv, ModesSoFar
<1>2. "replay" \in on => Cmd!Files \subseteq Spared
  BY DEF ParserInv, FormatsSoFar
<1>3. cmdline.json \cap Spared = {}
  BY DEF ParserInv, Cmd!OptionsAssumption, Spared
<1> QED
  BY <1>1, <1>2, <1>3

\* The invariant of Options in MCStages.
OptionsInv == part = "options" => ParserInv

LEMMA OptionsInvariance == Spec => []OptionsInv
<1>1. Init => OptionsInv
  <2>1. Init /\ part = "options" => Cmd!Init
    BY DEF Init
  <2> QED
    BY <2>1, ParserInitially, StagesAssumption DEF OptionsInv
<1>2. OptionsInv /\ [Next]_vars => OptionsInv'
  <2>1. [Next]_vars => part' = part /\ (part = "options" => [Cmd!Next]_Cmd!vars)
    BY DEF Next, vars, Cmd!vars
  <2> QED
    BY <2>1, ParserSteps, StagesAssumption DEF OptionsInv
<1> QED
  BY <1>1, <1>2, PTL DEF Spec

\* In whatever order options come, and however many, the search that starts has a configuration
\* in which they agree, the lint types that were named last, and the outputs that --equal and
\* --replay promise (cmdline.c).
THEOREM OptionsAlwaysAgree == Spec => []OptionsAgree
<1>1. OptionsInv => OptionsAgree
  BY StagesAssumption, TypesAreChosen, SearchIsConsistent, DocumentsAreSpared DEF OptionsInv, OptionsAgree
<1> QED
  BY <1>1, OptionsInvariance, PTL
=============================================================================
