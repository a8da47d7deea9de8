------------------------ MODULE ParanoidDigestProofs ------------------------
(***************************************************************************)
(* Proofs about ParanoidDigest, for any files, contents and shadow hashes, *)
(* colliding ones included: what was compared on the fly is all that was   *)
(* hashed, child groups are the classes of equal files, and no candidate   *)
(* is forgotten.                                                           *)
(***************************************************************************)
EXTENDS ParanoidDigest, FiniteSetTheorems, NaturalsInduction, TLAPS

-----------------------------------------------------------------------------
(* The inductive invariant. *)

\* A child group has its name from a digest that is complete.
ChildrenAreFull == \A c \in children : buffers[c] = Length

\* No two child groups are for the same data.
ChildrenDiffer == \A c, d \in children : Content[c] = Content[d] => c = d

\* A file is in the child group for its data.
SiftedRight == \A f \in Files : Sifted(f) => Content[f] = Content[child[f]]

Queued(f, c) == \E k \in DOMAIN incoming_twin_candidates[f] : incoming_twin_candidates[f][k] = c

\* A child group is the twin of a digest, or still to be tried, or was found to differ.
ChildrenAreTried ==
  \A f \in in_progress_digests : \A c \in children :
    \/ twin_candidate[f] = c
    \/ Queued(f, c)
    \/ ~SamePrefix(f, c, buffers[f])

IInv ==
  /\ TypeOK
  /\ TwinAgrees
  /\ ChildrenAreFull
  /\ ChildrenDiffer
  /\ SiftedRight
  /\ ChildrenAreTried

-----------------------------------------------------------------------------
(* Facts about the operators. *)

\* Files that agree in all buffers are equal.
LEMMA WholePrefix ==
  ASSUME ParanoidDigestAssumption, NEW f \in Files, NEW h \in Files
  PROVE  SamePrefix(f, h, Length) <=> Content[f] = Content[h]
<1>1. ASSUME SamePrefix(f, h, Length) PROVE Content[f] = Content[h]
  <2>1. \A k \in 1..Length : Content[f][k] = Content[h][k]
    BY <1>1 DEF SamePrefix
  <2>2. [k \in 1..Length |-> Content[f][k]] = [k \in 1..Length |-> Content[h][k]]
    BY <2>1
  <2>3. QED
    BY <2>2 DEF ParanoidDigestAssumption
<1>2. QED
  BY <1>1 DEF SamePrefix

\* A prefix of n buffers and an equal one more; and a longer prefix has the shorter one.
LEMMA NextPrefix ==
  ASSUME NEW f, NEW h, NEW n \in Nat
  PROVE  /\ SamePrefix(f, h, n) /\ Content[f][n + 1] = Content[h][n + 1]
              => SamePrefix(f, h, n + 1)
         /\ SamePrefix(f, h, n + 1) => SamePrefix(f, h, n)
         /\ SamePrefix(f, h, n + 1) => Content[f][n + 1] = Content[h][n + 1]
  BY DEF SamePrefix

\* What rm_digest_equal says of complete digests is true, whichever was compared with the other.
LEMMA EqualIsTrue ==
  ASSUME ParanoidDigestAssumption, TypeOK, TwinAgrees,
         NEW a \in Files, NEW b \in Files, buffers[a] = Length, buffers[b] = Length
  PROVE  DigestEqual(a, b) <=> Content[a] = Content[b]
<1>1. ASSUME twin_candidate[a] = b PROVE Content[a] = Content[b]
  <2>1. SamePrefix(a, b, Length)
    BY <1>1 DEF TwinAgrees, ParanoidDigestAssumption
  <2>2. QED
    BY <2>1, WholePrefix
<1>2. ASSUME twin_candidate[b] = a PROVE Content[a] = Content[b]
  <2>1. SamePrefix(b, a, Length)
    BY <1>2 DEF TwinAgrees, ParanoidDigestAssumption
  <2>2. QED
    BY <2>1, WholePrefix
<1>3. QED
  BY <1>1, <1>2 DEF DigestEqual

\* An enumeration of a finite set has all its elements.
LEMMA Enumerations ==
  ASSUME NEW S, IsFiniteSet(S), NEW s \in SetToSeqs(S)
  PROVE  /\ s \in Seq(S)
         /\ \A x \in S : \E k \in DOMAIN s : s[k] = x
<1> DEFINE n == Cardinality(S)
<1>1. n \in Nat
  BY FS_CardinalityType
<1>2. s \in [1..n -> S] /\ \A i, j \in 1..n : i # j => s[i] # s[j]
  BY DEF SetToSeqs
<1>3. s \in Seq(S)
  BY <1>1, <1>2
<1>4. ASSUME NEW x \in S, \A k \in DOMAIN s : s[k] # x PROVE FALSE
  <2>1. IsFiniteSet(S \ {x}) /\ Cardinality(S \ {x}) = n - 1
    BY FS_RemoveElement
  <2>2. IsFiniteSet(1..n) /\ Cardinality(1..n) = n
    BY <1>1, FS_Interval
  <2>3. s \in [1..n -> S \ {x}]
    BY <1>2, <1>4
  <2>4. Cardinality(S \ {x}) < Cardinality(1..n)
    BY <1>1, <2>1, <2>2
  <2> HIDE DEF n
  <2>5. \E i, j \in 1..n : i # j /\ s[i] = s[j]
    BY <2>1, <2>2, <2>3, <2>4, FS_PigeonHole
  <2>6. QED
    BY <2>5, <1>2
<1>5. QED
  BY <1>3, <1>4

\* The first of some places in a queue is one of them and comes before the others.
LEMMA FirstPlace ==
  ASSUME NEW S \in SUBSET Nat, S # {}
  PROVE  Min(S) \in S /\ \A k \in S : Min(S) <= k
<1> DEFINE R == {ss \in Nat \X Nat : ss[1] < ss[2]}
<1>1. R = OpToRel(<, Nat)
  BY Zenon DEF OpToRel
<1>2. IsWellFoundedOn(R, Nat)
  BY Zenon, <1>1, NatLessThanWellFounded
<1>3. \A m, n \in Nat : m < n => <<m, n>> \in R
  OBVIOUS
<1> HIDE DEF R
<1>4. PICK x \in S : \A y \in S : ~(<<y, x>> \in R)
  BY <1>2, WFMin
<1>5. ASSUME NEW y \in S PROVE x <= y
  <2>1. x \in Nat /\ y \in Nat
    OBVIOUS
  <2>2. ~(y < x)
    BY <2>1, <1>3, <1>4
  <2>3. QED
    BY <2>1, <2>2
<1>6. QED
  BY <1>5 DEF Min

-----------------------------------------------------------------------------
(* Each operation preserves the invariant. *)

LEMMA InitIInv == ASSUME ParanoidDigestAssumption, Init PROVE IInv
<1>1. TypeOK
  BY DEF ParanoidDigestAssumption, Init, TypeOK
<1>2. TwinAgrees /\ SiftedRight
  BY DEF Init, TwinAgrees, SiftedRight, Sifted
<1>3. ChildrenAreFull /\ ChildrenDiffer /\ ChildrenAreTried
  BY DEF Init, ChildrenAreFull, ChildrenDiffer, ChildrenAreTried
<1>4. QED
  BY <1>1, <1>2, <1>3 DEF IInv

\* A device thread starts a file, with all children in the queue of its digest.
LEMMA ReassignIInv ==
  ASSUME ParanoidDigestAssumption, IInv, NEW f \in Files, ReassignChecksum(f)
  PROVE  IInv'
<1>1. PICK candidates \in SetToSeqs(children) :
        incoming_twin_candidates' = [incoming_twin_candidates EXCEPT ![f] = candidates]
  BY DEF ReassignChecksum
<1>2. /\ in_progress_digests' = in_progress_digests \cup {f}
      /\ UNCHANGED <<buffers, twin_candidate, twin_candidate_buffer, children, child>>
  BY DEF ReassignChecksum, digestVars
<1>3. IsFiniteSet(children)
  BY FS_Subset DEF ParanoidDigestAssumption, IInv, TypeOK
<1>4. /\ candidates \in Seq(children)
      /\ \A c \in children : \E k \in DOMAIN candidates : candidates[k] = c
  BY <1>3, Enumerations
<1>5. TypeOK'
  BY <1>1, <1>2, <1>4 DEF IInv, TypeOK
<1>6. TwinAgrees' /\ SiftedRight'
  BY <1>2 DEF IInv, TwinAgrees, SiftedRight, Sifted
<1>7. ChildrenAreFull' /\ ChildrenDiffer'
  BY <1>2 DEF IInv, ChildrenAreFull, ChildrenDiffer
<1>8. ChildrenAreTried'
  <2> SUFFICES ASSUME NEW h \in in_progress_digests', NEW c \in children'
               PROVE  \/ twin_candidate'[h] = c
                      \/ Queued(h, c)'
                      \/ ~SamePrefix(h, c, buffers'[h])
    BY DEF ChildrenAreTried
  <2>1. CASE h = f
    BY <2>1, <1>1, <1>2, <1>4 DEF IInv, TypeOK, Queued
  <2>2. CASE h # f
    BY <2>2, <1>1, <1>2 DEF IInv, TypeOK, ChildrenAreTried, Queued
  <2>3. QED
    BY <2>1, <2>2
<1>9. QED
  BY <1>5, <1>6, <1>7, <1>8 DEF IInv

\* What an update leaves alone, of the other digests and of the children.
LEMMA UpdateIInv ==
  ASSUME ParanoidDigestAssumption, IInv, NEW f \in Files, f \in in_progress_digests,
         buffers[f] < Length, buffers' = [buffers EXCEPT ![f] = @ + 1],
         UNCHANGED <<in_progress_digests, children, child>>,
         NEW t \in children \cup {None}, NEW q \in Seq(children), NEW place \in 0..Length + 1,
         twin_candidate' = [twin_candidate EXCEPT ![f] = t],
         twin_candidate_buffer' = [twin_candidate_buffer EXCEPT ![f] = place],
         incoming_twin_candidates' = [incoming_twin_candidates EXCEPT ![f] = q],
         t # None => SamePrefix(f, t, buffers[f] + 1) /\ place = buffers[f] + 2,
         \A c \in children : \/ t = c
                             \/ \E k \in DOMAIN q : q[k] = c
                             \/ ~SamePrefix(f, c, buffers[f] + 1)
  PROVE  IInv'
<1>1. buffers[f] \in Nat /\ buffers[f] + 1 \in 0..Length /\ Length \in Nat
  BY DEF IInv, TypeOK, ParanoidDigestAssumption
<1>2. /\ buffers'[f] = buffers[f] + 1 /\ \A h \in Files \ {f} : buffers'[h] = buffers[h]
      /\ twin_candidate'[f] = t /\ \A h \in Files \ {f} : twin_candidate'[h] = twin_candidate[h]
      /\ twin_candidate_buffer'[f] = place
      /\ \A h \in Files \ {f} : twin_candidate_buffer'[h] = twin_candidate_buffer[h]
      /\ incoming_twin_candidates'[f] = q
      /\ \A h \in Files \ {f} : incoming_twin_candidates'[h] = incoming_twin_candidates[h]
  BY DEF IInv, TypeOK
<1>3. TypeOK'
  BY <1>1 DEF IInv, TypeOK
<1>4. TwinAgrees'
  <2> SUFFICES ASSUME NEW h \in Files, twin_candidate'[h] # None
               PROVE  /\ SamePrefix(h, twin_candidate'[h], buffers'[h])
                      /\ twin_candidate_buffer'[h] = buffers'[h] + 1
    BY DEF TwinAgrees
  <2>1. CASE h = f
    BY <2>1, <1>1, <1>2
  <2>2. CASE h # f
    BY <2>2, <1>2 DEF IInv, TwinAgrees
  <2>3. QED
    BY <2>1, <2>2
<1>5. ChildrenAreFull'
  BY <1>2 DEF IInv, TypeOK, ChildrenAreFull, ParanoidDigestAssumption
<1>6. ChildrenDiffer' /\ SiftedRight'
  BY DEF IInv, ChildrenDiffer, SiftedRight, Sifted
<1>7. ChildrenAreTried'
  <2> SUFFICES ASSUME NEW h \in in_progress_digests, NEW c \in children
               PROVE  \/ twin_candidate'[h] = c
                      \/ \E k \in DOMAIN incoming_twin_candidates'[h] :
                           incoming_twin_candidates'[h][k] = c
                      \/ ~SamePrefix(h, c, buffers'[h])
    BY DEF ChildrenAreTried, Queued
  <2>1. CASE h = f
    BY <2>1, <1>2
  <2>2. CASE h # f
    BY <2>2, <1>2 DEF IInv, TypeOK, ChildrenAreTried, Queued
  <2>3. QED
    BY <2>1, <2>2
<1>8. QED
  BY <1>3, <1>4, <1>5, <1>6, <1>7 DEF IInv

\* A buffer arrives and agrees with that of the twin.
LEMMA KeepTwinIInv ==
  ASSUME ParanoidDigestAssumption, IInv, NEW f \in Files, BufferedUpdate(f),
         twin_candidate[f] # None,
         Content[f][buffers[f] + 1] = Content[twin_candidate[f]][twin_candidate_buffer[f]],
         KeepTwin(f)
  PROVE  IInv'
<1> DEFINE n == buffers[f]
           t == twin_candidate[f]
           q == incoming_twin_candidates[f]
<1>1. /\ n \in Nat /\ n < Length /\ Length \in Nat
      /\ t \in children /\ q \in Seq(children)
  BY DEF BufferedUpdate, IInv, TypeOK, ParanoidDigestAssumption
<1>2. SamePrefix(f, t, n) /\ twin_candidate_buffer[f] = n + 1
  BY DEF IInv, TwinAgrees
<1>3. SamePrefix(f, t, n + 1)
  BY <1>1, <1>2, NextPrefix
<1>4. /\ twin_candidate' = [twin_candidate EXCEPT ![f] = t]
      /\ incoming_twin_candidates' = [incoming_twin_candidates EXCEPT ![f] = q]
  BY DEF KeepTwin, IInv, TypeOK
<1>5. twin_candidate_buffer' = [twin_candidate_buffer EXCEPT ![f] = n + 2]
  <2>1. twin_candidate_buffer[f] + 1 = n + 2
    BY <1>1, <1>2
  <2>2. QED
    BY <2>1 DEF KeepTwin
<1>6. \A c \in children : \/ t = c
                          \/ \E k \in DOMAIN q : q[k] = c
                          \/ ~SamePrefix(f, c, n + 1)
  BY <1>1, NextPrefix DEF BufferedUpdate, IInv, ChildrenAreTried, Queued
<1>7. /\ f \in in_progress_digests /\ buffers' = [buffers EXCEPT ![f] = @ + 1]
      /\ UNCHANGED <<in_progress_digests, children, child>>
  BY DEF BufferedUpdate
<1>8. n + 2 \in 0..Length + 1
  BY <1>1
<1>9. QED
  BY <1>1, <1>3, <1>4, <1>5, <1>6, <1>7, <1>8, UpdateIInv

\* It does not: the candidates of the queue are tried, until one agrees.
LEMMA FindTwinIInv ==
  ASSUME ParanoidDigestAssumption, IInv, NEW f \in Files, BufferedUpdate(f),
         \/ twin_candidate[f] = None
         \/ Content[f][buffers[f] + 1] # Content[twin_candidate[f]][twin_candidate_buffer[f]],
         FindTwin(f)
  PROVE  IInv'
<1> DEFINE n == buffers[f]
           queue == incoming_twin_candidates[f]
           found == {k \in DOMAIN queue : Matches(f, queue[k])}
           taken == IF found = {} THEN Len(queue) ELSE Min(found)
           t == IF found = {} THEN None ELSE queue[taken]
           place == IF found = {} THEN 0 ELSE n + 2
           rest == SubSeq(queue, taken + 1, Len(queue))
<1>1. /\ n \in Nat /\ n < Length /\ Length \in Nat /\ queue \in Seq(children)
  BY DEF BufferedUpdate, IInv, TypeOK, ParanoidDigestAssumption
<1>2. /\ Len(queue) \in Nat /\ DOMAIN queue = 1..Len(queue)
      /\ \A k \in 1..Len(queue) : queue[k] \in children
  BY <1>1
<1>3. found # {} => taken \in found /\ \A k \in found : taken <= k
  <2>1. found \in SUBSET Nat
    BY <1>2
  <2> HIDE DEF found
  <2>2. QED
    BY <2>1, FirstPlace
<1>4. taken \in 0..Len(queue) /\ \A k \in found : taken <= k
  BY <1>2, <1>3
<1>5. t \in children \cup {None} /\ place \in 0..Length + 1
  <2>1. found # {} => queue[taken] \in children
    BY <1>2, <1>3
  <2> HIDE DEF found, taken, queue, n
  <2>2. QED
    BY <1>1, <2>1
<1>6. /\ rest \in Seq(children)
      /\ DOMAIN rest = 1..Len(queue) - taken
      /\ \A k \in 1..Len(queue) - taken : rest[k] = queue[taken + k]
  <2> HIDE DEF taken, queue
  <2>1. QED
    BY <1>1, <1>2, <1>4
<1>7. t # None => SamePrefix(f, t, n + 1) /\ place = n + 2
  BY <1>3 DEF Matches
<1>8. ASSUME NEW c \in children, t # c, SamePrefix(f, c, n + 1)
      PROVE  \E k \in DOMAIN rest : rest[k] = c
  <2>1. SamePrefix(f, c, n) /\ Content[f][n + 1] = Content[c][n + 1]
    <3> HIDE DEF n
    <3>1. QED
      BY <1>1, <1>8, NextPrefix
  <2>2. twin_candidate[f] # c
    <3> SUFFICES ASSUME twin_candidate[f] = c PROVE FALSE
      OBVIOUS
    <3>1. c # None
      BY DEF ParanoidDigestAssumption, IInv, TypeOK
    <3>2. twin_candidate_buffer[f] = n + 1
      BY <3>1 DEF IInv, TwinAgrees
    <3>3. QED
      BY <3>1, <3>2, <2>1
  <2>3. PICK k \in DOMAIN queue : queue[k] = c
    BY <2>1, <2>2 DEF BufferedUpdate, IInv, ChildrenAreTried, Queued
  <2>4. k \in found
    BY <2>3, <1>8 DEF Matches
  <2>5. taken <= k /\ taken # k
    BY <2>3, <2>4, <1>4, <1>8
  <2> HIDE DEF found, taken, rest, queue, n, t, place
  <2>6. k - taken \in 1..Len(queue) - taken /\ taken + (k - taken) = k
    BY <2>3, <2>5, <1>2, <1>4
  <2>7. QED
    BY <2>3, <2>6, <1>6
<1>9. /\ twin_candidate' = [twin_candidate EXCEPT ![f] = t]
      /\ twin_candidate_buffer' = [twin_candidate_buffer EXCEPT ![f] = place]
      /\ incoming_twin_candidates' = [incoming_twin_candidates EXCEPT ![f] = rest]
  BY DEF FindTwin
<1>10. /\ f \in in_progress_digests /\ buffers' = [buffers EXCEPT ![f] = @ + 1]
       /\ UNCHANGED <<in_progress_digests, children, child>>
  BY DEF BufferedUpdate
<1> HIDE DEF found, taken, rest, queue, n, t, place
<1>11. \A c \in children : \/ t = c
                           \/ \E k \in DOMAIN rest : rest[k] = c
                           \/ ~SamePrefix(f, c, n + 1)
  BY <1>8
<1>12. QED
  BY <1>1, <1>5, <1>6, <1>7, <1>9, <1>10, <1>11, UpdateIInv DEF n

LEMMA BufferedUpdateIInv ==
  ASSUME ParanoidDigestAssumption, IInv, NEW f \in Files, BufferedUpdate(f)
  PROVE  IInv'
<1>1. CASE /\ twin_candidate[f] # None
           /\ Content[f][buffers[f] + 1] = Content[twin_candidate[f]][twin_candidate_buffer[f]]
  <2>1. KeepTwin(f)
    BY <1>1 DEF BufferedUpdate
  <2>2. QED
    BY <1>1, <2>1, KeepTwinIInv
<1>2. CASE ~(/\ twin_candidate[f] # None
             /\ Content[f][buffers[f] + 1] = Content[twin_candidate[f]][twin_candidate_buffer[f]])
  <2>1. FindTwin(f)
    BY <1>2 DEF BufferedUpdate
  <2>2. QED
    BY <1>2, <2>1, FindTwinIInv
<1>3. QED
  BY <1>1, <1>2

\* The increment is complete: the file joins the child of its content, or begins one.
LEMMA SiftIInv ==
  ASSUME ParanoidDigestAssumption, IInv, NEW f \in Files, Sift(f)
  PROVE  IInv'
<1>1. /\ f \in in_progress_digests /\ buffers[f] = Length
      /\ in_progress_digests' = in_progress_digests \ {f}
      /\ UNCHANGED <<buffers, twin_candidate, twin_candidate_buffer>>
  BY DEF Sift, digestVars
<1>2. Found(f) = {c \in children : Content[c] = Content[f]}
  <2>1. ASSUME NEW c \in children
        PROVE  Shadow[c] = Shadow[f] /\ DigestEqual(c, f) <=> Content[c] = Content[f]
    BY <1>1, EqualIsTrue DEF IInv, TypeOK, ChildrenAreFull, ParanoidDigestAssumption
  <2>2. QED
    BY <2>1 DEF Found
<1>3. CASE Found(f) # {}
  <2>1. PICK c \in Found(f) : child' = [child EXCEPT ![f] = c]
    BY <1>3 DEF Sift
  <2>2. UNCHANGED <<children, incoming_twin_candidates>>
    BY <1>3 DEF Sift
  <2>3. c \in children /\ Content[c] = Content[f]
    BY <2>1, <1>2
  <2>4. TypeOK'
    BY <1>1, <2>1, <2>2, <2>3 DEF IInv, TypeOK
  <2>5. SiftedRight'
    BY <2>1, <2>3 DEF IInv, TypeOK, SiftedRight, Sifted
  <2>6. TwinAgrees' /\ ChildrenAreFull' /\ ChildrenDiffer'
    BY <1>1, <2>2 DEF IInv, TwinAgrees, ChildrenAreFull, ChildrenDiffer
  <2>7. ChildrenAreTried'
    BY <1>1, <2>2 DEF IInv, ChildrenAreTried, Queued
  <2>8. QED
    BY <2>4, <2>5, <2>6, <2>7 DEF IInv
<1>4. CASE Found(f) = {}
  <2>1. /\ child' = [child EXCEPT ![f] = f]
        /\ children' = children \cup {f}
        /\ incoming_twin_candidates' =
             [h \in Files |-> IF h \in in_progress_digests \ {f}
                              THEN Append(incoming_twin_candidates[h], f)
                              ELSE incoming_twin_candidates[h]]
    BY <1>4 DEF Sift, NewChild
  <2>2. \A c \in children : Content[c] # Content[f]
    BY <1>2, <1>4
  <2>3. TypeOK'
    <3>1. \A h \in Files : incoming_twin_candidates[h] \in Seq(children')
      BY <2>1 DEF IInv, TypeOK
    <3>2. \A h \in Files : Append(incoming_twin_candidates[h], f) \in Seq(children')
      BY <3>1, <2>1
    <3>3. incoming_twin_candidates' \in [Files -> Seq(children')]
      BY <3>1, <3>2, <2>1
    <3>4. QED
      BY <3>3, <1>1, <2>1 DEF IInv, TypeOK
  <2>4. SiftedRight'
    BY <2>1 DEF IInv, TypeOK, SiftedRight, Sifted
  <2>5. TwinAgrees' /\ ChildrenAreFull' /\ ChildrenDiffer'
    BY <1>1, <2>1, <2>2 DEF IInv, TwinAgrees, ChildrenAreFull, ChildrenDiffer
  <2>6. ChildrenAreTried'
    <3> SUFFICES ASSUME NEW h \in in_progress_digests \ {f}, NEW c \in children \cup {f}
                 PROVE  \/ twin_candidate[h] = c
                        \/ \E k \in DOMAIN Append(incoming_twin_candidates[h], f) :
                             Append(incoming_twin_candidates[h], f)[k] = c
                        \/ ~SamePrefix(h, c, buffers[h])
      BY <1>1, <2>1 DEF IInv, TypeOK, ChildrenAreTried, Queued
    <3> DEFINE q == incoming_twin_candidates[h]
    <3>1. q \in Seq(children)
      BY DEF IInv, TypeOK
    <3>2. /\ DOMAIN Append(q, f) = 1..Len(q) + 1 /\ DOMAIN q = 1..Len(q) /\ Len(q) \in Nat
          /\ Append(q, f)[Len(q) + 1] = f
          /\ \A k \in 1..Len(q) : Append(q, f)[k] = q[k]
      BY <3>1
    <3>3. CASE c = f
      BY <3>2, <3>3
    <3>4. CASE c \in children
      BY <3>2, <3>4 DEF IInv, ChildrenAreTried, Queued
    <3>5. QED
      BY <3>3, <3>4
  <2>7. QED
    BY <2>3, <2>4, <2>5, <2>6 DEF IInv
<1>5. QED
  BY <1>3, <1>4

-----------------------------------------------------------------------------
(* Theorems *)

LEMMA Initially == ParanoidDigestAssumption /\ Init => IInv
  BY InitIInv

LEMMA Inductive == ParanoidDigestAssumption /\ IInv /\ [Next]_vars => IInv'
<1> SUFFICES ASSUME ParanoidDigestAssumption, IInv, [Next]_vars PROVE IInv'
  OBVIOUS
<1>1. CASE UNCHANGED vars
  BY <1>1 DEF vars, digestVars, IInv, TypeOK, TwinAgrees, ChildrenAreFull, ChildrenDiffer,
              SiftedRight, Sifted, ChildrenAreTried, Queued
<1>2. ASSUME NEW f \in Files, ReassignChecksum(f) \/ BufferedUpdate(f) \/ Sift(f) PROVE IInv'
  BY <1>2, ReassignIInv, BufferedUpdateIInv, SiftIInv
<1>3. QED
  BY <1>1, <1>2 DEF Next, Done

\* IInv holds in every reachable state, in whatever order buffers arrive and digests are sifted.
THEOREM Invariance == ASSUME ParanoidDigestAssumption PROVE Spec => []IInv
  BY Initially, Inductive, PTL DEF Spec

\* What rm_digest_equal takes for granted of a digest with a twin (checksum.c): the two agree
\* in every buffer that has arrived, in whatever order threads filled and sifted them.
THEOREM TwinsAgree == ASSUME ParanoidDigestAssumption PROVE Spec => []TwinAgrees
<1>1. IInv => TwinAgrees
  BY DEF IInv
<1>2. QED
  BY <1>1, Invariance, PTL

LEMMA ClassesIfInvariant == IInv => ChildrenAreClasses
<1> SUFFICES ASSUME IInv, NEW f \in Files, NEW h \in Files, Sifted(f), Sifted(h)
             PROVE  child[f] = child[h] <=> Content[f] = Content[h]
  BY DEF ChildrenAreClasses
<1>1. child[f] \in children /\ child[h] \in children
  BY DEF IInv, TypeOK, Sifted
<1>2. Content[f] = Content[child[f]] /\ Content[h] = Content[child[h]]
  BY DEF IInv, SiftedRight
<1>3. QED
  BY <1>1, <1>2 DEF IInv, ChildrenDiffer

\* Paranoid hashing (rm_shred_sift with paranoid digests): two files are in the same child group
\* exactly if their increments are equal byte by byte, whatever their shadow hashes.
THEOREM GroupsAreClasses == ASSUME ParanoidDigestAssumption PROVE Spec => []ChildrenAreClasses
  BY ClassesIfInvariant, Invariance, PTL

LEMMA TriedIfInvariant == IInv /\ ParanoidDigestAssumption => EveryChildWasTried
<1> SUFFICES ASSUME IInv, ParanoidDigestAssumption, NEW f \in in_progress_digests,
                    twin_candidate[f] = None, incoming_twin_candidates[f] = <<>>,
                    NEW c \in children
             PROVE  ~SamePrefix(f, c, buffers[f])
  BY DEF EveryChildWasTried
<1>1. c # None
  BY DEF IInv, TypeOK, ParanoidDigestAssumption
<1>2. ~Queued(f, c)
  BY DEF Queued
<1>3. QED
  BY <1>1, <1>2 DEF IInv, ChildrenAreTried

\* A digest that has no twin and nothing left to try differs from every child group already
\* (rm_digest_paranoid_buffered_update): no candidate that came while it was filled is lost.
THEOREM CandidatesAreTried ==
  ASSUME ParanoidDigestAssumption PROVE Spec => []EveryChildWasTried
  BY TriedIfInvariant, Invariance, PTL
=============================================================================
