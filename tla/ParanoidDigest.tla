--------------------------- MODULE ParanoidDigest ---------------------------
(***************************************************************************)
(* Paranoid digests (lib/checksum.c) and how the files of one group are    *)
(* told apart with them (lib/shredder.c).  A paranoid digest keeps the     *)
(* buffers of an increment, which are compared byte by byte.  To have the  *)
(* comparison done when the last buffer arrives, each digest that is being *)
(* filled is compared on the fly with a candidate twin: the digest of a    *)
(* child group that is complete already.                                   *)
(*                                                                         *)
(* Each digest is filled by the hash pipe of its file.  Candidates arrive  *)
(* in its queue when its file is started, and whenever another pipe sifts  *)
(* a file into a new child group.                                          *)
(***************************************************************************)
EXTENDS Naturals, Sequences, FiniteSets, FiniteSetsExt, SequencesExt

CONSTANTS
  Files,      \* the files of the group
  Length,     \* the number of buffers of its increment
  Content,    \* Content[f]: the data of each buffer
  Shadow,     \* Shadow[f]: the shadow hash of the increment
  None        \* the NULL pointer

ParanoidDigestAssumption ==
  /\ IsFiniteSet(Files) /\ None \notin Files
  /\ Length \in Nat \ {0}
  /\ \A f \in Files : Content[f] = [k \in 1..Length |-> Content[f][k]]
  /\ \A f, h \in Files : Content[f] = Content[h] => Shadow[f] = Shadow[h]

VARIABLES
  buffers,    \* how many buffers a digest has
  twin_candidate,
  twin_candidate_buffer,   \* the place in the buffers of the twin
  incoming_twin_candidates,
  in_progress_digests,
  children,   \* the files whose digests name the child groups
  child       \* the child group a file was sifted into

digestVars == <<buffers, twin_candidate, twin_candidate_buffer>>
vars == <<digestVars, incoming_twin_candidates, in_progress_digests, children, child>>

Sifted(f) == child[f] # None
Started(f) == f \in in_progress_digests \/ Sifted(f)

Init ==
  /\ buffers = [f \in Files |-> 0]
  /\ twin_candidate = [f \in Files |-> None]
  /\ twin_candidate_buffer = [f \in Files |-> 0]
  /\ incoming_twin_candidates = [f \in Files |-> <<>>]
  /\ in_progress_digests = {}
  /\ children = {}
  /\ child = [f \in Files |-> None]

\* A device thread starts a file: the digests of all children are candidates,
\* in the order of the hash table.
ReassignChecksum(f) ==
  /\ ~Started(f)
  /\ \E candidates \in SetToSeqs(children) :
       incoming_twin_candidates' = [incoming_twin_candidates EXCEPT ![f] = candidates]
  /\ in_progress_digests' = in_progress_digests \cup {f}
  /\ UNCHANGED <<digestVars, children, child>>

\* Whether the first n buffers of two files are equal.
SamePrefix(f, h, n) == \A k \in 1..n : Content[f][k] = Content[h][k]

\* A candidate is compared with the buffers so far, the new one included.
Matches(f, c) == SamePrefix(f, c, buffers[f] + 1)

\* The twin still matches: go to its next buffer.
KeepTwin(f) ==
  /\ twin_candidate_buffer' = [twin_candidate_buffer EXCEPT ![f] = @ + 1]
  /\ UNCHANGED <<twin_candidate, incoming_twin_candidates>>

\* Take candidates from the queue until one matches; those that do not are
\* rejected.  (The list of rejects is written only without a shadow hash, and
\* every digest has one.)
FindTwin(f) ==
  LET queue == incoming_twin_candidates[f]
      found == {k \in DOMAIN queue : Matches(f, queue[k])}
      taken == IF found = {} THEN Len(queue) ELSE Min(found)
  IN  /\ twin_candidate' = [twin_candidate EXCEPT
           ![f] = IF found = {} THEN None ELSE queue[taken]]
      /\ twin_candidate_buffer' = [twin_candidate_buffer EXCEPT
           ![f] = IF found = {} THEN 0 ELSE buffers[f] + 2]
      /\ incoming_twin_candidates' = [incoming_twin_candidates EXCEPT
           ![f] = SubSeq(queue, taken + 1, Len(queue))]

\* rm_digest_paranoid_buffered_update.
BufferedUpdate(f) ==
  LET t == twin_candidate[f]
  IN  /\ f \in in_progress_digests /\ buffers[f] < Length
      /\ IF /\ t # None
            /\ Content[f][buffers[f] + 1] = Content[t][twin_candidate_buffer[f]]
         THEN KeepTwin(f) ELSE FindTwin(f)
      /\ buffers' = [buffers EXCEPT ![f] = @ + 1]
      /\ UNCHANGED <<in_progress_digests, children, child>>

\* Mutant: equal shadow hashes are taken for equal files.
DigestEqualShadow(a, b) == Shadow[a] = Shadow[b]
\* rm_digest_equal, of digests that still have their buffers.
DigestEqual(a, b) ==
  \/ twin_candidate[a] = b \/ twin_candidate[b] = a
  \/ Content[a] = Content[b]

\* g_hash_table_lookup: rm_digest_hash first, which is that of the shadow hash.
Found(f) == {c \in children : Shadow[c] = Shadow[f] /\ DigestEqual(c, f)}

NewChild(f) == children \cup {f}

\* rm_shred_sift, when the increment of f is complete: f joins a child, or
\* becomes the first of a new one, of which all that are in progress hear.
Sift(f) ==
  /\ f \in in_progress_digests /\ buffers[f] = Length
  /\ in_progress_digests' = in_progress_digests \ {f}
  /\ IF Found(f) # {}
     THEN /\ \E c \in Found(f) : child' = [child EXCEPT ![f] = c]
          /\ UNCHANGED <<children, incoming_twin_candidates>>
     ELSE /\ child' = [child EXCEPT ![f] = f]
          /\ children' = NewChild(f)
          /\ incoming_twin_candidates' = [h \in Files |->
               IF h \in in_progress_digests \ {f}
               THEN Append(incoming_twin_candidates[h], f) ELSE incoming_twin_candidates[h]]
  /\ UNCHANGED digestVars

Done == (\A f \in Files : Sifted(f)) /\ UNCHANGED vars

Next == (\E f \in Files : ReassignChecksum(f) \/ BufferedUpdate(f) \/ Sift(f)) \/ Done

Spec == Init /\ [][Next]_vars

-----------------------------------------------------------------------------
(* Properties *)

\* Every variable has its type.
TypeOK ==
  /\ buffers \in [Files -> 0..Length]
  /\ twin_candidate \in [Files -> children \cup {None}]
  /\ twin_candidate_buffer \in [Files -> 0..Length + 1]
  /\ incoming_twin_candidates \in [Files -> Seq(children)]
  /\ in_progress_digests \subseteq Files
  /\ children \subseteq Files
  /\ child \in [Files -> children \cup {None}]

\* A file that has a twin when its last buffer arrives is declared equal without
\* a look at the data, so what was compared on the way must be all of it: the
\* file agrees with its twin up to here, and the place in the twin is in step.
TwinAgrees ==
  \A f \in Files : LET t == twin_candidate[f] IN
    t # None => /\ SamePrefix(f, t, buffers[f])
                /\ twin_candidate_buffer[f] = buffers[f] + 1

\* Files end in the same child group if and only if they have the same bytes,
\* even when shadow hashes collide, and in whatever order they were hashed.
ChildrenAreClasses ==
  \A f, h \in Files : Sifted(f) /\ Sifted(h) =>
    (child[f] = child[h] <=> Content[f] = Content[h])

\* The head start is not lost: a digest without a twin that has nothing left
\* in its queue differs from every child already.
EveryChildWasTried ==
  \A f \in in_progress_digests :
    twin_candidate[f] = None /\ incoming_twin_candidates[f] = <<>> =>
      \A c \in children : ~SamePrefix(f, c, buffers[f])
=============================================================================
