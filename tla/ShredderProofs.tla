--------------------------- MODULE ShredderProofs ---------------------------
(***************************************************************************)
(* Proofs about Shredder, for any files, contents, devices and options:    *)
(* the counter num_pending is exact, no thread sifts a file of a group     *)
(* that was freed, no group is freed while its children need it, and the   *)
(* verdicts are those of Sieve.  At the end, proofs about ReadSize, which  *)
(* models what one increment of Shredder leaves out: how long it is.       *)
(***************************************************************************)
EXTENDS Shredder, Increments, FiniteSetTheorems, SequenceTheorems, TLAPS

-----------------------------------------------------------------------------
(* The inductive invariant. *)

\* Where a cluster is fits the group it is in and what was read of it.
FilesPlaced ==
  \A f \in Files :
    /\ at[f] = "input" <=> stat[Root(f)] = "none"
    /\ at[f] = "input" => shred_group[f] = Root(f) /\ offset[f] = 0
    /\ at[f] \in {"queued", "busy"} =>
         /\ offset[f] \in 0..Steps(f) /\ offset[f] < Steps(f)
         /\ shred_group[f] = GroupAt(f, offset[f])
    /\ at[f] \in {"hashing", "hashed"} =>
         /\ offset[f] \in 1..Steps(f)
         /\ shred_group[f] = GroupAt(f, offset[f] - 1)
    /\ at[f] = "held" =>
         /\ offset[f] \in 0..Steps(f)
         /\ shred_group[f] = GroupAt(f, offset[f])
         /\ stat[shred_group[f]] \in {"dormant", "finishing"}
    /\ InFlight(f) => stat[shred_group[f]] = "start_hashing"

\* The life of a group, from its creation to the moment it is freed.
GroupsLive ==
  \A g \in Groups :
    /\ g \in finalising => /\ orphan[g] /\ pending[g] = 0
                           /\ stat[g] \in {"dormant", "start_hashing"}
    /\ g \in result_pool => /\ orphan[g] /\ g \notin finalising
                            /\ stat[g] \in {"dormant", "finishing"}
    /\ stat[g] \in {"finishing", "freed"} => orphan[g] /\ g \notin finalising
    /\ stat[g] = "freed" => g \notin result_pool
    /\ stat[g] = "start_hashing" => ~Complete(g)
    /\ g.prefix = <<>> => orphan[g]

\* Parents and children: who has lost its parent has lost it for good.
Generations ==
  \A c \in Groups : c.prefix # <<>> =>
    /\ c \in orphaning => ~orphan[c] /\ stat[c] # "none"
    /\ c \in orphaning \/ orphan[c] => stat[Parent(c)] = "freed"
    /\ stat[c] # "none" /\ ~orphan[c] /\ c \notin orphaning =>
         stat[Parent(c)] = "start_hashing"

OrphansAreChildren == \A g \in orphaning : g.prefix # <<>>

IInv ==
  /\ TypeOK
  /\ FilesPlaced
  /\ GroupsLive
  /\ Generations
  /\ OrphansAreChildren
  /\ PendingIsExact
  /\ RefCountCoversWork

-----------------------------------------------------------------------------
(* Facts about the names of groups. *)

\* The number of increments of a file is a number.
LEMMA StepsType == ASSUME NEW f \in Files PROVE Steps(f) \in Nat /\ Content[f] \in Seq(Blocks)
BY FilesAssumption DEF Steps

\* What the name of a group tells of it.
LEMMA GroupAtFacts ==
  ASSUME NEW f \in Files, NEW n \in 0..Steps(f)
  PROVE  /\ GroupAt(f, n) \in Groups
         /\ GroupAt(f, n).size = Steps(f)
         /\ GroupAt(f, n).prefix \in Seq(Blocks)
         /\ Len(GroupAt(f, n).prefix) = n
         /\ \A i \in 1..n : GroupAt(f, n).prefix[i] = Content[f][i]
         /\ GroupAt(f, n).prefix = <<>> <=> n = 0
         /\ Complete(GroupAt(f, n)) <=> n = Steps(f)
<1>1. GroupAt(f, n) \in Groups
  BY DEF Groups
<1>2. Content[f] \in Seq(Blocks) /\ Steps(f) = Len(Content[f]) /\ n \in Nat
  BY StepsType DEF Steps
<1>3. DEFINE p == SubSeq(Content[f], 1, n)
<1>4. p \in Seq(Blocks) /\ Len(p) = n /\ \A i \in 1..n : p[i] = Content[f][i]
  BY <1>2
<1>5. p = <<>> <=> n = 0
  <2> HIDE DEF p
  <2> QED BY <1>4, EmptySeq
<1>6. QED
  BY <1>1, <1>4, <1>5 DEF GroupAt, Complete

\* The parent of a group of the next generation is the group it came from.
LEMMA ParentOfChild ==
  ASSUME NEW f \in Files, NEW n \in 1..Steps(f)
  PROVE  Parent(GroupAt(f, n)) = GroupAt(f, n - 1)
<1>1. Content[f] \in Seq(Blocks) /\ Steps(f) = Len(Content[f])
      /\ n \in Nat /\ n - 1 \in Nat
  BY StepsType DEF Steps
<1> DEFINE p == SubSeq(Content[f], 1, n)
           q == SubSeq(Content[f], 1, n - 1)
<1>2. p \in Seq(Blocks) /\ Len(p) = n /\ \A i \in 1..n : p[i] = Content[f][i]
  BY <1>1
<1>3. q \in Seq(Blocks) /\ Len(q) = n - 1 /\ \A i \in 1..(n - 1) : q[i] = Content[f][i]
  BY <1>1
<1>4. /\ SubSeq(p, 1, n - 1) \in Seq(Blocks)
      /\ Len(SubSeq(p, 1, n - 1)) = n - 1
      /\ \A i \in 1..(n - 1) : SubSeq(p, 1, n - 1)[i] = p[i]
  <2> HIDE DEF p
  <2> QED BY <1>1, <1>2
<1>5. SubSeq(p, 1, n - 1) = q
  <2> HIDE DEF p, q
  <2>1. \A i \in 1..(n - 1) : SubSeq(p, 1, n - 1)[i] = q[i]
    BY <1>1, <1>2, <1>3, <1>4
  <2>2. QED
    BY <1>1, <1>3, <1>4, <2>1, SeqEqual
<1>6. PICK a : /\ GroupAt(f, n) = [size |-> Steps(f), alone |-> a, prefix |-> p]
               /\ GroupAt(f, n - 1) = [size |-> Steps(f), alone |-> a, prefix |-> q]
  BY DEF GroupAt
<1>7. Parent(GroupAt(f, n)) = [size |-> Steps(f), alone |-> a,
                               prefix |-> SubSeq(p, 1, Len(p) - 1)]
  <2> HIDE DEF p, q
  <2> QED BY <1>6 DEF Parent
<1>8. QED
  <2> HIDE DEF p, q
  <2> QED BY <1>2, <1>5, <1>6, <1>7

\* Every group is the one that some file has reached.
LEMMA GroupsAreReached ==
  ASSUME NEW g \in Groups
  PROVE  \E f \in Files : \E n \in 0..Steps(f) : g = GroupAt(f, n)
BY DEF Groups

\* A group that is no root has a parent, which is another group.
LEMMA ParentFacts ==
  ASSUME NEW c \in Groups, c.prefix # <<>>
  PROVE  Parent(c) \in Groups /\ Parent(c) # c
<1>0. PICK f \in Files : \E n \in 0..Steps(f) : c = GroupAt(f, n)
  BY GroupsAreReached
<1>1. PICK n \in 0..Steps(f) : c = GroupAt(f, n)
  BY <1>0
<1>2. n \in 1..Steps(f) /\ n - 1 \in 0..Steps(f) /\ Steps(f) \in Nat
  BY <1>1, GroupAtFacts, StepsType
<1>3. Parent(c) = GroupAt(f, n - 1)
  BY <1>1, <1>2, ParentOfChild
<1>4. Len(Parent(c).prefix) = n - 1 /\ Len(c.prefix) = n
  BY <1>1, <1>2, <1>3, GroupAtFacts
<1>5. QED
  BY <1>2, <1>3, <1>4, GroupAtFacts

\* The clusters that rm_shred_process_group puts into one root group.
Class(f) == IF AllHaveExtCksum(f) THEN {f} ELSE SameSize(f)

\* Two files share their root group exactly when they are of one class.
LEMMA RootFacts ==
  ASSUME NEW f \in Files
  PROVE  /\ Root(f) \in Groups /\ Root(f).prefix = <<>> /\ f \in Class(f)
         /\ Class(f) \subseteq Files
         /\ \A h \in Files : h \in Class(f) <=> Root(h) = Root(f)
         /\ \A h \in Class(f) : Steps(h) = Steps(f)
         /\ Complete(Root(f)) <=> Steps(f) = 0
<1>1. Steps(f) \in Nat /\ 0 \in 0..Steps(f)
  BY StepsType
<1>2. Root(f) \in Groups /\ Root(f).prefix = <<>> /\ (Complete(Root(f)) <=> Steps(f) = 0)
  BY <1>1, GroupAtFacts DEF Root
<1>3. \A h \in SameSize(f) : AllHaveExtCksum(h) = AllHaveExtCksum(f)
  BY DEF SameSize, AllHaveExtCksum
<1>4. \A h \in Files : GroupAt(h, 0).prefix = <<>>
  BY GroupAtFacts, StepsType
<1>5. \A h \in Files : h \in Class(f) => Root(h) = Root(f)
  <2> SUFFICES ASSUME NEW h \in Files, h \in Class(f), h # f PROVE Root(h) = Root(f)
    OBVIOUS
  <2>1. ~AllHaveExtCksum(f) /\ h \in SameSize(f) /\ ~AllHaveExtCksum(h)
    BY <1>3 DEF Class
  <2>2. GroupAt(h, 0).prefix = GroupAt(f, 0).prefix
    BY <1>4
  <2>3. QED BY <2>1, <2>2 DEF GroupAt, Root, SameSize
<1>6. \A h \in Files : Root(h) = Root(f) => h \in Class(f)
  <2> SUFFICES ASSUME NEW h \in Files, Root(h) = Root(f) PROVE h \in Class(f)
    OBVIOUS
  <2>1. Steps(h) = Steps(f) /\ h \in SameSize(f)
    BY DEF Root, GroupAt, SameSize
  <2>2. (IF AllHaveExtCksum(h) THEN {h} ELSE {}) = (IF AllHaveExtCksum(f) THEN {f} ELSE {})
    BY DEF Root, GroupAt
  <2>3. QED BY <2>1, <2>2 DEF Class
<1>7. QED
  BY <1>2, <1>5, <1>6 DEF Class, SameSize

-----------------------------------------------------------------------------
(* Counting clusters. *)

\* Sets of files are finite and have a number of elements.
LEMMA Countable ==
  ASSUME NEW S \in SUBSET Files
  PROVE  IsFiniteSet(S) /\ Cardinality(S) \in Nat
BY FilesAssumption, FS_Subset, FS_CardinalityType

\* One file less.
LEMMA CountWithout ==
  ASSUME NEW S \in SUBSET Files, NEW f \in S
  PROVE  Cardinality(S \ {f}) = Cardinality(S) - 1 /\ Cardinality(S) > 0
BY Countable, FS_RemoveElement, FS_EmptySet

\* The files of two disjoint sets.
LEMMA CountUnion ==
  ASSUME NEW S \in SUBSET Files, NEW T \in SUBSET Files, S \cap T = {}
  PROVE  Cardinality(S \cup T) = Cardinality(S) + Cardinality(T)
<1>1. IsFiniteSet(S) /\ IsFiniteSet(T) /\ Cardinality(S) \in Nat /\ Cardinality(T) \in Nat
  BY Countable
<1>2. Cardinality(S \cup T) = Cardinality(S) + Cardinality(T) - Cardinality(S \cap T)
  BY <1>1, FS_Union
<1>3. Cardinality(S \cap T) = 0
  BY FS_EmptySet
<1>4. QED
  BY <1>1, <1>2, <1>3

\* One file more.
LEMMA CountWith ==
  ASSUME NEW S \in SUBSET Files, NEW f \in Files \ S
  PROVE  Cardinality(S \cup {f}) = Cardinality(S) + 1
BY Countable, FS_AddElement

\* The files of a part of a set, and what is left.
LEMMA CountRest ==
  ASSUME NEW S \in SUBSET Files, NEW T \in SUBSET S
  PROVE  Cardinality(S \ T) = Cardinality(S) - Cardinality(T)
<1>1. (S \ T) \cup T = S /\ (S \ T) \cap T = {}
  OBVIOUS
<1>2. Cardinality(S) = Cardinality(S \ T) + Cardinality(T)
  BY <1>1, CountUnion
<1>3. QED
  BY <1>2, Countable

-----------------------------------------------------------------------------
(* The invariant holds initially. *)

LEMMA InitIInv == Init => IInv
<1> SUFFICES ASSUME Init PROVE IInv
  OBVIOUS
<1> USE DEF Init
<1>1. TypeOK
  BY RootFacts DEF TypeOK, Status, Places, Undecided
<1>2. FilesPlaced
  BY RootFacts DEF FilesPlaced, InFlight
<1>3. GroupsLive /\ Generations /\ OrphansAreChildren
  BY DEF GroupsLive, Generations, OrphansAreChildren
<1>4. PendingIsExact
  <2>1. \A g \in Groups : Pending(g) = {}
    BY DEF Pending, InFlight
  <2>2. QED BY <2>1, FS_EmptySet DEF PendingIsExact
<1>5. RefCountCoversWork
  <2>1. \A d \in Devices :
          {f \in Files : Disk[f] = d /\ at[f] \notin {"input", "out"}} = {}
    OBVIOUS
  <2>2. QED BY <2>1, FS_EmptySet DEF RefCountCoversWork
<1>6. QED
  BY <1>1, <1>2, <1>3, <1>4, <1>5 DEF IInv

-----------------------------------------------------------------------------
(* Steps that only move one cluster between a queue, a thread and a pipe. *)

Tracked(d) == {f \in Files : Disk[f] = d /\ at[f] \notin {"input", "out"}}

LEMMA MoveInFlight ==
  ASSUME IInv, NEW f \in Files, InFlight(f),
         UNCHANGED <<groupVars, shred_group, workVars, ref_count, aborted, verdict>>,
         TypeOK', FilesPlaced', InFlight(f)',
         \A h \in Files \ {f} : at'[h] = at[h]
  PROVE  IInv'
<1> USE DEF IInv, groupVars, workVars
<1>1. GroupsLive' /\ Generations' /\ OrphansAreChildren'
  BY DEF GroupsLive, Generations, OrphansAreChildren
<1>2. \A g \in Groups : Pending(g)' = Pending(g)
  BY DEF Pending, InFlight
<1>3. PendingIsExact'
  BY <1>2 DEF PendingIsExact
<1>4. \A d \in Devices : Tracked(d)' = Tracked(d)
  BY DEF Tracked, InFlight
<1>5. RefCountCoversWork'
  BY <1>4 DEF RefCountCoversWork, Tracked
<1>6. QED
  BY <1>1, <1>3, <1>5

LEMMA ProcessFileIInv == ASSUME IInv, NEW f \in Files, ProcessFile(f) PROVE IInv'
<1> USE DEF ProcessFile, groupVars, workVars
<1>1. TypeOK'
  BY DEF IInv, TypeOK, Places
<1>2. FilesPlaced' /\ InFlight(f) /\ InFlight(f)'
  BY DEF IInv, TypeOK, FilesPlaced, InFlight
<1>3. QED
  BY <1>1, <1>2, MoveInFlight DEF IInv, TypeOK

LEMMA ReadIncrementIInv == ASSUME IInv, NEW f \in Files, ReadIncrement(f) PROVE IInv'
<1> USE DEF ReadIncrement, groupVars, workVars
<1>1. TypeOK'
  BY DEF IInv, TypeOK, Places
<1>2. FilesPlaced' /\ InFlight(f) /\ InFlight(f)'
  BY StepsType DEF IInv, TypeOK, FilesPlaced, InFlight
<1>3. QED
  BY <1>1, <1>2, MoveInFlight DEF IInv, TypeOK

LEMMA WakeWaiterIInv ==
  ASSUME IInv, NEW f \in Files, HashCallback(f), waiting[f]
  PROVE  IInv'
<1> USE DEF HashCallback, groupVars, workVars
<1>1. TypeOK'
  BY DEF IInv, TypeOK, Places
<1>2. FilesPlaced' /\ InFlight(f) /\ InFlight(f)'
  BY DEF IInv, TypeOK, FilesPlaced, InFlight
<1>3. QED
  BY <1>1, <1>2, MoveInFlight DEF IInv, TypeOK

-----------------------------------------------------------------------------
(* Steps of groups. *)

LEMMA MakeOrphanIInv == ASSUME IInv, NEW c \in Groups, MakeOrphan(c) PROVE IInv'
<1> USE DEF MakeOrphan, fileVars
<1>0. c.prefix # <<>> /\ stat[Parent(c)] = "freed" /\ stat[c] \in {"dormant", "start_hashing"}
      /\ ~orphan[c] /\ c \notin finalising /\ c \notin result_pool
  BY DEF IInv, OrphansAreChildren, Generations, GroupsLive, TypeOK, Status
<1>1. TypeOK'
  BY DEF IInv, TypeOK
<1>2. FilesPlaced'
  BY DEF IInv, FilesPlaced, InFlight
<1>3. GroupsLive'
  BY <1>0 DEF IInv, GroupsLive, TypeOK
<1>4. Generations' /\ OrphansAreChildren'
  BY <1>0 DEF IInv, Generations, OrphansAreChildren, TypeOK
<1>5. PendingIsExact' /\ RefCountCoversWork'
  BY DEF IInv, PendingIsExact, Pending, InFlight, RefCountCoversWork
<1>6. QED
  BY <1>1, <1>2, <1>3, <1>4, <1>5 DEF IInv

\* A group whose counter is zero has no cluster on its way.
LEMMA NothingPending ==
  ASSUME IInv, NEW g \in Groups, pending[g] = 0
  PROVE  \A f \in Files : InFlight(f) => shred_group[f] # g
<1>1. Pending(g) \in SUBSET Files
  BY DEF Pending
<1>2. Cardinality(Pending(g)) = 0
  BY DEF IInv, PendingIsExact
<1>3. Pending(g) = {}
  BY <1>1, <1>2, Countable, FS_EmptySet
<1>4. QED
  BY <1>3 DEF Pending

LEMMA FinaliseIInv == ASSUME IInv, NEW g \in Groups, Finalise(g) PROVE IInv'
<1> USE DEF Finalise, FinalStatus, Orphans, fileVars
<1>0. orphan[g] /\ pending[g] = 0 /\ stat[g] \in {"dormant", "start_hashing"}
      /\ g \notin result_pool /\ g \notin orphaning
  BY DEF IInv, GroupsLive, OrphansAreChildren, Generations
<1>1. TypeOK'
  BY DEF IInv, TypeOK, Status, Children
<1>2. \A f \in Files : InFlight(f) => shred_group[f] # g
  BY <1>0, NothingPending
<1>3. FilesPlaced'
  BY <1>0, <1>2, RootFacts DEF IInv, FilesPlaced, InFlight, TypeOK
<1>4. GroupsLive'
  BY <1>0 DEF IInv, GroupsLive, TypeOK
<1>5. Generations' /\ OrphansAreChildren'
  <2>1. CASE stat[g] = "dormant"
    BY <1>0, <2>1, ParentFacts DEF IInv, Generations, OrphansAreChildren, TypeOK
  <2>2. CASE stat[g] = "start_hashing"
    <3>1. /\ stat' = [stat EXCEPT ![g] = "freed"]
          /\ orphaning' = orphaning \cup {c \in Children(g) : stat[c] # "none"}
      BY <2>2
    <3>2. \A c \in Groups : c.prefix # <<>> /\ c \in orphaning' \ orphaning =>
                              Parent(c) = g /\ stat[c] # "none" /\ ~orphan[c]
      BY <2>2, <3>1 DEF IInv, Generations, Children
    <3>3. \A c \in Groups : c.prefix # <<>> /\ Parent(c) = g /\ stat[c] # "none" => c \in orphaning'
      BY <3>1 DEF Children
    <3>4. Generations'
      BY <1>0, <3>1, <3>2, <3>3, ParentFacts DEF IInv, Generations, TypeOK
    <3>5. OrphansAreChildren'
      BY <3>1 DEF IInv, OrphansAreChildren, Children
    <3>6. QED BY <3>4, <3>5
  <2>3. QED BY <1>0, <2>1, <2>2
<1>6. PendingIsExact' /\ RefCountCoversWork'
  BY DEF IInv, PendingIsExact, Pending, InFlight, RefCountCoversWork
<1>7. QED
  BY <1>1, <1>3, <1>4, <1>5, <1>6 DEF IInv

\* What discarding the clusters of S does to the counters of the devices.
LEMMA DiscardRefCount ==
  ASSUME IInv, NEW S \in SUBSET Files, NEW reason, Discard(S, reason),
         \A f \in S : at[f] \notin {"input", "out"} /\ at'[f] = "out",
         \A f \in Files \ S : at[f] \notin {"input", "out"} <=> at'[f] \notin {"input", "out"}
  PROVE  RefCountCoversWork' /\ ref_count' \in [Devices -> Nat]
<1> SUFFICES ASSUME NEW d \in Devices
             PROVE  ref_count'[d] = Cardinality(Tracked(d)') /\ ref_count'[d] \in Nat
  BY DEF RefCountCoversWork, Tracked, Discard
<1> DEFINE gone == {h \in S : Disk[h] = d}
<1>1. gone \in SUBSET Tracked(d) /\ Tracked(d) \in SUBSET Files /\ Tracked(d)' \in SUBSET Files
  BY DEF Tracked
<1>2. Tracked(d)' = Tracked(d) \ gone
  BY DEF Tracked
<1>3. Cardinality(Tracked(d)') = Cardinality(Tracked(d)) - Cardinality(gone)
  BY <1>1, <1>2, CountRest
<1>4. ref_count[d] = Cardinality(Tracked(d))
  BY DEF IInv, RefCountCoversWork, Tracked
<1>5. ref_count'[d] = ref_count[d] - Cardinality(gone)
  BY DEF Discard
<1>6. QED
  BY <1>1, <1>3, <1>4, <1>5, Countable

LEMMA ResultFactoryIInv == ASSUME IInv, NEW g \in Groups, ResultFactory(g) PROVE IInv'
<1> USE DEF ResultFactory
<1>0. orphan[g] /\ stat[g] \in {"dormant", "finishing"} /\ g \notin finalising
      /\ g \notin orphaning /\ Held(g) \in SUBSET Files
  BY DEF IInv, GroupsLive, OrphansAreChildren, Generations, Held
<1>1. RefCountCoversWork' /\ ref_count' \in [Devices -> Nat]
  <2> DEFINE reason == [kind  |-> IF stat[g] = "finishing" THEN "dup" ELSE "unique",
                        twins |-> Held(g)]
  <2>1. \A f \in Held(g) : at[f] \notin {"input", "out"} /\ at'[f] = "out"
    BY DEF Held
  <2>2. \A f \in Files \ Held(g) : at'[f] = at[f]
    OBVIOUS
  <2>3. Discard(Held(g), reason)
    OBVIOUS
  <2>4. QED BY <1>0, <2>1, <2>2, <2>3, DiscardRefCount
<1>2. TypeOK'
  <2>1. stat' \in [Groups -> Status] /\ at' \in [Files -> Places] /\ result_pool' \subseteq Groups
    BY DEF IInv, TypeOK, Status, Places
  <2>2. verdict' \in [Files -> [kind : {"none", "ignored", "dup", "unique"},
                                twins : SUBSET Files]]
    BY <1>0 DEF IInv, TypeOK, Discard
  <2>3. QED BY <1>1, <2>1, <2>2 DEF IInv, TypeOK
<1>3. FilesPlaced'
  BY <1>0, RootFacts DEF IInv, FilesPlaced, InFlight, TypeOK, Held
<1>4. GroupsLive'
  BY <1>0 DEF IInv, GroupsLive, TypeOK
<1>5. Generations' /\ OrphansAreChildren'
  BY <1>0, ParentFacts DEF IInv, Generations, OrphansAreChildren, TypeOK
<1>6. PendingIsExact'
  <2>1. \A h \in Groups : Pending(h)' = Pending(h)
    BY DEF Pending, InFlight, Held
  <2>2. QED BY <2>1 DEF IInv, PendingIsExact
<1>7. QED
  BY <1>1, <1>2, <1>3, <1>4, <1>5, <1>6 DEF IInv

-----------------------------------------------------------------------------
(* Filling a root group. *)

LEMMA PreprocessIInv == ASSUME IInv, NEW f \in Files, Preprocess(f) PROVE IInv'
<1> DEFINE r   == Root(f)
           new == StatusWith(r, Class(f))
           n   == Cardinality(Class(f))
<1>0. /\ stat' = [stat EXCEPT ![r] = new]
      /\ members' = [members EXCEPT ![r] = Class(f)]
      /\ pending' = [pending EXCEPT ![r] = IF new = "dormant" THEN 0 ELSE n]
      /\ at' = [h \in Files |-> IF h \notin Class(f) THEN at[h]
                                ELSE IF new = "dormant" THEN "held" ELSE "queued"]
      /\ ref_count' = [d \in Devices |->
                         ref_count[d] + Cardinality({h \in Class(f) : Disk[h] = d})]
      /\ finalising' = IF new = "dormant" THEN finalising \cup {r} ELSE finalising
      /\ UNCHANGED <<orphan, offset, shred_group, failed, waiting, orphaning,
                     result_pool, aborted, verdict>>
      /\ at[f] = "input"
  BY DEF Preprocess, Class
<1>1. /\ r \in Groups /\ r.prefix = <<>> /\ f \in Class(f) /\ Class(f) \in SUBSET Files
      /\ \A h \in Files : h \in Class(f) <=> Root(h) = r
      /\ \A h \in Class(f) : Steps(h) = Steps(f)
      /\ Complete(r) <=> Steps(f) = 0
      /\ n \in Nat
  BY RootFacts, Countable
<1>2. /\ stat[r] = "none" /\ orphan[r] /\ r \notin finalising /\ r \notin result_pool
      /\ \A h \in Class(f) : at[h] = "input" /\ shred_group[h] = r /\ offset[h] = 0
  <2>1. stat[r] = "none"
    BY <1>0 DEF IInv, FilesPlaced
  <2>2. \A h \in Class(f) : at[h] = "input" /\ shred_group[h] = r /\ offset[h] = 0
    BY <1>1, <2>1 DEF IInv, FilesPlaced
  <2>3. r \notin finalising /\ r \notin result_pool
    BY <1>1, <2>1 DEF IInv, GroupsLive
  <2>4. orphan[r]
    BY <1>1 DEF IInv, GroupsLive
  <2>5. QED BY <2>1, <2>2, <2>3, <2>4
<1>3. /\ new \in {"dormant", "start_hashing"}
      /\ new = "start_hashing" => ~Complete(r)
  BY <1>2 DEF StatusWith
<1> HIDE DEF r, new, n
<1>4. TypeOK'
  <2>1. /\ stat' \in [Groups -> Status] /\ members' \in [Groups -> SUBSET Files]
        /\ pending' \in [Groups -> Nat] /\ at' \in [Files -> Places]
        /\ finalising' \subseteq Groups
    BY <1>0, <1>1, <1>3 DEF IInv, TypeOK, Status, Places
  <2>2. ref_count' \in [Devices -> Nat]
    <3>1. \A d \in Devices : Cardinality({h \in Class(f) : Disk[h] = d}) \in Nat
      <4> TAKE d \in Devices
      <4>1. {h \in Class(f) : Disk[h] = d} \in SUBSET Files
        BY <1>1
      <4>2. QED BY <4>1, Countable
    <3>2. QED BY <1>0, <3>1 DEF IInv, TypeOK
  <2>3. QED BY <1>0, <2>1, <2>2 DEF IInv, TypeOK
<1>5. FilesPlaced'
  <2> SUFFICES ASSUME NEW h \in Files
               PROVE  FilesPlaced!(h)'
    BY DEF FilesPlaced
  <2>1. CASE h \in Class(f)
    <3>1. /\ Root(h) = r /\ stat'[r] = new /\ offset'[h] = 0 /\ shred_group'[h] = r
          /\ at'[h] = IF new = "dormant" THEN "held" ELSE "queued"
      BY <1>0, <1>1, <1>2, <2>1 DEF IInv, TypeOK
    <3>2. r = GroupAt(h, 0) /\ Steps(h) \in Nat /\ (Complete(r) <=> Steps(h) = 0)
      BY <1>1, <2>1, <3>1, StepsType DEF Root
    <3>3. QED BY <1>3, <3>1, <3>2 DEF InFlight
  <2>2. CASE h \notin Class(f)
    <3>1. Root(h) # r /\ Root(h) \in Groups /\ at'[h] = at[h] /\ offset'[h] = offset[h]
          /\ shred_group'[h] = shred_group[h]
      BY <1>0, <1>1, <2>2, RootFacts
    <3>2. stat'[Root(h)] = stat[Root(h)]
      BY <1>0, <3>1 DEF IInv, TypeOK
    <3>3. at[h] # "input" /\ at[h] # "out" => shred_group[h] # r
      BY <1>2 DEF IInv, FilesPlaced, TypeOK, InFlight, Places
    <3>4. at[h] # "input" /\ at[h] # "out" => stat'[shred_group[h]] = stat[shred_group[h]]
      BY <1>0, <3>3 DEF IInv, TypeOK
    <3>5. QED BY <3>1, <3>2, <3>4 DEF IInv, FilesPlaced, InFlight
  <2>3. QED BY <2>1, <2>2
<1>6. GroupsLive'
  BY <1>0, <1>1, <1>2, <1>3 DEF IInv, GroupsLive, TypeOK
<1>7. Generations' /\ OrphansAreChildren'
  BY <1>0, <1>1, <1>2, <1>3, ParentFacts DEF IInv, Generations, OrphansAreChildren, TypeOK
<1>8. PendingIsExact'
  <2> SUFFICES ASSUME NEW g \in Groups PROVE pending'[g] = Cardinality(Pending(g)')
    BY DEF PendingIsExact
  <2>1. CASE g = r /\ new = "dormant"
    <3>1. Pending(r)' = {}
      BY <1>0, <1>2, <2>1 DEF Pending, InFlight, IInv, FilesPlaced
    <3>2. QED BY <1>0, <1>1, <2>1, <3>1, FS_EmptySet DEF IInv, TypeOK
  <2>2. CASE g = r /\ new # "dormant"
    <3>1. Pending(r)' = Class(f)
      BY <1>0, <1>1, <1>2, <2>2 DEF Pending, InFlight, IInv, FilesPlaced
    <3>2. QED BY <1>0, <1>1, <2>2, <3>1 DEF IInv, TypeOK, n
  <2>3. CASE g # r
    <3>1. Pending(g)' = Pending(g)
      BY <1>0, <1>2, <2>3 DEF Pending, InFlight
    <3>2. QED BY <1>0, <1>1, <2>3, <3>1 DEF IInv, PendingIsExact, TypeOK
  <2>4. QED BY <2>1, <2>2, <2>3
<1>9. RefCountCoversWork'
  <2> SUFFICES ASSUME NEW d \in Devices PROVE ref_count'[d] = Cardinality(Tracked(d)')
    BY DEF RefCountCoversWork, Tracked
  <2> DEFINE come == {h \in Class(f) : Disk[h] = d}
  <2>1. Tracked(d)' = Tracked(d) \cup come /\ Tracked(d) \cap come = {}
        /\ Tracked(d) \in SUBSET Files /\ come \in SUBSET Files
    BY <1>0, <1>1, <1>2 DEF Tracked
  <2>2. Cardinality(Tracked(d)') = Cardinality(Tracked(d)) + Cardinality(come)
    BY <2>1, CountUnion
  <2>3. QED BY <1>0, <2>2 DEF IInv, RefCountCoversWork, Tracked
<1>10. QED
  BY <1>4, <1>5, <1>6, <1>7, <1>8, <1>9 DEF IInv

-----------------------------------------------------------------------------
(* The critical section of rm_shred_sift. *)

\* One cluster of a group that is in flight: its group is alive, its counter is
\* not zero and, if it lost its parent, no one is finalising it yet.
LEMMA InFlightFacts ==
  ASSUME IInv, NEW f \in Files, InFlight(f)
  PROVE  /\ shred_group[f] \in Groups
         /\ stat[shred_group[f]] = "start_hashing"
         /\ pending[shred_group[f]] > 0
         /\ pending[shred_group[f]] = Cardinality(Pending(shred_group[f]))
         /\ f \in Pending(shred_group[f])
         /\ shred_group[f] \notin finalising
         /\ shred_group[f] \notin result_pool
<1>1. shred_group[f] \in Groups /\ stat[shred_group[f]] = "start_hashing"
  BY DEF IInv, FilesPlaced, TypeOK
<1>2. f \in Pending(shred_group[f]) /\ Pending(shred_group[f]) \in SUBSET Files
  BY DEF Pending
<1>3. pending[shred_group[f]] = Cardinality(Pending(shred_group[f]))
      /\ pending[shred_group[f]] > 0
  BY <1>1, <1>2, CountWithout DEF IInv, PendingIsExact
<1>4. shred_group[f] \notin finalising /\ shred_group[f] \notin result_pool
  BY <1>1, <1>3 DEF IInv, GroupsLive
<1>5. QED
  BY <1>1, <1>2, <1>3, <1>4

\* A file that could not be read leaves its group.
LEMMA SiftIgnoreIInv ==
  ASSUME IInv, NEW f \in Files, InFlight(f), Sift(f, TRUE),
         failed' \in [Files -> BOOLEAN]
  PROVE  IInv'
<1> DEFINE g == shred_group[f]
<1>1. /\ g \in Groups /\ stat[g] = "start_hashing" /\ pending[g] > 0
      /\ pending[g] = Cardinality(Pending(g)) /\ f \in Pending(g)
      /\ g \notin finalising /\ g \notin result_pool
      /\ Pending(g) \in SUBSET Files
  BY InFlightFacts DEF Pending
<1>2. /\ pending' = [pending EXCEPT ![g] = @ - 1]
      /\ at' = [at EXCEPT ![f] = "out"]
      /\ Discard({f}, Ignored)
      /\ finalising' = IF orphan[g] /\ pending'[g] = 0 THEN finalising \cup {g} ELSE finalising
      /\ UNCHANGED <<stat, members, shred_group, orphan, offset, waiting, orphaning,
                     result_pool, aborted>>
  BY DEF Sift, LastFileLeft
<1>3. at[f] \notin {"input", "out", "held"} /\ at'[f] = "out"
      /\ \A h \in Files \ {f} : at'[h] = at[h]
  BY <1>2 DEF InFlight, IInv, TypeOK
<1>4. RefCountCoversWork' /\ ref_count' \in [Devices -> Nat]
  <2>1. {f} \in SUBSET Files
    OBVIOUS
  <2>2. QED BY <1>2, <1>3, <2>1, DiscardRefCount
<1> HIDE DEF g
<1>5. TypeOK'
  <2>1. /\ pending' \in [Groups -> Nat] /\ at' \in [Files -> Places]
        /\ finalising' \subseteq Groups
    BY <1>1, <1>2 DEF IInv, TypeOK, Places
  <2>2. verdict' \in [Files -> [kind : {"none", "ignored", "dup", "unique"},
                                twins : SUBSET Files]]
    BY <1>2 DEF IInv, TypeOK, Discard, Ignored
  <2>3. QED BY <1>2, <1>4, <2>1, <2>2 DEF IInv, TypeOK
<1>6. FilesPlaced'
  <2>1. \A h \in Files : at[h] = "input" <=> at'[h] = "input"
    BY <1>3
  <2>2. QED BY <1>2, <1>3, <2>1 DEF IInv, FilesPlaced, InFlight
<1>7. GroupsLive'
  BY <1>1, <1>2 DEF IInv, GroupsLive, TypeOK
<1>8. Generations' /\ OrphansAreChildren'
  BY <1>2 DEF IInv, Generations, OrphansAreChildren
<1>9. PendingIsExact'
  <2> SUFFICES ASSUME NEW h \in Groups PROVE pending'[h] = Cardinality(Pending(h)')
    BY DEF PendingIsExact
  <2>1. CASE h = g
    <3>1. Pending(h)' = Pending(g) \ {f}
      BY <1>2, <1>3, <2>1 DEF Pending, InFlight
    <3>2. QED BY <1>1, <1>2, <2>1, <3>1, CountWithout DEF IInv, TypeOK
  <2>2. CASE h # g
    <3>1. Pending(h)' = Pending(h)
      BY <1>2, <1>3, <2>2 DEF Pending, InFlight, g
    <3>2. QED BY <1>2, <2>2, <3>1 DEF IInv, PendingIsExact, TypeOK
  <2>3. QED BY <2>1, <2>2
<1>10. QED
  BY <1>4, <1>5, <1>6, <1>7, <1>8, <1>9 DEF IInv

\* A file that was read goes on to the child group of what was read.
LEMMA SiftPushIInv ==
  ASSUME IInv, NEW f \in Files, at[f] \in {"hashing", "hashed"}, Sift(f, FALSE),
         UNCHANGED failed
  PROVE  IInv'
<1> DEFINE g     == shred_group[f]
           c     == GroupAt(f, offset[f])
           new   == StatusWith(c, members[c] \cup {f})
           goes  == new = "start_hashing"
           freed == IF goes THEN Held(c) ELSE {}
<1>1. /\ g \in Groups /\ stat[g] = "start_hashing" /\ pending[g] > 0
      /\ pending[g] = Cardinality(Pending(g)) /\ f \in Pending(g)
      /\ g \notin finalising /\ g \notin result_pool
      /\ Pending(g) \in SUBSET Files
  <2>1. InFlight(f) BY DEF InFlight
  <2>2. QED BY <2>1, InFlightFacts DEF Pending
<1>2. /\ offset[f] \in 1..Steps(f) /\ g = GroupAt(f, offset[f] - 1) /\ Steps(f) \in Nat
  BY StepsType DEF IInv, FilesPlaced
<1>3. /\ c \in Groups /\ c.prefix # <<>> /\ Parent(c) = g /\ c # g
      /\ Complete(c) <=> offset[f] = Steps(f)
  BY <1>2, GroupAtFacts, ParentOfChild, ParentFacts
<1>4. /\ ~orphan[c] /\ c \notin orphaning /\ c \notin finalising /\ c \notin result_pool
      /\ stat[c] \in {"none", "dormant", "start_hashing"}
  <2>1. ~orphan[c] /\ c \notin orphaning
    BY <1>1, <1>3 DEF IInv, Generations
  <2>2. QED BY <1>3, <2>1 DEF IInv, GroupsLive, TypeOK, Status
<1>5. /\ new \in {"dormant", "start_hashing"}
      /\ goes => ~Complete(c)
      /\ new = "dormant" => stat[c] \in {"none", "dormant"}
      /\ stat[c] = "start_hashing" => goes
  BY <1>3, <1>4 DEF StatusWith, IInv, GroupsLive
<1>6. /\ stat' = [stat EXCEPT ![c] = new]
      /\ members' = [members EXCEPT ![c] = members[c] \cup {f}]
      /\ pending' = [pending EXCEPT ![c] = IF goes THEN @ + Cardinality(freed) + 1 ELSE @,
                                    ![g] = @ - 1]
      /\ shred_group' = [shred_group EXCEPT ![f] = c]
      /\ at' = [h \in Files |-> IF h \in freed THEN "queued"
                                ELSE IF h # f THEN at[h]
                                ELSE IF ~goes THEN "held"
                                ELSE IF waiting[f] THEN "busy" ELSE "queued"]
      /\ finalising' = IF orphan[g] /\ pending'[g] = 0 THEN finalising \cup {g} ELSE finalising
      /\ UNCHANGED <<ref_count, verdict, orphan, offset, waiting, orphaning,
                     result_pool, aborted>>
  BY DEF Sift, PushFile, LastFileLeft
<1>7. /\ freed \in SUBSET Files /\ f \notin freed
      /\ \A h \in freed : at[h] = "held" /\ shred_group[h] = c
      /\ Cardinality(freed) \in Nat
  <2>1. freed \in SUBSET Files /\ f \notin freed
    BY DEF Held
  <2>2. QED BY <2>1, Countable DEF Held
<1>8. /\ pending'[c] = IF goes THEN pending[c] + Cardinality(freed) + 1 ELSE pending[c]
      /\ pending'[g] = pending[g] - 1
      /\ \A h \in Groups \ {c, g} : pending'[h] = pending[h]
  BY <1>1, <1>3, <1>6 DEF IInv, TypeOK
<1>9. /\ \A h \in freed : at'[h] = "queued"
      /\ at'[f] = IF ~goes THEN "held" ELSE IF waiting[f] THEN "busy" ELSE "queued"
      /\ \A h \in Files : h \notin freed /\ h # f => at'[h] = at[h]
  BY <1>6, <1>7
<1>10. goes => \A h \in Files : at[h] = "held" /\ shred_group[h] = c => h \in freed
  BY DEF Held
<1> HIDE DEF g, c, new, goes, freed
<1>11. TypeOK'
  <2>1. new \in Status
    BY <1>5 DEF Status
  <2>2. /\ stat' \in [Groups -> Status] /\ members' \in [Groups -> SUBSET Files]
        /\ shred_group' \in [Files -> Groups] /\ finalising' \subseteq Groups
    BY <1>1, <1>3, <1>6, <2>1 DEF IInv, TypeOK
  <2>3. pending' \in [Groups -> Nat]
    <3>1. \A h \in Groups : pending'[h] \in Nat
      BY <1>1, <1>7, <1>8 DEF IInv, TypeOK
    <3>2. QED BY <1>6, <3>1 DEF IInv, TypeOK
  <2>4. at' \in [Files -> Places]
    BY <1>6 DEF IInv, TypeOK, Places
  <2>5. QED BY <1>6, <2>2, <2>3, <2>4 DEF IInv, TypeOK
<1>12. FilesPlaced'
  <2> SUFFICES ASSUME NEW h \in Files PROVE FilesPlaced!(h)'
    BY DEF FilesPlaced
  <2>1. Root(h) # c /\ stat'[Root(h)] = stat[Root(h)]
    BY <1>3, <1>6, RootFacts DEF IInv, TypeOK
  <2>2. CASE h = f
    <3>1. /\ shred_group'[f] = c /\ stat'[c] = new /\ offset'[f] = offset[f]
          /\ at[f] # "input"
      BY <1>3, <1>6 DEF IInv, TypeOK
    <3>2. offset[f] \in 0..Steps(f)
      BY <1>2
    <3>3. goes => offset[f] < Steps(f)
      BY <1>2, <1>3, <1>5
    <3>4. c = GroupAt(f, offset[f])
      BY DEF c
    <3>5. stat[Root(f)] # "none"
      BY DEF IInv, FilesPlaced
    <3>6. QED
      BY <1>5, <1>9, <2>1, <2>2, <3>1, <3>2, <3>3, <3>4, <3>5 DEF InFlight, goes
  <2>3. CASE h \in freed
    <3>1. /\ shred_group'[h] = c /\ shred_group[h] = c /\ stat'[c] = new
          /\ offset'[h] = offset[h] /\ at[h] = "held" /\ at'[h] = "queued" /\ goes
      BY <1>3, <1>6, <1>7, <1>9, <2>3 DEF IInv, TypeOK, freed
    <3>2. c = GroupAt(h, offset[h]) /\ offset[h] \in 0..Steps(h) /\ stat[Root(h)] # "none"
      BY <3>1 DEF IInv, FilesPlaced
    <3>3. offset[h] < Steps(h)
      BY <1>5, <3>1, <3>2, GroupAtFacts, StepsType
    <3>4. QED
      BY <2>1, <3>1, <3>2, <3>3 DEF InFlight, goes
  <2>4. CASE h \notin freed /\ h # f
    <3>1. /\ shred_group'[h] = shred_group[h] /\ offset'[h] = offset[h] /\ at'[h] = at[h]
      BY <1>6, <1>9, <2>4 DEF IInv, TypeOK
    <3>2. stat'[shred_group[h]] = IF shred_group[h] = c THEN new ELSE stat[shred_group[h]]
      BY <1>3, <1>6 DEF IInv, TypeOK
    <3>3. at[h] = "held" /\ shred_group[h] = c => new = "dormant"
      BY <1>5, <1>10, <2>4 DEF goes
    <3>4. InFlight(h) /\ shred_group[h] = c => new = "start_hashing"
      BY <1>5 DEF IInv, FilesPlaced, goes
    <3>5. QED
      BY <2>1, <3>1, <3>2, <3>3, <3>4 DEF IInv, FilesPlaced, InFlight
  <2>5. QED BY <2>2, <2>3, <2>4
<1>13. GroupsLive'
  <2> SUFFICES ASSUME NEW h \in Groups PROVE GroupsLive!(h)'
    BY DEF GroupsLive
  <2>1. CASE h = c
    BY <1>3, <1>4, <1>5, <1>6, <2>1 DEF IInv, GroupsLive, TypeOK, goes
  <2>2. CASE h = g
    BY <1>1, <1>3, <1>6, <2>2 DEF IInv, GroupsLive, TypeOK
  <2>3. CASE h # c /\ h # g
    BY <1>6, <1>8, <2>3 DEF IInv, GroupsLive, TypeOK
  <2>4. QED BY <2>1, <2>2, <2>3
<1>14. Generations' /\ OrphansAreChildren'
  <2>1. \A h \in Groups : stat'[h] = IF h = c THEN new ELSE stat[h]
    BY <1>6 DEF IInv, TypeOK
  <2>2. \A h \in Groups : h.prefix # <<>> => Parent(h) \in Groups
    BY ParentFacts
  <2>3. \A h \in Groups : stat[h] = "start_hashing" => stat'[h] = "start_hashing"
    BY <1>5, <2>1 DEF goes
  <2>4. \A h \in Groups : stat[h] = "freed" <=> stat'[h] = "freed"
    BY <1>4, <1>5, <2>1
  <2>5. \A h \in Groups : stat[h] # "none" => stat'[h] # "none"
    BY <1>5, <2>1
  <2>6. Generations'
    <3> SUFFICES ASSUME NEW h \in Groups, h.prefix # <<>> PROVE Generations!(h)!2'
      BY DEF Generations
    <3>1. CASE h = c
      BY <1>1, <1>3, <1>4, <1>6, <2>1, <2>3, <3>1
    <3>2. CASE h # c
      BY <1>6, <2>1, <2>2, <2>3, <2>4, <2>5, <3>2 DEF IInv, Generations
    <3>3. QED BY <3>1, <3>2
  <2>7. OrphansAreChildren'
    BY <1>6 DEF IInv, OrphansAreChildren
  <2>8. QED BY <2>6, <2>7
<1>15. PendingIsExact'
  <2> SUFFICES ASSUME NEW h \in Groups PROVE pending'[h] = Cardinality(Pending(h)')
    BY DEF PendingIsExact
  <2>1. f \in Pending(g) /\ f \notin Pending(c) /\ Pending(h) \in SUBSET Files
        /\ Pending(c) \in SUBSET Files
    BY <1>1, <1>3 DEF Pending, g
  <2>2. CASE h = g
    <3>1. Pending(h)' = Pending(g) \ {f}
      BY <1>3, <1>6, <1>7, <1>9, <2>2 DEF Pending, InFlight, IInv, TypeOK
    <3>2. QED BY <1>1, <1>8, <2>2, <3>1, CountWithout
  <2>3. CASE h = c /\ goes
    <3>1. Pending(h)' = (Pending(c) \cup freed) \cup {f}
      BY <1>6, <1>7, <1>9, <2>1, <2>3 DEF Pending, InFlight, IInv, TypeOK
    <3>2. Pending(c) \cap freed = {} /\ f \notin Pending(c) \cup freed
          /\ Pending(c) \cup freed \in SUBSET Files
      BY <1>7, <2>1 DEF Pending, InFlight
    <3>3. Cardinality(Pending(h)') = Cardinality(Pending(c)) + Cardinality(freed) + 1
      <4>1. Cardinality(Pending(c) \cup freed) = Cardinality(Pending(c)) + Cardinality(freed)
        BY <1>7, <2>1, <3>2, CountUnion
      <4>2. Cardinality((Pending(c) \cup freed) \cup {f}) = Cardinality(Pending(c) \cup freed) + 1
        BY <3>2, CountWith
      <4>3. QED BY <3>1, <4>1, <4>2
    <3>4. QED BY <1>3, <1>8, <2>3, <3>3 DEF IInv, PendingIsExact
  <2>4. CASE h = c /\ ~goes
    <3>1. freed = {}
      BY <2>4 DEF freed
    <3>2. Pending(h)' = Pending(c)
      BY <1>6, <1>9, <2>1, <2>4, <3>1 DEF Pending, InFlight, IInv, TypeOK
    <3>3. QED BY <1>3, <1>8, <2>4, <3>2 DEF IInv, PendingIsExact
  <2>5. CASE h # g /\ h # c
    <3>1. Pending(h)' = Pending(h)
      BY <1>6, <1>7, <1>9, <2>5 DEF Pending, InFlight, IInv, TypeOK, g
    <3>2. QED BY <1>8, <2>5, <3>1 DEF IInv, PendingIsExact
  <2>6. QED BY <2>2, <2>3, <2>4, <2>5
<1>16. RefCountCoversWork'
  <2>1. \A d \in Devices : Tracked(d)' = Tracked(d)
    BY <1>6, <1>7, <1>9 DEF Tracked
  <2>2. QED BY <1>6, <2>1 DEF IInv, RefCountCoversWork, Tracked
<1>17. QED
  BY <1>11, <1>12, <1>13, <1>14, <1>15, <1>16 DEF IInv

-----------------------------------------------------------------------------
(* Theorems. *)

LEMMA HashCallbackIInv == ASSUME IInv, NEW f \in Files, HashCallback(f) PROVE IInv'
<1>1. CASE waiting[f]
  BY <1>1, WakeWaiterIInv
<1>2. CASE ~waiting[f]
  <2>1. Sift(f, failed[f]) /\ UNCHANGED failed /\ at[f] = "hashing" /\ InFlight(f)
    BY <1>2 DEF HashCallback, InFlight
  <2>2. failed[f] \in BOOLEAN /\ failed' \in [Files -> BOOLEAN]
    BY <2>1 DEF IInv, TypeOK
  <2>3. CASE failed[f] = TRUE
    BY <2>1, <2>2, <2>3, SiftIgnoreIInv
  <2>4. CASE failed[f] = FALSE
    BY <2>1, <2>4, SiftPushIInv
  <2>5. QED BY <2>2, <2>3, <2>4
<1>3. QED BY <1>1, <1>2

LEMMA SiftWaitingIInv == ASSUME IInv, NEW f \in Files, SiftWaiting(f) PROVE IInv'
<1>1. Sift(f, failed[f]) /\ UNCHANGED failed /\ at[f] = "hashed" /\ InFlight(f)
  BY DEF SiftWaiting, InFlight
<1>2. failed[f] \in BOOLEAN /\ failed' \in [Files -> BOOLEAN]
  BY <1>1 DEF IInv, TypeOK
<1>3. CASE failed[f] = TRUE
  BY <1>1, <1>2, <1>3, SiftIgnoreIInv
<1>4. CASE failed[f] = FALSE
  BY <1>1, <1>4, SiftPushIInv
<1>5. QED BY <1>2, <1>3, <1>4

LEMMA ProcessAbortedIInv == ASSUME IInv, NEW f \in Files, ProcessAborted(f) PROVE IInv'
<1>1. Sift(f, TRUE) /\ InFlight(f) /\ failed' \in [Files -> BOOLEAN]
  BY DEF ProcessAborted, InFlight, IInv, TypeOK
<1>2. QED BY <1>1, SiftIgnoreIInv

LEMMA StutterIInv == ASSUME IInv, UNCHANGED vars PROVE IInv'
BY DEF vars, groupVars, fileVars, workVars, IInv, TypeOK, FilesPlaced, GroupsLive,
       Generations, OrphansAreChildren, PendingIsExact, RefCountCoversWork, Pending, InFlight

LEMMA AbortIInv == ASSUME IInv, Abort PROVE IInv'
BY DEF Abort, groupVars, fileVars, workVars, IInv, TypeOK, FilesPlaced, GroupsLive,
       Generations, OrphansAreChildren, PendingIsExact, RefCountCoversWork, Pending, InFlight

\* Every step of the duplicate finder keeps the inductive invariant.
LEMMA NextIInv == IInv /\ [Next]_vars => IInv'
<1> SUFFICES ASSUME IInv, [Next]_vars PROVE IInv'
  OBVIOUS
<1>1. ASSUME NEW f \in Files, Preprocess(f) PROVE IInv'
  BY <1>1, PreprocessIInv
<1>2. ASSUME NEW f \in Files, ProcessAborted(f) PROVE IInv'
  BY <1>2, ProcessAbortedIInv
<1>3. ASSUME NEW f \in Files, ProcessFile(f) PROVE IInv'
  BY <1>3, ProcessFileIInv
<1>4. ASSUME NEW f \in Files, ReadIncrement(f) PROVE IInv'
  BY <1>4, ReadIncrementIInv
<1>5. ASSUME NEW f \in Files, HashCallback(f) PROVE IInv'
  BY <1>5, HashCallbackIInv
<1>6. ASSUME NEW f \in Files, SiftWaiting(f) PROVE IInv'
  BY <1>6, SiftWaitingIInv
<1>7. ASSUME NEW g \in Groups, Finalise(g) PROVE IInv'
  BY <1>7, FinaliseIInv
<1>8. ASSUME NEW g \in Groups, MakeOrphan(g) PROVE IInv'
  BY <1>8, MakeOrphanIInv
<1>9. ASSUME NEW g \in Groups, ResultFactory(g) PROVE IInv'
  BY <1>9, ResultFactoryIInv
<1>10. CASE Abort
  BY <1>10, AbortIInv
<1>11. CASE Finished \/ UNCHANGED vars
  BY <1>11, StutterIInv DEF Finished
<1>12. QED
  BY <1>1, <1>2, <1>3, <1>4, <1>5, <1>6, <1>7, <1>8, <1>9, <1>10, <1>11 DEF Next, Work

\* The inductive invariant holds in every state the threads can reach.
THEOREM Invariance == Spec => []IInv
<1>1. Init => IInv
  BY InitIInv
<1>2. IInv /\ [Next]_vars => IInv'
  BY NextIInv
<1>3. QED
  BY <1>1, <1>2, PTL DEF Spec

\* The variables of Shredder have their types for every input: no counter of a
\* group or a device is ever decremented below zero.
THEOREM TypeCorrect == Spec => []TypeOK
<1>1. IInv => TypeOK
  BY DEF IInv
<1>2. QED
  BY <1>1, Invariance, PTL

\* num_pending counts the clusters in flight, for any number of threads,
\* devices and files (rm_shred_group_push_file, rm_shred_sift).
THEOREM PendingExact == Spec => []PendingIsExact
<1>1. IInv => PendingIsExact
  BY DEF IInv
<1>2. QED
  BY <1>1, Invariance, PTL

\* ref_count counts the clusters a device still has to deliver, wherever they
\* are (rm_mds_device_ref in rm_shred_file_preprocess, rm_shred_discard_file).
THEOREM RefCountExact == Spec => []RefCountCoversWork
<1>1. IInv => RefCountCoversWork
  BY DEF IInv
<1>2. QED
  BY <1>1, Invariance, PTL

\* No thread sifts a file of a group that was finalised (rm_shred_sift,
\* rm_shred_group_make_orphan, rm_shred_group_finalise).
THEOREM NoDeadGroup == Spec => []NoFileInDeadGroup
<1>1. IInv => NoFileInDeadGroup
  BY InFlightFacts DEF NoFileInDeadGroup
<1>2. QED
  BY <1>1, Invariance, PTL

\* The assertion of rm_shred_group_free holds, and no group outlives a parent
\* that it still points to.
THEOREM ParentsAreSafe == Spec => []ChildrenOutliveParents
<1>1. IInv => ChildrenOutliveParents
  <2> SUFFICES ASSUME IInv, NEW g \in Groups PROVE ChildrenOutliveParents!(g)
    BY DEF ChildrenOutliveParents
  <2>1. g \in finalising \cup result_pool \/ stat[g] = "freed" => orphan[g]
    BY DEF IInv, GroupsLive
  <2>2. stat[g] # "none" /\ ~orphan[g] /\ g \notin orphaning => stat[Parent(g)] = "start_hashing"
    BY DEF IInv, GroupsLive, Generations
  <2>3. QED BY <2>1, <2>2
<1>2. QED
  BY <1>1, Invariance, PTL

-----------------------------------------------------------------------------
(* Shredder implements Sieve: whatever the threads of lib/shredder.c do to *)
(* sort clusters into groups, the verdicts appear as if whole files had    *)
(* been compared one set after another.  What the refinement needs beyond  *)
(* IInv is in RInv.                                                        *)

\* A cluster has a verdict exactly when it is out of the duplicate finder.
VerdictsPlaced ==
  \A f \in Files : /\ at[f] = "out" <=> verdict[f] # Undecided
                   /\ verdict[f] \in {Undecided, Ignored} \/ verdict[f].kind \in {"dup", "unique"}

\* Who was decided together with its twins has left no undecided twin behind.
DecidedClosed ==
  \A f, h \in Files : verdict[f].kind \in {"dup", "unique"} /\ Same(f, h) => verdict[h] # Undecided

\* Until a group is worth hashing it holds whatever has entered it.
MembersHeld ==
  \A g \in Groups : stat[g] \in {"none", "dormant", "finishing"} => members[g] = Held(g)

\* Why a group was not hashed any further.
DormantBecause ==
  \A g \in Groups : stat[g] \in {"dormant", "finishing"} =>
    Complete(g) \/ ~Qualifies(members[g]) \/ ~WorthHashing(members[g])

\* Only a group whose clusters qualify is on its way to be reported.
FinishingQualifies ==
  \A g \in Groups : stat[g] = "finishing" \/ g \in result_pool =>
    (stat[g] = "finishing" <=> Qualifies(members[g]))

\* A group without a parent has no ancestors at all.
AncestorsFreed ==
  \A f \in Files : \A n \in 0..Steps(f) : \A k \in 0..Steps(f) :
    k < n /\ orphan[GroupAt(f, n)] => stat[GroupAt(f, k)] = "freed"

\* The groups that a cluster came through were hashed.
Trail ==
  \A f \in Files : \A k \in 0..Steps(f) :
    k < Len(shred_group[f].prefix) => stat[GroupAt(f, k)] \in {"start_hashing", "freed"}

RInv ==
  /\ VerdictsPlaced
  /\ DecidedClosed
  /\ MembersHeld
  /\ DormantBecause
  /\ FinishingQualifies
  /\ AncestorsFreed
  /\ Trail

-----------------------------------------------------------------------------
(* Facts that several steps need. *)

\* One cluster is no reason to hash.
LEMMA NotWorthHashing ==
  ASSUME NEW S \in SUBSET Files, ~WorthHashing(S)
  PROVE  \A f, h \in S : f = h
BY DEF WorthHashing

\* The group of a cluster that is in the finder is named by what was read of it.
LEMMA WhereItIs ==
  ASSUME IInv, NEW f \in Files, at[f] \notin {"input", "out"}
  PROVE  \E n \in 0..Steps(f) : shred_group[f] = GroupAt(f, n)
<1>1. CASE at[f] \in {"queued", "busy", "held"}
  BY <1>1 DEF IInv, FilesPlaced
<1>2. CASE at[f] \in {"hashing", "hashed"}
  BY <1>2, StepsType DEF IInv, FilesPlaced
<1>3. QED BY <1>1, <1>2 DEF IInv, TypeOK, Places

\* Twins share all of their groups.
LEMMA TwinsShareGroups ==
  ASSUME NEW f \in Files, NEW h \in Files, Same(f, h), f # h
  PROVE  Steps(h) = Steps(f) /\ \A n \in 0..Steps(f) : GroupAt(h, n) = GroupAt(f, n)
<1>1. Content[f] = Content[h] /\ Steps(h) = Steps(f)
  BY DEF Same, Steps
<1>2. AllHaveExtCksum(f) = AllHaveExtCksum(h)
  BY <1>1 DEF AllHaveExtCksum, SameSize
<1>3. ~AllHaveExtCksum(f) /\ ~AllHaveExtCksum(h)
  BY <1>2, ExtAssumption
<1>4. QED BY <1>1, <1>3 DEF GroupAt

\* All clusters of a group whose hashing is over are twins.
LEMMA CompleteMeansSame ==
  ASSUME NEW f \in Files, NEW h \in Files, NEW n \in 0..Steps(f), NEW m \in 0..Steps(h),
         GroupAt(f, n) = GroupAt(h, m), Complete(GroupAt(f, n))
  PROVE  Same(f, h)
<1>1. n = Steps(f) /\ m = Steps(h)
  BY GroupAtFacts
<1>2. Steps(f) = Steps(h) /\ Steps(f) \in Nat
  BY StepsType, GroupAtFacts
<1>3. \A i \in 1..Steps(f) : Content[f][i] = Content[h][i]
  BY <1>1, <1>2, GroupAtFacts
<1>4. Content[f] \in Seq(Blocks) /\ Content[h] \in Seq(Blocks)
      /\ Len(Content[f]) = Len(Content[h]) /\ Len(Content[f]) = Steps(f)
  BY <1>2, StepsType DEF Steps
<1>5. Content[f] = Content[h]
  BY <1>3, <1>4, SeqEqual
<1>6. QED BY <1>5 DEF Same

-----------------------------------------------------------------------------
(* The steps. *)

LEMMA InitRInv == Init => RInv
<1> SUFFICES ASSUME Init PROVE RInv
  OBVIOUS
<1> USE DEF Init
<1>1. VerdictsPlaced /\ DecidedClosed
  BY DEF VerdictsPlaced, DecidedClosed, Undecided
<1>2. MembersHeld
  BY DEF MembersHeld, Held
<1>3. DormantBecause /\ FinishingQualifies
  BY DEF DormantBecause, FinishingQualifies
<1>4. AncestorsFreed
  <2> SUFFICES ASSUME NEW f \in Files, NEW n \in 0..Steps(f), NEW k \in 0..Steps(f), k < n
               PROVE  ~orphan[GroupAt(f, n)]
    BY DEF AncestorsFreed
  <2>1. GroupAt(f, n) \in Groups /\ GroupAt(f, n).prefix # <<>>
    BY GroupAtFacts, StepsType
  <2>2. QED BY <2>1
<1>5. Trail
  <2> SUFFICES ASSUME NEW f \in Files, NEW k \in 0..Steps(f), k < Len(shred_group[f].prefix)
               PROVE  FALSE
    BY DEF Trail
  <2>1. Len(shred_group[f].prefix) = 0
    BY RootFacts
  <2>2. QED BY <2>1
<1>6. QED BY <1>1, <1>2, <1>3, <1>4, <1>5 DEF RInv

\* Steps that do not touch a group and neither hold nor release a cluster.
LEMMA MoveRInv ==
  ASSUME RInv, UNCHANGED <<stat, members, orphan, shred_group, result_pool, verdict>>,
         \A f \in Files : (at'[f] = "held" <=> at[f] = "held") /\ (at'[f] = "out" <=> at[f] = "out")
  PROVE  RInv'
<1>1. \A g \in Groups : Held(g)' = Held(g)
  BY DEF Held
<1>2. QED
  BY <1>1 DEF RInv, VerdictsPlaced, DecidedClosed, MembersHeld, DormantBecause,
              FinishingQualifies, AncestorsFreed, Trail

LEMMA MakeOrphanRInv == ASSUME IInv, RInv, NEW c \in Groups, MakeOrphan(c) PROVE RInv'
<1> USE DEF MakeOrphan, fileVars
<1>1. VerdictsPlaced' /\ DecidedClosed' /\ Trail'
  BY DEF RInv, VerdictsPlaced, DecidedClosed, Trail
<1>2. MembersHeld' /\ DormantBecause' /\ FinishingQualifies'
  BY DEF RInv, MembersHeld, DormantBecause, FinishingQualifies, Held
<1>3. AncestorsFreed'
  <2> SUFFICES ASSUME NEW f \in Files, NEW n \in 0..Steps(f), NEW k \in 0..Steps(f),
                      k < n, orphan'[GroupAt(f, n)]
               PROVE  stat[GroupAt(f, k)] = "freed"
    BY DEF AncestorsFreed
  <2>1. CASE orphan[GroupAt(f, n)]
    BY <2>1 DEF RInv, AncestorsFreed
  <2>2. CASE ~orphan[GroupAt(f, n)]
    <3>1. c = GroupAt(f, n)
      BY <2>2, GroupAtFacts DEF IInv, TypeOK
    <3>2. n \in 1..Steps(f) /\ n - 1 \in 0..Steps(f) /\ Steps(f) \in Nat
      BY StepsType
    <3>3. Parent(c) = GroupAt(f, n - 1) /\ c.prefix # <<>> /\ GroupAt(f, n - 1) \in Groups
      BY <3>1, <3>2, ParentOfChild, GroupAtFacts
    <3>4. stat[GroupAt(f, n - 1)] = "freed"
      BY <3>3 DEF IInv, Generations
    <3>5. orphan[GroupAt(f, n - 1)]
      BY <3>3, <3>4 DEF IInv, GroupsLive
    <3>6. k = n - 1 \/ k < n - 1
      BY <3>2
    <3>7. QED BY <3>2, <3>4, <3>5, <3>6 DEF RInv, AncestorsFreed
  <2>3. QED BY <2>1, <2>2
<1>4. QED BY <1>1, <1>2, <1>3 DEF RInv

LEMMA FinaliseRInv == ASSUME IInv, RInv, NEW g \in Groups, Finalise(g) PROVE RInv'
<1> USE DEF Finalise, FinalStatus, fileVars
<1>0. orphan[g] /\ stat[g] \in {"dormant", "start_hashing"} /\ g \notin result_pool
  BY DEF IInv, GroupsLive
<1>1. \A h \in Groups : Held(h)' = Held(h) /\ members'[h] = members[h]
  BY DEF Held
<1>2. \A h \in Groups : stat'[h] = IF h # g THEN stat[h]
                                   ELSE IF stat[g] = "start_hashing" THEN "freed"
                                   ELSE IF Qualifies(members[g]) THEN "finishing" ELSE "dormant"
  BY <1>0 DEF IInv, TypeOK
<1>3. VerdictsPlaced' /\ DecidedClosed'
  BY DEF RInv, VerdictsPlaced, DecidedClosed
<1>4. MembersHeld' /\ DormantBecause'
  BY <1>0, <1>1, <1>2 DEF RInv, MembersHeld, DormantBecause
<1>5. FinishingQualifies'
  BY <1>0, <1>1, <1>2 DEF RInv, FinishingQualifies
<1>6. AncestorsFreed'
  BY <1>0, <1>2, GroupAtFacts DEF RInv, AncestorsFreed
<1>7. Trail'
  BY <1>0, <1>2, GroupAtFacts DEF RInv, Trail
<1>8. QED BY <1>3, <1>4, <1>5, <1>6, <1>7 DEF RInv

LEMMA PreprocessRInv == ASSUME IInv, RInv, NEW f \in Files, Preprocess(f) PROVE RInv'
<1> DEFINE g     == Root(f)
           class == Class(f)
           new   == StatusWith(g, class)
<1>1. /\ g \in Groups /\ stat[g] = "none" /\ g \notin result_pool
      /\ class \subseteq Files
      /\ \A h \in Files : h \in class <=> Root(h) = g
  BY RootFacts DEF Preprocess, IInv, FilesPlaced, GroupsLive
<1>2. \A h \in class : at[h] = "input" /\ shred_group[h] = g
  BY <1>1 DEF IInv, FilesPlaced
<1>3. /\ new \in {"dormant", "start_hashing"}
      /\ new = "dormant" => Complete(g) \/ ~Qualifies(class) \/ ~WorthHashing(class)
  BY <1>1 DEF StatusWith
<1>4. /\ stat' = [stat EXCEPT ![g] = new]
      /\ members' = [members EXCEPT ![g] = class]
      /\ at' = [h \in Files |-> IF h \notin class THEN at[h]
                                ELSE IF new = "dormant" THEN "held" ELSE "queued"]
      /\ UNCHANGED <<orphan, shred_group, result_pool, verdict>>
  BY DEF Preprocess, Class
<1> HIDE DEF g, class, new
<1>5. \A h \in Files : shred_group[h] = g /\ at[h] = "held" => FALSE
  BY <1>1 DEF IInv, FilesPlaced
<1>6. \A d \in Groups : /\ stat'[d] = IF d = g THEN new ELSE stat[d]
                        /\ members'[d] = IF d = g THEN class ELSE members[d]
  BY <1>4 DEF IInv, TypeOK
<1>7. \A d \in Groups : Held(d)' = IF d # g THEN Held(d) ELSE IF new = "dormant" THEN class ELSE {}
  BY <1>1, <1>2, <1>4, <1>5 DEF Held
<1>8. VerdictsPlaced' /\ DecidedClosed'
  BY <1>2, <1>4 DEF RInv, VerdictsPlaced, DecidedClosed
<1>9. MembersHeld' /\ DormantBecause' /\ FinishingQualifies'
  BY <1>1, <1>3, <1>4, <1>6, <1>7 DEF RInv, MembersHeld, DormantBecause, FinishingQualifies
<1>10. AncestorsFreed' /\ Trail'
  BY <1>1, <1>4, <1>6, GroupAtFacts DEF RInv, AncestorsFreed, Trail
<1>11. QED BY <1>8, <1>9, <1>10 DEF RInv

\* A cluster that is given up leaves its group as it was.
LEMMA SiftIgnoreRInv ==
  ASSUME IInv, RInv, NEW f \in Files, InFlight(f), Sift(f, TRUE)
  PROVE  RInv'
<1>1. /\ at' = [at EXCEPT ![f] = "out"]
      /\ verdict' = [h \in Files |-> IF h = f THEN Ignored ELSE verdict[h]]
      /\ UNCHANGED <<stat, members, shred_group, orphan, result_pool>>
  BY DEF Sift, Discard
<1>2. at[f] # "held" /\ \A h \in Files : at'[h] = IF h = f THEN "out" ELSE at[h]
  BY <1>1 DEF InFlight, IInv, TypeOK
<1>3. \A g \in Groups : Held(g)' = Held(g)
  BY <1>1, <1>2 DEF Held
<1>4. VerdictsPlaced' /\ DecidedClosed'
  BY <1>1, <1>2 DEF RInv, VerdictsPlaced, DecidedClosed, Ignored, Undecided
<1>5. MembersHeld' /\ DormantBecause' /\ FinishingQualifies' /\ AncestorsFreed' /\ Trail'
  BY <1>1, <1>3 DEF RInv, MembersHeld, DormantBecause, FinishingQualifies, AncestorsFreed, Trail
<1>6. QED BY <1>4, <1>5 DEF RInv

\* A cluster that goes on to a child leaves its trail, and is held there unless the
\* child is hashed.
LEMMA SiftPushRInv ==
  ASSUME IInv, RInv, NEW f \in Files, at[f] \in {"hashing", "hashed"}, Sift(f, FALSE)
  PROVE  RInv'
<1> DEFINE g     == shred_group[f]
           c     == GroupAt(f, offset[f])
           new   == StatusWith(c, members[c] \cup {f})
           goes  == new = "start_hashing"
           freed == IF goes THEN Held(c) ELSE {}
<1>1. g \in Groups /\ stat[g] = "start_hashing" /\ InFlight(f)
  BY InFlightFacts DEF InFlight
<1>2. offset[f] \in 1..Steps(f) /\ g = GroupAt(f, offset[f] - 1) /\ Steps(f) \in Nat
  BY StepsType DEF IInv, FilesPlaced
<1>3. /\ c \in Groups /\ c.prefix # <<>> /\ Parent(c) = g /\ c # g /\ Len(c.prefix) = offset[f]
  BY <1>2, GroupAtFacts, ParentOfChild, ParentFacts
<1>4. c \notin result_pool /\ stat[c] \in {"none", "dormant", "start_hashing"}
  <2>1. ~orphan[c]
    BY <1>1, <1>3 DEF IInv, Generations
  <2>2. QED BY <1>3, <2>1 DEF IInv, GroupsLive, TypeOK, Status
<1>5. /\ new \in {"dormant", "start_hashing"}
      /\ new = "dormant" => stat[c] \in {"none", "dormant"}
      /\ new = "dormant" => \/ Complete(c) \/ ~Qualifies(members[c] \cup {f})
                           \/ ~WorthHashing(members[c] \cup {f})
      /\ stat[c] = "start_hashing" => goes
  BY <1>4 DEF StatusWith
<1>6. /\ stat' = [stat EXCEPT ![c] = new]
      /\ members' = [members EXCEPT ![c] = members[c] \cup {f}]
      /\ shred_group' = [shred_group EXCEPT ![f] = c]
      /\ at' = [h \in Files |-> IF h \in freed THEN "queued"
                                ELSE IF h # f THEN at[h]
                                ELSE IF ~goes THEN "held"
                                ELSE IF waiting[f] THEN "busy" ELSE "queued"]
      /\ UNCHANGED <<verdict, orphan, result_pool>>
  BY DEF Sift, PushFile
<1>7. /\ \A h \in Files : h \in freed => at[h] = "held" /\ shred_group[h] = c /\ goes
      /\ goes => \A h \in Files : at[h] = "held" /\ shred_group[h] = c => h \in freed
  BY DEF Held
<1> HIDE DEF g, c, new, goes, freed
<1>8. /\ \A h \in Files : shred_group'[h] = IF h = f THEN c ELSE shred_group[h]
      /\ \A d \in Groups : /\ stat'[d] = IF d = c THEN new ELSE stat[d]
                           /\ members'[d] = IF d = c THEN members[c] \cup {f} ELSE members[d]
  BY <1>3, <1>6 DEF IInv, TypeOK
<1>a. /\ \A h \in Files : h \in freed => at'[h] = "queued"
      /\ \A h \in Files : h \notin freed /\ h # f => at'[h] = at[h]
      /\ at'[f] = "held" <=> ~goes
      /\ f \notin freed
  BY <1>6, <1>7
<1>9. \A d \in Groups : Held(d)' = IF d # c THEN Held(d)
                                   ELSE IF goes THEN {} ELSE Held(c) \cup {f}
  <2>1. \A d \in Groups \ {c} : Held(d)' = Held(d)
    BY <1>7, <1>8, <1>a DEF Held
  <2>2. goes => \A d \in Groups : d = c => Held(d)' = {}
    BY <1>7, <1>8, <1>a DEF Held
  <2>3. ~goes => \A d \in Groups : d = c => Held(d)' = Held(c) \cup {f}
    BY <1>7, <1>8, <1>a DEF Held
  <2>4. QED BY <2>1, <2>2, <2>3
<1>10. VerdictsPlaced' /\ DecidedClosed'
  BY <1>6, <1>7 DEF RInv, VerdictsPlaced, DecidedClosed
<1>11. MembersHeld'
  BY <1>3, <1>5, <1>8, <1>9 DEF RInv, MembersHeld, goes
<1>12. DormantBecause' /\ FinishingQualifies'
  <2>1. DormantBecause'
    BY <1>3, <1>5, <1>8 DEF RInv, DormantBecause
  <2>2. FinishingQualifies'
    BY <1>3, <1>4, <1>5, <1>6, <1>8 DEF RInv, FinishingQualifies
  <2>3. QED BY <2>1, <2>2
<1>13. AncestorsFreed'
  BY <1>4, <1>6, <1>8, GroupAtFacts DEF RInv, AncestorsFreed
<1>14. Trail'
  <2> SUFFICES ASSUME NEW h \in Files, NEW k \in 0..Steps(h), k < Len(shred_group'[h].prefix)
               PROVE  stat'[GroupAt(h, k)] \in {"start_hashing", "freed"}
    BY DEF Trail
  <2>1. GroupAt(h, k) \in Groups /\ Steps(h) \in Nat
    BY GroupAtFacts, StepsType
  <2>2. stat[GroupAt(h, k)] \in {"start_hashing", "freed"}
    <3>1. CASE h # f
      BY <1>8, <3>1 DEF RInv, Trail
    <3>2. CASE h = f /\ k < offset[f] - 1
      <4>1. Len(shred_group[f].prefix) = offset[f] - 1
        BY <1>2, GroupAtFacts DEF g
      <4>2. QED BY <3>2, <4>1 DEF RInv, Trail
    <3>3. CASE h = f /\ k = offset[f] - 1
      BY <1>1, <1>2, <3>3
    <3>4. QED BY <1>2, <1>3, <1>8, <2>1, <3>1, <3>2, <3>3
  <2>3. QED BY <1>4, <1>5, <1>8, <2>1, <2>2 DEF goes
<1>15. QED BY <1>10, <1>11, <1>12, <1>13, <1>14 DEF RInv

\* When a group comes to the result thread, no twin of its clusters is undecided, or was
\* decided without them.
LEMMA NoTwinLeft ==
  ASSUME IInv, RInv, NEW g \in result_pool, NEW f \in Held(g), NEW h \in Files \ Held(g), Same(f, h)
  PROVE  verdict[h] = Ignored
<1>1. /\ g \in Groups /\ orphan[g] /\ stat[g] \in {"dormant", "finishing"}
      /\ f \in Files /\ at[f] = "held" /\ shred_group[f] = g /\ f # h
  BY DEF IInv, TypeOK, GroupsLive, Held
<1>2. PICK n \in 0..Steps(f) : g = GroupAt(f, n)
  BY <1>1, WhereItIs
<1>3. Steps(h) = Steps(f) /\ Steps(f) \in Nat /\ \A k \in 0..Steps(f) : GroupAt(h, k) = GroupAt(f, k)
  BY <1>1, TwinsShareGroups, StepsType
<1>4. at[h] # "input"
  <2>1. Root(h) = Root(f)
    BY <1>3 DEF Root
  <2>2. QED BY <1>1, <2>1 DEF IInv, FilesPlaced
<1>5. CASE at[h] # "out"
  <2>1. PICK k \in 0..Steps(h) : shred_group[h] = GroupAt(h, k)
    BY <1>4, <1>5, WhereItIs
  <2>2. stat[shred_group[h]] \in {"dormant", "start_hashing", "finishing"}
    BY <1>4, <1>5 DEF IInv, FilesPlaced, TypeOK, Places, InFlight
  <2>3. k < n => stat[shred_group[h]] = "freed"
    BY <1>1, <1>2, <1>3, <2>1 DEF RInv, AncestorsFreed
  <2>4. k = n => at[h] # "held" /\ stat[shred_group[h]] \in {"dormant", "finishing"}
    BY <1>1, <1>2, <1>3, <2>1 DEF Held
  <2>5. at[h] # "held" => stat[shred_group[h]] = "start_hashing"
    BY <1>4, <1>5 DEF IInv, FilesPlaced, TypeOK, Places, InFlight
  <2>6. k > n => stat[g] \in {"start_hashing", "freed"}
    <3>1. Len(shred_group[h].prefix) = k
      BY <2>1, GroupAtFacts
    <3>2. QED BY <1>2, <1>3, <3>1 DEF RInv, Trail
  <2>7. QED BY <1>1, <1>3, <2>1, <2>2, <2>3, <2>4, <2>5, <2>6
<1>6. CASE at[h] = "out"
  <2>1. verdict[h] # Undecided /\ verdict[f] = Undecided /\ Same(h, f)
    BY <1>1, <1>6 DEF RInv, VerdictsPlaced, Same
  <2>2. QED BY <1>1, <2>1 DEF RInv, VerdictsPlaced, DecidedClosed
<1>7. QED BY <1>5, <1>6

LEMMA ResultFactoryRInv == ASSUME IInv, RInv, NEW g \in Groups, ResultFactory(g) PROVE RInv'
<1> DEFINE S == Held(g)
           reason == [kind  |-> IF stat[g] = "finishing" THEN "dup" ELSE "unique", twins |-> S]
<1>0. g \in result_pool /\ stat[g] \in {"dormant", "finishing"} /\ S \subseteq Files
  BY DEF ResultFactory, IInv, GroupsLive, Held
<1>1. /\ result_pool' = result_pool \ {g}
      /\ stat' = [stat EXCEPT ![g] = "freed"]
      /\ at' = [f \in Files |-> IF f \in S THEN "out" ELSE at[f]]
      /\ verdict' = [f \in Files |-> IF f \in S THEN reason ELSE verdict[f]]
      /\ UNCHANGED <<members, orphan, shred_group>>
  BY DEF ResultFactory, Discard
<1>2. reason.kind \in {"dup", "unique"} /\ reason # Undecided
  BY DEF Undecided
<1>3. \A f \in S : at[f] = "held" /\ shred_group[f] = g
  BY DEF Held
<1>4. \A d \in Groups : d # g => Held(d)' = Held(d)
  BY <1>1, <1>3 DEF Held
<1> HIDE DEF S, reason
<1>5. \A d \in Groups : stat'[d] = IF d = g THEN "freed" ELSE stat[d]
  BY <1>1 DEF IInv, TypeOK
<1>6. VerdictsPlaced'
  BY <1>0, <1>1, <1>2, <1>3 DEF RInv, VerdictsPlaced
<1>7. DecidedClosed'
  <2> SUFFICES ASSUME NEW f \in Files, NEW h \in Files, verdict'[f].kind \in {"dup", "unique"}, Same(f, h)
               PROVE  verdict'[h] # Undecided
    BY DEF DecidedClosed
  <2>1. CASE h \in S
    BY <1>1, <1>2, <2>1
  <2>2. CASE h \notin S /\ f \in S
    BY <1>0, <1>1, <2>2, NoTwinLeft DEF S, Ignored, Undecided
  <2>3. CASE h \notin S /\ f \notin S
    BY <1>1, <2>3 DEF RInv, DecidedClosed
  <2>4. QED BY <2>1, <2>2, <2>3
<1>8. MembersHeld' /\ DormantBecause'
  BY <1>1, <1>4, <1>5 DEF RInv, MembersHeld, DormantBecause
<1>9. FinishingQualifies'
  BY <1>1, <1>5 DEF RInv, FinishingQualifies
<1>10. AncestorsFreed'
  BY <1>1, <1>5, GroupAtFacts DEF RInv, AncestorsFreed
<1>11. Trail'
  BY <1>1, <1>5, GroupAtFacts DEF RInv, Trail
<1>12. QED BY <1>6, <1>7, <1>8, <1>9, <1>10, <1>11 DEF RInv

-----------------------------------------------------------------------------
(* The steps of Shredder as steps of Sieve. *)

\* A cluster that is ignored was undecided.
LEMMA SiftIgnores ==
  ASSUME IInv, RInv, NEW f \in Files, InFlight(f), Sift(f, TRUE)
  PROVE  Promise!Ignore(f)
<1>1. verdict[f] = Undecided
  BY DEF RInv, VerdictsPlaced, InFlight
<1>2. verdict' = [h \in Files |-> IF h \in {f} THEN Ignored ELSE verdict[h]]
  BY DEF Sift, Discard
<1>3. verdict' = [verdict EXCEPT ![f] = Ignored]
  BY <1>2 DEF IInv, TypeOK
<1>4. QED
  BY <1>1, <1>3 DEF Promise!Ignore, Promise!Open, Promise!Undecided, Promise!Ignored, Undecided, Ignored

\* The clusters of a group are given their verdict together: they are reported if they are
\* twins of each other that qualify, and dismissed otherwise.
LEMMA ResultIsAVerdict ==
  ASSUME IInv, RInv, NEW g \in Groups, ResultFactory(g)
  PROVE  [Promise!Next]_verdict
<1> DEFINE S == Held(g)
           kind == IF stat[g] = "finishing" THEN "dup" ELSE "unique"
<1>1. /\ g \in result_pool /\ stat[g] \in {"dormant", "finishing"} /\ S \in SUBSET Files
      /\ \A f \in S : at[f] = "held" /\ shred_group[f] = g /\ f \in Files
      /\ verdict' = [f \in Files |-> IF f \in S THEN [kind |-> kind, twins |-> S] ELSE verdict[f]]
  BY DEF ResultFactory, Discard, IInv, GroupsLive, Held
<1>2. members[g] = S
  BY <1>1 DEF RInv, MembersHeld
<1>3. S \subseteq Promise!Open
  BY <1>1 DEF RInv, VerdictsPlaced, Promise!Open, Promise!Undecided, Undecided
<1>4. Promise!Closed(S)
  BY <1>1, NoTwinLeft DEF Promise!Closed, Promise!Ignored, Ignored
<1>5. Promise!Publish(S, kind)
  BY <1>1 DEF Promise!Publish
<1>6. CASE S = {}
  <2>1. verdict' = verdict
    BY <1>1, <1>6 DEF IInv, TypeOK
  <2>2. QED BY <2>1
<1>7. CASE S # {} /\ stat[g] = "finishing"
  <2>1. Qualifies(S)
    BY <1>1, <1>2, <1>7 DEF RInv, FinishingQualifies
  <2>2. \A f, h \in S : Same(f, h)
    <3> SUFFICES ASSUME NEW f \in S, NEW h \in S PROVE Same(f, h)
      OBVIOUS
    <3>1. CASE Complete(g)
      <4>1. PICK n \in 0..Steps(f) : g = GroupAt(f, n)
        BY <1>1, WhereItIs
      <4>2. PICK m \in 0..Steps(h) : g = GroupAt(h, m)
        BY <1>1, WhereItIs
      <4>3. QED BY <1>1, <3>1, <4>1, <4>2, CompleteMeansSame
    <3>2. CASE ~Complete(g)
      <4>1. ~WorthHashing(S)
        BY <1>1, <1>2, <2>1, <3>2 DEF RInv, DormantBecause
      <4>2. f = h
        BY <1>1, <4>1, NotWorthHashing
      <4>3. QED BY <4>2 DEF Same
    <3>3. QED BY <3>1, <3>2
  <2>3. Promise!Report(S)
    BY <1>3, <1>4, <1>5, <1>7, <2>1, <2>2 DEF Promise!Report
  <2>4. QED BY <1>1, <2>3 DEF Promise!Next
<1>8. CASE S # {} /\ stat[g] = "dormant"
  <2>1. ~Qualifies(S)
    BY <1>1, <1>2, <1>8 DEF RInv, FinishingQualifies
  <2>2. Promise!Dismiss(S)
    BY <1>3, <1>4, <1>5, <1>8, <2>1 DEF Promise!Dismiss
  <2>3. QED BY <1>1, <2>2 DEF Promise!Next
<1>9. QED BY <1>1, <1>6, <1>7, <1>8

\* One step of the finder: what it keeps, and what it looks like from outside.
LEMMA StepRefines ==
  ASSUME IInv, RInv, [Next]_vars
  PROVE  RInv' /\ [Promise!Next]_verdict
<1> DEFINE Goal == RInv' /\ [Promise!Next]_verdict
<1>1. ASSUME NEW f \in Files, Preprocess(f) PROVE Goal
  <2>1. UNCHANGED verdict
    BY <1>1 DEF Preprocess
  <2>2. QED BY <1>1, <2>1, PreprocessRInv
<1>2. ASSUME NEW f \in Files, InFlight(f), Sift(f, TRUE) PROVE Goal
  BY <1>2, SiftIgnoreRInv, SiftIgnores DEF Promise!Next
<1>3. ASSUME NEW f \in Files, at[f] \in {"hashing", "hashed"}, Sift(f, FALSE) PROVE Goal
  <2>1. UNCHANGED verdict
    BY <1>3 DEF Sift
  <2>2. QED BY <1>3, <2>1, SiftPushRInv
<1>4. ASSUME NEW f \in Files, ProcessAborted(f) PROVE Goal
  BY <1>2, <1>4 DEF ProcessAborted, InFlight
<1>5. ASSUME NEW f \in Files, ProcessFile(f) PROVE Goal
  BY <1>5, MoveRInv DEF ProcessFile, groupVars, workVars, IInv, TypeOK
<1>6. ASSUME NEW f \in Files, ReadIncrement(f) PROVE Goal
  BY <1>6, MoveRInv DEF ReadIncrement, groupVars, workVars, IInv, TypeOK
<1>7. ASSUME NEW f \in Files, HashCallback(f) PROVE Goal
  <2>1. CASE waiting[f]
    BY <1>7, <2>1, MoveRInv DEF HashCallback, groupVars, workVars, IInv, TypeOK
  <2>2. CASE ~waiting[f]
    <3>1. Sift(f, failed[f]) /\ at[f] = "hashing" /\ failed[f] \in BOOLEAN /\ InFlight(f)
      BY <1>7, <2>2 DEF HashCallback, InFlight, IInv, TypeOK
    <3>2. QED BY <1>2, <1>3, <3>1
  <2>3. QED BY <2>1, <2>2
<1>8. ASSUME NEW f \in Files, SiftWaiting(f) PROVE Goal
  <2>1. Sift(f, failed[f]) /\ at[f] = "hashed" /\ failed[f] \in BOOLEAN /\ InFlight(f)
    BY <1>8 DEF SiftWaiting, InFlight, IInv, TypeOK
  <2>2. QED BY <1>2, <1>3, <2>1
<1>9. ASSUME NEW g \in Groups, Finalise(g) PROVE Goal
  <2>1. UNCHANGED verdict
    BY <1>9 DEF Finalise
  <2>2. QED BY <1>9, <2>1, FinaliseRInv
<1>10. ASSUME NEW c \in Groups, MakeOrphan(c) PROVE Goal
  <2>1. UNCHANGED verdict
    BY <1>10 DEF MakeOrphan
  <2>2. QED BY <1>10, <2>1, MakeOrphanRInv
<1>11. ASSUME NEW g \in Groups, ResultFactory(g) PROVE Goal
  BY <1>11, ResultFactoryRInv, ResultIsAVerdict
<1>12. CASE Abort
  BY <1>12, MoveRInv DEF Abort, groupVars, fileVars, workVars
<1>13. CASE Finished \/ UNCHANGED vars
  BY <1>13, MoveRInv DEF Finished, vars, groupVars, fileVars, workVars
<1>14. QED
  BY <1>1, <1>4, <1>5, <1>6, <1>7, <1>8, <1>9, <1>10, <1>11, <1>12, <1>13 DEF Next, Work

\* The duplicate finder keeps the promise of Sieve for any files, contents, devices and
\* options, with any number of threads, failing reads and an abort at any time: every verdict
\* is given once, together with all twins that were not ignored, as a duplicate only to
\* clusters of equal content that qualify (rm_shred_sift, rm_shred_group_finalise,
\* rm_shred_result_factory).
THEOREM Implementation == Spec => ImplementsSieve
<1>1. Init => Promise!Init
  BY DEF Init, Promise!Init, Undecided, Promise!Undecided
<1>2. Init => RInv
  BY InitRInv
<1>3. IInv /\ RInv /\ [Next]_vars => RInv' /\ [Promise!Next]_verdict
  BY StepRefines
<1>4. Spec => []IInv
  BY Invariance
<1>5. QED
  BY <1>1, <1>2, <1>3, <1>4, PTL DEF Spec, ImplementsSieve, Promise!Spec

-----------------------------------------------------------------------------
(* ReadSize: how much of a file is read next, for every file size, page size  *)
(* and number of threads.  It has state of its own and shares only Files.     *)

CONSTANTS FileSize, BalancedBytes, MaxFactor, Paranoid, ParanoidBytes

VARIABLE offset_factor

Sizes == INSTANCE ReadSize

\* An increment is not empty, ends within the file and fits a gint32.
LEMMA SizeTargetBounds ==
  ASSUME Sizes!ReadSizeAssumption, NEW h \in Sizes!Offsets, h < FileSize, NEW k \in 1..MaxFactor
  PROVE  /\ Sizes!Target(h, k) \in Sizes!Offsets
         /\ h < Sizes!Target(h, k)
         /\ Sizes!Target(h, k) - h \in 1..MaxInt
<1> DEFINE b == BalancedBytes * k
<1>1. b \in Nat \ {0} /\ b <= BalancedBytes * MaxFactor
  BY Z3 DEF Sizes!ReadSizeAssumption
<1>2. BalancedBytes * MaxFactor \in Nat /\ BalancedBytes * MaxFactor + BalancedBytes <= MaxInt
  BY Z3 DEF Sizes!ReadSizeAssumption
<1>3. Sizes!Target(h, k) = IF h + b + BalancedBytes >= FileSize THEN FileSize ELSE h + b
  BY DEF Sizes!Target
<1> HIDE DEF b
<1> QED
  BY <1>1, <1>2, <1>3 DEF Sizes!Offsets, Sizes!ReadSizeAssumption

\* Where the increment of f ends.
SizeGoal(f) == Sizes!Target(group[f], offset_factor[group[f]])

\* next_offset, once it is computed, is the target of the group; every file
\* that is past the computation finds it there, and the factor of a group that
\* holds files does not change.
SizeFileInv(f) ==
  /\ pc[f] # "done" => group[f] < FileSize /\ offset_factor[group[f]] \in 1..MaxFactor
  /\ pc[f] = "cap" => Paranoid
  /\ pc[f] \in {"size", "cap", "read"} => hash_offset[f] = group[f]
  /\ pc[f] \in {"cap", "read", "hashed"} => next_offset[group[f]] = SizeGoal(f)
  /\ pc[f] = "hashed" => /\ hash_offset[f] = SizeGoal(f)
                         /\ bytes_to_read[f] = SizeGoal(f) - group[f]

SizeIInv == Sizes!TypeOK /\ \A f \in Files : SizeFileInv(f)

LEMMA SizesInitially == Sizes!ReadSizeAssumption /\ Sizes!Init => SizeIInv
BY DEF Sizes!ReadSizeAssumption, Sizes!Init, SizeIInv, Sizes!TypeOK, SizeFileInv, Sizes!Offsets

LEMMA SizeStepInv ==
  ASSUME Sizes!ReadSizeAssumption, SizeIInv, NEW f \in Files, Sizes!Size(f) PROVE SizeIInv'
<1>1. group[f] \in Sizes!Offsets /\ group[f] < FileSize /\ offset_factor[group[f]] \in 1..MaxFactor
  BY DEF SizeIInv, Sizes!TypeOK, SizeFileInv, Sizes!Size
<1>2. SizeGoal(f) \in Sizes!Offsets
  BY <1>1, SizeTargetBounds DEF SizeGoal
<1>3. /\ next_offset' = [next_offset EXCEPT ![group[f]] = SizeGoal(f)]
      /\ UNCHANGED <<offset_factor, group, hash_offset, bytes_to_read>>
      /\ pc' = [pc EXCEPT ![f] = pc'[f]] /\ pc'[f] \in {"cap", "read"} /\ pc[f] = "size"
      /\ pc'[f] = "cap" => Paranoid
  BY DEF Sizes!Size, SizeGoal, SizeIInv, Sizes!TypeOK
<1>4. \A g \in Files : SizeGoal(g)' = SizeGoal(g)
  BY <1>3 DEF SizeGoal
<1>5. \A g \in Files : group[g] = group[f] => SizeGoal(g) = SizeGoal(f)
  BY DEF SizeGoal
<1>6. Sizes!TypeOK'
  BY <1>2, <1>3 DEF SizeIInv, Sizes!TypeOK
<1>7. ASSUME NEW g \in Files PROVE SizeFileInv(g)'
  BY <1>3, <1>4, <1>5, <1>1 DEF SizeIInv, SizeFileInv, Sizes!TypeOK
<1> QED
  BY <1>6, <1>7 DEF SizeIInv

LEMMA SizeCapInv ==
  ASSUME Sizes!ReadSizeAssumption, Sizes!Harmless, SizeIInv, NEW f \in Files, Sizes!Cap(f) PROVE SizeIInv'
<1>1. pc[f] = "cap" /\ group[f] \in Sizes!Offsets /\ Paranoid
  BY DEF Sizes!Cap, SizeIInv, Sizes!TypeOK, SizeFileInv
<1>2. next_offset[group[f]] \in Sizes!Offsets
  BY <1>1 DEF SizeIInv, Sizes!TypeOK
<1>3. Sizes!Lesser(next_offset[group[f]], group[f] + ParanoidBytes) = next_offset[group[f]]
  BY <1>1, <1>2 DEF Sizes!Lesser, Sizes!Harmless, Sizes!Offsets, Sizes!ReadSizeAssumption
<1>4. next_offset' = next_offset /\ pc' = [pc EXCEPT ![f] = "read"]
      /\ UNCHANGED <<offset_factor, group, hash_offset, bytes_to_read>>
  BY <1>3 DEF Sizes!Cap, SizeIInv, Sizes!TypeOK
<1>5. \A g \in Files : SizeGoal(g)' = SizeGoal(g)
  BY <1>4 DEF SizeGoal
<1> QED
  BY <1>1, <1>4, <1>5 DEF SizeIInv, Sizes!TypeOK, SizeFileInv

LEMMA SizeReadInv ==
  ASSUME Sizes!ReadSizeAssumption, SizeIInv, NEW f \in Files, Sizes!Read(f) PROVE SizeIInv'
<1>1. /\ pc[f] = "read" /\ hash_offset[f] = group[f] /\ next_offset[group[f]] = SizeGoal(f)
      /\ group[f] \in Sizes!Offsets /\ group[f] < FileSize /\ offset_factor[group[f]] \in 1..MaxFactor
  BY DEF Sizes!Read, SizeIInv, SizeFileInv, Sizes!TypeOK
<1>2. SizeGoal(f) \in Sizes!Offsets /\ SizeGoal(f) - group[f] \in 1..MaxInt
  BY <1>1, SizeTargetBounds DEF SizeGoal
<1>3. /\ bytes_to_read' = [bytes_to_read EXCEPT ![f] = SizeGoal(f) - group[f]]
      /\ hash_offset' = [hash_offset EXCEPT ![f] = SizeGoal(f)]
      /\ pc' = [pc EXCEPT ![f] = "hashed"]
      /\ UNCHANGED <<offset_factor, next_offset, group>>
  <2>1. SizeGoal(f) \in Int /\ group[f] \in Int
    BY <1>1, <1>2 DEF Sizes!Offsets, Sizes!ReadSizeAssumption
  <2>2. group[f] + (SizeGoal(f) - group[f]) = SizeGoal(f)
    BY <2>1
  <2> QED
    BY <1>1, <2>2 DEF Sizes!Read, SizeIInv, Sizes!TypeOK
<1>4. \A g \in Files : SizeGoal(g)' = SizeGoal(g)
  BY <1>3 DEF SizeGoal
<1>5. Sizes!TypeOK'
  BY <1>2, <1>3 DEF SizeIInv, Sizes!TypeOK, Sizes!ReadSizeAssumption
<1>6. ASSUME NEW g \in Files PROVE SizeFileInv(g)'
  BY <1>1, <1>3, <1>4 DEF SizeIInv, SizeFileInv, Sizes!TypeOK
<1> QED
  BY <1>5, <1>6 DEF SizeIInv

LEMMA SizeHashCallbackInv ==
  ASSUME Sizes!ReadSizeAssumption, SizeIInv, NEW f \in Files, Sizes!HashCallback(f) PROVE SizeIInv'
<1> DEFINE h == hash_offset[f]
           k == offset_factor[group[f]]
<1>1. /\ pc[f] = "hashed" /\ h = SizeGoal(f) /\ h \in Sizes!Offsets
      /\ group[f] \in Sizes!Offsets /\ group[f] < FileSize /\ k \in 1..MaxFactor
  BY DEF Sizes!HashCallback, SizeIInv, SizeFileInv, Sizes!TypeOK
<1>2. Sizes!Lesser(k * 8, MaxFactor) \in 1..MaxFactor
  BY <1>1 DEF Sizes!Lesser, Sizes!ReadSizeAssumption
<1>3. /\ offset_factor' = [offset_factor EXCEPT ![h] = offset_factor'[h]]
      /\ offset_factor[h] # 0 => offset_factor'[h] = offset_factor[h]
      /\ offset_factor'[h] \in 1..MaxFactor
  BY <1>1, <1>2 DEF Sizes!HashCallback, Sizes!Grow, SizeIInv, Sizes!TypeOK
<1>4. /\ group' = [group EXCEPT ![f] = h]
      /\ pc' = [pc EXCEPT ![f] = IF h = FileSize THEN "done" ELSE "size"]
      /\ UNCHANGED <<next_offset, hash_offset, bytes_to_read>>
  BY DEF Sizes!HashCallback
<1>5. Sizes!TypeOK'
  BY <1>1, <1>3, <1>4 DEF SizeIInv, Sizes!TypeOK
<1>6. ASSUME NEW g \in Files PROVE SizeFileInv(g)'
  <2>1. CASE g = f
    BY <2>1, <1>1, <1>3, <1>4 DEF SizeIInv, SizeFileInv, Sizes!TypeOK, Sizes!Offsets, Sizes!ReadSizeAssumption
  <2>2. CASE g # f
    <3>1. group'[g] = group[g] /\ pc'[g] = pc[g]
      BY <2>2, <1>4 DEF SizeIInv, Sizes!TypeOK
    <3>2. CASE pc[g] = "done"
      BY <3>1, <3>2 DEF SizeFileInv
    <3>3. CASE pc[g] # "done"
      <4>1. group[g] \in Sizes!Offsets /\ offset_factor[group[g]] \in 1..MaxFactor
        BY <3>3 DEF SizeIInv, SizeFileInv, Sizes!TypeOK
      <4>2. offset_factor'[group[g]] = offset_factor[group[g]]
        BY <4>1, <1>1, <1>3 DEF SizeIInv, Sizes!TypeOK, Sizes!ReadSizeAssumption
      <4>3. SizeGoal(g)' = SizeGoal(g)
        BY <4>2, <3>1 DEF SizeGoal
      <4> QED
        BY <3>1, <4>2, <4>3, <1>4 DEF SizeIInv, SizeFileInv
    <3> QED
      BY <3>2, <3>3
  <2> QED
    BY <2>1, <2>2
<1> QED
  BY <1>5, <1>6 DEF SizeIInv

\* The invariant holds of every behaviour in which the race is harmless.
THEOREM SizesInvariance ==
  ASSUME Sizes!ReadSizeAssumption, Sizes!Harmless
  PROVE  Sizes!Spec => []SizeIInv
<1>1. SizeIInv /\ [Sizes!Next]_(Sizes!vars) => SizeIInv'
  <2> SUFFICES ASSUME SizeIInv, [Sizes!Next]_(Sizes!vars) PROVE SizeIInv'
    OBVIOUS
  <2>1. ASSUME NEW f \in Files, Sizes!Step(f) PROVE SizeIInv'
    BY <2>1, SizeStepInv, SizeCapInv, SizeReadInv, SizeHashCallbackInv DEF Sizes!Step
  <2>2. CASE UNCHANGED Sizes!vars
    BY <2>2 DEF Sizes!vars, SizeIInv, Sizes!TypeOK, SizeFileInv, SizeGoal
  <2> QED
    BY <2>1, <2>2 DEF Sizes!Next, Sizes!Done
<1> QED
  BY <1>1, SizesInitially, PTL DEF Sizes!Spec

\* The unlocked computation of next_offset never trips the assertion of
\* rm_shred_hash_callback, except for paranoid digests of files that are larger
\* than the paranoid buffer.
THEOREM CallbackSafe ==
  ASSUME Sizes!ReadSizeAssumption, Sizes!Harmless
  PROVE  Sizes!Spec => []CallbackAgrees
<1>1. SizeIInv => CallbackAgrees
  BY DEF SizeIInv, Sizes!TypeOK, SizeFileInv, CallbackAgrees
<1> QED
  BY <1>1, SizesInvariance, PTL

\* The files of a group stay level with each other, whatever the interleaving,
\* and a read always makes progress and fits its gint32.
THEOREM IncrementsEqual ==
  ASSUME Sizes!ReadSizeAssumption, Sizes!Harmless
  PROVE  Sizes!Spec => []EqualIncrements
<1>1. SizeIInv => EqualIncrements
  <2> SUFFICES ASSUME SizeIInv, NEW f \in Files, pc[f] = "hashed"
               PROVE /\ \A g \in Files : pc[g] = "hashed" /\ group[f] = group[g] =>
                                           hash_offset[f] = hash_offset[g]
                     /\ bytes_to_read[f] \in 1..MaxInt
    BY DEF EqualIncrements, SizeIInv, Sizes!TypeOK
  <2>1. \A g \in Files : group[f] = group[g] => SizeGoal(f) = SizeGoal(g)
    BY DEF SizeGoal
  <2>2. SizeGoal(f) - group[f] \in 1..MaxInt
    BY SizeTargetBounds DEF SizeIInv, SizeFileInv, Sizes!TypeOK, SizeGoal
  <2> QED
    BY <2>1, <2>2 DEF SizeIInv, SizeFileInv
<1> QED
  BY <1>1, SizesInvariance, PTL
=============================================================================
