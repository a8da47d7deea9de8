--------------------------- MODULE DevicesProofs ---------------------------
(***************************************************************************)
(* Proofs about what MCDevices checks on small instances.                  *)
(*                                                                         *)
(* MDScheduler, for any tasks, devices, pool threads, tokens per device    *)
(* and quota, and any client that pushes, holds and refuses tasks: a       *)
(* device is freed after the last thread has left it and its last task is  *)
(* done, and no task is lost or doubled between its lists.                 *)
(*                                                                         *)
(* ParanoidMem, for any files, contents, device threads, hash pipes and    *)
(* size of the bank: active groups are never undercounted, and what the    *)
(* bank lends comes back.                                                  *)
(***************************************************************************)
EXTENDS MCDevices, FiniteSetTheorems, SequenceTheorems, WellFoundedInduction, TLAPS

-----------------------------------------------------------------------------
(* The inductive invariant of the scheduler. *)

Queued(s, d) == {i \in 1..Len(s) : s[i] = d}
Passes(d)    == {w \in Workers : InPass(w, d)}
Pending(d)   == {t \in Tasks : Disk[t] = d /\ task[t] # "done"}

\* Every token that has not given up is in the pool or in the hands of a thread.
TokensCounted ==
  \A d \in Devices : threads[d] = Cardinality(Queued(pool, d)) + Cardinality(Passes(d))

\* Every task that is not done holds one reference to its device.
RefsCounted == \A d \in Devices : ref_count[d] = Cardinality(Pending(d))

\* Devices are started while they exist, given up when nothing refers to them, and
\* freed by their last token.
DevicesLive ==
  \A d \in Devices :
    /\ d \in main.unstarted => d \in disks /\ threads[d] = 0
    /\ d \notin disks => threads[d] = 0 /\ ref_count[d] = 0

LastMeansUnused ==
  \A w \in Workers : worker[w].pc = "last" => ref_count[worker[w].dev] = 0

RoundsLeft == \A t \in Tasks : task[t] # "done" => left[t] > 0

Unsorted(t)  == t \in unsorted_tasks[Disk[t]]
Sorted(t)    == \E i \in 1..Len(sorted_tasks[Disk[t]]) : sorted_tasks[Disk[t]][i] = t
Serves(w, t) == worker[w].pc = "func" /\ worker[w].task = t

\* Tasks are only on the lists of their own device, and served in its passes.
TasksAtHome ==
  /\ \A d \in Devices : \A t \in unsorted_tasks[d] : Disk[t] = d
  /\ \A d \in Devices : \A i \in 1..Len(sorted_tasks[d]) : Disk[sorted_tasks[d][i]] = d
  /\ \A w \in Workers : worker[w].pc = "func" => Disk[worker[w].task] = worker[w].dev

\* No list and no two threads hold a task twice, and no two of them the same task.
OnePlace ==
  /\ \A d \in Devices : \A i, j \in 1..Len(sorted_tasks[d]) :
       sorted_tasks[d][i] = sorted_tasks[d][j] => i = j
  /\ \A t \in Tasks : \A v, w \in Workers : Serves(v, t) /\ Serves(w, t) => v = w
  /\ \A t \in Tasks : ~(Unsorted(t) /\ Sorted(t))
  /\ \A t \in Tasks, w \in Workers : Serves(w, t) => ~Unsorted(t) /\ ~Sorted(t)
  /\ \A t \in Tasks :
       task[t] = "pushed" <=> Unsorted(t) \/ Sorted(t) \/ \E w \in Workers : Serves(w, t)

IInv ==
  /\ TypeOK
  /\ TokensCounted
  /\ RefsCounted
  /\ DevicesLive
  /\ LastMeansUnused
  /\ RoundsLeft
  /\ TasksAtHome
  /\ OnePlace

-----------------------------------------------------------------------------
(* The pool as a queue of tokens. *)

LEMMA QueuedFinite ==
  ASSUME NEW S, NEW s \in Seq(S), NEW d
  PROVE  IsFiniteSet(Queued(s, d)) /\ Cardinality(Queued(s, d)) \in Nat
<1>1. IsFiniteSet(1..Len(s))
  BY FS_Interval, LenProperties
<1> QED
  BY <1>1, FS_Subset, FS_CardinalityType DEF Queued

\* A token is put at the end of the queue.
LEMMA QueuedAppend ==
  ASSUME NEW S, NEW s \in Seq(S), NEW e \in S, NEW d
  PROVE  Cardinality(Queued(Append(s, e), d)) =
           Cardinality(Queued(s, d)) + IF d = e THEN 1 ELSE 0
<1>1. Queued(Append(s, e), d) = Queued(s, d) \cup IF d = e THEN {Len(s) + 1} ELSE {}
  BY AppendProperties, LenProperties DEF Queued
<1>2. Len(s) + 1 \notin Queued(s, d)
  BY LenProperties DEF Queued
<1>3. CASE d = e
  BY <1>1, <1>2, <1>3, QueuedFinite, FS_AddElement
<1>4. CASE d # e
  BY <1>1, <1>4, QueuedFinite
<1> QED
  BY <1>3, <1>4

\* A token is taken from the head of the queue.
LEMMA QueuedTail ==
  ASSUME NEW S, NEW s \in Seq(S), s # <<>>, NEW d
  PROVE  Cardinality(Queued(s, d)) =
           Cardinality(Queued(Tail(s), d)) + IF d = Head(s) THEN 1 ELSE 0
<1> DEFINE f == [i \in Queued(Tail(s), d) |-> i + 1]
<1>1. /\ Tail(s) \in Seq(S) /\ Len(s) \in Nat \ {0} /\ Len(Tail(s)) = Len(s) - 1
      /\ \A i \in 1..Len(Tail(s)) : Tail(s)[i] = s[i + 1]
      /\ Head(s) = s[1]
  BY HeadTailProperties, LenProperties, EmptySeq
<1>2. f \in Bijection(Queued(Tail(s), d), Queued(s, d) \ {1})
  <2>1. f \in [Queued(Tail(s), d) -> Queued(s, d) \ {1}]
    BY <1>1 DEF Queued
  <2>2. \A i, j \in Queued(Tail(s), d) : f[i] = f[j] => i = j
    BY <1>1 DEF Queued
  <2>3. \A j \in Queued(s, d) \ {1} : \E i \in Queued(Tail(s), d) : f[i] = j
    <3>1. TAKE j \in Queued(s, d) \ {1}
    <3>2. j - 1 \in Queued(Tail(s), d) /\ f[j - 1] = j
      BY <3>1, <1>1 DEF Queued
    <3> QED
      BY <3>2
  <2> QED
    <3> HIDE DEF f
    <3>1. f \in Injection(Queued(Tail(s), d), Queued(s, d) \ {1})
      BY <2>1, <2>2 DEF Injection, IsInjective
    <3>2. f \in Surjection(Queued(Tail(s), d), Queued(s, d) \ {1})
      BY <2>1, <2>3 DEF Surjection
    <3> QED
      BY <3>1, <3>2 DEF Bijection
<1>3. /\ IsFiniteSet(Queued(s, d)) /\ IsFiniteSet(Queued(Tail(s), d))
      /\ Cardinality(Queued(s, d)) \in Nat /\ Cardinality(Queued(Tail(s), d)) \in Nat
  BY <1>1, QueuedFinite
<1>4. Cardinality(Queued(s, d) \ {1}) = Cardinality(Queued(Tail(s), d))
  <2>1. ExistsBijection(Queued(Tail(s), d), Queued(s, d) \ {1})
    BY <1>2, Zenon DEF ExistsBijection
  <2> QED
    BY <1>3, <2>1, FS_Bijection, Zenon
<1>5. 1 \in Queued(s, d) <=> d = Head(s)
  BY <1>1 DEF Queued
<1>6. Cardinality(Queued(s, d) \ {1}) =
        IF 1 \in Queued(s, d) THEN Cardinality(Queued(s, d)) - 1 ELSE Cardinality(Queued(s, d))
  BY <1>3, FS_RemoveElement, Zenon
<1> QED
  BY <1>3, <1>4, <1>5, <1>6

\* rm_mds_device_start puts all tokens of a device at the end of the queue.
LEMMA QueuedTokens ==
  ASSUME NEW S, NEW s \in Seq(S), NEW e \in S, NEW n \in Nat, NEW d,
         NEW c, c = [i \in 1..n |-> e]
  PROVE  /\ s \o c \in Seq(S)
         /\ Cardinality(Queued(s \o c, d)) =
              Cardinality(Queued(s, d)) + IF d = e THEN n ELSE 0
<1> DEFINE r == s \o c
<1>1. c \in Seq(S) /\ Len(c) = n
  BY IsASeq, LenProperties
<1>2. /\ r \in Seq(S) /\ Len(r) = Len(s) + n
      /\ \A i \in 1..Len(r) : r[i] = IF i <= Len(s) THEN s[i] ELSE e
  BY <1>1, ConcatProperties, LenProperties
<1>3. Queued(r, d) = Queued(s, d) \cup IF d = e THEN (Len(s) + 1)..(Len(s) + n) ELSE {}
  BY <1>2, LenProperties DEF Queued
<1>4. Queued(s, d) \cap ((Len(s) + 1)..(Len(s) + n)) = {}
  BY LenProperties DEF Queued
<1> SUFFICES Cardinality(Queued(r, d)) =
               Cardinality(Queued(s, d)) + IF d = e THEN n ELSE 0
  BY <1>2
<1> HIDE DEF r
<1>5. IsFiniteSet(Queued(s, d)) /\ Cardinality(Queued(s, d)) \in Nat
  BY QueuedFinite
<1>6. CASE d = e
  <2> DEFINE a == Len(s) + 1
             b == Len(s) + n
  <2>1. a \in Int /\ b \in Int /\ (IF a > b THEN 0 ELSE b - a + 1) = n
    BY LenProperties
  <2> HIDE DEF a, b
  <2>2. IsFiniteSet(a..b) /\ Cardinality(a..b) = n
    BY <2>1, FS_Interval
  <2>3. Queued(r, d) = Queued(s, d) \cup (a..b) /\ Queued(s, d) \cap (a..b) = {}
    BY <1>3, <1>4, <1>6 DEF a, b
  <2>4. Cardinality(Queued(r, d)) = Cardinality(Queued(s, d)) + n - Cardinality({})
    BY <1>5, <2>2, <2>3, FS_Union
  <2> QED
    BY <1>5, <1>6, <2>4, FS_EmptySet
<1>7. CASE d # e
  BY <1>3, <1>5, <1>7
<1> QED
  BY <1>6, <1>7

-----------------------------------------------------------------------------
(* Threads and their passes. *)

Busy == [pc : {"enter", "wait", "sweep", "leave", "again", "last"},
         dev : Devices, processed : Nat]
InFunc == [pc : {"func"}, dev : Devices, processed : Nat, task : Tasks]

LEMMA WorkerFacts ==
  ASSUME TypeOK, NEW w \in Workers
  PROVE  /\ worker[w] \in {Idle} \cup Busy \cup InFunc
         /\ worker[w].pc = "idle" => worker[w] = Idle
         /\ worker[w].pc = "func" => worker[w] \in InFunc
         /\ worker[w].pc \notin {"idle", "func"} => worker[w] \in Busy
         /\ worker[w].pc # "idle" => worker[w].dev \in Devices /\ worker[w].processed \in Nat
BY DEF TypeOK, Idle, Busy, InFunc

LEMMA WorkerType ==
  ASSUME TypeOK, NEW w \in Workers, NEW x \in {Idle} \cup Busy \cup InFunc,
         worker' = [worker EXCEPT ![w] = x]
  PROVE  worker' \in [Workers -> {Idle} \cup Busy \cup InFunc]
BY DEF TypeOK, Busy, InFunc

LEMMA MoveOn ==
  ASSUME NEW x \in Busy, NEW y \in {"enter", "wait", "sweep", "leave", "again", "last"}
  PROVE  /\ [x EXCEPT !.pc = y] \in Busy
         /\ [x EXCEPT !.pc = y].pc = y
         /\ [x EXCEPT !.pc = y].dev = x.dev
BY DEF Busy

LEMMA PassesFinite ==
  ASSUME MDSAssumption, NEW d
  PROVE  IsFiniteSet(Passes(d)) /\ Cardinality(Passes(d)) \in Nat
BY FS_Subset, FS_CardinalityType DEF MDSAssumption, Passes

\* One thread enters a pass, leaves it, or neither.
LEMMA PassesMove ==
  ASSUME MDSAssumption, TypeOK, TypeOK', NEW w \in Workers, NEW x, NEW d,
         worker' = [worker EXCEPT ![w] = x]
  PROVE  /\ ~InPass(w, d) /\ x.pc # "idle" /\ x.dev = d =>
              Cardinality(Passes(d)') = Cardinality(Passes(d)) + 1
         /\ InPass(w, d) /\ x.pc = "idle" =>
              Cardinality(Passes(d)') = Cardinality(Passes(d)) - 1
         /\ (InPass(w, d) <=> x.pc # "idle" /\ x.dev = d) => Passes(d)' = Passes(d)
<1>1. /\ \A v \in Workers : v # w => worker'[v] = worker[v]
      /\ worker'[w] = x
  BY DEF TypeOK
<1>2. CASE ~InPass(w, d) /\ x.pc # "idle" /\ x.dev = d
  <2>1. Passes(d)' = Passes(d) \cup {w} /\ w \notin Passes(d)
    BY <1>1, <1>2 DEF Passes, InPass
  <2> QED
    BY <1>2, <2>1, PassesFinite, FS_AddElement
<1>3. CASE InPass(w, d) /\ x.pc = "idle"
  <2>1. Passes(d)' = Passes(d) \ {w} /\ w \in Passes(d)
    BY <1>1, <1>3 DEF Passes, InPass
  <2> QED
    BY <1>3, <2>1, PassesFinite, FS_RemoveElement
<1>4. CASE InPass(w, d) <=> x.pc # "idle" /\ x.dev = d
  BY <1>1, <1>4 DEF Passes, InPass
<1> QED
  BY <1>2, <1>3, <1>4

-----------------------------------------------------------------------------
(* The lists of a device. *)

\* A set is sorted into a sequence without repetition.
LEMMA SortedSet ==
  ASSUME NEW S, IsFiniteSet(S), NEW s \in SetToSeqs(S)
  PROVE  /\ s \in Seq(S)
         /\ \A i, j \in 1..Len(s) : s[i] = s[j] => i = j
         /\ \A x \in S : \E i \in 1..Len(s) : s[i] = x
<1> DEFINE n == Cardinality(S)
           D == 1..n
<1>1. n \in Nat
  BY FS_CardinalityType
<1>2. s \in [D -> S] /\ \A i, j \in D : i # j => s[i] # s[j]
  BY DEF SetToSeqs
<1>3. s \in Seq(S) /\ Len(s) = n
  BY <1>1, <1>2, IsASeq, LenProperties
<1>4. s \in Injection(D, S)
  BY <1>2 DEF Injection, IsInjective
<1>5. Cardinality(D) = n
  BY <1>1, FS_Interval
<1>6. s \in Surjection(D, S)
  BY <1>4, <1>5, FS_Injection
<1> QED
  BY <1>2, <1>3, <1>6 DEF Surjection

LEMMA MergeFacts ==
  ASSUME MDSAssumption, TypeOK, NEW d \in Devices, Merge(d)
  PROVE  \E s \in Seq(unsorted_tasks[d]) :
           /\ s \in Seq(Tasks)
           /\ \A i, j \in 1..Len(s) : s[i] = s[j] => i = j
           /\ \A t \in unsorted_tasks[d] : \E i \in 1..Len(s) : s[i] = t
           /\ sorted_tasks' = [sorted_tasks EXCEPT ![d] = s \o @]
           /\ unsorted_tasks' = [unsorted_tasks EXCEPT ![d] = {}]
<1>1. unsorted_tasks[d] \subseteq Tasks
  BY DEF TypeOK
<1>2. IsFiniteSet(unsorted_tasks[d])
  BY <1>1, FS_Subset DEF MDSAssumption
<1>3. PICK s \in SetToSeqs(unsorted_tasks[d]) :
        sorted_tasks' = [sorted_tasks EXCEPT ![d] = s \o @]
  BY DEF Merge
<1>4. unsorted_tasks' = [unsorted_tasks EXCEPT ![d] = {}]
  BY DEF Merge
<1>5. /\ s \in Seq(unsorted_tasks[d])
      /\ \A i, j \in 1..Len(s) : s[i] = s[j] => i = j
      /\ \A x \in unsorted_tasks[d] : \E i \in 1..Len(s) : s[i] = x
  BY <1>2, SortedSet
<1>6. s \in Seq(Tasks)
  BY <1>1, <1>5, SeqMonotonic
<1> QED
  BY <1>3, <1>4, <1>5, <1>6

\* No thread begins or ends to serve a task.
SameServed ==
  \A w \in Workers : worker[w].pc = "func" \/ worker'[w].pc = "func" => worker'[w] = worker[w]

LEMMA MergeKeeps ==
  ASSUME MDSAssumption, TypeOK, TasksAtHome, OnePlace, NEW d \in Devices, Merge(d),
         SameServed, UNCHANGED task
  PROVE  /\ sorted_tasks' \in [Devices -> Seq(Tasks)]
         /\ unsorted_tasks' \in [Devices -> SUBSET Tasks]
         /\ TasksAtHome'
         /\ OnePlace'
<1>1. PICK s \in Seq(unsorted_tasks[d]) :
           /\ s \in Seq(Tasks)
           /\ \A i, j \in 1..Len(s) : s[i] = s[j] => i = j
           /\ \A t \in unsorted_tasks[d] : \E i \in 1..Len(s) : s[i] = t
           /\ sorted_tasks' = [sorted_tasks EXCEPT ![d] = s \o @]
           /\ unsorted_tasks' = [unsorted_tasks EXCEPT ![d] = {}]
  BY MergeFacts
<1> DEFINE q == sorted_tasks[d]
           r == s \o q
<1>2. /\ q \in Seq(Tasks) /\ Len(q) \in Nat /\ Len(s) \in Nat
      /\ sorted_tasks \in [Devices -> Seq(Tasks)]
      /\ unsorted_tasks \in [Devices -> SUBSET Tasks]
  BY <1>1, LenProperties DEF TypeOK
<1>3. /\ r \in Seq(Tasks) /\ Len(r) = Len(s) + Len(q)
      /\ \A i \in 1..Len(r) : r[i] = IF i <= Len(s) THEN s[i] ELSE q[i - Len(s)]
  BY <1>1, <1>2, ConcatProperties
<1>4. \A i \in 1..Len(s) : s[i] \in unsorted_tasks[d]
  BY <1>1, ElementOfSeq
<1>5. sorted_tasks' = [sorted_tasks EXCEPT ![d] = r]
  BY <1>1
<1> HIDE DEF q, r
<1>6. /\ sorted_tasks' \in [Devices -> Seq(Tasks)]
      /\ unsorted_tasks' \in [Devices -> SUBSET Tasks]
      /\ sorted_tasks'[d] = r /\ unsorted_tasks'[d] = {}
      /\ \A e \in Devices \ {d} : /\ sorted_tasks'[e] = sorted_tasks[e]
                                  /\ unsorted_tasks'[e] = unsorted_tasks[e]
  BY <1>1, <1>2, <1>3, <1>5
<1>7. \A i \in 1..Len(r) : \/ i \in 1..Len(s) /\ r[i] = s[i]
                           \/ i - Len(s) \in 1..Len(q) /\ r[i] = q[i - Len(s)]
  BY <1>2, <1>3
<1>8. \A i, j \in 1..Len(r) : r[i] = r[j] => i = j
  <2>1. \A i, j \in 1..Len(q) : q[i] = q[j] => i = j
    BY DEF OnePlace, q
  <2>2. \A i \in 1..Len(s), j \in 1..Len(q) : s[i] # q[j]
    <3>1. \A i \in 1..Len(s) : s[i] \in Tasks /\ Disk[s[i]] = d /\ Unsorted(s[i])
      BY <1>2, <1>4 DEF TasksAtHome, Unsorted
    <3> QED
      BY <3>1 DEF OnePlace, Sorted, q
  <2> SUFFICES ASSUME NEW i \in 1..Len(r), NEW j \in 1..Len(r), r[i] = r[j]
               PROVE  i = j
    OBVIOUS
  <2>3. CASE i \in 1..Len(s) /\ r[i] = s[i]
    <3>1. j \in 1..Len(s) /\ r[j] = s[j]
      BY <1>7, <2>2, <2>3
    <3> QED
      BY <1>1, <2>3, <3>1
  <2>4. CASE i - Len(s) \in 1..Len(q) /\ r[i] = q[i - Len(s)]
    <3>1. j - Len(s) \in 1..Len(q) /\ r[j] = q[j - Len(s)]
      BY <1>7, <2>2, <2>4
    <3>2. i - Len(s) = j - Len(s)
      BY <2>1, <2>4, <3>1
    <3> QED
      BY <1>2, <3>2
  <2> QED
    BY <1>7, <2>3, <2>4
<1>9. \A t \in Tasks : Disk[t] = d =>
        /\ ~Unsorted(t)'
        /\ Sorted(t)' <=> Unsorted(t) \/ Sorted(t)
  <2> SUFFICES ASSUME NEW t \in Tasks, Disk[t] = d
               PROVE  /\ ~Unsorted(t)'
                      /\ Sorted(t)' <=> Unsorted(t) \/ Sorted(t)
    OBVIOUS
  <2>1. ~Unsorted(t)'
    BY <1>6 DEF Unsorted
  <2>2. Unsorted(t) => \E i \in 1..Len(s) : s[i] = t
    BY <1>1 DEF Unsorted
  <2>3. (\E i \in 1..Len(s) : s[i] = t) => Unsorted(t)
    BY <1>4 DEF Unsorted
  <2>4. Sorted(t) <=> \E i \in 1..Len(q) : q[i] = t
    BY DEF Sorted, q
  <2>5. Sorted(t)' <=> \E i \in 1..Len(r) : r[i] = t
    BY <1>6 DEF Sorted
  <2>6. \A i \in 1..Len(s) : i \in 1..Len(r) /\ r[i] = s[i]
    BY <1>2, <1>3
  <2>7. ASSUME NEW i \in 1..Len(q)
        PROVE  Len(s) + i \in 1..Len(r) /\ r[Len(s) + i] = q[i]
    <3>1. Len(s) \in Nat /\ Len(q) \in Nat /\ Len(r) = Len(s) + Len(q)
      BY <1>2, <1>3
    <3>2. Len(s) + i \in 1..Len(r) /\ ~(Len(s) + i <= Len(s)) /\ Len(s) + i - Len(s) = i
      BY <3>1
    <3>3. r[Len(s) + i] = IF Len(s) + i <= Len(s) THEN s[Len(s) + i] ELSE q[Len(s) + i - Len(s)]
      BY <1>3, <3>2
    <3> QED
      BY <3>2, <3>3
  <2>8. Sorted(t)' => Unsorted(t) \/ Sorted(t)
    BY <1>7, <2>3, <2>4, <2>5
  <2>9. Unsorted(t) \/ Sorted(t) => Sorted(t)'
    BY <2>2, <2>4, <2>5, <2>6, <2>7
  <2> QED
    BY <2>1, <2>8, <2>9
<1>10. ASSUME NEW t \in Tasks, Disk[t] # d
       PROVE  (Unsorted(t)' <=> Unsorted(t)) /\ (Sorted(t)' <=> Sorted(t))
  <2>1. Disk[t] \in Devices \ {d}
    BY <1>10 DEF MDSAssumption
  <2>2. sorted_tasks'[Disk[t]] = sorted_tasks[Disk[t]] /\ unsorted_tasks'[Disk[t]] = unsorted_tasks[Disk[t]]
    BY <1>6, <2>1
  <2> QED
    BY <2>2 DEF Unsorted, Sorted
<1>11. \A w \in Workers, t \in Tasks : Serves(w, t)' <=> Serves(w, t)
  BY DEF SameServed, Serves
<1>12. TasksAtHome'
  <2>1. \A i \in 1..Len(r) : Disk[r[i]] = d
    BY <1>4, <1>7 DEF TasksAtHome, q
  <2>2. ASSUME NEW e \in Devices
        PROVE  \A i \in 1..Len(sorted_tasks'[e]) : Disk[sorted_tasks'[e][i]] = e
    <3>1. CASE e = d
      BY <1>6, <2>1, <3>1
    <3>2. CASE e # d
      <4>1. sorted_tasks'[e] = sorted_tasks[e]
        BY <1>6, <3>2
      <4> QED
        BY <4>1 DEF TasksAtHome
    <3> QED
      BY <3>1, <3>2
  <2>3. \A e \in Devices : \A t \in unsorted_tasks'[e] : Disk[t] = e
    <3>1. \A e \in Devices : unsorted_tasks'[e] \subseteq unsorted_tasks[e]
      BY <1>6
    <3> QED
      BY <3>1 DEF TasksAtHome
  <2>4. \A w \in Workers : worker'[w].pc = "func" => Disk[worker'[w].task] = worker'[w].dev
    BY DEF SameServed, TasksAtHome
  <2> QED
    BY <2>2, <2>3, <2>4 DEF TasksAtHome
<1>13. OnePlace'
  <2>1. ASSUME NEW e \in Devices
        PROVE  \A i, j \in 1..Len(sorted_tasks'[e]) : sorted_tasks'[e][i] = sorted_tasks'[e][j] => i = j
    <3>1. CASE e = d
      BY <1>6, <1>8, <3>1
    <3>2. CASE e # d
      <4>1. sorted_tasks'[e] = sorted_tasks[e]
        BY <1>6, <3>2
      <4> QED
        BY <4>1 DEF OnePlace
    <3> QED
      BY <3>1, <3>2
  <2>2. \A t \in Tasks : \A v, w \in Workers : Serves(v, t)' /\ Serves(w, t)' => v = w
    BY <1>11 DEF OnePlace
  <2>3. \A t \in Tasks :
          /\ ~(Unsorted(t)' /\ Sorted(t)')
          /\ \A w \in Workers : Serves(w, t)' => ~Unsorted(t)' /\ ~Sorted(t)'
          /\ task[t] = "pushed" <=> Unsorted(t)' \/ Sorted(t)' \/ \E w \in Workers : Serves(w, t)'
    BY <1>9, <1>10, <1>11 DEF OnePlace
  <2> QED
    BY <2>1, <2>2, <2>3 DEF OnePlace
<1> QED
  BY <1>6, <1>12, <1>13

-----------------------------------------------------------------------------
(* What an action leaves alone. *)

\* Lists, served tasks and the state of the tasks are as they were.
LEMMA ListsKept ==
  ASSUME TypeOK, TasksAtHome, OnePlace, SameServed, UNCHANGED <<queueVars, task>>
  PROVE  TasksAtHome' /\ OnePlace'
<1>1. \A w \in Workers, t \in Tasks : Serves(w, t)' <=> Serves(w, t)
  BY DEF SameServed, Serves
<1>2. \A t \in Tasks : (Unsorted(t)' <=> Unsorted(t)) /\ (Sorted(t)' <=> Sorted(t))
  BY DEF Unsorted, Sorted, queueVars
<1>3. TasksAtHome'
  BY DEF TasksAtHome, SameServed, queueVars
<1>4. OnePlace'
  BY <1>1, <1>2 DEF OnePlace, queueVars
<1> QED
  BY <1>3, <1>4

\* A thread goes on with its pass, and keeps its token.
LEMMA TokenKept ==
  ASSUME MDSAssumption, TypeOK, TypeOK', TokensCounted, NEW w \in Workers, NEW x,
         worker' = [worker EXCEPT ![w] = x], worker[w].pc # "idle",
         x.pc # "idle", x.dev = worker[w].dev,
         UNCHANGED <<threads, pool>>
  PROVE  TokensCounted'
<1>1. ASSUME NEW d \in Devices PROVE Passes(d)' = Passes(d)
  BY PassesMove DEF InPass
<1> QED
  BY <1>1 DEF TokensCounted, Queued

LEMMA InitIInv == ASSUME MDSAssumption, Init PROVE IInv
<1>1. TypeOK
  <2>1. \A d \in Devices : Cardinality({t \in Tasks : Disk[t] = d}) \in Nat
    BY FS_Subset, FS_CardinalityType DEF MDSAssumption
  <2> QED
    BY <2>1 DEF Init, TypeOK, MDSAssumption, Idle
<1>2. TokensCounted
  <2>1. \A d \in Devices : Queued(pool, d) = {} /\ Passes(d) = {}
    BY DEF Init, Queued, Passes, InPass, Idle
  <2>2. \A d \in Devices : threads[d] = 0
    BY DEF Init
  <2> QED
    BY <2>1, <2>2, FS_EmptySet DEF TokensCounted
<1>3. RefsCounted
  <2>1. \A d \in Devices : Pending(d) = {t \in Tasks : Disk[t] = d}
    BY DEF Init, Pending
  <2> QED
    BY <2>1 DEF Init, RefsCounted
<1>4. DevicesLive /\ LastMeansUnused /\ RoundsLeft /\ TasksAtHome
  BY DEF Init, DevicesLive, LastMeansUnused, RoundsLeft, TasksAtHome, MDSAssumption, Idle
<1>5. OnePlace
  BY DEF Init, OnePlace, Unsorted, Sorted, Serves, MDSAssumption, Idle
<1> QED
  BY <1>1, <1>2, <1>3, <1>4, <1>5 DEF IInv

LEMMA StartDeviceIInv ==
  ASSUME MDSAssumption, IInv, NEW d \in Devices, StartDevice(d) PROVE IInv'
<1>8. /\ d \in main.unstarted
      /\ threads' = [threads EXCEPT ![d] = ThreadsPerDisk]
      /\ main' = [main EXCEPT !.unstarted = @ \ {d}]
      /\ UNCHANGED <<queueVars, ref_count, disks, worker, task, left>>
  BY DEF StartDevice
<1>1. /\ pool' \in Seq(Devices)
      /\ \A e \in Devices : Cardinality(Queued(pool', e)) =
           Cardinality(Queued(pool, e)) + IF e = d THEN ThreadsPerDisk ELSE 0
  <2> DEFINE n == ThreadsPerDisk
             q == pool
             c == [i \in 1..n |-> d]
  <2>1. n \in Nat /\ q \in Seq(Devices)
    BY <1>8 DEF IInv, TypeOK, MDSAssumption
  <2>2. pool' = q \o c /\ c = [i \in 1..n |-> d]
    BY DEF StartDevice
  <2> HIDE DEF n, q, c
  <2>3. /\ q \o c \in Seq(Devices)
        /\ \A e \in Devices : Cardinality(Queued(q \o c, e)) =
             Cardinality(Queued(q, e)) + IF e = d THEN n ELSE 0
    BY <2>1, <2>2, QueuedTokens
  <2> QED
    BY <2>2, <2>3, Zenon DEF n, q
<1>2. TypeOK'
  <2>1. threads' \in [Devices -> 0..ThreadsPerDisk]
    BY <1>8 DEF IInv, TypeOK, MDSAssumption
  <2>2. main' \in [unstarted : SUBSET Devices, pc : {"start", "returned"}]
    BY <1>8 DEF IInv, TypeOK
  <2> QED
    BY <1>8, <1>1, <2>1, <2>2 DEF IInv, TypeOK, queueVars
<1>3. TokensCounted'
  <2>1. /\ threads[d] = 0 /\ threads' = [threads EXCEPT ![d] = ThreadsPerDisk]
        /\ threads \in [Devices -> Nat]
    BY <1>8 DEF IInv, TypeOK, DevicesLive
  <2>2. \A e \in Devices : Passes(e)' = Passes(e)
    BY <1>8 DEF Passes, InPass
  <2>3. \A e \in Devices : /\ Cardinality(Queued(pool, e)) \in Nat
                           /\ Cardinality(Passes(e)) \in Nat
    BY QueuedFinite, PassesFinite DEF IInv, TypeOK
  <2>4. \A e \in Devices : Queued(pool, e)' = Queued(pool', e)
    BY <1>8 DEF Queued
  <2> QED
    <3> SUFFICES ASSUME NEW e \in Devices
                 PROVE  threads'[e] = Cardinality(Queued(pool', e)) + Cardinality(Passes(e)')
      BY <2>4 DEF TokensCounted
    <3>1. threads[e] = Cardinality(Queued(pool, e)) + Cardinality(Passes(e))
      BY <1>8 DEF IInv, TokensCounted
    <3>2. Cardinality(Passes(e)') = Cardinality(Passes(e))
      BY <2>2
    <3>3. ThreadsPerDisk \in Nat
      BY <1>8 DEF MDSAssumption
    <3>4. CASE e = d
      BY <1>8, <1>1, <2>1, <2>3, <3>1, <3>2, <3>3, <3>4
    <3>5. CASE e # d
      BY <1>8, <1>1, <2>1, <2>3, <3>1, <3>2, <3>5
    <3> QED
      BY <3>4, <3>5
<1>4. RefsCounted'
  BY <1>8 DEF IInv, RefsCounted, Pending
<1>5. DevicesLive'
  BY <1>8 DEF IInv, TypeOK, DevicesLive
<1>6. LastMeansUnused' /\ RoundsLeft'
  BY <1>8 DEF IInv, LastMeansUnused, RoundsLeft
<1>7. TasksAtHome' /\ OnePlace'
  BY <1>8, ListsKept DEF IInv, SameServed
<1> QED
  BY <1>2, <1>3, <1>4, <1>5, <1>6, <1>7 DEF IInv

LEMMA StutterIInv ==
  ASSUME MDSAssumption, IInv, UNCHANGED <<queueVars, deviceVars, pool, worker, task, left>>,
         main' \in [unstarted : SUBSET Devices, pc : {"start", "returned"}],
         main'.unstarted = main.unstarted
  PROVE  IInv'
<1>1. TypeOK'
  BY DEF IInv, TypeOK, queueVars, deviceVars
<1>2. TokensCounted' /\ RefsCounted'
  BY DEF IInv, TokensCounted, RefsCounted, Queued, Passes, InPass, Pending, deviceVars
<1>3. DevicesLive' /\ LastMeansUnused' /\ RoundsLeft'
  BY DEF IInv, DevicesLive, LastMeansUnused, RoundsLeft, deviceVars
<1>4. TasksAtHome' /\ OnePlace'
  BY ListsKept DEF IInv, SameServed
<1> QED
  BY <1>1, <1>2, <1>3, <1>4 DEF IInv

LEMMA TakeTokenIInv ==
  ASSUME MDSAssumption, IInv, NEW w \in Workers, TakeToken(w) PROVE IInv'
<1> DEFINE h == Head(pool)
           x == At("enter", h, 0)
<1>1. /\ h \in Devices /\ Tail(pool) \in Seq(Devices)
      /\ x \in Busy /\ x.pc = "enter" /\ x.dev = h
  BY HeadTailProperties DEF IInv, TypeOK, TakeToken, At, Busy
<1>2. worker' = [worker EXCEPT ![w] = x] /\ pool' = Tail(pool) /\ worker[w].pc = "idle"
  BY DEF TakeToken
<1> HIDE DEF x, h
<1>3. TypeOK'
  <2>1. worker' \in [Workers -> {Idle} \cup Busy \cup InFunc]
    BY <1>1, <1>2, WorkerType DEF IInv
  <2> QED
    BY <1>1, <1>2, <2>1 DEF IInv, TypeOK, TakeToken, queueVars, deviceVars, Busy, InFunc
<1>4. TokensCounted'
  <2> SUFFICES ASSUME NEW d \in Devices
               PROVE  threads'[d] = Cardinality(Queued(pool', d)) + Cardinality(Passes(d)')
    BY DEF TokensCounted, Queued
  <2>1. threads'[d] = Cardinality(Queued(pool, d)) + Cardinality(Passes(d))
    BY DEF IInv, TokensCounted, TakeToken, deviceVars
  <2>2. Cardinality(Queued(pool, d)) =
          Cardinality(Queued(pool', d)) + IF d = h THEN 1 ELSE 0
    BY <1>2, QueuedTail DEF IInv, TypeOK, TakeToken, h
  <2>3. /\ d = h => Cardinality(Passes(d)') = Cardinality(Passes(d)) + 1
        /\ d # h => Passes(d)' = Passes(d)
    BY <1>1, <1>2, <1>3, PassesMove DEF IInv, InPass
  <2>4. /\ Cardinality(Queued(pool', d)) \in Nat
        /\ Cardinality(Passes(d)) \in Nat
    BY <1>3, QueuedFinite, PassesFinite DEF TypeOK
  <2> QED
    BY <2>1, <2>2, <2>3, <2>4
<1>5. RefsCounted' /\ DevicesLive' /\ RoundsLeft'
  BY DEF IInv, TakeToken, RefsCounted, Pending, DevicesLive, RoundsLeft, deviceVars
<1>6. LastMeansUnused' /\ SameServed
  BY <1>1, <1>2 DEF IInv, TypeOK, TakeToken, LastMeansUnused, SameServed, deviceVars
<1>7. TasksAtHome' /\ OnePlace'
  BY <1>6, ListsKept DEF IInv, TakeToken
<1> QED
  BY <1>3, <1>4, <1>5, <1>6, <1>7 DEF IInv

-----------------------------------------------------------------------------
(* The pass of a thread over a device. *)

\* A thread goes on with its pass at the program counter y.
LEMMA Proceed ==
  ASSUME MDSAssumption, TypeOK, NEW w \in Workers, worker[w].pc # "idle",
         NEW y \in {"enter", "wait", "sweep", "leave", "again", "last"}, NEW n \in Nat
  PROVE  /\ At(y, worker[w].dev, n) \in Busy
         /\ At(y, worker[w].dev, n).pc = y
         /\ At(y, worker[w].dev, n).dev = worker[w].dev
BY WorkerFacts DEF At, Busy

LEMMA MergingIInv ==
  ASSUME MDSAssumption, IInv, NEW w \in Workers, worker[w].pc \in {"enter", "wait"},
         worker' = [worker EXCEPT ![w] = At("sweep", worker[w].dev, 0)],
         Merge(worker[w].dev), UNCHANGED <<deviceVars, pool, task, left, main>>
  PROVE  IInv'
<1> DEFINE d == worker[w].dev
           x == At("sweep", worker[w].dev, 0)
<1>1. d \in Devices /\ x \in Busy /\ x.pc = "sweep" /\ x.dev = d
  BY WorkerFacts, Proceed DEF IInv
<1>2. worker' = [worker EXCEPT ![w] = x] /\ worker \in [Workers -> {Idle} \cup Busy \cup InFunc]
  BY DEF IInv, TypeOK, Busy, InFunc
<1> HIDE DEF x
<1>3. SameServed /\ LastMeansUnused'
  BY <1>1, <1>2 DEF IInv, SameServed, LastMeansUnused, deviceVars
<1>4. /\ sorted_tasks' \in [Devices -> Seq(Tasks)]
      /\ unsorted_tasks' \in [Devices -> SUBSET Tasks]
      /\ TasksAtHome' /\ OnePlace'
  BY <1>1, <1>3, MergeKeeps DEF IInv
<1>5. TypeOK'
  <2>1. worker' \in [Workers -> {Idle} \cup Busy \cup InFunc]
    BY <1>1, <1>2, WorkerType DEF IInv
  <2> QED
    BY <1>4, <2>1 DEF IInv, TypeOK, deviceVars, Busy, InFunc
<1>6. TokensCounted'
  BY <1>1, <1>2, <1>5, TokenKept DEF IInv, deviceVars
<1>7. RefsCounted' /\ DevicesLive' /\ RoundsLeft'
  BY DEF IInv, RefsCounted, Pending, DevicesLive, RoundsLeft, deviceVars
<1> QED
  BY <1>3, <1>4, <1>5, <1>6, <1>7 DEF IInv

\* A thread only moves its program counter; it gives up when nothing refers to its device.
LEMMA MovingIInv ==
  ASSUME MDSAssumption, IInv, NEW w \in Workers, NEW x \in Busy,
         worker[w].pc \notin {"idle", "func"}, x.dev = worker[w].dev,
         x.pc = "last" => ref_count[x.dev] = 0,
         worker' = [worker EXCEPT ![w] = x],
         UNCHANGED <<queueVars, deviceVars, pool, task, left, main>>
  PROVE  IInv'
<1>1. x.pc # "idle" /\ x.pc # "func"
  BY DEF Busy
<1>2. TypeOK'
  <2>1. worker' \in [Workers -> {Idle} \cup Busy \cup InFunc]
    BY WorkerType DEF IInv
  <2> QED
    BY <2>1 DEF IInv, TypeOK, queueVars, deviceVars, Busy, InFunc
<1>3. TokensCounted'
  BY <1>1, <1>2, TokenKept DEF IInv, deviceVars
<1>4. RefsCounted' /\ DevicesLive' /\ RoundsLeft'
  BY DEF IInv, RefsCounted, Pending, DevicesLive, RoundsLeft, deviceVars
<1>5. SameServed /\ LastMeansUnused'
  BY <1>1 DEF IInv, TypeOK, SameServed, LastMeansUnused, deviceVars
<1>6. TasksAtHome' /\ OnePlace'
  BY <1>5, ListsKept DEF IInv
<1> QED
  BY <1>2, <1>3, <1>4, <1>5, <1>6 DEF IInv

LEMMA EnterIInv == ASSUME MDSAssumption, IInv, NEW w \in Workers, Enter(w) PROVE IInv'
<1> DEFINE x == At("wait", worker[w].dev, 0)
<1>1. worker[w].pc = "enter" /\ UNCHANGED <<deviceVars, pool, task, left, main>>
  BY DEF Enter
<1>2. CASE worker' = [worker EXCEPT ![w] = x] /\ UNCHANGED queueVars
  <2>1. x \in Busy /\ x.pc = "wait" /\ x.dev = worker[w].dev
    BY <1>1, Proceed DEF IInv
  <2> HIDE DEF x
  <2> QED
    BY <1>1, <1>2, <2>1, MovingIInv
<1>3. CASE /\ worker' = [worker EXCEPT ![w] = At("sweep", worker[w].dev, 0)]
           /\ Merge(worker[w].dev)
  BY <1>1, <1>3, MergingIInv
<1> QED
  BY <1>2, <1>3 DEF Enter

LEMMA WakeIInv == ASSUME MDSAssumption, IInv, NEW w \in Workers, Wake(w) PROVE IInv'
<1>1. worker' = [worker EXCEPT ![w] = At("sweep", worker[w].dev, 0)]
  BY DEF Wake, IInv, TypeOK
<1> QED
  BY <1>1, MergingIInv DEF Wake

LEMMA EndSweepIInv == ASSUME MDSAssumption, IInv, NEW w \in Workers, EndSweep(w) PROVE IInv'
<1> DEFINE x == [worker[w] EXCEPT !.pc = "leave"]
<1>1. worker' = [worker EXCEPT ![w] = x] /\ worker[w].pc = "sweep"
  BY DEF EndSweep, IInv, TypeOK
<1>2. x \in Busy /\ x.pc = "leave" /\ x.dev = worker[w].dev
  BY <1>1, WorkerFacts, MoveOn DEF IInv
<1> HIDE DEF x
<1> QED
  BY <1>1, <1>2, MovingIInv DEF EndSweep

LEMMA LeaveIInv == ASSUME MDSAssumption, IInv, NEW w \in Workers, Leave(w) PROVE IInv'
<1> DEFINE y == IF ref_count[worker[w].dev] > 0 THEN "again" ELSE "last"
           x == [worker[w] EXCEPT !.pc = y]
<1>1. worker' = [worker EXCEPT ![w] = x] /\ worker[w].pc = "leave"
  BY DEF Leave, IInv, TypeOK
<1>2. x \in Busy /\ x.pc = y /\ x.dev = worker[w].dev
  <2>1. y \in {"enter", "wait", "sweep", "leave", "again", "last"} /\ worker[w] \in Busy
    BY <1>1, WorkerFacts DEF IInv
  <2> HIDE DEF y
  <2> QED
    BY <2>1, MoveOn
<1>3. worker[w].dev \in Devices /\ ref_count[worker[w].dev] \in Nat
  BY <1>1, WorkerFacts DEF IInv, TypeOK
<1>4. x.pc = "last" => ref_count[x.dev] = 0
  BY <1>2, <1>3
<1> HIDE DEF x
<1> QED
  BY <1>1, <1>2, <1>4, MovingIInv DEF Leave

LEMMA AgainIInv == ASSUME MDSAssumption, IInv, NEW w \in Workers, Again(w) PROVE IInv'
<1> DEFINE e == worker[w].dev
<1>1. /\ worker' = [worker EXCEPT ![w] = Idle] /\ worker[w].pc = "again"
      /\ pool' = Append(pool, e)
      /\ UNCHANGED <<queueVars, deviceVars, task, left, main>>
  BY DEF Again
<1>2. e \in Devices /\ Append(pool, e) \in Seq(Devices) /\ Idle.pc = "idle"
  BY <1>1, WorkerFacts, AppendProperties DEF IInv, TypeOK, Idle
<1>3. TypeOK'
  <2>1. worker' \in [Workers -> {Idle} \cup Busy \cup InFunc]
    BY <1>1, WorkerType DEF IInv
  <2> QED
    BY <1>1, <1>2, <2>1 DEF IInv, TypeOK, queueVars, deviceVars, Busy, InFunc
<1>4. TokensCounted'
  <2> SUFFICES ASSUME NEW d \in Devices
               PROVE  threads'[d] = Cardinality(Queued(pool', d)) + Cardinality(Passes(d)')
    BY DEF TokensCounted, Queued
  <2>1. threads'[d] = Cardinality(Queued(pool, d)) + Cardinality(Passes(d))
    BY <1>1 DEF IInv, TokensCounted, deviceVars
  <2>2. Cardinality(Queued(pool', d)) = Cardinality(Queued(pool, d)) + IF d = e THEN 1 ELSE 0
    BY <1>1, <1>2, QueuedAppend DEF IInv, TypeOK
  <2>3. /\ d = e => Cardinality(Passes(d)') = Cardinality(Passes(d)) - 1
        /\ d # e => Passes(d)' = Passes(d)
    BY <1>1, <1>2, <1>3, PassesMove DEF IInv, InPass
  <2>4. /\ Cardinality(Queued(pool, d)) \in Nat
        /\ Cardinality(Passes(d)) \in Nat
    BY QueuedFinite, PassesFinite DEF IInv, TypeOK
  <2> QED
    BY <2>1, <2>2, <2>3, <2>4
<1>5. RefsCounted' /\ DevicesLive' /\ RoundsLeft'
  BY <1>1 DEF IInv, RefsCounted, Pending, DevicesLive, RoundsLeft, deviceVars
<1>6. LastMeansUnused' /\ SameServed
  BY <1>1, <1>2 DEF IInv, TypeOK, LastMeansUnused, SameServed, deviceVars
<1>7. TasksAtHome' /\ OnePlace'
  BY <1>1, <1>6, ListsKept DEF IInv
<1> QED
  BY <1>3, <1>4, <1>5, <1>6, <1>7 DEF IInv

\* The token that leaves with none other behind it frees the device.
LEMMA GiveUpIInv == ASSUME MDSAssumption, IInv, NEW w \in Workers, GiveUp(w) PROVE IInv'
<1> DEFINE e == worker[w].dev
<1>1. /\ worker' = [worker EXCEPT ![w] = Idle] /\ worker[w].pc = "last"
      /\ threads' = [threads EXCEPT ![e] = @ - 1]
      /\ disks' = IF threads[e] = 1 THEN disks \ {e} ELSE disks
      /\ UNCHANGED <<queueVars, ref_count, pool, task, left, main>>
  BY DEF GiveUp
<1>2. e \in Devices /\ Idle.pc = "idle" /\ InPass(w, e) /\ ref_count[e] = 0
  BY <1>1, WorkerFacts DEF IInv, TypeOK, Idle, InPass, LastMeansUnused
<1>3. \A d \in Devices : /\ Cardinality(Queued(pool, d)) \in Nat
                         /\ Cardinality(Passes(d)) \in Nat
                         /\ threads[d] \in 0..ThreadsPerDisk
                         /\ threads[d] = Cardinality(Queued(pool, d)) + Cardinality(Passes(d))
  BY QueuedFinite, PassesFinite DEF IInv, TypeOK, TokensCounted
<1>4. threads[e] > 0
  <2>1. Cardinality(Passes(e)) # 0
    BY <1>2, FS_EmptySet, PassesFinite DEF Passes
  <2> QED
    BY <1>2, <1>3, <2>1
<1>5. TypeOK'
  <2>1. worker' \in [Workers -> {Idle} \cup Busy \cup InFunc]
    BY <1>1, WorkerType DEF IInv
  <2>2. threads[e] - 1 \in 0..ThreadsPerDisk
    BY <1>2, <1>3, <1>4 DEF MDSAssumption
  <2>3. threads' \in [Devices -> 0..ThreadsPerDisk] /\ disks' \subseteq Devices
    BY <1>1, <2>2 DEF IInv, TypeOK
  <2> QED
    BY <1>1, <2>1, <2>3 DEF IInv, TypeOK, queueVars, Busy, InFunc
<1>6. TokensCounted'
  <2> SUFFICES ASSUME NEW d \in Devices
               PROVE  threads'[d] = Cardinality(Queued(pool, d)) + Cardinality(Passes(d)')
    BY <1>1 DEF TokensCounted, Queued
  <2>1. /\ d = e => Cardinality(Passes(d)') = Cardinality(Passes(d)) - 1
        /\ d # e => Passes(d)' = Passes(d)
    BY <1>1, <1>2, <1>5, PassesMove DEF IInv, InPass
  <2>2. threads'[d] = IF d = e THEN threads[d] - 1 ELSE threads[d]
    BY <1>1, <1>2 DEF IInv, TypeOK
  <2> QED
    BY <1>3, <2>1, <2>2
<1>7. DevicesLive'
  <2> SUFFICES ASSUME NEW d \in Devices
               PROVE  /\ d \in main'.unstarted => d \in disks' /\ threads'[d] = 0
                      /\ d \notin disks' => threads'[d] = 0 /\ ref_count'[d] = 0
    BY DEF DevicesLive
  <2>1. threads'[d] = IF d = e THEN threads[d] - 1 ELSE threads[d]
    BY <1>1, <1>2 DEF IInv, TypeOK
  <2>2. /\ d \in main.unstarted => d \in disks /\ threads[d] = 0
        /\ d \notin disks => threads[d] = 0 /\ ref_count[d] = 0
    BY DEF IInv, DevicesLive
  <2>3. CASE d = e
    BY <1>1, <1>2, <1>4, <2>1, <2>2, <2>3, <1>3
  <2>4. CASE d # e
    BY <1>1, <2>1, <2>2, <2>4
  <2> QED
    BY <2>3, <2>4
<1>8. RefsCounted' /\ RoundsLeft'
  BY <1>1 DEF IInv, RefsCounted, Pending, RoundsLeft
<1>9. LastMeansUnused' /\ SameServed
  BY <1>1, <1>2 DEF IInv, TypeOK, LastMeansUnused, SameServed
<1>10. TasksAtHome' /\ OnePlace'
  BY <1>1, <1>9, ListsKept DEF IInv
<1> QED
  BY <1>5, <1>6, <1>7, <1>8, <1>9, <1>10 DEF IInv

-----------------------------------------------------------------------------
(* Tasks are served, and come back. *)

LEMMA PopIInv == ASSUME MDSAssumption, IInv, NEW w \in Workers, Pop(w) PROVE IInv'
<1> DEFINE d == worker[w].dev
           q == sorted_tasks[d]
           h == Head(q)
           x == Serving(d, worker[w].processed, h)
<1>1. /\ worker' = [worker EXCEPT ![w] = x] /\ worker[w].pc = "sweep"
      /\ sorted_tasks' = [sorted_tasks EXCEPT ![d] = Tail(q)] /\ q # <<>>
      /\ UNCHANGED <<unsorted_tasks, deviceVars, pool, task, left, main>>
  BY DEF Pop, IInv, TypeOK
<1>2. d \in Devices /\ worker[w].processed \in Nat
  BY <1>1, WorkerFacts DEF IInv
<1>3. /\ q \in Seq(Tasks) /\ Len(q) \in Nat \ {0} /\ h = q[1] /\ h \in Tasks
      /\ Tail(q) \in Seq(Tasks) /\ Len(Tail(q)) = Len(q) - 1
      /\ \A i \in 1..Len(Tail(q)) : Tail(q)[i] = q[i + 1]
  BY <1>1, <1>2, HeadTailProperties, EmptySeq, LenProperties DEF IInv, TypeOK
<1>4. /\ x \in InFunc /\ x.pc = "func" /\ x.dev = d /\ x.task = h
      /\ Disk[h] = d
  BY <1>2, <1>3 DEF Serving, InFunc, IInv, TasksAtHome
<1>5. /\ \A v \in Workers : v # w => worker'[v] = worker[v]
      /\ worker'[w] = x
      /\ \A e \in Devices : e # d => sorted_tasks'[e] = sorted_tasks[e]
      /\ sorted_tasks'[d] = Tail(q)
  BY <1>1, <1>2 DEF IInv, TypeOK
<1>6. TypeOK'
  <2>1. x \in {Idle} \cup Busy \cup InFunc
    BY <1>4
  <2> HIDE DEF x, d, q
  <2>2. worker' \in [Workers -> {Idle} \cup Busy \cup InFunc]
    BY <1>1, <2>1, WorkerType DEF IInv
  <2>3. sorted_tasks' \in [Devices -> Seq(Tasks)]
    BY <1>1, <1>3 DEF IInv, TypeOK
  <2> QED
    BY <1>1, <2>2, <2>3 DEF IInv, TypeOK, deviceVars, Busy, InFunc
<1> HIDE DEF x, h, q
<1>7. TokensCounted'
  BY <1>1, <1>4, <1>6, TokenKept DEF IInv, deviceVars
<1>8. RefsCounted' /\ DevicesLive' /\ RoundsLeft' /\ LastMeansUnused'
  BY <1>1, <1>4, <1>5 DEF IInv, RefsCounted, Pending, DevicesLive, RoundsLeft,
                          LastMeansUnused, deviceVars
<1>9. TasksAtHome'
  <2>1. \A i \in 1..Len(Tail(q)) : Disk[Tail(q)[i]] = d
    BY <1>2, <1>3 DEF IInv, TasksAtHome, q
  <2>2. ASSUME NEW e \in Devices
        PROVE  \A i \in 1..Len(sorted_tasks'[e]) : Disk[sorted_tasks'[e][i]] = e
    <3>1. CASE e = d
      BY <1>5, <2>1, <3>1
    <3>2. CASE e # d
      <4>1. sorted_tasks'[e] = sorted_tasks[e]
        BY <1>5, <3>2
      <4> QED
        BY <4>1 DEF IInv, TasksAtHome
    <3> QED
      BY <3>1, <3>2
  <2>3. \A v \in Workers : worker'[v].pc = "func" => Disk[worker'[v].task] = worker'[v].dev
    BY <1>4, <1>5 DEF IInv, TasksAtHome
  <2> QED
    BY <1>1, <2>2, <2>3 DEF IInv, TasksAtHome
<1>10. OnePlace'
  <2>11. PICK k \in Tasks : k = h
    BY <1>3
  <2>1. \A i, j \in 1..Len(q) : q[i] = q[j] => i = j
    BY <1>2 DEF IInv, OnePlace, q
  <2>2. \A i, j \in 1..Len(Tail(q)) : Tail(q)[i] = Tail(q)[j] => i = j
    BY <1>3, <2>1
  <2>3. \A e \in Devices : \A i, j \in 1..Len(sorted_tasks'[e]) :
          sorted_tasks'[e][i] = sorted_tasks'[e][j] => i = j
    BY <1>5, <2>2 DEF IInv, OnePlace
  <2>4. \A t \in Tasks : Unsorted(t)' <=> Unsorted(t)
    BY <1>1 DEF Unsorted
  <2>5. ~Sorted(k)' /\ Sorted(k)
    <3>1. Sorted(k)' <=> \E i \in 1..Len(Tail(q)) : Tail(q)[i] = k
      BY <2>11, <1>4, <1>5 DEF Sorted
    <3>2. \A i \in 1..Len(Tail(q)) : i + 1 \in 1..Len(q) /\ i + 1 # 1 /\ 1 \in 1..Len(q)
      BY <1>3
    <3>3. Sorted(k)
      BY <2>11, <1>3, <1>4 DEF Sorted, q
    <3> QED
      BY <2>11, <1>3, <2>1, <3>1, <3>2, <3>3
  <2>6. \A t \in Tasks \ {k} : Sorted(t)' <=> Sorted(t)
    <3> SUFFICES ASSUME NEW t \in Tasks, t # k PROVE Sorted(t)' <=> Sorted(t)
      OBVIOUS
    <3>1. CASE Disk[t] = d
      <4>5. Sorted(t)' <=> \E i \in 1..Len(Tail(q)) : Tail(q)[i] = t
        BY <1>5, <3>1 DEF Sorted
      <4>1. Sorted(t)' <=> \E i \in 1..Len(Tail(q)) : q[i + 1] = t
        BY <1>3, <4>5
      <4>2. Sorted(t) <=> \E i \in 1..Len(q) : q[i] = t
        BY <3>1 DEF Sorted, q
      <4>3. \A i \in 1..Len(q) : q[i] = t => i - 1 \in 1..Len(Tail(q)) /\ i = (i - 1) + 1
        BY <1>3, <2>11
      <4>4. \A i \in 1..Len(Tail(q)) : i + 1 \in 1..Len(q)
        BY <1>3
      <4> QED
        BY <4>1, <4>2, <4>3, <4>4
    <3>2. CASE Disk[t] # d
      BY <1>5, <3>2 DEF Sorted, MDSAssumption
    <3> QED
      BY <3>1, <3>2
  <2>7. /\ \A v \in Workers, t \in Tasks : v # w => (Serves(v, t)' <=> Serves(v, t))
        /\ \A t \in Tasks : (Serves(w, t)' <=> t = k) /\ ~Serves(w, t)
    BY <2>11, <1>1, <1>4, <1>5 DEF Serves
  <2>8. \A v \in Workers : ~Serves(v, k) /\ ~Unsorted(k)
    BY <2>5 DEF IInv, OnePlace
  <2>9. \A t \in Tasks : \A u, v \in Workers : Serves(u, t)' /\ Serves(v, t)' => u = v
    BY <2>7, <2>8 DEF IInv, OnePlace
  <2>10. \A t \in Tasks :
           /\ ~(Unsorted(t)' /\ Sorted(t)')
           /\ \A v \in Workers : Serves(v, t)' => ~Unsorted(t)' /\ ~Sorted(t)'
           /\ task[t] = "pushed" <=> Unsorted(t)' \/ Sorted(t)' \/ \E v \in Workers : Serves(v, t)'
    <3> TAKE t \in Tasks
    <3>1. CASE t = k
      <4>1. task[k] = "pushed"
        BY <2>5 DEF IInv, OnePlace
      <4> QED
        BY <4>1, <2>4, <2>5, <2>7, <2>8, <3>1
    <3>2. CASE t # k
      <4>1. /\ Unsorted(t)' <=> Unsorted(t)
            /\ Sorted(t)' <=> Sorted(t)
            /\ \A v \in Workers : Serves(v, t)' <=> Serves(v, t)
        BY <2>4, <2>6, <2>7, <3>2
      <4> QED
        BY <4>1 DEF IInv, OnePlace
    <3> QED
      BY <3>1, <3>2
  <2> QED
    BY <1>1, <2>3, <2>9, <2>10 DEF OnePlace
<1> QED
  BY <1>6, <1>7, <1>8, <1>9, <1>10 DEF IInv

\* A thread is done with its task; the next is served in the same pass.
LEMMA Served ==
  ASSUME MDSAssumption, IInv, NEW w \in Workers, worker[w].pc = "func", NEW n \in Nat,
         worker' = [worker EXCEPT ![w] = At("sweep", worker[w].dev, n)],
         UNCHANGED <<deviceVars, pool, left, main>>,
         sorted_tasks' \in [Devices -> Seq(Tasks)],
         unsorted_tasks' \in [Devices -> SUBSET Tasks],
         task' \in [Tasks -> {"held", "pushed", "outside", "done"}],
         \A t \in Tasks : task'[t] = "done" <=> task[t] = "done"
  PROVE  /\ TypeOK' /\ TokensCounted' /\ RefsCounted' /\ DevicesLive' /\ RoundsLeft'
         /\ LastMeansUnused'
         /\ worker[w].task \in Tasks /\ Disk[worker[w].task] = worker[w].dev
         /\ \A v \in Workers : worker'[v].pc = "func" => worker'[v] = worker[v]
         /\ \A v \in Workers, t \in Tasks : v # w => (Serves(v, t)' <=> Serves(v, t))
         /\ \A t \in Tasks : (Serves(w, t) <=> t = worker[w].task) /\ ~Serves(w, t)'
<1> DEFINE x == At("sweep", worker[w].dev, n)
<1>1. x \in Busy /\ x.pc = "sweep" /\ x.dev = worker[w].dev
  <2>1. TypeOK /\ worker[w].pc # "idle"
    BY DEF IInv
  <2>2. \A y \in {"enter", "wait", "sweep", "leave", "again", "last"} :
          /\ At(y, worker[w].dev, n) \in Busy
          /\ At(y, worker[w].dev, n).pc = y
          /\ At(y, worker[w].dev, n).dev = worker[w].dev
    BY <2>1, Proceed
  <2> QED
    BY <2>2
<1>2. worker' = [worker EXCEPT ![w] = x]
  OBVIOUS
<1> HIDE DEF x
<1>3. worker'[w] = x /\ \A v \in Workers : v # w => worker'[v] = worker[v]
  BY <1>2 DEF IInv, TypeOK
<1>4. TypeOK'
  <2>1. worker' \in [Workers -> {Idle} \cup Busy \cup InFunc]
    BY <1>1, <1>2, WorkerType DEF IInv
  <2> QED
    BY <2>1 DEF IInv, TypeOK, deviceVars, Busy, InFunc
<1>5. TokensCounted'
  BY <1>1, <1>2, <1>4, TokenKept DEF IInv, deviceVars
<1>6. RefsCounted' /\ DevicesLive' /\ RoundsLeft' /\ LastMeansUnused'
  <2>1. \A d \in Devices : Pending(d)' = Pending(d)
    BY DEF Pending
  <2>2. RefsCounted'
    BY <2>1 DEF IInv, RefsCounted, deviceVars
  <2> QED
    BY <1>1, <1>3, <2>2 DEF IInv, DevicesLive, RoundsLeft, LastMeansUnused, deviceVars
<1>7. worker[w].task \in Tasks /\ Disk[worker[w].task] = worker[w].dev
  BY WorkerFacts DEF IInv, TasksAtHome, InFunc
<1>8. \A v \in Workers : worker'[v].pc = "func" => worker'[v] = worker[v]
  BY <1>1, <1>3
<1>9. /\ \A v \in Workers, t \in Tasks : v # w => (Serves(v, t)' <=> Serves(v, t))
      /\ \A t \in Tasks : (Serves(w, t) <=> t = worker[w].task) /\ ~Serves(w, t)'
  BY <1>1, <1>3 DEF Serves
<1> QED
  BY <1>4, <1>5, <1>6, <1>7, <1>8, <1>9

LEMMA FuncTakesIInv == ASSUME MDSAssumption, IInv, NEW w \in Workers, FuncTakes(w) PROVE IInv'
<1> DEFINE u == worker[w].task
           n == worker[w].processed + 1
<1>1. /\ worker[w].pc = "func" /\ n \in Nat
      /\ worker' = [worker EXCEPT ![w] = At("sweep", worker[w].dev, n)]
      /\ task' = [task EXCEPT ![u] = "outside"]
      /\ UNCHANGED <<queueVars, deviceVars, pool, left, main>>
  <2>1. worker[w].pc = "func"
    BY DEF FuncTakes
  <2>2. n \in Nat
    BY <2>1, WorkerFacts DEF IInv
  <2>3. worker' = [worker EXCEPT ![w] = At("sweep", worker[w].dev, n)]
    BY DEF FuncTakes, IInv, TypeOK
  <2> QED
    BY <2>1, <2>2, <2>3 DEF FuncTakes
<1>2. u \in Tasks /\ Serves(w, u)
  BY <1>1, WorkerFacts DEF IInv, InFunc, Serves
<1>3. /\ \A v \in Workers : Serves(v, u) => v = w
      /\ ~Unsorted(u) /\ ~Sorted(u) /\ task[u] = "pushed"
  BY <1>2 DEF IInv, OnePlace
<1>4. /\ task' \in [Tasks -> {"held", "pushed", "outside", "done"}]
      /\ task'[u] = "outside" /\ \A t \in Tasks : t # u => task'[t] = task[t]
  BY <1>1, <1>2 DEF IInv, TypeOK
<1>5. /\ TypeOK' /\ TokensCounted' /\ RefsCounted' /\ DevicesLive' /\ RoundsLeft'
      /\ LastMeansUnused'
      /\ \A v \in Workers : worker'[v].pc = "func" => worker'[v] = worker[v]
      /\ \A v \in Workers, t \in Tasks : v # w => (Serves(v, t)' <=> Serves(v, t))
      /\ \A t \in Tasks : (Serves(w, t) <=> t = u) /\ ~Serves(w, t)'
  <2>1. \A t \in Tasks : task'[t] = "done" <=> task[t] = "done"
    BY <1>3, <1>4
  <2>2. /\ sorted_tasks' \in [Devices -> Seq(Tasks)]
        /\ unsorted_tasks' \in [Devices -> SUBSET Tasks]
    BY <1>1 DEF IInv, TypeOK, queueVars
  <2> HIDE DEF n
  <2> QED
    BY <1>1, <1>4, <2>1, <2>2, Served
<1>6. TasksAtHome'
  BY <1>1, <1>5 DEF IInv, TasksAtHome, queueVars
<1>7. \A t \in Tasks : (Unsorted(t)' <=> Unsorted(t)) /\ (Sorted(t)' <=> Sorted(t))
  BY <1>1 DEF Unsorted, Sorted, queueVars
<1>8. OnePlace'
  <2>1. \A t \in Tasks, v \in Workers : Serves(v, t)' => Serves(v, t) /\ t # u
    BY <1>2, <1>3, <1>5
  <2>2. \A t \in Tasks :
           task'[t] = "pushed" <=> Unsorted(t)' \/ Sorted(t)' \/ \E v \in Workers : Serves(v, t)'
    <3> TAKE t \in Tasks
    <3>1. CASE t = u
      BY <1>3, <1>4, <1>7, <2>1, <3>1
    <3>2. CASE t # u
      BY <1>4, <1>5, <1>7, <3>2 DEF IInv, OnePlace
    <3> QED
      BY <3>1, <3>2
  <2> QED
    BY <1>1, <1>7, <2>1, <2>2 DEF IInv, OnePlace, queueVars
<1> QED
  BY <1>5, <1>6, <1>8 DEF IInv

\* A task that is in no list is pushed.
LEMMA PushFacts ==
  ASSUME MDSAssumption, IInv, NEW u \in Tasks, PushTask(u)
  PROVE  /\ sorted_tasks' \in [Devices -> Seq(Tasks)]
         /\ unsorted_tasks' \in [Devices -> SUBSET Tasks]
         /\ \A d \in Devices : \A t \in unsorted_tasks'[d] : Disk[t] = d
         /\ Unsorted(u)'
         /\ \A t \in Tasks : t # u => (Unsorted(t)' <=> Unsorted(t))
         /\ \A t \in Tasks : Sorted(t)' <=> Sorted(t)
<1>1. /\ unsorted_tasks' = [unsorted_tasks EXCEPT ![Disk[u]] = @ \cup {u}]
      /\ UNCHANGED sorted_tasks /\ Disk[u] \in Devices /\ Disk \in [Tasks -> Devices]
      /\ unsorted_tasks \in [Devices -> SUBSET Tasks]
  BY DEF PushTask, MDSAssumption, IInv, TypeOK
<1>2. \A d \in Devices : unsorted_tasks'[d] =
        IF d = Disk[u] THEN unsorted_tasks[d] \cup {u} ELSE unsorted_tasks[d]
  BY <1>1
<1>3. /\ sorted_tasks' \in [Devices -> Seq(Tasks)]
      /\ unsorted_tasks' \in [Devices -> SUBSET Tasks]
  BY <1>1 DEF IInv, TypeOK
<1>4. \A d \in Devices : \A t \in unsorted_tasks'[d] : Disk[t] = d
  <2> TAKE d \in Devices
  <2>1. \A t \in unsorted_tasks[d] : Disk[t] = d
    BY DEF IInv, TasksAtHome
  <2> QED
    BY <1>2, <2>1
<1>5. Unsorted(u)' /\ \A t \in Tasks : t # u => (Unsorted(t)' <=> Unsorted(t))
  BY <1>1, <1>2 DEF Unsorted
<1>6. \A t \in Tasks : Sorted(t)' <=> Sorted(t)
  BY <1>1 DEF Sorted
<1> QED
  BY <1>3, <1>4, <1>5, <1>6

LEMMA FuncRefusesIInv ==
  ASSUME MDSAssumption, IInv, NEW w \in Workers, FuncRefuses(w) PROVE IInv'
<1>10. PICK u : u = worker[w].task
  OBVIOUS
<1> DEFINE n == worker[w].processed
<1>1. /\ worker[w].pc = "func" /\ n \in Nat /\ PushTask(u)
      /\ worker' = [worker EXCEPT ![w] = At("sweep", worker[w].dev, n)]
      /\ UNCHANGED <<deviceVars, pool, task, left, main>>
  BY <1>10, WorkerFacts DEF FuncRefuses, IInv, TypeOK
<1>2. u \in Tasks /\ Serves(w, u)
  BY <1>1, <1>10, WorkerFacts DEF IInv, InFunc, Serves
<1>3. /\ \A v \in Workers : Serves(v, u) => v = w
      /\ ~Unsorted(u) /\ ~Sorted(u) /\ task[u] = "pushed"
  BY <1>2 DEF IInv, OnePlace
<1>9. UNCHANGED sorted_tasks
  BY <1>1 DEF PushTask
<1>4. /\ sorted_tasks' \in [Devices -> Seq(Tasks)]
      /\ unsorted_tasks' \in [Devices -> SUBSET Tasks]
      /\ \A d \in Devices : \A t \in unsorted_tasks'[d] : Disk[t] = d
      /\ Unsorted(u)'
      /\ \A t \in Tasks : t # u => (Unsorted(t)' <=> Unsorted(t))
      /\ \A t \in Tasks : Sorted(t)' <=> Sorted(t)
  BY <1>1, <1>2, PushFacts
<1>5. /\ TypeOK' /\ TokensCounted' /\ RefsCounted' /\ DevicesLive' /\ RoundsLeft'
      /\ LastMeansUnused'
      /\ \A v \in Workers : worker'[v].pc = "func" => worker'[v] = worker[v]
      /\ \A v \in Workers, t \in Tasks : v # w => (Serves(v, t)' <=> Serves(v, t))
      /\ \A t \in Tasks : (Serves(w, t) <=> t = u) /\ ~Serves(w, t)'
  <2>1. task' \in [Tasks -> {"held", "pushed", "outside", "done"}] /\ task' = task
    BY <1>1 DEF IInv, TypeOK
  <2> HIDE DEF n
  <2> QED
    BY <1>1, <1>4, <1>10, <2>1, Served
<1>6. TasksAtHome'
  BY <1>4, <1>5, <1>9 DEF IInv, TasksAtHome
<1>7. OnePlace'
  <2>1. \A t \in Tasks, v \in Workers : Serves(v, t)' => Serves(v, t) /\ t # u
    BY <1>2, <1>3, <1>5
  <2>2. \A t \in Tasks :
           /\ ~(Unsorted(t)' /\ Sorted(t)')
           /\ \A v \in Workers : Serves(v, t)' => ~Unsorted(t)' /\ ~Sorted(t)'
           /\ task[t] = "pushed" <=> Unsorted(t)' \/ Sorted(t)' \/ \E v \in Workers : Serves(v, t)'
    <3> TAKE t \in Tasks
    <3>1. CASE t = u
      BY <1>1, <1>3, <1>4, <2>1, <3>1
    <3>2. CASE t # u
      <4>1. /\ Unsorted(t)' <=> Unsorted(t)
            /\ Sorted(t)' <=> Sorted(t)
            /\ \A v \in Workers : Serves(v, t)' <=> Serves(v, t)
        BY <1>4, <1>5, <3>2
      <4> QED
        BY <4>1 DEF IInv, OnePlace
    <3> QED
      BY <3>1, <3>2
  <2>3. \A t \in Tasks : \A v, x \in Workers : Serves(v, t)' /\ Serves(x, t)' => v = x
    BY <2>1 DEF IInv, OnePlace
  <2> QED
    BY <1>1, <1>9, <2>2, <2>3 DEF IInv, OnePlace
<1> QED
  BY <1>5, <1>6, <1>7 DEF IInv

\* A task that is in no list and in no pass is pushed.
LEMMA PushKeeps ==
  ASSUME MDSAssumption, IInv, NEW u \in Tasks, task[u] \notin {"pushed", "done"},
         PushTask(u), task' = [task EXCEPT ![u] = "pushed"],
         left' \in [Tasks -> Nat], \A t \in Tasks : task[t] # "done" => left'[t] > 0,
         UNCHANGED <<deviceVars, pool, worker, main>>
  PROVE  IInv'
<1>1. /\ sorted_tasks' \in [Devices -> Seq(Tasks)]
      /\ unsorted_tasks' \in [Devices -> SUBSET Tasks]
      /\ \A d \in Devices : \A t \in unsorted_tasks'[d] : Disk[t] = d
      /\ Unsorted(u)'
      /\ \A t \in Tasks : t # u => (Unsorted(t)' <=> Unsorted(t))
      /\ \A t \in Tasks : Sorted(t)' <=> Sorted(t)
  BY PushFacts
<1>2. /\ task' \in [Tasks -> {"held", "pushed", "outside", "done"}]
      /\ task'[u] = "pushed" /\ \A t \in Tasks : t # u => task'[t] = task[t]
  BY DEF IInv, TypeOK
<1>3. TypeOK'
  BY <1>1, <1>2 DEF IInv, TypeOK, deviceVars
<1>4. TokensCounted' /\ DevicesLive' /\ LastMeansUnused'
  BY DEF IInv, TokensCounted, Queued, Passes, InPass, DevicesLive, LastMeansUnused, deviceVars
<1>5. RefsCounted' /\ RoundsLeft'
  <2>1. \A d \in Devices : Pending(d)' = Pending(d)
    BY <1>2 DEF Pending
  <2>2. RefsCounted'
    BY <2>1 DEF IInv, RefsCounted, deviceVars
  <2> QED
    BY <1>2, <2>2 DEF RoundsLeft
<1>6. TasksAtHome'
  BY <1>1 DEF IInv, TasksAtHome, PushTask
<1>7. OnePlace'
  <2>1. \A t \in Tasks, v \in Workers : Serves(v, t)' <=> Serves(v, t)
    BY DEF Serves
  <2>2. ~Sorted(u) /\ \A v \in Workers : ~Serves(v, u)
    BY DEF IInv, OnePlace
  <2>3. \A t \in Tasks :
           /\ ~(Unsorted(t)' /\ Sorted(t)')
           /\ \A v \in Workers : Serves(v, t)' => ~Unsorted(t)' /\ ~Sorted(t)'
           /\ task'[t] = "pushed" <=> Unsorted(t)' \/ Sorted(t)' \/ \E v \in Workers : Serves(v, t)'
    <3> TAKE t \in Tasks
    <3>1. CASE t = u
      BY <1>1, <1>2, <2>1, <2>2, <3>1
    <3>2. CASE t # u
      <4>1. /\ Unsorted(t)' <=> Unsorted(t)
            /\ Sorted(t)' <=> Sorted(t)
            /\ task'[t] = task[t]
        BY <1>1, <1>2, <3>2
      <4> QED
        BY <2>1, <4>1 DEF IInv, OnePlace
    <3> QED
      BY <3>1, <3>2
  <2>4. \A t \in Tasks : \A v, x \in Workers : Serves(v, t)' /\ Serves(x, t)' => v = x
    BY <2>1 DEF IInv, OnePlace
  <2> QED
    BY <2>3, <2>4 DEF IInv, OnePlace, PushTask
<1> QED
  BY <1>3, <1>4, <1>5, <1>6, <1>7 DEF IInv

\* A task that is in no list and in no pass is done, and gives up its reference.
LEMMA DropKeeps ==
  ASSUME MDSAssumption, IInv, NEW u \in Tasks, task[u] \notin {"pushed", "done"}, Drop(u),
         left' \in [Tasks -> Nat], \A t \in Tasks : t # u => left'[t] = left[t],
         UNCHANGED <<threads, disks, pool, worker, main>>
  PROVE  IInv'
<1> DEFINE e == Disk[u]
<1>1. /\ ref_count' = [ref_count EXCEPT ![e] = @ - 1]
      /\ task' = [task EXCEPT ![u] = "done"]
      /\ UNCHANGED queueVars
      /\ e \in Devices
  BY DEF Drop, MDSAssumption
<1>2. /\ task' \in [Tasks -> {"held", "pushed", "outside", "done"}]
      /\ task'[u] = "done" /\ \A t \in Tasks : t # u => task'[t] = task[t]
  BY <1>1 DEF IInv, TypeOK
<1>3. \A d \in Devices :
        /\ IsFiniteSet(Pending(d)) /\ Cardinality(Pending(d)) \in Nat
        /\ ref_count[d] = Cardinality(Pending(d))
        /\ ref_count'[d] = IF d = e THEN ref_count[d] - 1 ELSE ref_count[d]
  <2>1. \A d \in Devices : IsFiniteSet(Pending(d)) /\ Cardinality(Pending(d)) \in Nat
    BY FS_Subset, FS_CardinalityType DEF MDSAssumption, Pending
  <2>2. \A d \in Devices : ref_count[d] = Cardinality(Pending(d))
    BY DEF IInv, RefsCounted
  <2>3. \A d \in Devices : ref_count'[d] = IF d = e THEN ref_count[d] - 1 ELSE ref_count[d]
    BY <1>1 DEF IInv, TypeOK
  <2> QED
    BY <2>1, <2>2, <2>3
<1>4. u \in Pending(e)
  BY DEF Pending
<1>5. ref_count[e] > 0
  BY <1>1, <1>3, <1>4, FS_EmptySet
<1>6. RefsCounted'
  <2> SUFFICES ASSUME NEW d \in Devices PROVE ref_count'[d] = Cardinality(Pending(d)')
    BY DEF RefsCounted
  <2>1. CASE d = e
    <3>1. Pending(d)' = Pending(d) \ {u}
      BY <1>2, <2>1 DEF Pending
    <3>2. u \in Pending(d) /\ IsFiniteSet(Pending(d))
      BY <1>3, <1>4, <2>1
    <3>3. Cardinality(Pending(d) \ {u}) = Cardinality(Pending(d)) - 1
      BY <3>2, FS_RemoveElement
    <3> QED
      BY <1>3, <2>1, <3>1, <3>3
  <2>2. CASE d # e
    <3>1. Pending(d)' = Pending(d)
      BY <1>2, <2>2 DEF Pending
    <3> QED
      BY <1>3, <2>2, <3>1
  <2> QED
    BY <2>1, <2>2
<1>7. TypeOK'
  <2>1. ref_count' \in [Devices -> Nat]
    BY <1>1, <1>3, <1>5 DEF IInv, TypeOK
  <2> QED
    BY <1>1, <1>2, <2>1 DEF IInv, TypeOK, queueVars
<1>8. TokensCounted' /\ RoundsLeft'
  BY <1>2 DEF IInv, TokensCounted, Queued, Passes, InPass, RoundsLeft
<1>9. DevicesLive'
  BY <1>3, <1>5 DEF IInv, DevicesLive
<1>10. LastMeansUnused'
  <2> SUFFICES ASSUME NEW w \in Workers, worker[w].pc = "last" PROVE ref_count'[worker[w].dev] = 0
    BY DEF LastMeansUnused
  <2>1. worker[w].dev \in Devices /\ ref_count[worker[w].dev] = 0
    BY WorkerFacts DEF IInv, LastMeansUnused
  <2> QED
    BY <1>3, <1>5, <2>1
<1>11. TasksAtHome'
  BY <1>1 DEF IInv, TasksAtHome, queueVars
<1>12. OnePlace'
  <2>1. \A t \in Tasks, v \in Workers : Serves(v, t)' <=> Serves(v, t)
    BY DEF Serves
  <2>2. \A t \in Tasks : (Unsorted(t)' <=> Unsorted(t)) /\ (Sorted(t)' <=> Sorted(t))
    BY <1>1 DEF Unsorted, Sorted, queueVars
  <2>3. \A t \in Tasks : task'[t] = "pushed" <=> task[t] = "pushed"
    BY <1>2
  <2> QED
    BY <1>1, <2>1, <2>2, <2>3 DEF IInv, OnePlace, queueVars
<1> QED
  BY <1>6, <1>7, <1>8, <1>9, <1>10, <1>11, <1>12 DEF IInv

LEMMA ComeBackIInv ==
  ASSUME MDSAssumption, IInv, NEW t \in Tasks, ComeBack(t) PROVE IInv'
<1>1. /\ task[t] = "outside" /\ left' = [left EXCEPT ![t] = @ - 1]
      /\ UNCHANGED <<threads, disks, pool, worker, main>>
  BY DEF ComeBack
<1>2. /\ left \in [Tasks -> Nat] /\ left[t] > 0
      /\ \A u \in Tasks : task[u] # "done" => left[u] > 0
  BY <1>1 DEF IInv, TypeOK, RoundsLeft
<1>3. left' \in [Tasks -> Nat] /\ \A u \in Tasks : left'[u] = IF u = t THEN left[t] - 1 ELSE left[u]
  BY <1>1, <1>2
<1>4. CASE left[t] > 1
  <2>1. PushTask(t) /\ task' = [task EXCEPT ![t] = "pushed"] /\ UNCHANGED ref_count
    BY <1>4 DEF ComeBack
  <2>2. \A u \in Tasks : task[u] # "done" => left'[u] > 0
    BY <1>2, <1>3, <1>4
  <2> QED
    BY <1>1, <1>3, <2>1, <2>2, PushKeeps DEF deviceVars
<1>5. CASE ~(left[t] > 1)
  <2>1. Drop(t)
    BY <1>5 DEF ComeBack
  <2> QED
    BY <1>1, <1>3, <2>1, DropKeeps
<1> QED
  BY <1>4, <1>5

LEMMA ReleaseIInv ==
  ASSUME MDSAssumption, IInv, NEW t \in Tasks, Release(t) PROVE IInv'
<1>1. task[t] = "held" /\ UNCHANGED <<threads, disks, pool, worker, left, main>>
  BY DEF Release
<1>2. left' \in [Tasks -> Nat] /\ \A u \in Tasks : task[u] # "done" => left'[u] > 0
  BY <1>1 DEF IInv, TypeOK, RoundsLeft
<1>3. CASE PushTask(t) /\ task' = [task EXCEPT ![t] = "pushed"] /\ UNCHANGED ref_count
  BY <1>1, <1>2, <1>3, PushKeeps DEF deviceVars
<1>4. CASE Drop(t)
  BY <1>1, <1>2, <1>4, DropKeeps
<1> QED
  BY <1>3, <1>4 DEF Release

-----------------------------------------------------------------------------
(* The theorems. *)

LEMMA NextIInv == ASSUME MDSAssumption, IInv, [Next]_vars PROVE IInv'
<1>1. CASE Start
  BY <1>1, StartDeviceIInv DEF Start
<1>2. CASE Finish
  <2>1. /\ main' \in [unstarted : SUBSET Devices, pc : {"start", "returned"}]
        /\ main'.unstarted = main.unstarted
    BY <1>2 DEF Finish, IInv, TypeOK
  <2> QED
    BY <1>2, <2>1, StutterIInv DEF Finish
<1>3. ASSUME NEW w \in Workers, Work(w) PROVE IInv'
  BY <1>3, TakeTokenIInv, EnterIInv, WakeIInv, PopIInv, EndSweepIInv, LeaveIInv, AgainIInv,
     GiveUpIInv, FuncTakesIInv, FuncRefusesIInv DEF Work
<1>4. ASSUME NEW t \in Tasks, ComeBack(t) \/ Release(t) PROVE IInv'
  BY <1>4, ComeBackIInv, ReleaseIInv
<1>5. CASE UNCHANGED vars
  <2>1. UNCHANGED <<queueVars, deviceVars, pool, worker, task, left, main>>
    BY <1>5 DEF vars, queueVars, deviceVars
  <2>2. main' \in [unstarted : SUBSET Devices, pc : {"start", "returned"}]
    BY <2>1 DEF IInv, TypeOK
  <2> QED
    BY <2>1, <2>2, StutterIInv
<1> QED
  BY <1>1, <1>2, <1>3, <1>4, <1>5 DEF Next, Returned

\* IInv holds in every reachable state, whatever the client pushes, holds and refuses.
THEOREM Invariance == ASSUME MDSAssumption PROVE Spec => []IInv
<1>1. Init => IInv
  BY InitIInv
<1>2. IInv /\ [Next]_vars => IInv'
  BY NextIInv
<1> QED
  BY <1>1, <1>2, PTL DEF Spec

\* Every variable of the scheduler has its type; no counter of a device drops below zero.
THEOREM TypeCorrect == ASSUME MDSAssumption PROVE Spec => []TypeOK
<1>1. IInv => TypeOK
  BY DEF IInv
<1> QED
  BY <1>1, Invariance, PTL

\* rm_mds_factory frees a device when no token of it is left, and no task refers to it.
THEOREM DeviceIsFreedLast == ASSUME MDSAssumption PROVE Spec => []DeviceOutlivesWork
<1>1. IInv => DeviceOutlivesWork
  <2> SUFFICES ASSUME IInv, NEW d \in Devices \ disks
               PROVE  /\ \A i \in 1..Len(pool) : pool[i] # d
                      /\ \A w \in Workers : ~InPass(w, d)
                      /\ \A t \in Tasks : Disk[t] = d => task[t] = "done"
    BY DEF DeviceOutlivesWork
  <2>1. /\ Cardinality(Queued(pool, d)) + Cardinality(Passes(d)) = 0
        /\ Cardinality(Pending(d)) = 0
    BY DEF IInv, TokensCounted, RefsCounted, DevicesLive
  <2>2. /\ IsFiniteSet(Queued(pool, d)) /\ Cardinality(Queued(pool, d)) \in Nat
        /\ IsFiniteSet(Passes(d)) /\ Cardinality(Passes(d)) \in Nat
        /\ IsFiniteSet(Pending(d))
    BY QueuedFinite, PassesFinite, FS_Subset DEF IInv, TypeOK, MDSAssumption, Pending
  <2>3. Queued(pool, d) = {} /\ Passes(d) = {} /\ Pending(d) = {}
    BY <2>1, <2>2, FS_EmptySet
  <2> QED
    BY <2>3 DEF Queued, Passes, Pending
<1> QED
  BY <1>1, Invariance, PTL

\* Merging, popping, refusing and pushing lose no task and double none.
THEOREM NoTaskIsLost == ASSUME MDSAssumption PROVE Spec => []EachTaskOnce
<1>1. IInv => EachTaskOnce
  <2> SUFFICES ASSUME IInv, NEW t \in Tasks
               PROVE  Cardinality(Places(t)) = IF task[t] = "pushed" THEN 1 ELSE 0
    BY DEF EachTaskOnce
  <2> DEFINE U == {<<"unsorted", d>> : d \in {e \in Devices : t \in unsorted_tasks[e]}}
             S == {<<"sorted", i>> : i \in {j \in 1..Len(sorted_tasks[Disk[t]]) :
                                              sorted_tasks[Disk[t]][j] = t}}
             F == {<<"func", w>> : w \in {v \in Workers : worker[v].pc = "func" /\ worker[v].task = t}}
  <2>1. U = IF Unsorted(t) THEN {<<"unsorted", Disk[t]>>} ELSE {}
    BY DEF IInv, TasksAtHome, Unsorted, MDSAssumption
  <2>2. IF Sorted(t) THEN \E x : S = {x} ELSE S = {}
    <3>1. \A i, j \in 1..Len(sorted_tasks[Disk[t]]) :
            sorted_tasks[Disk[t]][i] = t /\ sorted_tasks[Disk[t]][j] = t => i = j
      BY DEF IInv, OnePlace, MDSAssumption
    <3>2. CASE Sorted(t)
      <4>1. PICK i \in 1..Len(sorted_tasks[Disk[t]]) : sorted_tasks[Disk[t]][i] = t
        BY <3>2 DEF Sorted
      <4>2. S = {<<"sorted", i>>}
        BY <3>1, <4>1
      <4> QED
        BY <3>2, <4>2
    <3>3. CASE ~Sorted(t)
      BY <3>3 DEF Sorted
    <3> QED
      BY <3>2, <3>3
  <2>3. IF \E w \in Workers : Serves(w, t) THEN \E x : F = {x} ELSE F = {}
    <3>1. CASE \E w \in Workers : Serves(w, t)
      <4>1. PICK w \in Workers : Serves(w, t)
        BY <3>1
      <4>2. \A v \in Workers : Serves(v, t) => v = w
        BY <4>1 DEF IInv, OnePlace
      <4>3. F = {<<"func", w>>}
        BY <4>1, <4>2 DEF Serves
      <4> QED
        BY <3>1, <4>3
    <3>2. CASE ~\E w \in Workers : Serves(w, t)
      BY <3>2 DEF Serves
    <3> QED
      BY <3>1, <3>2
  <2>4. /\ ~(Unsorted(t) /\ Sorted(t))
        /\ (\E w \in Workers : Serves(w, t)) => ~Unsorted(t) /\ ~Sorted(t)
        /\ task[t] = "pushed" <=> Unsorted(t) \/ Sorted(t) \/ \E w \in Workers : Serves(w, t)
    BY DEF IInv, OnePlace
  <2>5. Places(t) = U \cup S \cup F
    BY DEF Places
  <2> HIDE DEF U, S, F
  <2>6. IF task[t] = "pushed" THEN \E x : Places(t) = {x} ELSE Places(t) = {}
    BY <2>1, <2>2, <2>3, <2>4, <2>5
  <2> QED
    BY <2>6, FS_EmptySet, FS_Singleton
<1> QED
  BY <1>1, Invariance, PTL

-----------------------------------------------------------------------------
(* The memory bank. *)

\* NeverUndercounted speaks of a cardinality: only finitely many groups are active.
BankInv ==
  /\ is_active \in [Mem!Groups -> BOOLEAN]
  /\ active_groups \in Int
  /\ IsFiniteSet(Mem!Active)
  /\ active_groups >= Cardinality(Mem!Active)

\* The cardinality of the instance and that of the library theorems are the same.
LEMMA SameCardinality == \A S : Mem!Cardinality(S) = Cardinality(S)
  BY Zenon DEF Mem!Cardinality, Cardinality

\* What the threads do to the bank: memory is granted to a group or comes back from it.
LEMMA BankSteps ==
  ASSUME Mem!Next
  PROVE  \/ \E g, required : Mem!Grant(g, required)
         \/ \E g \in Mem!Groups : Mem!Return(g)
         \/ UNCHANGED <<is_active, active_groups>>
<1>1. ASSUME NEW t \in MemoryThreads, NEW f \in MemoryFiles, Mem!TakeFile(t, f)
      PROVE  UNCHANGED <<is_active, active_groups>>
  BY <1>1 DEF Mem!TakeFile, Mem!memVars
<1>2. ASSUME NEW t \in MemoryThreads, Mem!DeviceDecide(t)
      PROVE  \/ \E g, required : Mem!Grant(g, required)
             \/ UNCHANGED <<is_active, active_groups>>
  BY <1>2 DEF Mem!DeviceDecide, Mem!memVars
<1>3. ASSUME NEW p \in Memory.pipes, NEW f \in MemoryFiles, Mem!Sift(p, f) \/ Mem!SiftAsks(p, f)
      PROVE  UNCHANGED <<is_active, active_groups>>
  BY <1>3 DEF Mem!Sift, Mem!SiftAsks, Mem!memVars
<1>4. ASSUME NEW p \in Memory.pipes, Mem!PipeTest(p) \/ Mem!PipePush(p)
      PROVE  UNCHANGED <<is_active, active_groups>>
  BY <1>4 DEF Mem!PipeTest, Mem!PipePush, Mem!memVars
<1>5. ASSUME NEW p \in Memory.pipes, Mem!PipeDecide(p)
      PROVE  \/ \E g, required : Mem!Grant(g, required)
             \/ UNCHANGED <<is_active, active_groups>>
  BY <1>5 DEF Mem!PipeDecide, Mem!memVars
<1>6. ASSUME NEW g \in Mem!Groups, Mem!MemReturn(g)
      PROVE  Mem!Return(g)
  BY <1>6 DEF Mem!MemReturn
<1>7. ASSUME NEW g \in Mem!Groups, Mem!Finalise(g) \/ Mem!MakeOrphan(g)
      PROVE  UNCHANGED <<is_active, active_groups>>
  BY <1>7 DEF Mem!Finalise, Mem!MakeOrphan, Mem!memVars
<1>8. CASE Mem!Done
  BY <1>8 DEF Mem!Done, Mem!vars, Mem!memVars
<1>9. QED
  BY <1>1, <1>2, <1>3, <1>4, <1>5, <1>6, <1>7, <1>8
  DEF Mem!Next, Mem!Device, Mem!Pipe, Mem!Final

\* A grant counts the group once more, though it may have been active before.
LEMMA GrantCounts ==
  ASSUME BankInv, NEW g, NEW required, Mem!Grant(g, required)
  PROVE  BankInv'
<1>1. /\ is_active' = [is_active EXCEPT ![g] = TRUE]
      /\ active_groups' = active_groups + 1
  BY DEF Mem!Grant
<1>2. is_active' \in [Mem!Groups -> BOOLEAN]
  BY <1>1 DEF BankInv
<1>3. active_groups' \in Int
  BY <1>1 DEF BankInv
<1>4. (Mem!Active)' \in SUBSET (Mem!Active \cup {g})
  BY <1>1 DEF BankInv, Mem!Active
<1>5. /\ IsFiniteSet(Mem!Active \cup {g})
      /\ Cardinality(Mem!Active \cup {g}) <= Cardinality(Mem!Active) + 1
  <2> DEFINE S == Mem!Active
  <2>1. IsFiniteSet(S)
    BY DEF BankInv
  <2>2. Cardinality(S) \in Nat
    BY <2>1, FS_CardinalityType
  <2>3. /\ IsFiniteSet(S \cup {g})
        /\ Cardinality(S \cup {g}) = IF g \in S THEN Cardinality(S) ELSE Cardinality(S) + 1
    BY <2>1, FS_AddElement
  <2> HIDE DEF S
  <2>4. Cardinality(S \cup {g}) <= Cardinality(S) + 1
    BY <2>2, <2>3
  <2>5. QED
    BY <2>3, <2>4 DEF S
<1>6. /\ IsFiniteSet((Mem!Active)')
      /\ Cardinality((Mem!Active)') <= Cardinality(Mem!Active \cup {g})
  BY <1>4, <1>5, FS_Subset
<1>7. (active_groups >= Cardinality(Mem!Active))'
  <2> DEFINE before == Cardinality(Mem!Active)
             more   == Cardinality(Mem!Active \cup {g})
             after  == Cardinality((Mem!Active)')
  <2>1. before \in Nat /\ more \in Nat /\ after \in Nat
    BY <1>5, <1>6, FS_CardinalityType DEF BankInv
  <2>2. active_groups \in Int /\ active_groups >= before
    BY DEF BankInv
  <2>3. more <= before + 1 /\ after <= more
    BY <1>5, <1>6
  <2> HIDE DEF before, more, after
  <2>4. active_groups + 1 >= after
    BY <2>1, <2>2, <2>3
  <2>5. QED
    BY <2>4, <1>1 DEF after
<1>8. QED
  BY <1>2, <1>6, <1>7, <1>3 DEF BankInv

\* What rm_shred_mem_return takes off the count it takes off the active groups.
LEMMA ReturnCounts ==
  ASSUME BankInv, NEW g \in Mem!Groups, Mem!Return(g)
  PROVE  BankInv'
<1>1. CASE is_active[g]
  <2>1. /\ is_active' = [is_active EXCEPT ![g] = FALSE]
        /\ active_groups' = active_groups - 1
    BY <1>1 DEF Mem!Return
  <2>2. is_active' \in [Mem!Groups -> BOOLEAN] /\ active_groups' \in Int
    BY <2>1 DEF BankInv
  <2>3. (Mem!Active)' = Mem!Active \ {g} /\ g \in Mem!Active
    BY <1>1, <2>1 DEF BankInv, Mem!Active
  <2>4. /\ IsFiniteSet((Mem!Active)')
        /\ Cardinality((Mem!Active)') = Cardinality(Mem!Active) - 1
    BY <2>3, FS_RemoveElement DEF BankInv
  <2>5. (active_groups >= Cardinality(Mem!Active))'
    <3> DEFINE before == Cardinality(Mem!Active)
               after  == Cardinality((Mem!Active)')
    <3>1. before \in Nat /\ after = before - 1
      BY <2>4, FS_CardinalityType DEF BankInv
    <3>2. active_groups \in Int /\ active_groups >= before
      BY DEF BankInv
    <3> HIDE DEF before, after
    <3>3. active_groups - 1 >= after
      BY <3>1, <3>2
    <3>4. QED
      BY <3>3, <2>1 DEF after
  <2>6. QED
    BY <2>2, <2>4, <2>5 DEF BankInv
<1>2. CASE ~is_active[g]
  BY <1>2 DEF Mem!Return, BankInv, Mem!Active
<1>3. QED
  BY <1>1, <1>2

\* Nobody is active before the first grant.
LEMMA BankBegins == MCInit => BankInv
<1> SUFFICES ASSUME MCInit PROVE BankInv
  OBVIOUS
<1>1. is_active = [g \in Mem!Groups |-> FALSE] /\ active_groups = 0
  BY DEF MCInit, Mem!Init
<1>2. Mem!Active = {}
  BY <1>1 DEF Mem!Active
<1>3. IsFiniteSet(Mem!Active) /\ Cardinality(Mem!Active) = 0
  BY <1>2, FS_EmptySet
<1>4. QED
  BY <1>1, <1>3 DEF BankInv

LEMMA BankIsCounted == MCSpec => []BankInv
<1>1. BankInv /\ [MCNext]_MCvars => BankInv'
  <2> SUFFICES ASSUME BankInv, [MCNext]_MCvars PROVE BankInv'
    OBVIOUS
  <2>1. CASE MemoryBank /\ Mem!Next
    BY <2>1, BankSteps, GrantCounts, ReturnCounts
    DEF BankInv, Mem!Active
  <2>2. CASE UNCHANGED memoryVars
    BY <2>2 DEF memoryVars, BankInv, Mem!Active
  <2>3. QED
    BY <2>1, <2>2 DEF MCNext, MCvars, Scheduler
<1>2. QED
  BY BankBegins, <1>1, PTL DEF MCSpec

\* The governor of paranoid memory (rm_shred_check_paranoid_mem_alloc) lets a group that
\* is short of memory proceed when few groups are active.  However many threads test the
\* status of a group before one of them is granted its memory, the count is never below
\* the number of groups that are active.
THEOREM ActiveGroupsAreCounted == MCSpec => []NeverUndercounted
<1>1. BankInv => NeverUndercounted
  BY SameCardinality DEF BankInv, NeverUndercounted, Mem!NeverUndercounted
<1>2. QED
  BY BankIsCounted, <1>1, PTL

-----------------------------------------------------------------------------
(* Sums.  SumFunctionOnSet is a recursive function over the subsets of a set;  *)
(* what is needed of it follows by taking a smallest subset where it fails.    *)

AnyOf(T) == CHOOSE x \in T : TRUE
Rest(T)  == T \ {AnyOf(T)}

\* F adds up count over each of the sets in D.
AddsUp(F, count, D) ==
  F = [T \in D |-> IF T = {} THEN 0 ELSE count[AnyOf(T)] + F[Rest(T)]]

LEMMA NumbersUp ==
  ASSUME NEW Q \in SUBSET Nat, 0 \in Q, \A n \in Q : n + 1 \in Q
  PROVE  Q = Nat
<1> SUFFICES ASSUME Nat \ Q # {} PROVE FALSE
  OBVIOUS
<1> DEFINE R == {ss \in Nat \X Nat : ss[1] < ss[2]}
<1>1. R = OpToRel(<, Nat)
  BY Zenon DEF OpToRel
<1>2. IsWellFoundedOn(R, Nat)
  BY Zenon, <1>1, NatLessThanWellFounded
<1>3. \A m, n \in Nat : m < n => <<m, n>> \in R
  OBVIOUS
<1> HIDE DEF R
<1>4. PICK x \in Nat \ Q : \A y \in Nat \ Q : ~(<<y, x>> \in R)
  BY <1>2, WFMin
<1>5. x - 1 \in Nat /\ x - 1 < x /\ x - 1 + 1 = x
  BY <1>4
<1> QED
  BY <1>3, <1>4, <1>5

LEMMA SubsetsUp ==
  ASSUME NEW S, IsFiniteSet(S), NEW Q \in SUBSET SUBSET S, {} \in Q,
         \A T \in SUBSET S : T # {} /\ Rest(T) \in Q => T \in Q
  PROVE  Q = SUBSET S
<1> SUFFICES ASSUME (SUBSET S) \ Q # {} PROVE FALSE
  OBVIOUS
<1>1. IsWellFoundedOn(StrictSubsetOrdering(S), SUBSET S)
  BY FS_StrictSubsetOrderingWellFounded, FS_FiniteSubsetsOfFinite, Zenon
<1>2. PICK T \in (SUBSET S) \ Q : \A U \in (SUBSET S) \ Q : ~(<<U, T>> \in StrictSubsetOrdering(S))
  BY <1>1, WFMin
<1>3. T # {} /\ T \in SUBSET S /\ Rest(T) \notin Q
  BY <1>2
<1>4. AnyOf(T) \in T
  BY <1>3 DEF AnyOf
<1>5. Rest(T) \in SUBSET S /\ Rest(T) # T /\ Rest(T) \subseteq T
  BY <1>3, <1>4 DEF Rest
<1>6. <<Rest(T), T>> \in StrictSubsetOrdering(S)
  BY <1>3, <1>5 DEF StrictSubsetOrdering
<1> QED
  BY <1>2, <1>3, <1>5, <1>6

LEMMA RestIsSmaller ==
  ASSUME NEW T, IsFiniteSet(T), T # {}
  PROVE  AnyOf(T) \in T /\ Rest(T) \subseteq T /\ Cardinality(Rest(T)) = Cardinality(T) - 1
<1>1. AnyOf(T) \in T
  BY DEF AnyOf
<1> QED
  BY <1>1, FS_RemoveElement DEF Rest

\* The sets that the recursion has reached after n rounds.
Small(S, n) == {T \in SUBSET S : Cardinality(T) <= n}

LEMMA SumExists ==
  ASSUME NEW count, NEW S, IsFiniteSet(S)
  PROVE  \E F : AddsUp(F, count, SUBSET S)
<1> DEFINE Q == {n \in Nat : \E F : AddsUp(F, count, Small(S, n))}
<1>1. \A T \in SUBSET S : IsFiniteSet(T) /\ Cardinality(T) \in Nat /\ Cardinality(T) <= Cardinality(S)
  BY FS_Subset, FS_CardinalityType
<1>2. 0 \in Q
  <2>1. Small(S, 0) = {{}}
    BY <1>1, FS_EmptySet DEF Small
  <2>2. AddsUp([T \in {{}} |-> 0], count, {{}})
    BY DEF AddsUp
  <2> QED
    BY <2>1, <2>2
<1>3. ASSUME NEW n \in Q PROVE n + 1 \in Q
  <2>1. n \in Nat
    OBVIOUS
  <2>2. PICK F : AddsUp(F, count, Small(S, n))
    OBVIOUS
  <2> DEFINE G == [T \in Small(S, n + 1) |-> IF T = {} THEN 0 ELSE count[AnyOf(T)] + F[Rest(T)]]
  <2>3. ASSUME NEW T \in Small(S, n) PROVE T \in Small(S, n + 1) /\ G[T] = F[T]
    <3>1. T \in Small(S, n + 1)
      BY <1>1, <2>1 DEF Small
    <3>2. F[T] = IF T = {} THEN 0 ELSE count[AnyOf(T)] + F[Rest(T)]
      BY <2>2 DEF AddsUp
    <3> QED
      BY <3>1, <3>2
  <2>4. ASSUME NEW T \in Small(S, n + 1), T # {} PROVE Rest(T) \in Small(S, n)
    BY <2>1, <2>4, <1>1, RestIsSmaller DEF Small
  <2>5. AddsUp(G, count, Small(S, n + 1))
    BY <2>3, <2>4 DEF AddsUp
  <2> QED
    BY <2>1, <2>5
<1> HIDE DEF Q
<1>4. Q = Nat
  <2>1. Q \in SUBSET Nat
    BY DEF Q
  <2> QED
    BY <2>1, <1>2, <1>3, NumbersUp
<1>5. Cardinality(S) \in Q
  BY <1>4, FS_CardinalityType
<1>6. Small(S, Cardinality(S)) = SUBSET S
  BY <1>1 DEF Small
<1> QED
  BY <1>5, <1>6 DEF Q

LEMMA SumUnfolds ==
  ASSUME NEW count, NEW S, IsFiniteSet(S)
  PROVE  \E F : AddsUp(F, count, SUBSET S) /\ Mem!SumFunctionOnSet(count, S) = F[S]
<1> DEFINE F == CHOOSE F : AddsUp(F, count, SUBSET S)
<1>1. AddsUp(F, count, SUBSET S)
  BY SumExists
<1>2. Mem!SumFunctionOnSet(count, S) = F[S]
  BY DEF Mem!SumFunctionOnSet, Mem!FoldFunctionOnSet, Mem!MapThenFoldSet, AddsUp, AnyOf, Rest
<1> QED
  BY <1>1, <1>2

LEMMA SumIsInt ==
  ASSUME NEW S, IsFiniteSet(S), NEW count, \A x \in S : count[x] \in Int,
         NEW F, AddsUp(F, count, SUBSET S)
  PROVE  \A T \in SUBSET S : F[T] \in Int
<1> DEFINE Q == {T \in SUBSET S : F[T] \in Int}
<1>1. {} \in Q
  BY DEF AddsUp
<1>2. ASSUME NEW T \in SUBSET S, T # {}, Rest(T) \in Q PROVE T \in Q
  <2>1. AnyOf(T) \in S
    BY <1>2 DEF AnyOf
  <2>2. F[T] = count[AnyOf(T)] + F[Rest(T)]
    BY <1>2 DEF AddsUp
  <2> QED
    BY <1>2, <2>1, <2>2
<1>3. Q \in SUBSET SUBSET S
  OBVIOUS
<1> HIDE DEF Q
<1>4. Q = SUBSET S
  BY <1>1, <1>2, <1>3, SubsetsUp
<1> QED
  BY <1>4 DEF Q

\* A sum grows with what is added up.
LEMMA SumGrows ==
  ASSUME NEW S, IsFiniteSet(S), NEW lower, NEW upper,
         \A x \in S : lower[x] \in Int /\ upper[x] \in Int /\ lower[x] <= upper[x]
  PROVE  /\ Mem!SumFunctionOnSet(lower, S) \in Int
         /\ Mem!SumFunctionOnSet(upper, S) \in Int
         /\ Mem!SumFunctionOnSet(lower, S) <= Mem!SumFunctionOnSet(upper, S)
<1>1. PICK L : AddsUp(L, lower, SUBSET S) /\ Mem!SumFunctionOnSet(lower, S) = L[S]
  BY SumUnfolds
<1>2. PICK U : AddsUp(U, upper, SUBSET S) /\ Mem!SumFunctionOnSet(upper, S) = U[S]
  BY SumUnfolds
<1>3. \A T \in SUBSET S : L[T] \in Int /\ U[T] \in Int
  BY <1>1, <1>2, SumIsInt
<1> DEFINE Q == {T \in SUBSET S : L[T] <= U[T]}
<1>4. {} \in Q
  BY <1>1, <1>2 DEF AddsUp
<1>5. ASSUME NEW T \in SUBSET S, T # {}, Rest(T) \in Q PROVE T \in Q
  <2>1. AnyOf(T) \in S /\ Rest(T) \in SUBSET S
    BY <1>5 DEF AnyOf, Rest
  <2>2. L[T] = lower[AnyOf(T)] + L[Rest(T)] /\ U[T] = upper[AnyOf(T)] + U[Rest(T)]
    BY <1>1, <1>2, <1>5 DEF AddsUp
  <2>3. L[Rest(T)] <= U[Rest(T)]
    BY <1>5
  <2>4. L[T] <= U[T]
    BY <1>3, <2>1, <2>2, <2>3
  <2> QED
    BY <2>4
<1>6. Q \in SUBSET SUBSET S
  OBVIOUS
<1> HIDE DEF Q
<1>7. Q = SUBSET S
  BY <1>4, <1>5, <1>6, SubsetsUp
<1> QED
  BY <1>1, <1>2, <1>3, <1>7 DEF Q

\* What one place gets more, the sum gets more.
LEMMA SumWith ==
  ASSUME NEW S, IsFiniteSet(S), NEW before, NEW after, NEW a \in S, NEW d \in Int,
         \A x \in S : before[x] \in Int /\ after[x] = IF x = a THEN before[x] + d ELSE before[x]
  PROVE  Mem!SumFunctionOnSet(after, S) = Mem!SumFunctionOnSet(before, S) + d
<1>1. PICK B : AddsUp(B, before, SUBSET S) /\ Mem!SumFunctionOnSet(before, S) = B[S]
  BY SumUnfolds
<1>2. PICK A : AddsUp(A, after, SUBSET S) /\ Mem!SumFunctionOnSet(after, S) = A[S]
  BY SumUnfolds
<1>3. \A T \in SUBSET S : B[T] \in Int /\ A[T] \in Int
  <2>1. \A x \in S : before[x] \in Int /\ after[x] \in Int
    OBVIOUS
  <2>2. \A T \in SUBSET S : B[T] \in Int
    BY <1>1, <2>1, SumIsInt
  <2>3. \A T \in SUBSET S : A[T] \in Int
    BY <1>2, <2>1, SumIsInt
  <2> QED
    BY <2>2, <2>3
<1> DEFINE More(T) == IF a \in T THEN d ELSE 0
           Q == {T \in SUBSET S : A[T] = B[T] + More(T)}
<1>4. {} \in Q
  BY <1>1, <1>2 DEF AddsUp
<1>5. ASSUME NEW T \in SUBSET S, T # {}, Rest(T) \in Q PROVE T \in Q
  <2>1. AnyOf(T) \in S /\ AnyOf(T) \in T /\ Rest(T) \in SUBSET S
    BY <1>5 DEF AnyOf, Rest
  <2>2. B[T] = before[AnyOf(T)] + B[Rest(T)] /\ A[T] = after[AnyOf(T)] + A[Rest(T)]
    BY <1>1, <1>2, <1>5 DEF AddsUp
  <2>3. A[Rest(T)] = B[Rest(T)] + More(Rest(T))
    BY <1>5
  <2>4. CASE AnyOf(T) = a
    <3>1. a \in T /\ a \notin Rest(T) /\ after[a] = before[a] + d
      BY <2>1, <2>4 DEF Rest
    <3>2. A[T] = B[T] + d
      BY <1>3, <2>1, <2>2, <2>3, <2>4, <3>1
    <3> QED
      BY <3>1, <3>2
  <2>5. CASE AnyOf(T) # a
    <3>1. More(T) = More(Rest(T)) /\ after[AnyOf(T)] = before[AnyOf(T)] /\ More(T) \in Int
      BY <2>1, <2>5 DEF Rest
    <3> HIDE DEF More
    <3>2. A[T] = B[T] + More(T)
      BY <1>3, <2>1, <2>2, <2>3, <3>1
    <3> QED
      BY <3>2
  <2> QED
    BY <2>4, <2>5
<1>6. Q \in SUBSET SUBSET S
  OBVIOUS
<1> HIDE DEF Q
<1>7. Q = SUBSET S
  BY <1>4, <1>5, <1>6, SubsetsUp
<1> QED
  BY <1>1, <1>2, <1>7 DEF Q

LEMMA SumOfNothing ==
  ASSUME NEW S, IsFiniteSet(S), NEW count, \A x \in S : count[x] = 0
  PROVE  Mem!SumFunctionOnSet(count, S) = 0
<1>1. PICK F : AddsUp(F, count, SUBSET S) /\ Mem!SumFunctionOnSet(count, S) = F[S]
  BY SumUnfolds
<1> DEFINE Q == {T \in SUBSET S : F[T] = 0}
<1>2. {} \in Q
  BY <1>1 DEF AddsUp
<1>3. ASSUME NEW T \in SUBSET S, T # {}, Rest(T) \in Q PROVE T \in Q
  <2>1. AnyOf(T) \in S
    BY <1>3 DEF AnyOf
  <2>2. F[T] = count[AnyOf(T)] + F[Rest(T)]
    BY <1>1, <1>3 DEF AddsUp
  <2> QED
    BY <1>3, <2>1, <2>2
<1>4. Q \in SUBSET SUBSET S
  OBVIOUS
<1> HIDE DEF Q
<1>5. Q = SUBSET S
  BY <1>2, <1>3, <1>4, SubsetsUp
<1> QED
  BY <1>1, <1>5 DEF Q

LEMMA SumIsNat ==
  ASSUME NEW S, IsFiniteSet(S), NEW count, \A x \in S : count[x] \in Nat
  PROVE  Mem!SumFunctionOnSet(count, S) \in Nat
<1> DEFINE zero == [x \in S |-> 0]
<1>1. Mem!SumFunctionOnSet(zero, S) = 0
  BY SumOfNothing
<1>2. \A x \in S : zero[x] \in Int /\ count[x] \in Int /\ zero[x] <= count[x]
  OBVIOUS
<1> HIDE DEF zero
<1>3. /\ Mem!SumFunctionOnSet(count, S) \in Int
      /\ Mem!SumFunctionOnSet(zero, S) <= Mem!SumFunctionOnSet(count, S)
  BY <1>2, SumGrows
<1> QED
  BY <1>1, <1>3

-----------------------------------------------------------------------------
(* The tree of groups. *)

\* The sets and sums of the instance are those of the library theorems.
LEMMA SameFinite == \A S : Mem!IsFiniteSet(S) <=> IsFiniteSet(S)
  BY Zenon DEF Mem!IsFiniteSet, IsFiniteSet

\* A file has at least one increment, and what is left after all but the last is not empty.
LEMMA FileFacts ==
  ASSUME NEW f \in MemoryFiles
  PROVE  /\ Memory.content[f] \in Seq(Mem!Range(Memory.content[f]))
         /\ Mem!Steps(f) \in Nat \ {0}
         /\ Memory.bytes \in Nat \ {0}
         /\ Memory.size[f] \in Nat
         /\ (Mem!Steps(f) - 1) * Memory.bytes < Memory.size[f]
<1>1. /\ Memory.content[f] \in Seq(Mem!Range(Memory.content[f]))
      /\ Memory.bytes \in Nat \ {0}
      /\ Memory.size \in [MemoryFiles -> Nat \ {0}]
      /\ Memory.size[f] \in (Mem!Steps(f) - 1) * Memory.bytes + 1 .. Mem!Steps(f) * Memory.bytes
  BY DevicesAssumption DEF Mem!ParanoidMemAssumption
<1>2. Mem!Steps(f) \in Nat
  BY <1>1 DEF Mem!Steps
<1>3. (Mem!Steps(f) - 1) * Memory.bytes \in Int /\ Mem!Steps(f) * Memory.bytes \in Int
  BY <1>1, <1>2
<1>4. Mem!Steps(f) # 0
  <2> SUFFICES ASSUME Mem!Steps(f) = 0 PROVE FALSE
    OBVIOUS
  <2>1. Mem!Steps(f) * Memory.bytes = 0
    BY <1>1
  <2> QED
    BY <1>1, <1>3, <2>1
<1> QED
  BY <1>1, <1>2, <1>3, <1>4

\* Groups on the way of a file: they lie one above the other.
LEMMA GroupFacts ==
  ASSUME NEW f \in MemoryFiles, NEW n \in 0..Mem!Steps(f)
  PROVE  LET g == Mem!Group(f, n)
         IN  /\ g \in Mem!Groups
             /\ g.size = Memory.size[f]
             /\ Len(g.prefix) = n
             /\ Mem!IsRoot(g) <=> n = 0
             /\ \A k \in 0..n : Mem!Ancestor(g, k) = Mem!Group(f, k)
             /\ n > 0 => Mem!Up(g) = Mem!Group(f, n - 1) /\ Mem!Up(g) # g
             /\ n = Mem!Steps(f) => Mem!Complete(g)
<1> DEFINE c == Memory.content[f]
           g == Mem!Group(f, n)
<1>1. c \in Seq(Mem!Range(c)) /\ Mem!Steps(f) = Len(c) /\ Mem!Steps(f) \in Nat
  BY FileFacts DEF Mem!Steps
<1>2. g = [size |-> Memory.size[f], prefix |-> SubSeq(c, 1, n)]
  BY DEF Mem!Group
<1>3. g \in Mem!Groups
  BY DEF Mem!Groups
<1> HIDE DEF c
<1>4. /\ SubSeq(c, 1, n) \in Seq(Mem!Range(c)) /\ Len(SubSeq(c, 1, n)) = n
      /\ \A i \in 1..n : SubSeq(c, 1, n)[i] = c[i]
  BY <1>1
<1>5. Mem!IsRoot(g) <=> n = 0
  <2>1. SubSeq(c, 1, n) = <<>> <=> n = 0
    BY <1>4, EmptySeq
  <2>2. g.prefix = SubSeq(c, 1, n)
    BY <1>2
  <2> QED
    BY <2>1, <2>2 DEF Mem!IsRoot
<1>6. \A k \in 0..n : Mem!Ancestor(g, k) = Mem!Group(f, k)
  <2> SUFFICES ASSUME NEW k \in 0..n PROVE Mem!Ancestor(g, k) = Mem!Group(f, k)
    OBVIOUS
  <2> DEFINE p == SubSeq(c, 1, n)
  <2>1. Mem!Group(f, k) = [size |-> Memory.size[f], prefix |-> SubSeq(c, 1, k)]
    BY DEF Mem!Group, c
  <2>2. SubSeq(p, 1, k) = SubSeq(c, 1, k)
    BY <1>1, <1>4
  <2>3. g = [size |-> Memory.size[f], prefix |-> p]
    BY <1>2
  <2> HIDE DEF g, p
  <2>4. g.prefix = p
    BY <2>3
  <2>5. Mem!Ancestor(g, k) = [g EXCEPT !.prefix = SubSeq(@, 1, k)]
    BY Zenon DEF Mem!Ancestor
  <2>6. Mem!Ancestor(g, k) = [g EXCEPT !.prefix = SubSeq(p, 1, k)]
    BY <2>4, <2>5
  <2>7. Mem!Ancestor(g, k) = [size |-> Memory.size[f], prefix |-> SubSeq(p, 1, k)]
    BY <2>3, <2>6
  <2> QED
    BY <2>1, <2>2, <2>7
<1>7. ASSUME n > 0 PROVE Mem!Up(g) = Mem!Group(f, n - 1) /\ Mem!Up(g) # g
  <2>1. Mem!Up(g) = Mem!Group(f, n - 1)
    <3>1. Len(g.prefix) = n
      BY <1>2, <1>4
    <3>2. n - 1 \in 0..n
      BY <1>1, <1>7
    <3> HIDE DEF g
    <3>3. Mem!Up(g) = Mem!Ancestor(g, n - 1)
      BY <3>1 DEF Mem!Up
    <3> QED
      BY <1>6, <3>2, <3>3
  <2>2. Mem!Group(f, n - 1).prefix = SubSeq(c, 1, n - 1) /\ Len(SubSeq(c, 1, n - 1)) = n - 1
    BY <1>1, <1>7 DEF Mem!Group, c
  <2> QED
    BY <1>2, <1>4, <2>1, <2>2
<1>8. n = Mem!Steps(f) => Mem!Complete(g)
  BY DEF Mem!Complete
<1>9. g.size = Memory.size[f] /\ Len(g.prefix) = n
  BY <1>2, <1>4
<1> HIDE DEF g
<1> QED
  BY <1>3, <1>5, <1>6, <1>7, <1>8, <1>9 DEF g

\* A group that is not the root of its tree has another one above it.
LEMMA UpIsGroup ==
  ASSUME NEW g \in Mem!Groups, ~Mem!IsRoot(g)
  PROVE  Mem!Up(g) \in Mem!Groups /\ Mem!Up(g) # g
<1>0. PICK f \in MemoryFiles : \E n \in 0..Mem!Steps(f) : g = Mem!Group(f, n)
  BY DEF Mem!Groups
<1>1. PICK n \in 0..Mem!Steps(f) : g = Mem!Group(f, n)
  BY <1>0
<1>2. Mem!Steps(f) \in Nat
  BY FileFacts
<1>3. n > 0
  BY <1>1, <1>2, GroupFacts
<1>4. n - 1 \in 0..Mem!Steps(f)
  BY <1>2, <1>3
<1> QED
  BY <1>1, <1>3, <1>4, GroupFacts

\* The root is not complete.
LEMMA RootIsToBeRead ==
  ASSUME NEW f \in MemoryFiles
  PROVE  ~Mem!Complete(Mem!Group(f, 0))
<1> SUFFICES ASSUME NEW h \in MemoryFiles, Mem!Group(f, 0) = Mem!Group(h, Mem!Steps(h)) PROVE FALSE
  BY DEF Mem!Complete
<1>1. Mem!Steps(f) \in Nat /\ Mem!Steps(h) \in Nat \ {0}
  BY FileFacts
<1>2. Len(Mem!Group(f, 0).prefix) = 0
  BY <1>1, GroupFacts
<1>3. Len(Mem!Group(h, Mem!Steps(h)).prefix) = Mem!Steps(h)
  BY <1>1, GroupFacts
<1> QED
  BY <1>1, <1>2, <1>3

LEMMA GroupsAreFinite == IsFiniteSet(Mem!Groups)
<1> DEFINE Way(f) == {Mem!Group(f, n) : n \in 0..Mem!Steps(f)}
           Ways == {Way(f) : f \in MemoryFiles}
<1>1. IsFiniteSet(MemoryFiles)
  BY DevicesAssumption, SameFinite DEF Mem!ParanoidMemAssumption
<1>2. IsFiniteSet(Ways)
  <2> DEFINE way == [f \in MemoryFiles |-> Way(f)]
  <2>1. way \in Surjection(MemoryFiles, Ways)
    BY DEF Surjection
  <2> QED
    BY <1>1, <2>1, FS_Surjection
<1>3. ASSUME NEW f \in MemoryFiles PROVE IsFiniteSet(Way(f))
  <2> DEFINE one == [n \in 0..Mem!Steps(f) |-> Mem!Group(f, n)]
  <2>1. one \in Surjection(0..Mem!Steps(f), Way(f))
    BY DEF Surjection
  <2>2. Mem!Steps(f) \in Int /\ 0 \in Int
    BY FileFacts
  <2>3. IsFiniteSet(0..Mem!Steps(f))
    BY <2>2, FS_Interval, Zenon
  <2> QED
    BY <2>1, <2>3, FS_Surjection
<1>4. \A W \in Ways : IsFiniteSet(W)
  BY <1>3
<1>5. Mem!Groups = UNION Ways
  BY DEF Mem!Groups
<1> QED
  BY <1>2, <1>4, <1>5, FS_UNION, Zenon

LEMMA LesserOfTwo ==
  ASSUME NEW a \in Int, NEW b \in Int
  PROVE  Mem!Min({a, b}) = IF a <= b THEN a ELSE b
<1> DEFINE m == IF a <= b THEN a ELSE b
<1>1. m \in {a, b} /\ \A y \in {a, b} : m <= y
  OBVIOUS
<1>2. Mem!Min({a, b}) \in {a, b} /\ \A y \in {a, b} : Mem!Min({a, b}) <= y
  BY <1>1, Zenon DEF Mem!Min
<1> QED
  BY <1>2

\* What a group is said to require is a number: some of it is still to be read.
LEMMA RequiredIsNat ==
  ASSUME num_pending \in [Mem!Groups -> Nat], NEW f \in MemoryFiles, NEW n \in 0..Mem!Steps(f) - 1
  PROVE  Mem!Required(Mem!Group(f, n)) \in Nat
<1> DEFINE g == Mem!Group(f, n)
           reached == {k \in 0..Len(g.prefix) :
                         \A m \in k + 1 .. Len(g.prefix) : ~orphan[Mem!Ancestor(g, m)]}
           above == {Mem!Ancestor(g, k) : k \in reached}
           unread == g.size - Len(g.prefix) * Memory.bytes
<1>1. n \in 0..Mem!Steps(f) /\ Mem!Steps(f) \in Nat \ {0} /\ n <= Mem!Steps(f) - 1
  BY FileFacts
<1>2. /\ Len(g.prefix) = n /\ g.size = Memory.size[f]
      /\ \A k \in 0..n : Mem!Ancestor(g, k) = Mem!Group(f, k)
  BY <1>1, GroupFacts
<1>3. above \in SUBSET Mem!Groups
  <2>1. \A k \in 0..n : Mem!Group(f, k) \in Mem!Groups
    BY <1>1, GroupFacts
  <2> QED
    BY <1>2, <2>1
<1>4. IsFiniteSet(above)
  BY <1>3, GroupsAreFinite, FS_Subset
<1>5. \A x \in above : num_pending[x] \in Nat
  BY <1>3
<1>6. Mem!PotentialFileCount(g) = Mem!SumFunctionOnSet(num_pending, above)
  BY Zenon DEF Mem!PotentialFileCount
<1> HIDE DEF above, reached
<1>7. Mem!PotentialFileCount(g) \in Nat
  BY <1>4, <1>5, <1>6, SumIsNat
<1>8. unread \in Nat
  <2>1. Memory.bytes \in Nat /\ Memory.size[f] \in Nat
        /\ (Mem!Steps(f) - 1) * Memory.bytes < Memory.size[f]
    BY FileFacts
  <2>2. \A a, b, c \in Nat : a <= b => a * c \in Nat /\ b * c \in Nat /\ a * c <= b * c
    BY Z3
  <2>3. n * Memory.bytes <= (Mem!Steps(f) - 1) * Memory.bytes /\ n * Memory.bytes \in Nat
        /\ (Mem!Steps(f) - 1) * Memory.bytes \in Nat
    BY <1>1, <2>1, <2>2
  <2>4. unread = Memory.size[f] - n * Memory.bytes
    BY <1>2
  <2> HIDE DEF unread
  <2> QED
    BY <2>1, <2>3, <2>4
<1>9. Mem!Min({unread, Memory.bytes}) \in Nat
  <2>1. Memory.bytes \in Nat
    BY FileFacts
  <2> HIDE DEF unread
  <2> QED
    BY <1>8, <2>1, LesserOfTwo
<1>10. Mem!Required(g) = (Mem!PotentialFileCount(g) \div 2 + 1) * Mem!Min({unread, Memory.bytes})
  BY Zenon DEF Mem!Required
<1>11. \A a, b \in Nat : (a \div 2 + 1) * b \in Nat
  BY Z3
<1> HIDE DEF unread
<1> QED
  BY <1>7, <1>9, <1>10, <1>11

-----------------------------------------------------------------------------
(* What the bank needs to know of the groups: memory is granted to groups with *)
(* files to be read only, and no such group is about to return its memory.     *)

Asks(a) == asker[a] # Mem!Idle
Doing   == [pc : {"test", "grant", "push"}, file : MemoryFiles, required : Nat]

\* The files that num_pending counts.  What a hash pipe asks for is not in it yet.
ForDevice(f) == \E t \in MemoryThreads : Asks(t) /\ asker[t].file = f
Counted(g) ==
  {f \in MemoryFiles : Mem!GroupOf(f) = g /\ (at[f] \in {"queued", "hashing"} \/ ForDevice(f))}

LockedBy(p) == {Mem!GroupOf(asker[p].file), Mem!Up(Mem!GroupOf(asker[p].file))}
Dead(g)     == g \in finalising \/ status[g] = "freed"

TreeTypes ==
  /\ status \in [Mem!Groups -> {"none", "dormant", "start_hashing", "hashing", "freed"}]
  /\ orphan \in [Mem!Groups -> BOOLEAN]
  /\ num_pending \in [Mem!Groups -> Nat]
  /\ at \in [MemoryFiles -> {"queued", "asked", "hashing", "held", "out"}]
  /\ depth \in [MemoryFiles -> Nat]
  /\ asker \in [Mem!Askers -> {Mem!Idle} \cup Doing]
  /\ finalising \subseteq Mem!Groups /\ returned \subseteq finalising
  /\ orphaning \subseteq Mem!Groups

\* A thread asks for a file that nobody else has.
AskersApart ==
  /\ \A a \in Mem!Askers : Asks(a) => at[asker[a].file] = "asked"
  /\ \A a, b \in Mem!Askers : Asks(a) /\ Asks(b) /\ asker[a].file = asker[b].file => a = b

\* A pipe moves a file to a group below, and locks both.
LocksApart ==
  /\ \A p \in Memory.pipes : Asks(p) => depth[asker[p].file] > 0
  /\ \A p, q \in Memory.pipes : p # q /\ Asks(p) /\ Asks(q) => LockedBy(p) \cap LockedBy(q) = {}

\* No file is read beyond its end.
ToBeRead ==
  /\ \A f \in MemoryFiles :
       /\ depth[f] <= Mem!Steps(f)
       /\ at[f] \in {"queued", "asked", "hashing"} => ~Mem!Complete(Mem!GroupOf(f))
  /\ \A g \in Mem!Groups : status[g] \in {"start_hashing", "hashing"} => ~Mem!Complete(g)

FilesCounted == \A g \in Mem!Groups : num_pending[g] = Cardinality(Counted(g))

\* A group is an orphan once the group above is gone.
AboveIsGone ==
  \A g \in Mem!Groups :
    /\ ~Mem!IsRoot(g) /\ (orphan[g] \/ g \in orphaning) => status[Mem!Up(g)] = "freed"
    /\ Mem!IsRoot(g) => orphan[g] /\ g \notin orphaning

\* Nobody is, or will be, at work on a group that is to be finalised.
DeadAreEmpty ==
  \A g \in Mem!Groups : Dead(g) => orphan[g] /\ Counted(g) = {} /\ ~Mem!Locked(g)

TreeInv ==
  /\ TreeTypes
  /\ AskersApart
  /\ LocksApart
  /\ ToBeRead
  /\ FilesCounted
  /\ AboveIsGone
  /\ DeadAreEmpty

LEMMA CountedIsFinite == \A g : IsFiniteSet(Counted(g)) /\ IsFiniteSet(Counted(g))'
<1>1. IsFiniteSet(MemoryFiles)
  BY DevicesAssumption, SameFinite DEF Mem!ParanoidMemAssumption
<1>2. \A g : Counted(g) \in SUBSET MemoryFiles /\ Counted(g)' \in SUBSET MemoryFiles
  BY DEF Counted
<1> QED
  BY <1>1, <1>2, FS_Subset

\* Where a file is, and where it goes.
LEMMA Place ==
  ASSUME TreeInv, NEW f \in MemoryFiles
  PROVE  LET g == Mem!GroupOf(f)
             c == Mem!Group(f, depth[f] + 1)
         IN  /\ depth[f] \in 0..Mem!Steps(f) /\ g \in Mem!Groups
             /\ depth[f] > 0 => ~Mem!IsRoot(g) /\ Mem!Up(g) \in Mem!Groups /\ Mem!Up(g) # g
             /\ at[f] \in {"queued", "asked", "hashing"} =>
                  /\ depth[f] + 1 \in 0..Mem!Steps(f) /\ depth[f] \in 0..Mem!Steps(f) - 1
                  /\ c \in Mem!Groups /\ c # g /\ ~Mem!IsRoot(c) /\ Mem!Up(c) = g
<1>1. depth[f] \in 0..Mem!Steps(f) /\ Mem!Steps(f) \in Nat
  BY FileFacts DEF TreeInv, TreeTypes, ToBeRead
<1>2. Mem!GroupOf(f) = Mem!Group(f, depth[f])
  BY DEF Mem!GroupOf
<1>3. Mem!GroupOf(f) \in Mem!Groups
  BY <1>1, <1>2, GroupFacts
<1>4. ASSUME depth[f] > 0
      PROVE  /\ ~Mem!IsRoot(Mem!GroupOf(f))
             /\ Mem!Up(Mem!GroupOf(f)) \in Mem!Groups /\ Mem!Up(Mem!GroupOf(f)) # Mem!GroupOf(f)
  <2>1. ~Mem!IsRoot(Mem!GroupOf(f))
    BY <1>1, <1>2, <1>4, GroupFacts
  <2> QED
    BY <1>3, <2>1, UpIsGroup
<1>5. ASSUME at[f] \in {"queued", "asked", "hashing"}
      PROVE  LET c == Mem!Group(f, depth[f] + 1)
             IN  /\ depth[f] + 1 \in 0..Mem!Steps(f) /\ depth[f] \in 0..Mem!Steps(f) - 1
                 /\ c \in Mem!Groups /\ c # Mem!GroupOf(f) /\ ~Mem!IsRoot(c) /\ Mem!Up(c) = Mem!GroupOf(f)
  <2>1. ~Mem!Complete(Mem!Group(f, depth[f]))
    BY <1>2, <1>5 DEF TreeInv, ToBeRead
  <2>2. depth[f] # Mem!Steps(f)
    BY <1>1, <2>1, GroupFacts
  <2>3. depth[f] + 1 \in 0..Mem!Steps(f) /\ depth[f] + 1 > 0 /\ depth[f] + 1 - 1 = depth[f]
        /\ depth[f] + 1 # 0 /\ depth[f] \in 0..Mem!Steps(f) - 1
    BY <1>1, <2>2
  <2>4. Mem!Group(f, depth[f] + 1) \in Mem!Groups /\ ~Mem!IsRoot(Mem!Group(f, depth[f] + 1))
        /\ Mem!Up(Mem!Group(f, depth[f] + 1)) = Mem!Group(f, depth[f] + 1 - 1)
        /\ Mem!Up(Mem!Group(f, depth[f] + 1)) # Mem!Group(f, depth[f] + 1)
    BY <2>3, GroupFacts
  <2> QED
    BY <1>2, <2>3, <2>4
<1> QED
  BY <1>1, <1>3, <1>4, <1>5

\* A group that has files to be read is alive, and so is the group that they go to.
LEMMA Alive ==
  ASSUME TreeInv, NEW f \in MemoryFiles, at[f] \in {"queued", "hashing"} \/ ForDevice(f)
  PROVE  ~Dead(Mem!GroupOf(f))
<1>1. f \in Counted(Mem!GroupOf(f)) /\ Mem!GroupOf(f) \in Mem!Groups
  BY Place DEF Counted
<1> QED
  BY <1>1 DEF TreeInv, DeadAreEmpty

LEMMA BelowIsAlive ==
  ASSUME TreeInv, NEW f \in MemoryFiles, at[f] = "hashing"
  PROVE  ~Dead(Mem!Group(f, depth[f] + 1))
<1> DEFINE c == Mem!Group(f, depth[f] + 1)
<1>1. c \in Mem!Groups /\ ~Mem!IsRoot(c) /\ Mem!Up(c) = Mem!GroupOf(f)
  BY Place
<1>2. status[Mem!GroupOf(f)] # "freed"
  BY Alive DEF Dead
<1> HIDE DEF c
<1>3. ~Dead(c)
  BY <1>1, <1>2 DEF TreeInv, DeadAreEmpty, AboveIsGone
<1> QED
  BY <1>3 DEF c

-----------------------------------------------------------------------------
(* Each step keeps the tree in order. *)

\* What is gone is gone.
LEMMA AboveStaysGone ==
  ASSUME TreeInv, UNCHANGED <<orphan, orphaning>>,
         \A x \in Mem!Groups : status[x] = "freed" => status'[x] = "freed"
  PROVE  AboveIsGone'
BY UpIsGroup DEF TreeInv, AboveIsGone

\* A file is counted for its group while it is queued, hashed or taken by a device thread.
LEMMA TakeFileTree ==
  ASSUME TreeInv, NEW t \in MemoryThreads, NEW f \in MemoryFiles, Mem!TakeFile(t, f)
  PROVE  TreeInv'
<1> DEFINE r == Mem!Required(Mem!GroupOf(f))
<1>1. /\ t \in Mem!Askers /\ t \notin Memory.pipes /\ ~Asks(t) /\ at[f] = "queued"
      /\ \A p \in Memory.pipes : p \in Mem!Askers /\ p # t
  BY DevicesAssumption DEF Mem!TakeFile, Asks, Mem!Askers, Mem!ParanoidMemAssumption
<1>2. UNCHANGED <<status, orphan, num_pending, depth, finalising, returned, orphaning>>
  BY DEF Mem!TakeFile, Mem!groupVars, Mem!finalVars
<1>3. \/ at' = [at EXCEPT ![f] = "hashing"] /\ asker' = asker
      \/ /\ at' = [at EXCEPT ![f] = "asked"]
         /\ asker' = [asker EXCEPT ![t] = [pc |-> "grant", file |-> f, required |-> r]]
  BY DEF Mem!TakeFile, Mem!Asking
<1>4. r \in Nat
  <2>1. depth[f] \in 0..Mem!Steps(f) - 1
    BY <1>1, Place
  <2> QED
    BY <2>1, RequiredIsNat DEF TreeInv, TreeTypes, Mem!GroupOf
<1> HIDE DEF r
<1>5. TreeTypes'
  BY <1>1, <1>2, <1>3, <1>4 DEF TreeInv, TreeTypes, Doing
<1>6. /\ \A p \in Mem!Askers : p # t => asker'[p] = asker[p]
      /\ \A a \in Mem!Askers : Asks(a) => asker[a].file # f /\ asker[a].file \in MemoryFiles
      /\ Asks(t)' => at' = [at EXCEPT ![f] = "asked"] /\ asker'[t].file = f
      /\ ~Asks(t)' => at' = [at EXCEPT ![f] = "hashing"]
  BY <1>1, <1>3 DEF TreeInv, TreeTypes, AskersApart, Asks, Mem!Idle, Doing
<1>7. AskersApart'
  BY <1>1, <1>6 DEF TreeInv, TreeTypes, AskersApart, Asks
<1>8. \A p \in Memory.pipes : asker'[p] = asker[p] /\ LockedBy(p)' = LockedBy(p)
  BY <1>1, <1>2, <1>6 DEF LockedBy, Mem!GroupOf
<1>9. LocksApart'
  BY <1>2, <1>8 DEF TreeInv, LocksApart, Asks
<1>10. ToBeRead'
  BY <1>1, <1>2, <1>3 DEF TreeInv, TreeTypes, ToBeRead, Mem!GroupOf
<1>11. \A g : Counted(g)' = Counted(g)
  <2>1. \A h \in MemoryFiles : (at'[h] \in {"queued", "hashing"} \/ ForDevice(h)')
                                 <=> (at[h] \in {"queued", "hashing"} \/ ForDevice(h))
    BY <1>1, <1>6 DEF ForDevice, Asks, TreeInv, TreeTypes, Mem!Askers
  <2> QED
    BY <1>2, <2>1 DEF Counted, Mem!GroupOf
<1>12. FilesCounted'
  BY <1>2, <1>11 DEF TreeInv, FilesCounted
<1>13. AboveIsGone'
  BY <1>2 DEF TreeInv, AboveIsGone
<1>14. DeadAreEmpty'
  BY <1>2, <1>8, <1>11 DEF TreeInv, DeadAreEmpty, Dead, Mem!Locked, LockedBy
<1> QED
  BY <1>5, <1>7, <1>9, <1>10, <1>12, <1>13, <1>14 DEF TreeInv

\* A file for which memory was asked is counted all the while.
LEMMA DeviceDecideTree ==
  ASSUME TreeInv, NEW t \in MemoryThreads, Mem!DeviceDecide(t)
  PROVE  TreeInv'
<1> DEFINE f == asker[t].file
           g == Mem!GroupOf(f)
<1>1. /\ t \in Mem!Askers /\ asker[t].pc = "grant"
      /\ \A p \in Memory.pipes : p \in Mem!Askers /\ p # t
  BY DevicesAssumption DEF Mem!DeviceDecide, Mem!Askers, Mem!ParanoidMemAssumption
<1>2. Asks(t) /\ f \in MemoryFiles /\ at[f] = "asked" /\ ForDevice(f)
  BY <1>1 DEF TreeInv, TreeTypes, AskersApart, Asks, Mem!Idle, Doing, ForDevice
<1>3. UNCHANGED <<orphan, num_pending, depth, finalising, returned, orphaning>>
      /\ asker' = [asker EXCEPT ![t] = Mem!Idle]
  BY DEF Mem!DeviceDecide, Mem!finalVars
<1>4. /\ at' = [at EXCEPT ![f] = "hashing"] \/ at' = [at EXCEPT ![f] = "queued"]
      /\ status' = [status EXCEPT ![g] = "hashing"] \/ status' = status
  BY DEF Mem!DeviceDecide
<1>5. ~Dead(g) /\ g \in Mem!Groups /\ ~Mem!Complete(g)
  BY <1>2, Alive, Place DEF TreeInv, ToBeRead
<1> HIDE DEF f, g
<1>6. TreeTypes'
  BY <1>1, <1>2, <1>3, <1>4, <1>5 DEF TreeInv, TreeTypes
<1>7. /\ \A a \in Mem!Askers : a # t => asker'[a] = asker[a]
      /\ \A a \in Mem!Askers : a # t /\ Asks(a) => asker[a].file # f /\ asker[a].file \in MemoryFiles
      /\ ~Asks(t)'
  BY <1>1, <1>2, <1>3 DEF f, TreeInv, TreeTypes, AskersApart, Asks, Mem!Idle, Doing
<1>8. AskersApart'
  BY <1>2, <1>4, <1>7 DEF TreeInv, TreeTypes, AskersApart, Asks
<1>9. \A p \in Memory.pipes : asker'[p] = asker[p] /\ LockedBy(p)' = LockedBy(p)
  BY <1>1, <1>3, <1>7 DEF LockedBy, Mem!GroupOf
<1>10. LocksApart'
  BY <1>3, <1>9 DEF TreeInv, LocksApart, Asks
<1>11. ToBeRead'
  BY <1>2, <1>3, <1>4, <1>5 DEF g, TreeInv, TreeTypes, ToBeRead, Mem!GroupOf
<1>12. \A x : Counted(x)' = Counted(x)
  <2>1. \A h \in MemoryFiles : (at'[h] \in {"queued", "hashing"} \/ ForDevice(h)')
                                 <=> (at[h] \in {"queued", "hashing"} \/ ForDevice(h))
    BY <1>2, <1>4, <1>7 DEF f, ForDevice, Asks, TreeInv, TreeTypes, Mem!Askers
  <2> QED
    BY <1>3, <2>1 DEF Counted, Mem!GroupOf
<1>13. FilesCounted'
  BY <1>3, <1>12 DEF TreeInv, FilesCounted
<1>14. AboveIsGone'
  <2>1. \A x \in Mem!Groups : status[x] = "freed" => status'[x] = "freed"
    BY <1>4, <1>5 DEF TreeInv, TreeTypes, Dead
  <2> QED
    BY <1>3, <2>1, AboveStaysGone
<1>15. DeadAreEmpty'
  BY <1>3, <1>4, <1>5, <1>9, <1>12 DEF TreeInv, TreeTypes, DeadAreEmpty, Dead, Mem!Locked, LockedBy
<1> QED
  BY <1>6, <1>8, <1>10, <1>11, <1>13, <1>14, <1>15 DEF TreeInv

\* A pipe that asks holds its locks, and moves nothing yet.
LEMMA PipeAsksTree ==
  ASSUME TreeInv, NEW p \in Memory.pipes, Mem!PipeTest(p) \/ Mem!PipeDecide(p)
  PROVE  TreeInv'
<1> DEFINE f == asker[p].file
           g == Mem!GroupOf(f)
<1>1. /\ p \in Mem!Askers /\ asker[p].pc \in {"test", "grant"} /\ p \notin MemoryThreads
      /\ \A t \in MemoryThreads : t \in Mem!Askers
  BY DevicesAssumption DEF Mem!PipeTest, Mem!PipeDecide, Mem!Askers, Mem!ParanoidMemAssumption
<1>2. Asks(p) /\ f \in MemoryFiles /\ at[f] = "asked" /\ asker[p].required \in Nat
  BY <1>1 DEF TreeInv, TreeTypes, AskersApart, Asks, Mem!Idle, Doing
<1>3. UNCHANGED <<orphan, num_pending, at, depth, finalising, returned, orphaning>>
  BY DEF Mem!PipeTest, Mem!PipeDecide, Mem!groupVars, Mem!finalVars
<1>4. status' = [status EXCEPT ![g] = "hashing"] \/ status' = status
  BY DEF Mem!PipeTest, Mem!PipeDecide, Mem!groupVars
<1>5. g \in Mem!Groups /\ ~Mem!Complete(g) /\ ~Dead(g)
  <2>1. g \in Mem!Groups /\ ~Mem!Complete(g)
    BY <1>2, Place DEF TreeInv, ToBeRead
  <2>2. Mem!Locked(g)
    BY <1>2 DEF Mem!Locked, Asks
  <2> QED
    BY <2>1, <2>2 DEF TreeInv, DeadAreEmpty
<1>6. \E a \in Doing : asker' = [asker EXCEPT ![p] = a] /\ a.file = f
  <2>1. CASE Mem!PipeTest(p)
    <3> DEFINE a == [pc |-> IF status[g] = "hashing" THEN "push" ELSE "grant",
                     file |-> f, required |-> Mem!Required(g)]
    <3>1. asker' = [asker EXCEPT ![p] = a]
      BY <2>1 DEF Mem!PipeTest, Mem!Asking
    <3>2. depth[f] \in 0..Mem!Steps(f) - 1
      BY <1>2, Place
    <3>3. Mem!Required(g) \in Nat
      BY <1>2, <3>2, RequiredIsNat DEF TreeInv, TreeTypes, Mem!GroupOf
    <3>4. a \in Doing /\ a.file = f
      BY <1>2, <3>3 DEF Doing
    <3> QED
      BY <3>1, <3>4
  <2>2. CASE Mem!PipeDecide(p)
    <3>1. asker' = [asker EXCEPT ![p] = [asker[p] EXCEPT !.pc = "push"]]
      BY <2>2 DEF Mem!PipeDecide
    <3>2. asker[p] \in Doing
      BY <1>1, <1>2 DEF TreeInv, TreeTypes, Asks
    <3>3. [asker[p] EXCEPT !.pc = "push"] \in Doing /\ [asker[p] EXCEPT !.pc = "push"].file = f
      BY <3>2 DEF Doing
    <3> QED
      BY <3>1, <3>3
  <2> QED
    BY <2>1, <2>2
<1> HIDE DEF f, g
<1>7. TreeTypes'
  BY <1>1, <1>3, <1>4, <1>5, <1>6 DEF TreeInv, TreeTypes
<1>8. \A a \in Mem!Askers : /\ Asks(a)' <=> Asks(a)
                            /\ Asks(a) => asker'[a].file = asker[a].file
                            /\ a # p => asker'[a] = asker[a]
  BY <1>1, <1>2, <1>6 DEF f, TreeInv, TreeTypes, Asks, Mem!Idle, Doing
<1>9. AskersApart'
  BY <1>3, <1>8 DEF TreeInv, AskersApart
<1>10. \A q \in Memory.pipes : /\ Asks(q)' <=> Asks(q)
                               /\ Asks(q) => asker'[q].file = asker[q].file /\ LockedBy(q)' = LockedBy(q)
  BY <1>3, <1>8 DEF LockedBy, Mem!GroupOf, Mem!Askers
<1>11. LocksApart'
  BY <1>3, <1>10 DEF TreeInv, LocksApart
<1>12. ToBeRead'
  BY <1>3, <1>4, <1>5 DEF TreeInv, TreeTypes, ToBeRead, Mem!GroupOf
<1>13. \A x : Counted(x)' = Counted(x)
  <2>1. \A h : ForDevice(h)' <=> ForDevice(h)
    BY <1>1, <1>8 DEF ForDevice
  <2> QED
    BY <1>3, <2>1 DEF Counted, Mem!GroupOf
<1>14. FilesCounted'
  BY <1>3, <1>13 DEF TreeInv, FilesCounted
<1>15. AboveIsGone'
  <2>1. \A x \in Mem!Groups : status[x] = "freed" => status'[x] = "freed"
    BY <1>4, <1>5 DEF TreeInv, TreeTypes, Dead
  <2> QED
    BY <1>3, <2>1, AboveStaysGone
<1>16. DeadAreEmpty'
  <2>1. \A x : Mem!Locked(x)' <=> Mem!Locked(x)
    BY <1>10 DEF Mem!Locked, LockedBy, Asks
  <2> QED
    BY <1>3, <1>4, <1>5, <1>13, <2>1 DEF TreeInv, TreeTypes, DeadAreEmpty, Dead
<1> QED
  BY <1>7, <1>9, <1>11, <1>12, <1>14, <1>15, <1>16 DEF TreeInv

\* A file leaves its group for the one below.
LEMMA SiftTree ==
  ASSUME TreeInv, NEW p \in Memory.pipes, NEW f \in MemoryFiles, Mem!Sift(p, f),
         NEW g, g = Mem!GroupOf(f), NEW c, c = Mem!Group(f, depth[f] + 1)
  PROVE  TreeInv'
<1> DEFINE goes == status[c] = "hashing"
<1>1. at[f] = "hashing" /\ ~Mem!Locked(g) /\ ~Mem!Locked(c)
  BY DEF Mem!Sift
<1>2. /\ g \in Mem!Groups /\ c \in Mem!Groups /\ c # g /\ ~Mem!IsRoot(c) /\ Mem!Up(c) = g
      /\ depth[f] + 1 <= Mem!Steps(f) /\ ~Dead(g) /\ ~Dead(c)
  BY <1>1, Place, Alive, BelowIsAlive, FileFacts
<1>3. /\ UNCHANGED <<orphan, asker, returned, orphaning>>
      /\ depth' = [depth EXCEPT ![f] = @ + 1]
      /\ at' = [at EXCEPT ![f] = IF goes THEN "queued" ELSE "held"]
      /\ status' = [status EXCEPT ![c] = IF goes THEN @ ELSE "dormant"]
      /\ num_pending' = [num_pending EXCEPT ![g] = @ - 1, ![c] = IF goes THEN @ + 1 ELSE @]
      /\ finalising' = IF orphan[g] /\ num_pending'[g] = 0 THEN finalising \cup {g} ELSE finalising
  BY DEF Mem!Sift, Mem!LeaveGroup
<1>4. /\ \A h \in MemoryFiles : h # f => Mem!GroupOf(h)' = Mem!GroupOf(h)
      /\ Mem!GroupOf(f)' = c
  BY <1>3 DEF Mem!GroupOf, TreeInv, TreeTypes
<1>5. ~ForDevice(f)
  BY <1>1 DEF TreeInv, AskersApart, ForDevice, Mem!Askers
<1>6. /\ f \in Counted(g) /\ f \notin Counted(c)
      /\ Counted(g)' = Counted(g) \ {f}
      /\ Counted(c)' = IF goes THEN Counted(c) \cup {f} ELSE Counted(c)
      /\ \A x : x # g /\ x # c => Counted(x)' = Counted(x)
  <2>1. ~ForDevice(f)' /\ \A h : ForDevice(h)' <=> ForDevice(h)
    BY <1>3, <1>5 DEF ForDevice, Asks
  <2> QED
    BY <1>1, <1>2, <1>3, <1>4, <1>5, <2>1 DEF Counted, TreeInv, TreeTypes
<1>7. FilesCounted' /\ num_pending'[g] \in Nat /\ num_pending'[c] \in Nat
  <2>1. /\ num_pending[g] = Cardinality(Counted(g)) /\ num_pending[c] = Cardinality(Counted(c))
        /\ num_pending[g] \in Nat /\ num_pending[c] \in Nat
    BY <1>2 DEF TreeInv, TreeTypes, FilesCounted
  <2>2. /\ num_pending'[g] = num_pending[g] - 1
        /\ num_pending'[c] = (IF goes THEN num_pending[c] + 1 ELSE num_pending[c])
        /\ \A x \in Mem!Groups : x # g /\ x # c => num_pending'[x] = num_pending[x]
    <3>1. CASE goes
      <4>1. num_pending' = [num_pending EXCEPT ![g] = @ - 1, ![c] = @ + 1]
        BY <1>3, <3>1
      <4> QED
        BY <1>2, <2>1, <3>1, <4>1 DEF TreeInv, TreeTypes
    <3>2. CASE ~goes
      <4>1. num_pending' = [num_pending EXCEPT ![g] = @ - 1, ![c] = @]
        BY <1>3, <3>2
      <4> QED
        BY <1>2, <2>1, <3>2, <4>1 DEF TreeInv, TreeTypes
    <3> QED
      BY <3>1, <3>2
  <2>3. Cardinality(Counted(g)') = Cardinality(Counted(g)) - 1 /\ Cardinality(Counted(g)') \in Nat
    BY <1>6, CountedIsFinite, FS_RemoveElement, FS_CardinalityType
  <2>4. Cardinality(Counted(c)') = IF goes THEN Cardinality(Counted(c)) + 1 ELSE Cardinality(Counted(c))
    BY <1>6, CountedIsFinite, FS_AddElement
  <2>5. num_pending'[g] = Cardinality(Counted(g)')
    BY <2>1, <2>2, <2>3
  <2>6. num_pending'[c] = Cardinality(Counted(c)')
    BY <2>1, <2>2, <2>4
  <2>7. ASSUME NEW x \in Mem!Groups, x # g, x # c PROVE num_pending'[x] = Cardinality(Counted(x)')
    <3>1. num_pending[x] = Cardinality(Counted(x))
      BY DEF TreeInv, FilesCounted
    <3> QED
      BY <1>6, <2>2, <2>7, <3>1
  <2>8. num_pending'[g] \in Nat /\ num_pending'[c] \in Nat
    BY <2>1, <2>2, <2>3, <2>5
  <2> QED
    BY <2>5, <2>6, <2>7, <2>8 DEF FilesCounted
<1>8. TreeTypes'
  BY <1>2, <1>3, <1>7 DEF TreeInv, TreeTypes
<1>9. \A a \in Mem!Askers : Asks(a) => asker[a].file # f /\ asker[a].file \in MemoryFiles
  BY <1>1 DEF TreeInv, TreeTypes, AskersApart, Asks, Mem!Idle, Doing
<1>10. AskersApart'
  BY <1>3, <1>9 DEF TreeInv, TreeTypes, AskersApart, Asks
<1>11. /\ \A q \in Memory.pipes : Asks(q) => depth'[asker[q].file] = depth[asker[q].file]
                                             /\ LockedBy(q)' = LockedBy(q)
       /\ \A q : Asks(q)' <=> Asks(q)
  BY <1>3, <1>4, <1>9 DEF LockedBy, Asks, Mem!Askers, TreeInv, TreeTypes
<1>12. LocksApart'
  BY <1>3, <1>11 DEF TreeInv, LocksApart
<1>13. ToBeRead'
  <2>1. \A h \in MemoryFiles : h # f => depth'[h] = depth[h] /\ at'[h] = at[h]
    BY <1>3 DEF TreeInv, TreeTypes
  <2>2. depth'[f] = depth[f] + 1 /\ at'[f] = IF goes THEN "queued" ELSE "held"
    BY <1>3 DEF TreeInv, TreeTypes
  <2>3. goes => ~Mem!Complete(c)
    BY <1>2 DEF TreeInv, ToBeRead, goes
  <2>4. \A x \in Mem!Groups : status'[x] \in {"start_hashing", "hashing"} =>
                                status[x] \in {"start_hashing", "hashing"}
    BY <1>3 DEF TreeInv, TreeTypes, goes
  <2> QED
    BY <1>2, <1>4, <2>1, <2>2, <2>3, <2>4 DEF TreeInv, ToBeRead
<1>14. \A x \in Mem!Groups : status'[x] = "freed" <=> status[x] = "freed"
  BY <1>2, <1>3 DEF TreeInv, TreeTypes, Dead, goes
<1>15. AboveIsGone'
  BY <1>3, <1>14, AboveStaysGone
<1>16. DeadAreEmpty'
  <2>1. \A x : Mem!Locked(x)' <=> Mem!Locked(x)
    BY <1>3, <1>11 DEF Mem!Locked, LockedBy, Asks
  <2>2. ASSUME NEW x \in Mem!Groups, Dead(x)', x # g
        PROVE  orphan'[x] /\ Counted(x)' = {} /\ ~Mem!Locked(x)'
    <3>1. Dead(x)
      BY <1>3, <1>14, <2>2 DEF Dead
    <3>2. x # c
      BY <1>2, <3>1
    <3> QED
      BY <1>3, <1>6, <2>1, <2>2, <3>1, <3>2 DEF TreeInv, DeadAreEmpty
  <2>3. ASSUME Dead(g)' PROVE orphan'[g] /\ Counted(g)' = {} /\ ~Mem!Locked(g)'
    <3>1. orphan[g] /\ num_pending'[g] = 0
      BY <1>2, <1>3, <1>14, <2>3 DEF Dead
    <3>2. Counted(g)' = {}
      BY <1>2, <1>7, <3>1, CountedIsFinite, FS_EmptySet DEF FilesCounted
    <3> QED
      BY <1>1, <1>3, <2>1, <3>1, <3>2
  <2> QED
    BY <2>2, <2>3 DEF DeadAreEmpty
<1> QED
  BY <1>7, <1>8, <1>10, <1>12, <1>13, <1>15, <1>16 DEF TreeInv

\* The files that were held are counted, and the one that came last is asked for.
LEMMA SiftAsksTree ==
  ASSUME TreeInv, NEW p \in Memory.pipes, NEW f \in MemoryFiles, Mem!SiftAsks(p, f),
         NEW g, g = Mem!GroupOf(f), NEW c, c = Mem!Group(f, depth[f] + 1)
  PROVE  TreeInv'
<1> DEFINE H == Mem!FilesHeld(c)
<1>1. /\ at[f] = "hashing" /\ ~Mem!Locked(g) /\ ~Mem!Locked(c)
      /\ status[c] = "start_hashing" \/ ~Mem!Complete(c)
      /\ p \in Mem!Askers /\ ~Asks(p) /\ p \notin MemoryThreads
      /\ \A t \in MemoryThreads : t \in Mem!Askers
  BY DevicesAssumption DEF Mem!SiftAsks, Mem!StartsHashing, Asks, Mem!Askers, Mem!ParanoidMemAssumption
<1>2. /\ g \in Mem!Groups /\ c \in Mem!Groups /\ c # g /\ ~Mem!IsRoot(c) /\ Mem!Up(c) = g
      /\ depth[f] + 1 <= Mem!Steps(f) /\ ~Dead(g) /\ ~Dead(c)
  BY <1>1, Place, Alive, BelowIsAlive, FileFacts
<1>3. /\ UNCHANGED <<orphan, finalising, returned, orphaning>>
      /\ depth' = [depth EXCEPT ![f] = @ + 1]
      /\ at' = [h \in MemoryFiles |-> IF h = f THEN "asked" ELSE IF h \in H THEN "queued" ELSE at[h]]
      /\ status' = [status EXCEPT ![c] = "start_hashing"]
      /\ num_pending' = [num_pending EXCEPT ![g] = @ - 1, ![c] = @ + Mem!Cardinality(H)]
      /\ asker' = [asker EXCEPT ![p] = [pc |-> "test", file |-> f, required |-> 0]]
  BY DEF Mem!SiftAsks, Mem!finalVars, Mem!Asking
<1>4. /\ \A h \in MemoryFiles : h # f => Mem!GroupOf(h)' = Mem!GroupOf(h)
      /\ Mem!GroupOf(f)' = c
  BY <1>3 DEF Mem!GroupOf, TreeInv, TreeTypes
<1>5. H \in SUBSET MemoryFiles /\ \A h \in H : at[h] = "held" /\ Mem!GroupOf(h) = c
  BY DEF Mem!FilesHeld
<1> HIDE DEF H
<1>6. /\ \A a \in Mem!Askers : Asks(a) => asker[a].file # f /\ asker[a].file \in MemoryFiles
                                          /\ asker[a].file \notin H
      /\ \A a \in Mem!Askers : a # p => asker'[a] = asker[a] /\ (Asks(a)' <=> Asks(a))
      /\ Asks(p)' /\ asker'[p].file = f
  BY <1>1, <1>3, <1>5 DEF TreeInv, TreeTypes, AskersApart, Asks, Mem!Idle, Doing
<1>7. \A h : ForDevice(h)' <=> ForDevice(h)
  BY <1>1, <1>6 DEF ForDevice
<1>8. ~ForDevice(f) /\ \A h \in H : ~ForDevice(h)
  BY <1>1, <1>6 DEF ForDevice
<1>9. /\ f \in Counted(g) /\ H \cap Counted(c) = {}
      /\ Counted(g)' = Counted(g) \ {f}
      /\ Counted(c)' = Counted(c) \cup H
      /\ \A x : x # g /\ x # c => Counted(x)' = Counted(x)
  BY <1>1, <1>2, <1>3, <1>4, <1>5, <1>7, <1>8 DEF Counted, TreeInv, TreeTypes
<1>10. FilesCounted' /\ num_pending'[g] \in Nat /\ num_pending'[c] \in Nat
  <2>1. /\ num_pending[g] = Cardinality(Counted(g)) /\ num_pending[c] = Cardinality(Counted(c))
        /\ num_pending[g] \in Nat /\ num_pending[c] \in Nat
    BY <1>2 DEF TreeInv, TreeTypes, FilesCounted
  <2>2. num_pending'[g] = num_pending[g] - 1
        /\ num_pending'[c] = num_pending[c] + Cardinality(H)
        /\ \A x \in Mem!Groups : x # g /\ x # c => num_pending'[x] = num_pending[x]
    BY <1>2, <1>3, SameCardinality DEF TreeInv, TreeTypes
  <2>3. Cardinality(Counted(g)') = Cardinality(Counted(g)) - 1 /\ Cardinality(Counted(g)') \in Nat
    BY <1>9, CountedIsFinite, FS_RemoveElement, FS_CardinalityType
  <2>4. IsFiniteSet(H) /\ Cardinality(H) \in Nat
    <3>1. IsFiniteSet(MemoryFiles)
      BY DevicesAssumption, SameFinite DEF Mem!ParanoidMemAssumption
    <3> QED
      BY <1>5, <3>1, FS_Subset, FS_CardinalityType
  <2>5. Cardinality(Counted(c)') = Cardinality(Counted(c)) + Cardinality(H)
    <3>1. Cardinality(Counted(c) \cup H)
            = Cardinality(Counted(c)) + Cardinality(H) - Cardinality(Counted(c) \cap H)
      BY <2>4, CountedIsFinite, FS_Union
    <3>2. Cardinality(Counted(c) \cap H) = 0
      <4>1. Counted(c) \cap H = {}
        BY <1>9
      <4> QED
        BY <4>1, FS_EmptySet
    <3> QED
      <4>1. Counted(c)' = Counted(c) \cup H
        BY <1>9
      <4>2. Cardinality(Counted(c)) \in Nat /\ Cardinality(H) \in Nat
        BY <2>1, <2>4
      <4>3. Cardinality(Counted(c) \cup H) = Cardinality(Counted(c)) + Cardinality(H)
        BY <3>1, <3>2, <4>2
      <4> QED
        BY <4>1, <4>3
  <2>6. num_pending'[g] = Cardinality(Counted(g)')
    BY <2>1, <2>2, <2>3
  <2>7. num_pending'[c] = Cardinality(Counted(c)')
    BY <2>1, <2>2, <2>5
  <2>8. ASSUME NEW x \in Mem!Groups, x # g, x # c PROVE num_pending'[x] = Cardinality(Counted(x)')
    <3>1. num_pending[x] = Cardinality(Counted(x))
      BY DEF TreeInv, FilesCounted
    <3> QED
      BY <1>9, <2>2, <2>8, <3>1
  <2>9. num_pending'[g] \in Nat /\ num_pending'[c] \in Nat
    BY <2>1, <2>2, <2>3, <2>4, <2>6
  <2> QED
    BY <2>6, <2>7, <2>8, <2>9 DEF FilesCounted
<1>11. TreeTypes'
  <2>1. status' \in [Mem!Groups -> {"none", "dormant", "start_hashing", "hashing", "freed"}]
    BY <1>3 DEF TreeInv, TreeTypes
  <2>5. depth' \in [MemoryFiles -> Nat]
    BY <1>3 DEF TreeInv, TreeTypes
  <2>4. at' \in [MemoryFiles -> {"queued", "asked", "hashing", "held", "out"}]
    BY <1>3 DEF TreeInv, TreeTypes
  <2>2. num_pending' \in [Mem!Groups -> Nat]
    BY <1>2, <1>3, <1>10 DEF TreeInv, TreeTypes
  <2>3. asker' \in [Mem!Askers -> {Mem!Idle} \cup Doing]
    BY <1>1, <1>3 DEF TreeInv, TreeTypes, Doing
  <2> QED
    BY <1>3, <2>1, <2>2, <2>3, <2>4, <2>5 DEF TreeInv, TreeTypes
<1>12. AskersApart'
  BY <1>3, <1>6 DEF TreeInv, AskersApart
<1>13. /\ LockedBy(p)' = {c, g}
       /\ \A q \in Memory.pipes : q # p /\ Asks(q) => depth'[asker[q].file] = depth[asker[q].file]
                                                     /\ LockedBy(q)' = LockedBy(q)
  <2>1. LockedBy(p)' = {c, g}
    BY <1>2, <1>4, <1>6 DEF LockedBy
  <2> QED
    BY <1>3, <1>4, <1>6, <2>1 DEF LockedBy, Mem!Askers, TreeInv, TreeTypes
<1>14. LocksApart'
  <2>1. \A q \in Memory.pipes : Asks(q) => g \notin LockedBy(q) /\ c \notin LockedBy(q)
    BY <1>1 DEF Mem!Locked, LockedBy, Asks
  <2>2. depth'[f] = depth[f] + 1 /\ depth[f] \in Nat
    BY <1>3 DEF TreeInv, TreeTypes
  <2>3. \A q \in Memory.pipes : Asks(q)' => depth'[asker'[q].file] > 0
    BY <1>6, <1>13, <2>2 DEF TreeInv, LocksApart, Mem!Askers
  <2>4. \A q \in Memory.pipes : q # p /\ Asks(q)' => LockedBy(q)' \cap LockedBy(p)' = {}
    BY <1>6, <1>13, <2>1 DEF Mem!Askers
  <2>5. \A q, r \in Memory.pipes : q # r /\ q # p /\ r # p /\ Asks(q)' /\ Asks(r)' =>
                                     LockedBy(q)' \cap LockedBy(r)' = {}
    BY <1>6, <1>13 DEF TreeInv, LocksApart, Mem!Askers
  <2> QED
    BY <2>3, <2>4, <2>5 DEF LocksApart
<1>15. ToBeRead'
  <2>1. \A h \in MemoryFiles : h # f => depth'[h] = depth[h]
    BY <1>3 DEF TreeInv, TreeTypes
  <2>2. depth'[f] = depth[f] + 1
    BY <1>3 DEF TreeInv, TreeTypes
  <2>3. ~Mem!Complete(c)
    BY <1>1, <1>2 DEF TreeInv, ToBeRead
  <2>4. \A h \in MemoryFiles : at'[h] \in {"queued", "asked", "hashing"} => ~Mem!Complete(Mem!GroupOf(h)')
    BY <1>3, <1>4, <1>5, <2>3 DEF TreeInv, ToBeRead
  <2>5. \A x \in Mem!Groups : status'[x] \in {"start_hashing", "hashing"} => ~Mem!Complete(x)
    BY <1>3, <2>3 DEF TreeInv, TreeTypes, ToBeRead
  <2> QED
    BY <1>2, <2>1, <2>2, <2>4, <2>5 DEF TreeInv, ToBeRead
<1>16. \A x \in Mem!Groups : status'[x] = "freed" <=> status[x] = "freed"
  BY <1>2, <1>3 DEF TreeInv, TreeTypes, Dead
<1>17. AboveIsGone'
  BY <1>3, <1>16, AboveStaysGone
<1>18. DeadAreEmpty'
  <2> SUFFICES ASSUME NEW x \in Mem!Groups, Dead(x)'
               PROVE  orphan'[x] /\ Counted(x)' = {} /\ ~Mem!Locked(x)'
    BY DEF DeadAreEmpty
  <2>1. Dead(x) /\ x # g /\ x # c
    BY <1>2, <1>3, <1>16 DEF Dead
  <2>2. Mem!Locked(x)' => Mem!Locked(x)
    <3>1. \A y : Mem!Locked(y) <=> \E q \in Memory.pipes : Asks(q) /\ y \in LockedBy(q)
      BY DEF Mem!Locked, LockedBy, Asks
    <3>2. Mem!Locked(x)' <=> \E q \in Memory.pipes : Asks(q)' /\ x \in LockedBy(q)'
      BY DEF Mem!Locked, LockedBy, Asks
    <3> QED
      BY <1>6, <1>13, <2>1, <3>1, <3>2 DEF Mem!Askers
  <2> QED
    BY <1>3, <1>9, <2>1, <2>2 DEF TreeInv, DeadAreEmpty
<1> QED
  BY <1>10, <1>11, <1>12, <1>14, <1>15, <1>17, <1>18 DEF TreeInv

\* The file is counted, and the locks are let go.
LEMMA PipePushTree ==
  ASSUME TreeInv, NEW p \in Memory.pipes, Mem!PipePush(p),
         NEW f, f = asker[p].file, NEW c, c = Mem!GroupOf(f), NEW u, u = Mem!Up(c)
  PROVE  TreeInv'
<1>1. /\ p \in Mem!Askers /\ asker[p].pc = "push" /\ p \notin MemoryThreads
      /\ \A t \in MemoryThreads : t \in Mem!Askers
  BY DevicesAssumption DEF Mem!PipePush, Mem!Askers, Mem!ParanoidMemAssumption
<1>2. Asks(p) /\ f \in MemoryFiles /\ at[f] = "asked" /\ ~ForDevice(f)
  BY <1>1 DEF TreeInv, TreeTypes, AskersApart, Asks, Mem!Idle, Doing, ForDevice
<1>3. c \in Mem!Groups /\ u \in Mem!Groups /\ u # c /\ LockedBy(p) = {c, u}
      /\ Mem!Locked(c) /\ ~Mem!Complete(c)
  <2>1. depth[f] > 0
    BY <1>2 DEF TreeInv, LocksApart
  <2> QED
    BY <1>2, <2>1, Place DEF LockedBy, Mem!Locked, Asks, TreeInv, ToBeRead
<1>4. /\ UNCHANGED <<status, orphan, depth, returned, orphaning>>
      /\ asker' = [asker EXCEPT ![p] = Mem!Idle]
      /\ at' = [at EXCEPT ![f] = "queued"]
      /\ num_pending' = [num_pending EXCEPT ![c] = @ + 1]
      /\ finalising' = IF orphan[u] /\ num_pending[u] = 0 THEN finalising \cup {u} ELSE finalising
  BY DEF Mem!PipePush, Mem!LeaveGroup
<1>5. /\ \A a \in Mem!Askers : a # p => asker'[a] = asker[a] /\ (Asks(a)' <=> Asks(a))
      /\ \A a \in Mem!Askers : a # p /\ Asks(a) => asker[a].file # f /\ asker[a].file \in MemoryFiles
      /\ ~Asks(p)'
  BY <1>1, <1>2, <1>4 DEF TreeInv, TreeTypes, AskersApart, Asks, Mem!Idle, Doing
<1>6. \A h : ForDevice(h)' <=> ForDevice(h)
  BY <1>1, <1>5 DEF ForDevice
<1>7. /\ f \notin Counted(c) /\ Counted(c)' = Counted(c) \cup {f}
      /\ \A x : x # c => Counted(x)' = Counted(x)
  BY <1>2, <1>3, <1>4, <1>6 DEF Counted, Mem!GroupOf, TreeInv, TreeTypes
<1>8. FilesCounted'
  <2> SUFFICES ASSUME NEW x \in Mem!Groups PROVE num_pending'[x] = Cardinality(Counted(x)')
    BY DEF FilesCounted
  <2>1. num_pending[x] = Cardinality(Counted(x)) /\ num_pending[x] \in Nat
    BY DEF TreeInv, TreeTypes, FilesCounted
  <2>2. CASE x = c
    <3>1. Cardinality(Counted(c)') = Cardinality(Counted(c)) + 1
      <4> DEFINE S == Counted(c)
      <4>1. IsFiniteSet(S) /\ f \notin S
        BY <1>7, CountedIsFinite
      <4>2. Counted(c)' = S \cup {f}
        BY <1>7
      <4> HIDE DEF S
      <4>3. Cardinality(S \cup {f}) = Cardinality(S) + 1
        BY <4>1, FS_AddElement
      <4> QED
        BY <4>2, <4>3 DEF S
    <3>2. num_pending'[c] = num_pending[c] + 1
      BY <1>3, <1>4 DEF TreeInv, TreeTypes
    <3> QED
      BY <2>1, <2>2, <3>1, <3>2
  <2>3. CASE x # c
    BY <1>3, <1>4, <1>7, <2>1, <2>3 DEF TreeInv, TreeTypes
  <2> QED
    BY <2>2, <2>3
<1>9. TreeTypes'
  BY <1>1, <1>2, <1>3, <1>4 DEF TreeInv, TreeTypes
<1>10. AskersApart'
  BY <1>2, <1>4, <1>5 DEF TreeInv, TreeTypes, AskersApart
<1>11. \A q \in Memory.pipes : q # p => asker'[q] = asker[q] /\ (Asks(q)' <=> Asks(q))
                                        /\ LockedBy(q)' = LockedBy(q)
  BY <1>4, <1>5 DEF LockedBy, Mem!GroupOf, Mem!Askers
<1>12. LocksApart'
  BY <1>4, <1>5, <1>11 DEF TreeInv, LocksApart
<1>13. ToBeRead'
  BY <1>2, <1>3, <1>4 DEF TreeInv, TreeTypes, ToBeRead, Mem!GroupOf
<1>14. AboveIsGone'
  BY <1>4 DEF TreeInv, AboveIsGone
<1>15. DeadAreEmpty'
  <2>1. \A x : Mem!Locked(x)' => \E q \in Memory.pipes : q # p /\ Asks(q) /\ x \in LockedBy(q)
    BY <1>5, <1>11 DEF Mem!Locked, LockedBy, Asks
  <2>2. \A x : Mem!Locked(x)' => Mem!Locked(x)
    BY <2>1 DEF Mem!Locked, LockedBy, Asks
  <2>3. ~Mem!Locked(u)'
    BY <1>2, <1>3, <2>1 DEF TreeInv, LocksApart
  <2>4. ASSUME NEW x \in Mem!Groups, Dead(x)'
        PROVE  orphan'[x] /\ Counted(x)' = {} /\ ~Mem!Locked(x)'
    <3>1. CASE Dead(x)
      BY <1>3, <1>4, <1>7, <2>2, <3>1 DEF TreeInv, DeadAreEmpty
    <3>2. CASE ~Dead(x)
      <4>1. x = u /\ orphan[u] /\ num_pending[u] = 0
        BY <1>4, <2>4, <3>2 DEF Dead
      <4>2. Counted(u) = {}
        BY <1>3, <4>1, CountedIsFinite, FS_EmptySet DEF TreeInv, FilesCounted
      <4> QED
        BY <1>3, <1>4, <1>7, <2>3, <4>1, <4>2
    <3> QED
      BY <3>1, <3>2
  <2> QED
    BY <2>4 DEF DeadAreEmpty
<1> QED
  BY <1>8, <1>9, <1>10, <1>12, <1>13, <1>14, <1>15 DEF TreeInv

\* The end of a group leaves its tree as it is, but for the children, which become orphans.
LEMMA MemReturnTree ==
  ASSUME TreeInv, NEW g \in Mem!Groups, Mem!MemReturn(g)
  PROVE  TreeInv'
<1>1. /\ UNCHANGED <<status, orphan, num_pending, at, depth, asker, finalising, orphaning>>
      /\ returned' = returned \cup {g} /\ g \in finalising
  BY DEF Mem!MemReturn, Mem!groupVars
<1>2. TreeTypes'
  BY <1>1 DEF TreeInv, TreeTypes
<1>3. \A x : /\ Counted(x)' = Counted(x) /\ (Mem!Locked(x)' <=> Mem!Locked(x))
             /\ LockedBy(x)' = LockedBy(x) /\ (Asks(x)' <=> Asks(x))
  BY <1>1 DEF Counted, ForDevice, Asks, Mem!Locked, LockedBy, Mem!GroupOf
<1> QED
  BY <1>1, <1>2, <1>3 DEF TreeInv, AskersApart, LocksApart, ToBeRead, FilesCounted,
                          AboveIsGone, DeadAreEmpty, Dead, Mem!GroupOf

LEMMA FinaliseTree ==
  ASSUME TreeInv, NEW g \in Mem!Groups, Mem!Finalise(g)
  PROVE  TreeInv'
<1>1. /\ UNCHANGED <<orphan, num_pending, depth, asker>>
      /\ g \in returned /\ g \in finalising
      /\ returned' = returned \ {g} /\ finalising' = finalising \ {g}
      /\ status' = [status EXCEPT ![g] = "freed"]
      /\ at' = [f \in MemoryFiles |-> IF f \in Mem!FilesHeld(g) THEN "out" ELSE at[f]]
      /\ orphaning' = orphaning \cup {c \in Mem!Groups : /\ ~Mem!IsRoot(c) /\ Mem!Up(c) = g
                                                         /\ status[c] # "none"}
  BY DEF Mem!Finalise, TreeInv, TreeTypes
<1>2. \A f \in MemoryFiles : \/ at'[f] = at[f]
                             \/ at[f] = "held" /\ at'[f] = "out"
  BY <1>1 DEF Mem!FilesHeld
<1>3. TreeTypes'
  <2>1. at' \in [MemoryFiles -> {"queued", "asked", "hashing", "held", "out"}]
    BY <1>1 DEF TreeInv, TreeTypes
  <2> QED
    BY <1>1, <2>1 DEF TreeInv, TreeTypes
<1>4. \A x : /\ Counted(x)' = Counted(x) /\ (Mem!Locked(x)' <=> Mem!Locked(x))
             /\ LockedBy(x)' = LockedBy(x) /\ (Asks(x)' <=> Asks(x))
  BY <1>1, <1>2 DEF Counted, ForDevice, Asks, Mem!Locked, LockedBy, Mem!GroupOf
<1>5. AskersApart'
  <2>1. \A a \in Mem!Askers : Asks(a) => asker[a].file \in MemoryFiles
    BY DEF TreeInv, TreeTypes, Asks, Mem!Idle, Doing
  <2> QED
    BY <1>1, <1>2, <1>4, <2>1 DEF TreeInv, AskersApart
<1>6. LocksApart'
  BY <1>1, <1>4 DEF TreeInv, LocksApart
<1>7. \A x \in Mem!Groups : status'[x] = IF x = g THEN "freed" ELSE status[x]
  BY <1>1 DEF TreeInv, TreeTypes
<1>8. ToBeRead'
  BY <1>1, <1>2, <1>7 DEF TreeInv, ToBeRead, Mem!GroupOf
<1>9. FilesCounted'
  BY <1>1, <1>4 DEF TreeInv, FilesCounted
<1>10. AboveIsGone'
  BY <1>1, <1>7, UpIsGroup DEF TreeInv, AboveIsGone
<1>11. DeadAreEmpty'
  <2>1. \A x \in Mem!Groups : Dead(x)' <=> Dead(x)
    BY <1>1, <1>7 DEF Dead
  <2> QED
    BY <1>1, <1>4, <2>1 DEF TreeInv, DeadAreEmpty
<1> QED
  BY <1>3, <1>5, <1>6, <1>8, <1>9, <1>10, <1>11 DEF TreeInv

LEMMA MakeOrphanTree ==
  ASSUME TreeInv, NEW c \in Mem!Groups, Mem!MakeOrphan(c)
  PROVE  TreeInv'
<1>1. /\ UNCHANGED <<status, num_pending, at, depth, asker, returned>>
      /\ c \in orphaning /\ ~Mem!Locked(c)
      /\ orphaning' = orphaning \ {c}
      /\ orphan' = [orphan EXCEPT ![c] = TRUE]
      /\ finalising' = IF num_pending[c] = 0 THEN finalising \cup {c} ELSE finalising
  BY DEF Mem!MakeOrphan
<1>2. TreeTypes'
  BY <1>1 DEF TreeInv, TreeTypes
<1>3. \A x : /\ Counted(x)' = Counted(x) /\ (Mem!Locked(x)' <=> Mem!Locked(x))
             /\ LockedBy(x)' = LockedBy(x) /\ (Asks(x)' <=> Asks(x))
  BY <1>1 DEF Counted, ForDevice, Asks, Mem!Locked, LockedBy, Mem!GroupOf
<1>4. AskersApart' /\ LocksApart' /\ ToBeRead' /\ FilesCounted'
  BY <1>1, <1>3 DEF TreeInv, AskersApart, LocksApart, ToBeRead, FilesCounted, Mem!GroupOf
<1>5. \A x \in Mem!Groups : orphan'[x] = IF x = c THEN TRUE ELSE orphan[x]
  BY <1>1 DEF TreeInv, TreeTypes
<1>6. AboveIsGone'
  BY <1>1, <1>5 DEF TreeInv, AboveIsGone
<1>7. DeadAreEmpty'
  <2> SUFFICES ASSUME NEW x \in Mem!Groups, Dead(x)'
               PROVE  orphan'[x] /\ Counted(x)' = {} /\ ~Mem!Locked(x)'
    BY DEF DeadAreEmpty
  <2>1. CASE Dead(x)
    BY <1>3, <1>5, <2>1 DEF TreeInv, DeadAreEmpty
  <2>2. CASE ~Dead(x)
    <3>1. x = c /\ num_pending[c] = 0
      BY <1>1, <2>2 DEF Dead
    <3>2. Counted(c) = {}
      BY <3>1, CountedIsFinite, FS_EmptySet DEF TreeInv, FilesCounted
    <3> QED
      BY <1>1, <1>3, <1>5, <3>1, <3>2
  <2> QED
    BY <2>1, <2>2
<1> QED
  BY <1>2, <1>4, <1>6, <1>7 DEF TreeInv

LEMMA SameTree ==
  ASSUME TreeInv,
         UNCHANGED <<status, orphan, num_pending, at, depth, asker, finalising, returned, orphaning>>
  PROVE  TreeInv'
<1>1. \A x : /\ Counted(x)' = Counted(x) /\ (Mem!Locked(x)' <=> Mem!Locked(x))
             /\ LockedBy(x)' = LockedBy(x) /\ (Asks(x)' <=> Asks(x))
  BY DEF Counted, ForDevice, Asks, Mem!Locked, LockedBy, Mem!GroupOf
<1>2. TreeTypes'
  BY DEF TreeInv, TreeTypes
<1> QED
  BY <1>1, <1>2 DEF TreeInv, AskersApart, LocksApart, ToBeRead, FilesCounted,
                    AboveIsGone, DeadAreEmpty, Dead, Mem!GroupOf

\* At the start every file is queued for the root of its tree.
LEMMA TreeBegins == MCInit => TreeInv
<1> SUFFICES ASSUME MCInit PROVE TreeInv
  OBVIOUS
<1>1. /\ status = [g \in Mem!Groups |-> IF Mem!IsRoot(g) THEN "start_hashing" ELSE "none"]
      /\ orphan = [g \in Mem!Groups |-> Mem!IsRoot(g)]
      /\ num_pending = [g \in Mem!Groups |->
             Mem!Cardinality({f \in MemoryFiles : Mem!IsRoot(g) /\ Mem!Group(f, 0) = g})]
      /\ at = [f \in MemoryFiles |-> "queued"]
      /\ depth = [f \in MemoryFiles |-> 0]
      /\ asker = [a \in Mem!Askers |-> Mem!Idle]
      /\ finalising = {} /\ returned = {} /\ orphaning = {}
  BY DEF MCInit, Mem!Init
<1>2. \A a \in Mem!Askers : ~Asks(a)
  BY <1>1 DEF Asks
<1>3. \A t \in MemoryThreads : t \in Mem!Askers
  BY DEF Mem!Askers
<1>4. \A p \in Memory.pipes : p \in Mem!Askers
  BY DEF Mem!Askers
<1>5. \A f \in MemoryFiles : /\ Mem!GroupOf(f) = Mem!Group(f, 0) /\ Mem!IsRoot(Mem!Group(f, 0))
                             /\ ~Mem!Complete(Mem!Group(f, 0)) /\ Mem!Steps(f) \in Nat
  BY <1>1, FileFacts, GroupFacts, RootIsToBeRead DEF Mem!GroupOf
<1>6. FilesCounted /\ num_pending \in [Mem!Groups -> Nat]
  <2>1. ASSUME NEW g \in Mem!Groups
        PROVE  Counted(g) = {f \in MemoryFiles : Mem!IsRoot(g) /\ Mem!Group(f, 0) = g}
    BY <1>1, <1>5 DEF Counted
  <2>2. \A g \in Mem!Groups : num_pending[g] = Cardinality(Counted(g))
    BY <1>1, <2>1, SameCardinality
  <2>3. \A g \in Mem!Groups : num_pending[g] \in Nat
    BY <2>2, CountedIsFinite, FS_CardinalityType
  <2>4. num_pending = [g \in Mem!Groups |-> num_pending[g]]
    BY <1>1
  <2> HIDE DEF FilesCounted
  <2> QED
    BY <2>2, <2>3, <2>4 DEF FilesCounted
<1>7. TreeTypes
  BY <1>1, <1>6 DEF TreeTypes, Mem!IsRoot
<1>8. ToBeRead
  <2>1. ASSUME NEW g \in Mem!Groups, Mem!IsRoot(g) PROVE ~Mem!Complete(g)
    <3>1. PICK f \in MemoryFiles : \E n \in 0..Mem!Steps(f) : g = Mem!Group(f, n)
      BY DEF Mem!Groups
    <3>2. g = Mem!Group(f, 0)
      BY <2>1, <3>1, GroupFacts
    <3> QED
      BY <1>5, <3>2
  <2> QED
    BY <1>1, <1>5, <2>1 DEF ToBeRead
<1>9. AboveIsGone
  BY <1>1 DEF AboveIsGone
<1>10. DeadAreEmpty
  BY <1>1 DEF DeadAreEmpty, Dead
<1>11. AskersApart /\ LocksApart
  BY <1>2, <1>4 DEF AskersApart, LocksApart
<1> QED
  BY <1>6, <1>7, <1>8, <1>9, <1>10, <1>11 DEF TreeInv

LEMMA TreeSteps ==
  ASSUME TreeInv, Mem!Next
  PROVE  TreeInv'
<1>1. ASSUME NEW t \in MemoryThreads, Mem!Device(t) PROVE TreeInv'
  BY <1>1, TakeFileTree, DeviceDecideTree DEF Mem!Device
<1>2. ASSUME NEW p \in Memory.pipes, Mem!Pipe(p) PROVE TreeInv'
  BY <1>2, SiftTree, SiftAsksTree, PipeAsksTree, PipePushTree DEF Mem!Pipe
<1>3. ASSUME NEW g \in Mem!Groups, Mem!Final(g) PROVE TreeInv'
  BY <1>3, MemReturnTree, FinaliseTree, MakeOrphanTree DEF Mem!Final
<1>4. CASE Mem!Done
  BY <1>4, SameTree DEF Mem!Done, Mem!vars, Mem!groupVars, Mem!finalVars
<1> QED
  BY <1>1, <1>2, <1>3, <1>4 DEF Mem!Next

-----------------------------------------------------------------------------
(* What the bank lent comes back. *)

\* What a group owes: it is given back when the group has passed mem_return.
Owed == [g \in Mem!Groups |-> IF g \in returned THEN 0 ELSE mem_allocation[g]]

LoanInv ==
  /\ is_active \in [Mem!Groups -> BOOLEAN]
  /\ mem_allocation \in [Mem!Groups -> Nat]
  /\ paranoid_mem_alloc \in Nat
  /\ \A g \in Mem!Groups \ returned : ~is_active[g] => mem_allocation[g] = 0
  /\ paranoid_mem_alloc + Mem!SumFunctionOnSet(Owed, Mem!Groups) >= Memory.bank

LEMMA OwedIsNat ==
  ASSUME LoanInv
  PROVE  /\ \A g \in Mem!Groups : Owed[g] \in Nat
         /\ Mem!SumFunctionOnSet(Owed, Mem!Groups) \in Int
<1>1. \A g \in Mem!Groups : Owed[g] \in Nat
  BY DEF Owed, LoanInv
<1>2. \A g \in Mem!Groups : Owed[g] \in Int
  BY <1>1
<1> QED
  BY <1>1, <1>2, GroupsAreFinite, SumIsNat

\* A group that is alive is granted memory: what its parent loses and the bank lends is owed.
LEMMA GrantIsOwed ==
  ASSUME LoanInv, TreeInv, NEW g \in Mem!Groups, ~Dead(g), NEW required \in Nat,
         Mem!Grant(g, required), UNCHANGED returned
  PROVE  LoanInv'
<1> DEFINE from == Mem!Inherited(g, required).from
           i == Mem!Inherited(g, required).amount
           b == Mem!Min({required - i, paranoid_mem_alloc})
<1>1. /\ from \in Mem!Groups /\ i \in Nat /\ i <= required /\ i <= mem_allocation[from]
      /\ from = g => i = 0
  <2>1. CASE orphan[g]
    BY <2>1 DEF Mem!Inherited, LoanInv
  <2>2. CASE ~orphan[g]
    <3>1. Mem!Up(g) \in Mem!Groups /\ Mem!Up(g) # g
      BY <2>2, UpIsGroup DEF TreeInv, AboveIsGone
    <3>2. from = Mem!Up(g) /\ i = Mem!Min({mem_allocation[Mem!Up(g)], required})
      BY <2>2 DEF Mem!Inherited
    <3>3. mem_allocation[Mem!Up(g)] \in Nat
      BY <3>1 DEF LoanInv
    <3>4. i = IF mem_allocation[Mem!Up(g)] <= required THEN mem_allocation[Mem!Up(g)] ELSE required
      BY <3>2, <3>3, LesserOfTwo
    <3> HIDE DEF from, i
    <3> QED
      BY <3>1, <3>2, <3>3, <3>4
  <2> QED
    BY <2>1, <2>2
<1>2. /\ mem_allocation' = [h \in Mem!Groups |->
             mem_allocation[h] + (IF h = g THEN i + b ELSE 0) - (IF h = from THEN i ELSE 0)]
      /\ paranoid_mem_alloc' = paranoid_mem_alloc - b
      /\ is_active' = [is_active EXCEPT ![g] = TRUE]
  BY DEF Mem!Grant
<1> HIDE DEF from, i
<1>3. b \in Nat /\ b <= paranoid_mem_alloc
  <2>1. required - i \in Nat /\ paranoid_mem_alloc \in Nat
    BY <1>1 DEF LoanInv
  <2>2. b = IF required - i <= paranoid_mem_alloc THEN required - i ELSE paranoid_mem_alloc
    BY <2>1, LesserOfTwo
  <2> HIDE DEF b
  <2> QED
    BY <2>1, <2>2
<1> HIDE DEF b
<1>4. /\ mem_allocation' \in [Mem!Groups -> Nat]
      /\ paranoid_mem_alloc' \in Nat
      /\ is_active' \in [Mem!Groups -> BOOLEAN]
  BY <1>1, <1>2, <1>3 DEF LoanInv
<1>5. \A h \in Mem!Groups \ returned : ~is_active'[h] => mem_allocation'[h] = 0
  <2> SUFFICES ASSUME NEW h \in Mem!Groups \ returned, ~is_active'[h] PROVE mem_allocation'[h] = 0
    OBVIOUS
  <2>1. h # g /\ mem_allocation[h] = 0
    BY <1>2 DEF LoanInv
  <2>2. h = from => i = 0
    BY <1>1, <2>1
  <2>3. mem_allocation'[h] = 0 + 0 - 0
    BY <1>1, <1>2, <2>1, <2>2
  <2> QED
    BY <2>3
<1>6. g \notin returned /\ returned' = returned
  BY DEF TreeInv, TreeTypes, Dead
<1> DEFINE mid == [h \in Mem!Groups |-> IF h = g THEN Owed[h] + (i + b) ELSE Owed[h]]
           low == [h \in Mem!Groups |-> IF h = from THEN mid[h] + (0 - i) ELSE mid[h]]
<1>7. \A h \in Mem!Groups : Owed[h] \in Int /\ mid[h] \in Int /\ low[h] \in Int /\ Owed'[h] \in Int
  BY <1>1, <1>3, <1>4, OwedIsNat DEF Owed
<1>8. \A h \in Mem!Groups : low[h] <= Owed'[h]
  <2> SUFFICES ASSUME NEW h \in Mem!Groups PROVE low[h] <= Owed'[h]
    OBVIOUS
  <2>1. mem_allocation[h] \in Nat
        /\ mem_allocation'[h] = mem_allocation[h] + (IF h = g THEN i + b ELSE 0)
                                                  - (IF h = from THEN i ELSE 0)
    BY <1>2 DEF LoanInv
  <2>2. Owed[h] = (IF h \in returned THEN 0 ELSE mem_allocation[h])
        /\ Owed'[h] = IF h \in returned THEN 0 ELSE mem_allocation'[h]
    BY <1>6 DEF Owed
  <2>3. low[h] = Owed[h] + (IF h = g THEN i + b ELSE 0) - (IF h = from THEN i ELSE 0)
    BY <1>1, <1>3, <1>7
  <2> HIDE DEF low, mid
  <2> QED
    BY <1>1, <1>3, <1>6, <2>1, <2>2, <2>3
<1>9. Mem!SumFunctionOnSet(mid, Mem!Groups) = Mem!SumFunctionOnSet(Owed, Mem!Groups) + (i + b)
  <2>1. i + b \in Int
    BY <1>1, <1>3
  <2>2. \A h \in Mem!Groups : Owed[h] \in Int /\ mid[h] = IF h = g THEN Owed[h] + (i + b) ELSE Owed[h]
    BY <1>7
  <2> HIDE DEF mid, low
  <2> QED
    BY <2>1, <2>2, GroupsAreFinite, SumWith
<1>10. Mem!SumFunctionOnSet(low, Mem!Groups) = Mem!SumFunctionOnSet(mid, Mem!Groups) + (0 - i)
  <2>1. 0 - i \in Int
    BY <1>1
  <2>2. \A h \in Mem!Groups : mid[h] \in Int /\ low[h] = IF h = from THEN mid[h] + (0 - i) ELSE mid[h]
    BY <1>7
  <2> HIDE DEF mid, low
  <2> QED
    BY <1>1, <2>1, <2>2, GroupsAreFinite, SumWith
<1> HIDE DEF mid, low
<1>11. Mem!SumFunctionOnSet(low, Mem!Groups) <= Mem!SumFunctionOnSet(Owed', Mem!Groups)
       /\ Mem!SumFunctionOnSet(Owed', Mem!Groups) \in Int
  BY <1>7, <1>8, GroupsAreFinite, SumGrows
<1>12. paranoid_mem_alloc' + Mem!SumFunctionOnSet(Owed', Mem!Groups) >= Memory.bank
  <2>1. Mem!SumFunctionOnSet(low, Mem!Groups) = Mem!SumFunctionOnSet(Owed, Mem!Groups) + b
    BY <1>1, <1>3, <1>9, <1>10, OwedIsNat
  <2>2. Memory.bank \in Nat /\ paranoid_mem_alloc \in Nat
    BY DevicesAssumption DEF Mem!ParanoidMemAssumption, LoanInv
  <2>3. paranoid_mem_alloc + Mem!SumFunctionOnSet(Owed, Mem!Groups) >= Memory.bank
    BY DEF LoanInv
  <2> QED
    BY <1>2, <1>3, <1>11, <2>1, <2>2, <2>3, OwedIsNat
<1>13. Mem!SumFunctionOnSet(Owed, Mem!Groups)' = Mem!SumFunctionOnSet(Owed', Mem!Groups)
  BY DEF Mem!SumFunctionOnSet, Mem!FoldFunctionOnSet, Mem!MapThenFoldSet
<1> QED
  BY <1>4, <1>5, <1>6, <1>12, <1>13 DEF LoanInv

\* What comes back to the bank is owed no longer.
LEMMA ReturnIsOwed ==
  ASSUME LoanInv, TreeInv, NEW g \in Mem!Groups, Mem!MemReturn(g)
  PROVE  LoanInv'
<1>1. /\ g \notin returned /\ returned' = returned \cup {g} /\ mem_allocation' = mem_allocation
      /\ Mem!Return(g)
  BY DEF Mem!MemReturn
<1> DEFINE back == IF is_active[g] THEN mem_allocation[g] ELSE 0
<1>2. /\ back = mem_allocation[g] /\ back \in Nat
      /\ paranoid_mem_alloc' = paranoid_mem_alloc + back
  BY <1>1 DEF LoanInv, Mem!Return
<1> HIDE DEF back
<1>3. is_active' \in [Mem!Groups -> BOOLEAN] /\ \A h \in Mem!Groups : h # g => is_active'[h] = is_active[h]
  BY <1>1 DEF LoanInv, Mem!Return
<1>4. paranoid_mem_alloc' \in Nat
  BY <1>2 DEF LoanInv
<1>5. \A h \in Mem!Groups : Owed[h] \in Int /\ Owed'[h] = IF h = g THEN Owed[h] + (0 - back) ELSE Owed[h]
  BY <1>1, <1>2, OwedIsNat DEF Owed
<1>6. Mem!SumFunctionOnSet(Owed', Mem!Groups) = Mem!SumFunctionOnSet(Owed, Mem!Groups) + (0 - back)
  <2>1. 0 - back \in Int
    BY <1>2
  <2> QED
    BY <1>5, <2>1, GroupsAreFinite, SumWith
<1>7. Mem!SumFunctionOnSet(Owed, Mem!Groups)' = Mem!SumFunctionOnSet(Owed', Mem!Groups)
  BY DEF Mem!SumFunctionOnSet, Mem!FoldFunctionOnSet, Mem!MapThenFoldSet
<1>8. paranoid_mem_alloc' + Mem!SumFunctionOnSet(Owed', Mem!Groups) >= Memory.bank
  <2>1. Memory.bank \in Nat /\ paranoid_mem_alloc \in Nat
    BY DevicesAssumption DEF Mem!ParanoidMemAssumption, LoanInv
  <2>2. paranoid_mem_alloc + Mem!SumFunctionOnSet(Owed, Mem!Groups) >= Memory.bank
    BY DEF LoanInv
  <2> QED
    BY <1>2, <1>6, <2>1, <2>2, OwedIsNat
<1> QED
  BY <1>1, <1>3, <1>4, <1>7, <1>8 DEF LoanInv

LEMMA SameLoan ==
  ASSUME LoanInv, UNCHANGED <<is_active, mem_allocation, paranoid_mem_alloc, returned>>
  PROVE  LoanInv'
<1>1. Owed' = Owed
  BY DEF Owed
<1>2. Mem!SumFunctionOnSet(Owed, Mem!Groups)' = Mem!SumFunctionOnSet(Owed', Mem!Groups)
  BY DEF Mem!SumFunctionOnSet, Mem!FoldFunctionOnSet, Mem!MapThenFoldSet
<1> QED
  BY <1>1, <1>2 DEF LoanInv

\* A group that has returned its memory owes nothing when its allocation is reset.
LEMMA FinaliseIsOwed ==
  ASSUME LoanInv, TreeInv, NEW g \in Mem!Groups, Mem!Finalise(g)
  PROVE  LoanInv'
<1>1. /\ g \in returned /\ returned' = returned \ {g}
      /\ mem_allocation' = [mem_allocation EXCEPT ![g] = 0]
      /\ UNCHANGED <<is_active, paranoid_mem_alloc>>
  BY DEF Mem!Finalise
<1>2. mem_allocation' \in [Mem!Groups -> Nat]
  BY <1>1 DEF LoanInv
<1>3. \A h \in Mem!Groups \ returned' : ~is_active'[h] => mem_allocation'[h] = 0
  BY <1>1 DEF LoanInv
<1>4. Owed' = Owed
  BY <1>1 DEF Owed, LoanInv
<1>5. Mem!SumFunctionOnSet(Owed, Mem!Groups)' = Mem!SumFunctionOnSet(Owed', Mem!Groups)
  BY DEF Mem!SumFunctionOnSet, Mem!FoldFunctionOnSet, Mem!MapThenFoldSet
<1> QED
  BY <1>1, <1>2, <1>3, <1>4, <1>5 DEF LoanInv

LEMMA LoanSteps ==
  ASSUME LoanInv, TreeInv, Mem!Next
  PROVE  LoanInv'
<1>1. ASSUME NEW t \in MemoryThreads, NEW f \in MemoryFiles, Mem!TakeFile(t, f) PROVE LoanInv'
  BY <1>1, SameLoan DEF Mem!TakeFile, Mem!memVars, Mem!finalVars
<1>2. ASSUME NEW t \in MemoryThreads, Mem!DeviceDecide(t) PROVE LoanInv'
  <2> DEFINE f == asker[t].file
             g == Mem!GroupOf(f)
  <2>1. t \in Mem!Askers /\ asker[t].pc = "grant"
    BY <1>2 DEF Mem!DeviceDecide, Mem!Askers
  <2>2. Asks(t) /\ f \in MemoryFiles /\ ForDevice(f) /\ asker[t].required \in Nat
    BY <2>1 DEF TreeInv, TreeTypes, Asks, Mem!Idle, Doing, ForDevice
  <2>3. ~Dead(g) /\ g \in Mem!Groups
    BY <2>2, Alive, Place
  <2>4. \/ Mem!Grant(g, asker[t].required) /\ UNCHANGED returned
        \/ UNCHANGED <<is_active, mem_allocation, paranoid_mem_alloc, returned>>
    BY <1>2 DEF Mem!DeviceDecide, Mem!memVars, Mem!finalVars
  <2> HIDE DEF f, g
  <2> QED
    BY <2>2, <2>3, <2>4, GrantIsOwed, SameLoan
<1>3. ASSUME NEW p \in Memory.pipes, NEW f \in MemoryFiles, Mem!Sift(p, f) \/ Mem!SiftAsks(p, f)
      PROVE  LoanInv'
  BY <1>3, SameLoan DEF Mem!Sift, Mem!SiftAsks, Mem!memVars, Mem!finalVars
<1>4. ASSUME NEW p \in Memory.pipes, Mem!PipeTest(p) \/ Mem!PipePush(p) PROVE LoanInv'
  BY <1>4, SameLoan DEF Mem!PipeTest, Mem!PipePush, Mem!memVars, Mem!finalVars
<1>5. ASSUME NEW p \in Memory.pipes, Mem!PipeDecide(p) PROVE LoanInv'
  <2> DEFINE f == asker[p].file
             g == Mem!GroupOf(f)
  <2>1. p \in Mem!Askers /\ asker[p].pc = "grant"
    BY <1>5 DEF Mem!PipeDecide, Mem!Askers
  <2>2. Asks(p) /\ f \in MemoryFiles /\ asker[p].required \in Nat
    BY <2>1 DEF TreeInv, TreeTypes, Asks, Mem!Idle, Doing
  <2>3. g \in Mem!Groups /\ Mem!Locked(g)
    BY <2>2, Place DEF Mem!Locked, Asks
  <2>4. ~Dead(g)
    BY <2>3 DEF TreeInv, DeadAreEmpty
  <2>5. \/ Mem!Grant(g, asker[p].required) /\ UNCHANGED returned
        \/ UNCHANGED <<is_active, mem_allocation, paranoid_mem_alloc, returned>>
    BY <1>5 DEF Mem!PipeDecide, Mem!memVars, Mem!finalVars
  <2> HIDE DEF f, g
  <2> QED
    BY <2>2, <2>3, <2>4, <2>5, GrantIsOwed, SameLoan
<1>6. ASSUME NEW g \in Mem!Groups, Mem!Final(g) PROVE LoanInv'
  <2>1. CASE Mem!MakeOrphan(g)
    BY <2>1, SameLoan DEF Mem!MakeOrphan, Mem!memVars
  <2> QED
    BY <1>6, <2>1, ReturnIsOwed, FinaliseIsOwed DEF Mem!Final
<1>7. CASE Mem!Done
  BY <1>7, SameLoan DEF Mem!Done, Mem!vars, Mem!memVars, Mem!finalVars
<1> QED
  BY <1>1, <1>2, <1>3, <1>4, <1>5, <1>6, <1>7 DEF Mem!Next, Mem!Device, Mem!Pipe

LEMMA LoanBegins == MCInit => LoanInv
<1> SUFFICES ASSUME MCInit PROVE LoanInv
  OBVIOUS
<1>1. /\ is_active = [g \in Mem!Groups |-> FALSE]
      /\ mem_allocation = [g \in Mem!Groups |-> 0]
      /\ paranoid_mem_alloc = Memory.bank
      /\ Memory.bank \in Nat
  BY DevicesAssumption DEF MCInit, Mem!Init, Mem!ParanoidMemAssumption
<1>2. Mem!SumFunctionOnSet(Owed, Mem!Groups) = 0
  <2>1. \A g \in Mem!Groups : Owed[g] = 0
    BY <1>1 DEF Owed
  <2> QED
    BY <2>1, GroupsAreFinite, SumOfNothing
<1> QED
  BY <1>1, <1>2 DEF LoanInv

\* The loans are in order, and the tree of groups with them.
THEOREM BankInvariance == MCSpec => [](TreeInv /\ LoanInv)
<1>1. TreeInv /\ LoanInv /\ [MCNext]_MCvars => (TreeInv /\ LoanInv)'
  <2> SUFFICES ASSUME TreeInv, LoanInv, [MCNext]_MCvars PROVE TreeInv' /\ LoanInv'
    OBVIOUS
  <2>1. CASE MemoryBank /\ Mem!Next
    BY <2>1, TreeSteps, LoanSteps
  <2>2. CASE UNCHANGED memoryVars
    BY <2>2, SameTree, SameLoan DEF memoryVars
  <2> QED
    BY <2>1, <2>2 DEF MCNext, Scheduler, MCvars
<1> QED
  BY <1>1, TreeBegins, LoanBegins, PTL DEF MCSpec

\* Every state of the memory bank is typed: neither the bank nor what a group was
\* granted drops below zero, and no file is read beyond its end.
THEOREM BankTypeCorrect == MCSpec => []Mem!TypeOK
<1>1. BankInv /\ TreeInv /\ LoanInv => Mem!TypeOK
  <2> SUFFICES ASSUME BankInv, TreeInv, LoanInv PROVE Mem!TypeOK
    OBVIOUS
  <2>1. active_groups \in Nat
    BY FS_CardinalityType DEF BankInv
  <2>2. \A f \in MemoryFiles : depth[f] \in 0..Mem!Steps(f)
    BY Place
  <2> QED
    BY <2>1, <2>2 DEF Mem!TypeOK, TreeInv, TreeTypes, LoanInv
<1> QED
  BY <1>1, BankIsCounted, BankInvariance, PTL

\* MemoryIsNotLost: memory that a group borrowed, inherited or passed on to a child
\* comes back to the bank when rm_shred_mem_return runs, whichever threads asked.
THEOREM LoansAreReturned == MCSpec => []MemoryIsNotLost
<1>1. TreeInv /\ LoanInv => MemoryIsNotLost
  <2> SUFFICES ASSUME TreeInv, LoanInv PROVE MemoryIsNotLost
    OBVIOUS
  <2>1. \A g \in Mem!Groups : Owed[g] \in Int /\ mem_allocation[g] \in Int /\ Owed[g] <= mem_allocation[g]
    BY DEF LoanInv, Owed
  <2>2. /\ Mem!SumFunctionOnSet(mem_allocation, Mem!Groups) \in Int
        /\ Mem!SumFunctionOnSet(Owed, Mem!Groups) <= Mem!SumFunctionOnSet(mem_allocation, Mem!Groups)
    BY <2>1, GroupsAreFinite, SumGrows
  <2>3. Memory.bank \in Nat /\ paranoid_mem_alloc \in Nat
    BY DevicesAssumption DEF Mem!ParanoidMemAssumption, LoanInv
  <2>4. paranoid_mem_alloc + Mem!SumFunctionOnSet(Owed, Mem!Groups) >= Memory.bank
    BY DEF LoanInv
  <2>5. paranoid_mem_alloc + Mem!SumFunctionOnSet(mem_allocation, Mem!Groups) >= Memory.bank
    BY <2>2, <2>3, <2>4, OwedIsNat
  <2> QED
    BY <2>5 DEF MemoryIsNotLost, Mem!MemoryIsNotLost, Mem!Allocated
<1> QED
  BY <1>1, BankInvariance, PTL
=============================================================================
