---------------------------- MODULE HasherProofs ----------------------------
(***************************************************************************)
(* Proofs about Hasher, for any device threads, increments, batches and    *)
(* buffers: whatever reads return, a digest is of what was read, in order, *)
(* no buffer is lost but the one that fread leaves empty, and the hasher   *)
(* is freed when nothing of it is in use.                                  *)
(***************************************************************************)
EXTENDS Hasher, FiniteSetTheorems, FunctionTheorems, SequenceTheorems, TLAPS

-----------------------------------------------------------------------------
(* The inductive invariant. *)

\* A reader that is looking for a pipe, and one that has one.
Looking(r)   == reader[r].pc \in {"pool", "limit", "create", "await"}
HasPipe(r)   == reader[r].pc \in {"read", "finish"}
Working(r)   == Looking(r) \/ HasPipe(r)
OwnedBy(p, r) == HasPipe(r) /\ reader[r].pipe = p

Pooled(p)    == \E i \in 1..Len(hashpipe_pool) : hashpipe_pool[i] = p
Holds(p, t)  == \E i \in 1..Len(hashpipe[p]) : hashpipe[p][i].task = t
Finishing(p) == \E i \in 1..Len(hashpipe[p]) : hashpipe[p][i].kind = "finish"
Carries(p, t) == Holds(p, t) \/ \E r \in Readers : OwnedBy(p, r) /\ reader[r].task = t

\* No two readers work on the same task or fill the same pipe, and while they do
\* the task is not called back.
ReadersApart ==
  /\ \A r, s \in Readers :
       Working(r) /\ Working(s) /\ reader[r].task = reader[s].task => r = s
  /\ \A r, s \in Readers : HasPipe(r) /\ HasPipe(s) /\ reader[r].pipe = reader[s].pipe => r = s
  /\ \A r \in Readers : Working(r) => state[reader[r].task] = "active"

\* A task begins with nothing, and has one pipe.
TasksFollowPipes ==
  /\ \A t \in Tasks : state[t] = "todo" => sent[t] = 0 /\ digest[t] = <<>>
  /\ \A r \in Readers : Looking(r) =>
       /\ sent[reader[r].task] = 0 /\ digest[reader[r].task] = <<>>
       /\ reader[r].bufs = 0
  /\ \A r \in Readers, p \in Pipes, t \in Tasks : Looking(r) /\ reader[r].task = t => ~Holds(p, t)
  /\ \A r \in Readers : reader[r].pc = "finish" => reader[r].bufs = 0
  /\ \A p, q \in Pipes, t \in Tasks : Carries(p, t) /\ Carries(q, t) => p = q
  /\ \A p \in Pipes, t \in Tasks : Holds(p, t) => state[t] = "active"

\* A pipe is in the pool, with a reader, with its finisher or called.
PipesApart ==
  /\ \A i, j \in 1..Len(hashpipe_pool) : hashpipe_pool[i] = hashpipe_pool[j] => i = j
  /\ \A p \in Pipes : Pooled(p) => p <= created /\ hashpipe[p] = <<>> /\ worker[p] # "called"
  /\ \A r \in Readers : HasPipe(r) => reader[r].pipe \in Pipes
  /\ \A p \in Pipes, r \in Readers :
       OwnedBy(p, r) => p <= created /\ ~Pooled(p) /\ ~Finishing(p) /\ worker[p] # "called"
  /\ \A p \in Pipes : worker[p] = "called" => hashpipe[p] = <<>>
  /\ \A p \in Pipes : p > created => hashpipe[p] = <<>> /\ worker[p] = "idle"
  /\ \A p \in 1..created :
       \/ Pooled(p) \/ Finishing(p) \/ worker[p] = "called"
       \/ \E r \in Readers : OwnedBy(p, r)

\* The blocks that were sent and are not hashed wait at the head of the pipe.
Waiting(t) == sent[t] - Len(digest[t])

InOrder(q, t) ==
  /\ Waiting(t) \in 0..Len(q)
  /\ \A i \in 1..Len(q) :
       /\ q[i].task = t
       /\ i <= Waiting(t) => q[i] = Data(t, Len(digest[t]) + i)
       /\ i > Waiting(t) => q[i].kind # "data"
       /\ q[i].kind = "finish" => i = Len(q)

PipesInOrder ==
  /\ \A p \in Pipes, t \in Tasks : Carries(p, t) => InOrder(hashpipe[p], t)
  /\ \A p \in Pipes, r \in Readers : OwnedBy(p, r) /\ reader[r].pc = "read" =>
       \A i \in 1..Len(hashpipe[p]) : hashpipe[p][i].kind = "data"

DigestsInOrder ==
  \A t \in Tasks :
    /\ \A i \in 1..Len(digest[t]) : digest[t][i] = i
    /\ state[t] = "called" => Len(digest[t]) = sent[t]
    /\ complete[t] => sent[t] = Blocks[t]

\* The limit on pipes is read and lowered in two steps, so that every reader may pass it once more.
Creating == {r \in Readers : reader[r].pc = "create"}
PipesCounted ==
  /\ unalloc_hashpipes = NumThreads - created
  /\ created + Cardinality(Creating) <= NumThreads + Cardinality(Readers)

\* A task is counted until the thread of its pipe is through with it.
Active  == {t \in Tasks : state[t] = "active"}
Called  == {t \in Tasks : state[t] = "called"}
Ending  == {p \in Pipes : worker[p] # "idle"}
TasksCounted ==
  /\ active_tasks = Cardinality(Active) + Cardinality(Ending)
  /\ Cardinality(Ending) <= Cardinality(Called)

\* With preadv there are no empty buffers; with fread they are lost.
BuffersCounted ==
  /\ IsFiniteSet(Queued)
  /\ buf_sem + BuffersInUse <= MaxBuffers
  /\ ~use_buffered_read =>
       /\ buf_sem + BuffersInUse = MaxBuffers
       /\ \A p \in Pipes : \A i \in 1..Len(hashpipe[p]) : hashpipe[p][i].kind # "empty"

FreeIsQuiet == main = "freed" => (\A t \in Tasks : state[t] = "called") /\ active_tasks = 0

Order == ReadersApart /\ TasksFollowPipes /\ PipesApart /\ PipesInOrder /\ DigestsInOrder
IInv  == TypeOK /\ Order /\ PipesCounted /\ TasksCounted /\ BuffersCounted /\ FreeIsQuiet

-----------------------------------------------------------------------------
(* Sets of buffers, and other sets that are counted. *)

\* The pairs of x with the n numbers after a.
Cells(x, a, n) == {x} \X (a + 1..a + n)

LEMMA CellsCounted ==
  ASSUME NEW x, NEW a \in Nat, NEW n \in Nat
  PROVE  IsFiniteSet(Cells(x, a, n)) /\ Cardinality(Cells(x, a, n)) = n
<1> DEFINE I == a + 1..a + n
<1>1. IsFiniteSet({x}) /\ Cardinality({x}) = 1
  BY FS_Singleton
<1>2. IsFiniteSet(I) /\ Cardinality(I) = n
  BY FS_Interval
<1> HIDE DEF I
<1>3. /\ IsFiniteSet({x} \X I)
      /\ Cardinality({x} \X I) = Cardinality({x}) * Cardinality(I)
  BY <1>1, <1>2, FS_Product
<1>4. Cardinality({x}) * Cardinality(I) = n
  BY <1>1, <1>2
<1> QED
  BY <1>2, <1>3, <1>4 DEF I, Cells

\* A part of a finite set is replaced by something new.
LEMMA Replaced ==
  ASSUME NEW A, IsFiniteSet(A), NEW B, B \subseteq A, NEW C, IsFiniteSet(C), (A \ B) \cap C = {}
  PROVE  /\ IsFiniteSet((A \ B) \cup C)
         /\ Cardinality((A \ B) \cup C) = Cardinality(A) - Cardinality(B) + Cardinality(C)
         /\ Cardinality(A) \in Nat /\ Cardinality(B) \in Nat /\ Cardinality(C) \in Nat
<1>1. IsFiniteSet(B) /\ A \cap B = B
  BY FS_Subset
<1>2. Cardinality(A) \in Nat /\ Cardinality(B) \in Nat /\ Cardinality(C) \in Nat
  BY <1>1, FS_CardinalityType
<1>3. IsFiniteSet(A \ B) /\ Cardinality(A \ B) = Cardinality(A) - Cardinality(B)
  BY <1>1, FS_Difference, ZenonT(30)
<1>4. /\ IsFiniteSet((A \ B) \cup C)
      /\ Cardinality((A \ B) \cup C) = Cardinality(A \ B) + Cardinality(C) - Cardinality((A \ B) \cap C)
  BY <1>3, FS_Union
<1>5. Cardinality((A \ B) \cap C) = 0
  BY FS_EmptySet
<1> QED
  BY <1>2, <1>3, <1>4, <1>5

LEMMA Sizes ==
  ASSUME HasherAssumption
  PROVE  /\ Cardinality(Readers) \in Nat /\ Cardinality(Tasks) \in Nat
         /\ NumThreads \in Nat /\ Preadv \in Nat /\ MaxBuffers \in Nat
         /\ Pipes \subseteq Nat \ {0} /\ 0 \notin Pipes
         /\ IsFiniteSet(Pipes)
         /\ \A n \in Nat \ {0} : n <= NumThreads + Cardinality(Readers) => n \in Pipes
         /\ \A n \in Pipes : n \in Nat /\ n > 0 /\ n <= NumThreads + Cardinality(Readers)
         /\ Cardinality(Readers) * Preadv \in Nat
<1>1. Cardinality(Readers) \in Nat /\ Cardinality(Tasks) \in Nat
  BY FS_CardinalityType DEF HasherAssumption
<1>2. IsFiniteSet(Pipes)
  BY <1>1, FS_Interval DEF HasherAssumption, Pipes
<1>3. Cardinality(Readers) * Preadv \in Nat
  BY <1>1 DEF HasherAssumption
<1> QED
  BY <1>1, <1>2, <1>3 DEF HasherAssumption, Pipes

LEMMA CountsAreFinite ==
  ASSUME HasherAssumption, TypeOK
  PROVE  /\ IsFiniteSet(Acquired) /\ Cardinality(Acquired) \in Nat
         /\ IsFiniteSet(AtThread) /\ Cardinality(AtThread) \in Nat
         /\ IsFiniteSet(Ending) /\ Cardinality(Ending) \in Nat
         /\ IsFiniteSet(Active) /\ Cardinality(Active) \in Nat
         /\ IsFiniteSet(Called) /\ Cardinality(Called) \in Nat
         /\ IsFiniteSet(Creating) /\ Cardinality(Creating) \in Nat
<1>1. IsFiniteSet(Readers \X (1..Preadv))
  <2>1. IsFiniteSet(Readers) /\ IsFiniteSet(1..Preadv)
    BY FS_Interval DEF HasherAssumption
  <2> QED
    BY <2>1, FS_Product
<1>2. IsFiniteSet(Acquired)
  <2>1. Acquired \in SUBSET (Readers \X (1..Preadv))
    BY DEF Acquired
  <2> QED
    BY <1>1, <2>1, FS_Subset
<1>3. IsFiniteSet(AtThread) /\ IsFiniteSet(Ending)
  BY Sizes, FS_Subset DEF AtThread, Ending
<1>4. IsFiniteSet(Active) /\ IsFiniteSet(Called)
  BY FS_Subset DEF HasherAssumption, Active, Called
<1>5. IsFiniteSet(Creating)
  BY FS_Subset DEF HasherAssumption, Creating
<1> QED
  BY <1>2, <1>3, <1>4, <1>5, FS_CardinalityType

\* What a reader has in hand.
InHand(x) == IF x.pc = "read" THEN x.bufs ELSE 0

\* A step of one reader changes what is acquired by what it has in hand.
LEMMA AcquiredMoves ==
  ASSUME HasherAssumption, TypeOK, NEW r \in Readers, NEW x \in {Idle} \cup Busy,
         reader' = [reader EXCEPT ![r] = x]
  PROVE  /\ InHand(x) \in Nat /\ InHand(reader[r]) \in Nat
         /\ Cardinality(Acquired') = Cardinality(Acquired) - InHand(reader[r]) + InHand(x)
<1> DEFINE h == InHand(reader[r])
           k == InHand(x)
<1>1. h \in 0..Preadv /\ k \in 0..Preadv /\ Preadv \in Nat
  BY Sizes DEF TypeOK, Busy, Idle, InHand
<1>2. Acquired' = (Acquired \ Cells(r, 0, h)) \cup Cells(r, 0, k)
  <2>1. \A y : y \in Acquired' <=> y \in Readers \X (1..Preadv) /\ reader'[y[1]].pc = "read" /\ y[2] <= reader'[y[1]].bufs
    BY DEF Acquired
  <2>2. \A s \in Readers : reader'[s] = IF s = r THEN x ELSE reader[s]
    BY DEF TypeOK
  <2>3. ASSUME NEW y \in Readers \X (1..Preadv)
        PROVE  y \in Acquired' <=> y \in (Acquired \ Cells(r, 0, h)) \cup Cells(r, 0, k)
    <3>1. CASE y[1] = r
      <4>1. y \in Cells(r, 0, k) <=> y[2] <= k
        BY <1>1, <3>1 DEF Cells
      <4>2. y \in Cells(r, 0, h) <=> y[2] <= h
        BY <1>1, <3>1 DEF Cells
      <4>3. y \in Acquired <=> y[2] <= h
        BY <1>1, <3>1 DEF Acquired, InHand
      <4>4. y \in Acquired' <=> y[2] <= k
        BY <1>1, <2>1, <2>2, <3>1 DEF InHand
      <4> QED
        BY <4>1, <4>2, <4>3, <4>4
    <3>2. CASE y[1] # r
      <4>1. y \notin Cells(r, 0, k) /\ y \notin Cells(r, 0, h)
        BY <3>2 DEF Cells
      <4>2. y \in Acquired <=> y \in Acquired'
        BY <2>1, <2>2, <3>2 DEF Acquired
      <4> QED
        BY <4>1, <4>2
    <3> QED
      BY <3>1, <3>2
  <2>4. \A y : y \in Acquired' \/ y \in (Acquired \ Cells(r, 0, h)) \cup Cells(r, 0, k)
               => y \in Readers \X (1..Preadv)
    BY <1>1 DEF Acquired, Cells
  <2> QED
    BY <2>3, <2>4
<1>3. Cells(r, 0, h) \subseteq Acquired
  BY <1>1 DEF Acquired, InHand, Cells
<1>4. (Acquired \ Cells(r, 0, h)) \cap Cells(r, 0, k) = {}
  BY <1>1 DEF Acquired, InHand, Cells
<1>5. /\ IsFiniteSet(Cells(r, 0, k)) /\ Cardinality(Cells(r, 0, k)) = k
      /\ Cardinality(Cells(r, 0, h)) = h
  <2>1. h \in Nat /\ k \in Nat
    BY <1>1
  <2> HIDE DEF h, k
  <2> QED
    BY <2>1, CellsCounted
<1>6. IsFiniteSet(Acquired)
  BY CountsAreFinite
<1> HIDE DEF h, k
<1> DEFINE B == Cells(r, 0, h)
           C == Cells(r, 0, k)
<1>7. B \subseteq Acquired /\ (Acquired \ B) \cap C = {} /\ IsFiniteSet(C)
  BY <1>3, <1>4, <1>5
<1>8. Cardinality(B) = h /\ Cardinality(C) = k /\ Acquired' = (Acquired \ B) \cup C
  BY <1>2, <1>5
<1> HIDE DEF B, C
<1>9. Cardinality((Acquired \ B) \cup C) = Cardinality(Acquired) - Cardinality(B) + Cardinality(C)
  BY <1>6, <1>7, Replaced
<1>10. Cardinality(Acquired') = Cardinality(Acquired) - h + k
  BY <1>8, <1>9
<1> QED
  BY <1>1, <1>10 DEF h, k

LEMMA QueuedGrows ==
  ASSUME HasherAssumption, TypeOK, IsFiniteSet(Queued), NEW p \in Pipes, NEW n \in Nat, NEW q,
         Len(q) = Len(hashpipe[p]) + n, hashpipe' = [hashpipe EXCEPT ![p] = q]
  PROVE  IsFiniteSet(Queued') /\ Cardinality(Queued') = Cardinality(Queued) + n
<1> DEFINE L == Len(hashpipe[p])
           new == Cells(p, L, n)
<1>1. L \in Nat /\ Len(hashpipe'[p]) = L + n /\ \A o \in Pipes \ {p} : hashpipe'[o] = hashpipe[o]
  BY LenProperties DEF TypeOK
<1>2. Queued' = Queued \cup new
  <2>1. \A y : y \in Queued' <=> \E o \in Pipes : y \in {o} \X (1..Len(hashpipe'[o]))
    BY DEF Queued
  <2>2. \A y : y \in Queued <=> \E o \in Pipes : y \in {o} \X (1..Len(hashpipe[o]))
    BY DEF Queued
  <2>3. \A y : y \in {p} \X (1..L + n) <=> y \in {p} \X (1..L) \/ y \in new
    BY <1>1 DEF Cells
  <2> QED
    BY <1>1, <2>1, <2>2, <2>3
<1>3. Queued \cap new = {}
  BY <1>1 DEF Queued, Cells
<1>4. IsFiniteSet(new) /\ Cardinality(new) = n
  <2> HIDE DEF L
  <2> QED
    BY <1>1, CellsCounted
<1>5. Cardinality({}) = 0 /\ Cardinality(Queued) \in Nat
  BY FS_EmptySet, FS_CardinalityType
<1> HIDE DEF new
<1>6. /\ IsFiniteSet(Queued \cup new)
      /\ Cardinality(Queued \cup new) = Cardinality(Queued) + Cardinality(new) - Cardinality(Queued \cap new)
  BY <1>4, FS_Union
<1>7. Cardinality(Queued \cap new) = 0
  BY <1>3, <1>5, Zenon
<1>8. Cardinality(Queued \cup new) = Cardinality(Queued) + n
  BY <1>4, <1>5, <1>6, <1>7
<1> QED
  BY <1>2, <1>6, <1>8

LEMMA QueuedShrinks ==
  ASSUME HasherAssumption, TypeOK, IsFiniteSet(Queued), NEW p \in Pipes, NEW q,
         Len(hashpipe[p]) > 0, Len(q) = Len(hashpipe[p]) - 1, hashpipe' = [hashpipe EXCEPT ![p] = q]
  PROVE  IsFiniteSet(Queued') /\ Cardinality(Queued') = Cardinality(Queued) - 1
<1> DEFINE L == Len(hashpipe[p])
<1>1. L \in Nat /\ Len(hashpipe'[p]) = L - 1 /\ \A o \in Pipes \ {p} : hashpipe'[o] = hashpipe[o]
  BY LenProperties DEF TypeOK
<1>2. Queued' = Queued \ {<<p, L>>}
  <2>1. \A y : y \in Queued' <=> \E o \in Pipes : y \in {o} \X (1..Len(hashpipe'[o]))
    BY DEF Queued
  <2>2. \A y : y \in Queued <=> \E o \in Pipes : y \in {o} \X (1..Len(hashpipe[o]))
    BY DEF Queued
  <2>3. \A y : y \in {p} \X (1..L - 1) <=> y \in {p} \X (1..L) /\ y # <<p, L>>
    BY <1>1
  <2>4. \A o \in Pipes \ {p} : \A y \in {o} \X (1..Len(hashpipe[o])) : y # <<p, L>>
    OBVIOUS
  <2> QED
    BY <1>1, <2>1, <2>2, <2>3, <2>4
<1>3. <<p, L>> \in Queued
  BY <1>1 DEF Queued
<1> QED
  BY <1>2, <1>3, FS_RemoveElement

-----------------------------------------------------------------------------
(* Steps that keep the order of things as it is. *)

LEMMA ReaderFacts ==
  ASSUME TypeOK, NEW r \in Readers
  PROVE  /\ Working(r) <=> reader[r].pc # "idle"
         /\ Working(r) => reader[r] \in Busy /\ reader[r].task \in Tasks
         /\ ~Working(r) => reader[r] = Idle
BY DEF TypeOK, Working, Looking, HasPipe, Busy, Idle

LEMMA CreatedPipes ==
  ASSUME HasherAssumption, TypeOK
  PROVE  created \in Nat /\ \A p \in 1..created : p \in Pipes
<1>1. NumThreads + Cardinality(Readers) \in Nat
  BY Sizes
<1> QED
  BY <1>1 DEF TypeOK, Pipes

\* What is said of a reader that has a pipe.
LEMMA PipeOfReader ==
  ASSUME HasherAssumption, TypeOK, Order, NEW r \in Readers, HasPipe(r)
  PROVE  /\ reader[r] \in Busy /\ reader[r].task \in Tasks /\ reader[r].pipe \in Pipes
         /\ reader[r].pipe \in 1..created /\ Working(r) /\ ~Looking(r)
         /\ OwnedBy(reader[r].pipe, r) /\ Carries(reader[r].pipe, reader[r].task)
         /\ hashpipe[reader[r].pipe] \in Seq(Buffers)
         /\ InOrder(hashpipe[reader[r].pipe], reader[r].task)
<1>1. reader[r] \in Busy /\ reader[r].task \in Tasks /\ Working(r) /\ ~Looking(r)
  BY ReaderFacts DEF HasPipe, Working, Looking
<1>2. reader[r].pipe \in Pipes
  BY DEF Order, PipesApart
<1>3. OwnedBy(reader[r].pipe, r) /\ Carries(reader[r].pipe, reader[r].task)
  BY DEF OwnedBy, Carries
<1>4. reader[r].pipe \in 1..created
  BY <1>2, <1>3, CreatedPipes, Sizes DEF Order, PipesApart
<1> QED
  BY <1>1, <1>2, <1>3, <1>4 DEF Order, PipesInOrder, TypeOK

\* A reader goes on with the task and the pipe that it has.
LEMMA ReaderGoesOn ==
  ASSUME HasherAssumption, TypeOK, Order, NEW r \in Readers, NEW x \in Busy,
         reader' = [reader EXCEPT ![r] = x],
         x.task = reader[r].task, x.pipe = reader[r].pipe,
         \/ Looking(r) /\ x.pc \in {"limit", "create", "await"} /\ x.bufs = 0
         \/ reader[r].pc = "read" /\ x.pc = "read"
         \/ HasPipe(r) /\ x.pc = "finish" /\ x.bufs = 0,
         UNCHANGED <<hashpipe_pool, created, hashpipe, worker, sent, digest, complete, state>>
  PROVE  Order'
<1>1. reader'[r] = x /\ \A s \in Readers : s # r => reader'[s] = reader[s]
  BY DEF TypeOK
<1>2. \A s \in Readers : /\ Looking(s)' <=> Looking(s)
                         /\ HasPipe(s)' <=> HasPipe(s)
                         /\ reader'[s].task = reader[s].task /\ reader'[s].pipe = reader[s].pipe
                         /\ reader'[s].pc = "read" => reader[s].pc = "read"
  BY <1>1 DEF Looking, HasPipe
<1>3. \A s \in Readers : Working(s)' <=> Working(s)
  BY <1>2 DEF Working
<1>4. \A s \in Readers : \A p : OwnedBy(p, s)' <=> OwnedBy(p, s)
  BY <1>2 DEF OwnedBy
<1>5. \A p : (Pooled(p)' <=> Pooled(p)) /\ (Finishing(p)' <=> Finishing(p))
  BY DEF Pooled, Finishing
<1>6. \A p, t : (Holds(p, t)' <=> Holds(p, t))
  BY DEF Holds
<1>7. \A p, t : Carries(p, t)' <=> Carries(p, t)
  BY <1>2, <1>4, <1>6 DEF Carries
<1>8. ReadersApart'
  BY <1>2, <1>3 DEF Order, ReadersApart
<1>9. TasksFollowPipes'
  <2>1. \A s \in Readers : (Looking(s)' \/ reader'[s].pc = "finish") => reader'[s].bufs = 0
    BY <1>1, <1>2 DEF Order, TasksFollowPipes, HasPipe, Looking
  <2> QED
    BY <1>2, <1>6, <1>7, <2>1 DEF Order, TasksFollowPipes
<1>10. PipesApart'
  BY <1>2, <1>4, <1>5 DEF Order, PipesApart
<1>11. PipesInOrder'
  BY <1>2, <1>4, <1>7 DEF Order, PipesInOrder, InOrder, Waiting
<1>12. DigestsInOrder'
  BY DEF Order, DigestsInOrder
<1> QED
  BY <1>8, <1>9, <1>10, <1>11, <1>12 DEF Order

\* The thread of a pipe ends what follows the callback.
LEMMA ThreadGoesOn ==
  ASSUME HasherAssumption, TypeOK, Order, NEW p \in Pipes, NEW x \in {"idle", "freed"},
         worker[p] \notin {"idle", "called"}, worker' = [worker EXCEPT ![p] = x],
         UNCHANGED <<reader, hashpipe_pool, created, hashpipe, sent, digest, complete, state>>
  PROVE  Order'
<1>1. \A q \in Pipes : /\ worker'[q] = "called" <=> worker[q] = "called"
                       /\ worker[q] = "idle" => worker'[q] = "idle"
  BY DEF TypeOK
<1>2. \A s \in Readers : /\ Looking(s)' <=> Looking(s)
                         /\ HasPipe(s)' <=> HasPipe(s)
                         /\ Working(s)' <=> Working(s)
                         /\ \A q : OwnedBy(q, s)' <=> OwnedBy(q, s)
  BY DEF Looking, HasPipe, Working, OwnedBy
<1>3. \A q : (Pooled(q)' <=> Pooled(q)) /\ (Finishing(q)' <=> Finishing(q))
  BY DEF Pooled, Finishing
<1>4. \A q, t : (Holds(q, t)' <=> Holds(q, t)) /\ (Carries(q, t)' <=> Carries(q, t))
  BY <1>2 DEF Holds, Carries
<1>5. ReadersApart' /\ TasksFollowPipes'
  BY <1>2, <1>4 DEF Order, ReadersApart, TasksFollowPipes
<1>6. PipesApart'
  <2>1. \A s \in Readers : HasPipe(s) => reader[s].pipe \in Pipes
    BY PipeOfReader
  <2>2. \A q \in 1..created : q \in Pipes
    BY CreatedPipes
  <2> QED
    BY <1>1, <1>2, <1>3, <2>1, <2>2 DEF Order, PipesApart
<1>7. PipesInOrder'
  BY <1>2, <1>4 DEF Order, PipesInOrder, InOrder, Waiting
<1>8. DigestsInOrder'
  BY DEF Order, DigestsInOrder
<1> QED
  BY <1>5, <1>6, <1>7, <1>8 DEF Order

-----------------------------------------------------------------------------
(* Steps that hand a pipe on. *)

LEMMA NewTaskOrder ==
  ASSUME HasherAssumption, TypeOK, Order, NEW r \in Readers, NEW t \in Tasks, NewTask(r, t)
  PROVE  Order'
<1> DEFINE x == Reading("pool", t, 0, 0)
<1>1. /\ reader' = [reader EXCEPT ![r] = x] /\ reader[r].pc = "idle" /\ state[t] = "todo"
      /\ state' = [state EXCEPT ![t] = "active"]
      /\ UNCHANGED <<hashpipe_pool, created, hashpipe, worker, sent, digest, complete>>
  BY DEF NewTask, poolVars
<1>2. reader'[r].pc = "pool" /\ reader'[r].task = t /\ reader'[r].bufs = 0
  BY <1>1 DEF TypeOK, Reading
<1>3. \A s \in Readers : s # r => reader'[s] = reader[s]
  BY <1>1 DEF TypeOK
<1>4. /\ Looking(r)' /\ ~HasPipe(r)' /\ Working(r)' /\ ~Working(r) /\ ~HasPipe(r)
      /\ \A s \in Readers : s # r => /\ Looking(s)' <=> Looking(s)
                                     /\ HasPipe(s)' <=> HasPipe(s)
                                     /\ Working(s)' <=> Working(s)
  BY <1>1, <1>2, <1>3 DEF Looking, HasPipe, Working
<1>5. \A s \in Readers : \A p : OwnedBy(p, s)' <=> OwnedBy(p, s)
  BY <1>3, <1>4 DEF OwnedBy
<1>6. \A p, u : Holds(p, u)' <=> Holds(p, u)
  BY <1>1 DEF Holds
<1>7. \A p, u : Carries(p, u)' <=> Carries(p, u)
  BY <1>3, <1>4, <1>5, <1>6 DEF Carries, OwnedBy
<1>8. \A p : (Pooled(p)' <=> Pooled(p)) /\ (Finishing(p)' <=> Finishing(p))
  BY <1>1 DEF Pooled, Finishing
<1>9. state'[t] = "active" /\ \A u \in Tasks : u # t => state'[u] = state[u]
  BY <1>1 DEF TypeOK
<1>10. \A s \in Readers : Working(s) => reader[s].task # t
  BY <1>1 DEF Order, ReadersApart
<1>11. ReadersApart'
  <2>1. \A s, v \in Readers : Working(s)' /\ Working(v)' /\ reader'[s].task = reader'[v].task => s = v
    BY <1>2, <1>3, <1>4, <1>10 DEF Order, ReadersApart
  <2>2. \A s, v \in Readers : HasPipe(s)' /\ HasPipe(v)' /\ reader'[s].pipe = reader'[v].pipe => s = v
    BY <1>3, <1>4 DEF Order, ReadersApart
  <2>3. \A s \in Readers : Working(s)' => state'[reader'[s].task] = "active"
    <3>1. \A s \in Readers : Working(s) => reader[s].task \in Tasks /\ state[reader[s].task] = "active"
      BY ReaderFacts DEF Order, ReadersApart
    <3> QED
      BY <1>2, <1>3, <1>4, <1>9, <3>1
  <2> QED
    BY <2>1, <2>2, <2>3 DEF ReadersApart
<1>12. \A p \in Pipes : ~Holds(p, t)
  BY <1>1 DEF Order, TasksFollowPipes
<1>13. TasksFollowPipes'
  <2>1. sent[t] = 0 /\ digest[t] = <<>>
    BY <1>1 DEF Order, TasksFollowPipes
  <2> QED
    BY <1>1, <1>2, <1>3, <1>4, <1>6, <1>7, <1>9, <1>12, <2>1 DEF Order, TasksFollowPipes
<1>14. PipesApart'
  BY <1>1, <1>3, <1>4, <1>5, <1>8 DEF Order, PipesApart
<1>15. PipesInOrder'
  <2>1. \A p \in Pipes, u \in Tasks : Carries(p, u)' => InOrder(hashpipe[p], u)'
    <3>1. \A p \in Pipes, u \in Tasks : InOrder(hashpipe[p], u)' <=> InOrder(hashpipe[p], u)
      BY <1>1 DEF InOrder, Waiting
    <3> QED
      BY <1>7, <3>1 DEF Order, PipesInOrder
  <2>2. \A p \in Pipes, s \in Readers : OwnedBy(p, s)' /\ reader'[s].pc = "read" =>
          \A i \in 1..Len(hashpipe[p]) : hashpipe[p][i].kind = "data"
    BY <1>2, <1>3, <1>5 DEF Order, PipesInOrder
  <2> QED
    BY <1>1, <2>1, <2>2 DEF PipesInOrder
<1>16. DigestsInOrder'
  BY <1>1, <1>9 DEF Order, DigestsInOrder
<1> QED
  BY <1>11, <1>13, <1>14, <1>15, <1>16 DEF Order

\* A pipe from the pool or a new one is empty and nobody else's.
LEMMA PipeTaken ==
  ASSUME HasherAssumption, TypeOK, Order, NEW r \in Readers, Looking(r), NEW p \in Pipes,
         reader' = [reader EXCEPT ![r] = Reading("read", @.task, p, 0)],
         hashpipe[p] = <<>>, worker[p] # "called",
         \A s \in Readers : ~OwnedBy(p, s),
         p \in 1..created', created' \in Nat, created <= created',
         \A q \in 1..created' : q = p \/ q \in 1..created,
         \A i, j \in 1..Len(hashpipe_pool') : hashpipe_pool'[i] = hashpipe_pool'[j] => i = j,
         \A q : Pooled(q)' <=> Pooled(q) /\ q # p,
         UNCHANGED <<hashpipe, worker, sent, digest, complete, state>>
  PROVE  Order'
<1> DEFINE t == reader[r].task
<1>1. \A s \in Readers : s # r => reader'[s] = reader[s]
  BY DEF TypeOK
<1>2. /\ reader'[r].pc = "read" /\ reader'[r].task = t /\ reader'[r].pipe = p
      /\ t \in Tasks /\ Working(r)
  BY ReaderFacts DEF TypeOK, Reading, Working
<1>3. /\ HasPipe(r)' /\ ~Looking(r)' /\ Working(r)' /\ ~HasPipe(r)
      /\ \A s \in Readers : s # r => /\ Looking(s)' <=> Looking(s)
                                     /\ HasPipe(s)' <=> HasPipe(s)
                                     /\ Working(s)' <=> Working(s)
  BY <1>1, <1>2 DEF Looking, HasPipe, Working
<1>4. \A s \in Readers : \A q : OwnedBy(q, s)' <=> OwnedBy(q, s) \/ (s = r /\ q = p)
  BY <1>1, <1>2, <1>3 DEF OwnedBy
<1>5. \A q, u : Holds(q, u)' <=> Holds(q, u)
  BY DEF Holds
<1>6. \A q, u : Carries(q, u)' <=> Carries(q, u) \/ (q = p /\ u = t)
  BY <1>1, <1>2, <1>3, <1>4, <1>5 DEF Carries, OwnedBy
<1>7. \A q : Finishing(q)' <=> Finishing(q)
  BY DEF Finishing
<1>8. \A q \in Pipes : ~Carries(q, t)
  <2>1. \A q \in Pipes : ~Holds(q, t)
    BY <1>2 DEF Order, TasksFollowPipes
  <2>2. \A s \in Readers : Working(s) /\ reader[s].task = t => s = r
    BY <1>2 DEF Order, ReadersApart
  <2> QED
    BY <1>3, <2>1, <2>2 DEF Carries, OwnedBy, Working
<1>9. sent[t] = 0 /\ digest[t] = <<>>
  BY DEF Order, TasksFollowPipes
<1>10. ReadersApart'
  <2>1. \A s \in Readers : s # r /\ HasPipe(s)' => reader'[s].pipe # p
    BY <1>1, <1>3 DEF OwnedBy
  <2>2. \A s \in Readers : Working(s)' <=> Working(s)
    BY <1>2, <1>3
  <2>3. \A s \in Readers : reader'[s].task = reader[s].task
    BY <1>1, <1>2
  <2>4. \A s, v \in Readers : HasPipe(s)' /\ HasPipe(v)' /\ reader'[s].pipe = reader'[v].pipe => s = v
    BY <1>1, <1>2, <1>3, <2>1 DEF Order, ReadersApart
  <2> QED
    BY <2>2, <2>3, <2>4 DEF Order, ReadersApart
<1>11. TasksFollowPipes'
  <2>1. \A q, v \in Pipes, u \in Tasks : Carries(q, u)' /\ Carries(v, u)' => q = v
    BY <1>6, <1>8 DEF Order, TasksFollowPipes
  <2> QED
    BY <1>1, <1>2, <1>3, <1>5, <2>1 DEF Order, TasksFollowPipes
<1>12. PipesApart'
  <2>1. ~Finishing(p) /\ created \in Nat
    BY CreatedPipes DEF Finishing
  <2>2. /\ \A s \in Readers : HasPipe(s)' => reader'[s].pipe \in Pipes
        /\ \A q \in Pipes, s \in Readers :
             OwnedBy(q, s)' => q <= created' /\ ~Pooled(q)' /\ ~Finishing(q)' /\ worker'[q] # "called"
    <3>1. \A s \in Readers : HasPipe(s)' => reader'[s].pipe \in Pipes
      BY <1>1, <1>2, <1>3 DEF Order, PipesApart
    <3>2. \A q \in Pipes, s \in Readers : OwnedBy(q, s) => q <= created /\ ~Pooled(q) /\ ~Finishing(q) /\ worker[q] # "called"
      BY DEF Order, PipesApart
    <3>3. \A q \in Pipes : q <= created => q <= created'
      BY <2>1, Sizes
    <3>4. p <= created' /\ ~Pooled(p)' /\ ~Finishing(p)' /\ worker'[p] # "called"
      BY <1>7, <2>1
    <3>5. \A q \in Pipes, s \in Readers :
            OwnedBy(q, s)' => q <= created' /\ ~Pooled(q)' /\ ~Finishing(q)' /\ worker'[q] # "called"
      BY <1>4, <1>7, <3>2, <3>3, <3>4
    <3> QED
      BY <3>1, <3>5
  <2>3. \A q \in Pipes : Pooled(q)' => q <= created' /\ hashpipe[q] = <<>> /\ worker[q] # "called"
    BY <2>1 DEF Order, PipesApart, Pipes
  <2>4. \A q \in Pipes : q > created' => hashpipe[q] = <<>> /\ worker[q] = "idle"
    BY <2>1 DEF Order, PipesApart, Pipes
  <2>5. \A q \in 1..created' : \/ Pooled(q)' \/ Finishing(q)' \/ worker'[q] = "called"
                               \/ \E s \in Readers : OwnedBy(q, s)'
    <3>1. ASSUME NEW q \in 1..created', q # p
          PROVE  \/ Pooled(q) \/ Finishing(q) \/ worker[q] = "called"
                 \/ \E s \in Readers : OwnedBy(q, s)
      BY <3>1 DEF Order, PipesApart
    <3> QED
      BY <1>4, <1>7, <3>1
  <2> QED
    BY <2>2, <2>3, <2>4, <2>5 DEF Order, PipesApart
<1>13. PipesInOrder'
  <2>1. InOrder(hashpipe[p], t)
    BY <1>9 DEF InOrder, Waiting
  <2>2. \A q \in Pipes, u \in Tasks : Carries(q, u)' => InOrder(hashpipe[q], u)
    BY <1>6, <2>1 DEF Order, PipesInOrder
  <2>3. \A q \in Pipes, u \in Tasks : InOrder(hashpipe[q], u)' <=> InOrder(hashpipe[q], u)
    BY DEF InOrder, Waiting
  <2>4. \A q \in Pipes, s \in Readers : OwnedBy(q, s)' /\ reader'[s].pc = "read" =>
          \A i \in 1..Len(hashpipe[q]) : hashpipe[q][i].kind = "data"
    <3>1. 1..Len(hashpipe[p]) = {}
      OBVIOUS
    <3>2. \A q \in Pipes, s \in Readers : OwnedBy(q, s) /\ reader[s].pc = "read" =>
            \A i \in 1..Len(hashpipe[q]) : hashpipe[q][i].kind = "data"
      BY DEF Order, PipesInOrder
    <3>3. ~HasPipe(r)
      BY <1>3
    <3>4. \A q \in Pipes : ~OwnedBy(q, r)
      BY <3>3 DEF OwnedBy
    <3> QED
      BY <1>1, <1>4, <3>1, <3>2, <3>4
  <2> QED
    BY <2>2, <2>3, <2>4 DEF PipesInOrder
<1>14. DigestsInOrder'
  BY DEF Order, DigestsInOrder
<1> QED
  BY <1>10, <1>11, <1>12, <1>13, <1>14 DEF Order

LEMMA TakePipeOrder ==
  ASSUME HasherAssumption, TypeOK, Order, NEW r \in Readers, TakePipe(r)
  PROVE  Order'
<1> DEFINE p == Head(hashpipe_pool)
<1>1. /\ Looking(r) /\ hashpipe_pool # <<>> /\ hashpipe_pool' = Tail(hashpipe_pool)
      /\ reader' = [reader EXCEPT ![r] = Reading("read", @.task, p, 0)]
      /\ UNCHANGED <<created, hashpipe, worker, sent, digest, complete, state>>
  BY DEF TakePipe, Looking
<1>2. /\ hashpipe_pool \in Seq(Pipes) /\ p = hashpipe_pool[1] /\ p \in Pipes
      /\ Len(hashpipe_pool) \in Nat \ {0}
      /\ Len(hashpipe_pool') = Len(hashpipe_pool) - 1
      /\ \A i \in 1..Len(hashpipe_pool') : hashpipe_pool'[i] = hashpipe_pool[i + 1]
  BY <1>1, HeadTailProperties, EmptySeq, LenProperties, ElementOfSeq DEF TypeOK
<1>3. Pooled(p) /\ p <= created /\ hashpipe[p] = <<>> /\ worker[p] # "called"
  BY <1>2 DEF Pooled, Order, PipesApart
<1>4. \A s \in Readers : ~OwnedBy(p, s)
  BY <1>3 DEF OwnedBy, Order, PipesApart
<1>5. \A i, j \in 1..Len(hashpipe_pool) : hashpipe_pool[i] = hashpipe_pool[j] => i = j
  BY DEF Order, PipesApart
<1>6. \A i, j \in 1..Len(hashpipe_pool') : hashpipe_pool'[i] = hashpipe_pool'[j] => i = j
  <2> SUFFICES ASSUME NEW i \in 1..Len(hashpipe_pool'), NEW j \in 1..Len(hashpipe_pool'),
                      hashpipe_pool'[i] = hashpipe_pool'[j]
               PROVE  i = j
    OBVIOUS
  <2>1. /\ i + 1 \in 1..Len(hashpipe_pool) /\ j + 1 \in 1..Len(hashpipe_pool)
        /\ i \in Nat /\ j \in Nat
    BY <1>2
  <2>2. hashpipe_pool[i + 1] = hashpipe_pool[j + 1]
    BY <1>2
  <2>3. i + 1 = j + 1
    BY <1>5, <2>1, <2>2
  <2> QED
    BY <2>1, <2>3
<1>7. \A q : Pooled(q)' <=> Pooled(q) /\ q # p
  <2>1. ASSUME NEW q, Pooled(q)' PROVE Pooled(q) /\ q # p
    <3>1. PICK i \in 1..Len(hashpipe_pool') : hashpipe_pool'[i] = q
      BY <2>1 DEF Pooled
    <3>2. i + 1 \in 1..Len(hashpipe_pool) /\ hashpipe_pool[i + 1] = q /\ i + 1 # 1 /\ 1 \in 1..Len(hashpipe_pool)
      BY <1>2, <3>1
    <3> QED
      BY <1>2, <1>5, <3>2 DEF Pooled
  <2>2. ASSUME NEW q, Pooled(q), q # p PROVE Pooled(q)'
    <3>1. PICK i \in 1..Len(hashpipe_pool) : hashpipe_pool[i] = q
      BY <2>2 DEF Pooled
    <3>2. i - 1 \in 1..Len(hashpipe_pool') /\ hashpipe_pool'[i - 1] = q
      BY <1>2, <2>2, <3>1
    <3> QED
      BY <3>2 DEF Pooled
  <2> QED
    BY <2>1, <2>2
<1>8. p \in 1..created /\ created' = created /\ created \in Nat
  BY <1>1, <1>2, <1>3, CreatedPipes DEF Pipes
<1> HIDE DEF p
<1>9. \A q \in 1..created' : q = p \/ q \in 1..created
  BY <1>8
<1>10. p \in 1..created' /\ created' \in Nat /\ created <= created'
  BY <1>8
<1> QED
  BY <1>1, <1>2, <1>3, <1>4, <1>6, <1>7, <1>9, <1>10, PipeTaken

LEMMA CreatePipeOrder ==
  ASSUME HasherAssumption, TypeOK, Order, PipesCounted, NEW r \in Readers, CreatePipe(r)
  PROVE  Order' /\ created + 1 \in Pipes
<1> DEFINE p == created + 1
<1>1. /\ Looking(r) /\ created' = p
      /\ reader' = [reader EXCEPT ![r] = Reading("read", @.task, p, 0)]
      /\ UNCHANGED <<hashpipe_pool, hashpipe, worker, sent, digest, complete, state>>
  BY DEF CreatePipe, Looking
<1>2. created \in Nat
  BY CreatedPipes
<1>3. p \in Pipes
  <2>1. Creating # {}
    BY DEF CreatePipe, Creating
  <2>2. Cardinality(Creating) \in Nat \ {0}
    BY <2>1, CountsAreFinite, FS_EmptySet
  <2> QED
    BY <1>2, <2>2, Sizes DEF PipesCounted
<1>4. hashpipe[p] = <<>> /\ worker[p] # "called"
  BY <1>2, <1>3 DEF Order, PipesApart
<1>5. \A s \in Readers : ~OwnedBy(p, s)
  BY <1>2 DEF OwnedBy, Order, PipesApart
<1>6. ~Pooled(p)
  BY <1>2, <1>3 DEF Order, PipesApart
<1>7. \A q : Pooled(q)' <=> Pooled(q) /\ q # p
  BY <1>1, <1>6 DEF Pooled
<1>8. \A i, j \in 1..Len(hashpipe_pool') : hashpipe_pool'[i] = hashpipe_pool'[j] => i = j
  BY <1>1 DEF Order, PipesApart
<1>9. p \in 1..created' /\ created' \in Nat /\ created <= created' /\ \A q \in 1..created' : q = p \/ q \in 1..created
  BY <1>1, <1>2
<1> HIDE DEF p
<1>10. Order'
  BY <1>1, <1>3, <1>4, <1>5, <1>7, <1>8, <1>9, PipeTaken
<1> QED
  BY <1>3, <1>10 DEF p

-----------------------------------------------------------------------------
(* Steps that put buffers into a pipe. *)

\* A reader sends buffers of its task, and lets the pipe go with the finisher.
LEMMA Sent ==
  ASSUME HasherAssumption, TypeOK, Order, NEW r \in Readers, HasPipe(r),
         NEW p \in Pipes, p = reader[r].pipe, NEW t \in Tasks, t = reader[r].task,
         NEW x \in {Idle} \cup Busy, reader' = [reader EXCEPT ![r] = x],
         NEW q, hashpipe' = [hashpipe EXCEPT ![p] = q],
         InOrder(q, t)',
         \/ x = Idle /\ \E i \in 1..Len(q) : q[i].kind = "finish"
         \/ /\ x.pc \in {"read", "finish"} /\ x.task = t /\ x.pipe = p
            /\ \A i \in 1..Len(q) : q[i].kind # "finish"
            /\ x.pc = "finish" => x.bufs = 0
            /\ x.pc = "read" => \A i \in 1..Len(q) : q[i].kind = "data",
         \A u \in Tasks : u # t => sent'[u] = sent[u],
         UNCHANGED <<hashpipe_pool, created, worker, digest, state>>
  PROVE  ReadersApart' /\ TasksFollowPipes' /\ PipesApart' /\ PipesInOrder'
<1>1. /\ reader'[r] = x /\ \A s \in Readers : s # r => reader'[s] = reader[s]
      /\ hashpipe'[p] = q /\ \A o \in Pipes : o # p => hashpipe'[o] = hashpipe[o]
  BY DEF TypeOK
<1>2. /\ Working(r) /\ ~Looking(r) /\ OwnedBy(p, r) /\ Carries(p, t) /\ state[t] = "active"
  BY PipeOfReader DEF Order, ReadersApart
<1>3. /\ HasPipe(r)' => x # Idle /\ reader'[r].task = t /\ reader'[r].pipe = p
      /\ ~Looking(r)' /\ (Working(r)' <=> HasPipe(r)')
      /\ x # Idle => HasPipe(r)'
      /\ \A s \in Readers : s # r => /\ Looking(s)' <=> Looking(s)
                                     /\ HasPipe(s)' <=> HasPipe(s)
                                     /\ Working(s)' <=> Working(s)
  BY <1>1 DEF Looking, HasPipe, Working, Idle
<1>4. \A o \in Pipes, s \in Readers : OwnedBy(o, s)' => OwnedBy(o, s) /\ reader'[s].task = reader[s].task
  BY <1>1, <1>2, <1>3 DEF OwnedBy
<1>5. \A o \in Pipes, s \in Readers : OwnedBy(o, s) /\ s # r => o # p /\ OwnedBy(o, s)'
  BY <1>1, <1>3 DEF OwnedBy, Order, ReadersApart
<1>6. \A i \in 1..Len(q) : q[i].task = t
  BY DEF InOrder
<1>7. /\ \A o \in Pipes : \A u : o # p => (Holds(o, u)' <=> Holds(o, u))
      /\ \A u : Holds(p, u)' => u = t
  BY <1>1, <1>6 DEF Holds
<1>8. \A o \in Pipes : \A u : Carries(o, u)' => Carries(o, u) /\ (o = p => u = t)
  <2>1. \A o \in Pipes : \A u : Holds(o, u)' => Carries(o, u) /\ (o = p => u = t)
    BY <1>2, <1>7 DEF Carries
  <2>2. \A o \in Pipes, s \in Readers : OwnedBy(o, s)' => Carries(o, reader'[s].task) /\ (o = p => reader'[s].task = t)
    BY <1>2, <1>4, <1>5 DEF Carries
  <2> QED
    BY <2>1, <2>2 DEF Carries
<1>9. \A s \in Readers : s # r /\ Working(s) => reader[s].task # t
  BY <1>2 DEF Order, ReadersApart
<1>10. ReadersApart'
  <2>1. \A s \in Readers : Working(s)' => Working(s) /\ reader'[s].task = reader[s].task
    BY <1>1, <1>2, <1>3
  <2>2. \A s \in Readers : HasPipe(s)' => HasPipe(s) /\ reader'[s].pipe = reader[s].pipe
    BY <1>1, <1>3
  <2> QED
    BY <2>1, <2>2 DEF Order, ReadersApart
<1>11. TasksFollowPipes'
  <2>1. \A u \in Tasks : state[u] = "todo" => sent'[u] = 0 /\ digest[u] = <<>>
    BY <1>2 DEF Order, TasksFollowPipes
  <2>2. \A s \in Readers : Looking(s)' => Looking(s) /\ reader'[s] = reader[s] /\ reader[s].task # t /\ reader[s].task \in Tasks
    BY <1>1, <1>3, <1>9, ReaderFacts DEF Working
  <2>3. \A s \in Readers : Looking(s)' =>
          /\ sent'[reader'[s].task] = 0 /\ digest[reader'[s].task] = <<>>
          /\ reader'[s].bufs = 0
    BY <2>2 DEF Order, TasksFollowPipes
  <2>4. \A s \in Readers, o \in Pipes, u \in Tasks : Looking(s)' /\ reader'[s].task = u => ~Holds(o, u)'
    BY <1>7, <2>2 DEF Order, TasksFollowPipes
  <2>5. \A s \in Readers : reader'[s].pc = "finish" => reader'[s].bufs = 0
    BY <1>1 DEF Order, TasksFollowPipes, Idle
  <2>6. \A o, v \in Pipes, u \in Tasks : Carries(o, u)' /\ Carries(v, u)' => o = v
    BY <1>8 DEF Order, TasksFollowPipes
  <2>7. \A o \in Pipes, u \in Tasks : Holds(o, u)' => state[u] = "active"
    BY <1>2, <1>7 DEF Order, TasksFollowPipes
  <2> QED
    BY <2>1, <2>3, <2>4, <2>5, <2>6, <2>7 DEF TasksFollowPipes
<1>12. PipesApart'
  <2>1. p <= created /\ ~Pooled(p) /\ worker[p] # "called"
    BY <1>2 DEF Order, PipesApart
  <2>2. \A o : Pooled(o)' <=> Pooled(o)
    BY DEF Pooled
  <2>3. \A o \in Pipes : o # p => (Finishing(o)' <=> Finishing(o))
    BY <1>1 DEF Finishing
  <2>4. IF x = Idle THEN Finishing(p)' ELSE ~Finishing(p)' /\ OwnedBy(p, r)'
    <3>1. CASE x = Idle
      BY <1>1, <3>1 DEF Finishing, Idle
    <3>2. CASE x # Idle
      BY <1>1, <1>3, <3>2 DEF Finishing, OwnedBy
    <3> QED
      BY <3>1, <3>2
  <2>5. \A s \in Readers : HasPipe(s)' => reader'[s].pipe \in Pipes
    BY <1>1, <1>3 DEF Order, PipesApart
  <2>6. \A o \in Pipes, s \in Readers :
          OwnedBy(o, s)' => o <= created /\ ~Pooled(o)' /\ ~Finishing(o)' /\ worker[o] # "called"
    <3>1. \A o \in Pipes, s \in Readers : OwnedBy(o, s)' /\ o # p => ~Finishing(o)'
      BY <1>4, <2>3 DEF Order, PipesApart
    <3>2. \A s \in Readers : OwnedBy(p, s)' => ~Finishing(p)'
      <4>1. \A s \in Readers : OwnedBy(p, s)' => s = r
        BY <1>4, <1>5
      <4>2. OwnedBy(p, r)' => x # Idle
        BY <1>3 DEF OwnedBy
      <4> QED
        BY <2>4, <4>1, <4>2
    <3> QED
      BY <1>4, <2>2, <3>1, <3>2 DEF Order, PipesApart
  <2>7. \A o \in Pipes :
          /\ Pooled(o)' => o <= created /\ hashpipe'[o] = <<>> /\ worker[o] # "called"
          /\ worker[o] = "called" => hashpipe'[o] = <<>>
          /\ o > created => hashpipe'[o] = <<>> /\ worker[o] = "idle"
    <3>1. ~(p > created)
      BY <2>1, CreatedPipes, Sizes
    <3> QED
      BY <1>1, <2>1, <2>2, <3>1 DEF Order, PipesApart
  <2>8. \A o \in 1..created : \/ Pooled(o)' \/ Finishing(o)' \/ worker[o] = "called"
                              \/ \E s \in Readers : OwnedBy(o, s)'
    <3>1. ASSUME NEW o \in 1..created, o # p
          PROVE  \/ Pooled(o) \/ Finishing(o)' \/ worker[o] = "called"
                 \/ \E s \in Readers : OwnedBy(o, s)'
      <4>1. o \in Pipes /\ ~OwnedBy(o, r)
        BY <3>1, CreatedPipes DEF OwnedBy
      <4>2. \/ Pooled(o) \/ Finishing(o) \/ worker[o] = "called"
            \/ \E s \in Readers : OwnedBy(o, s)
        BY DEF Order, PipesApart
      <4> QED
        BY <1>5, <2>3, <3>1, <4>1, <4>2
    <3> QED
      BY <2>2, <2>4, <3>1
  <2>9. \A i, j \in 1..Len(hashpipe_pool) : hashpipe_pool[i] = hashpipe_pool[j] => i = j
    BY DEF Order, PipesApart
  <2> QED
    BY <2>5, <2>6, <2>7, <2>8, <2>9 DEF PipesApart
<1>13. PipesInOrder'
  <2>1. \A o \in Pipes, u \in Tasks : Carries(o, u)' => InOrder(hashpipe[o], u)'
    <3>1. \A u \in Tasks : Carries(p, u)' => InOrder(hashpipe[p], u)'
      <4>1. \A u : Carries(p, u)' => u = t
        BY <1>8
      <4>2. InOrder(hashpipe[p], t)'
        BY <1>1 DEF InOrder
      <4> QED
        BY <4>1, <4>2
    <3>2. ASSUME NEW o \in Pipes, NEW u \in Tasks, Carries(o, u)', o # p
          PROVE  InOrder(hashpipe[o], u)'
      <4>1. Carries(o, u) /\ u # t
        BY <1>2, <1>8, <3>2 DEF Order, TasksFollowPipes
      <4>2. InOrder(hashpipe[o], u) /\ hashpipe'[o] = hashpipe[o] /\ sent'[u] = sent[u]
        BY <1>1, <3>2, <4>1 DEF Order, PipesInOrder
      <4> QED
        BY <4>2 DEF InOrder, Waiting
    <3> QED
      BY <3>1, <3>2
  <2>2. \A o \in Pipes, s \in Readers : OwnedBy(o, s)' /\ reader'[s].pc = "read" =>
          \A i \in 1..Len(hashpipe'[o]) : hashpipe'[o][i].kind = "data"
    <3>1. \A s \in Readers : OwnedBy(p, s)' => s = r
      BY <1>4, <1>5
    <3>2. reader'[r].pc = "read" => \A i \in 1..Len(q) : q[i].kind = "data"
      BY <1>1 DEF Idle
    <3>3. \A o \in Pipes, s \in Readers : OwnedBy(o, s)' /\ o # p => s # r
      BY <1>2, <1>4 DEF OwnedBy
    <3> QED
      BY <1>1, <1>4, <3>1, <3>2, <3>3 DEF Order, PipesInOrder
  <2> QED
    BY <2>1, <2>2 DEF PipesInOrder
<1> QED
  BY <1>10, <1>11, <1>12, <1>13

LEMMA BufferKinds ==
  ASSUME NEW t \in Tasks, NEW b \in Nat
  PROVE  /\ Data(t, b) \in Buffers /\ Data(t, b).kind = "data" /\ Data(t, b).task = t
         /\ Empty(t) \in Buffers /\ Empty(t).kind = "empty" /\ Empty(t).task = t
         /\ Finisher(t) \in Buffers /\ Finisher(t).kind = "finish" /\ Finisher(t).task = t
BY DEF Data, Empty, Finisher, Buffers

\* A pipe of which somebody reads into holds the blocks that are not hashed yet.
LEMMA AllWaiting ==
  ASSUME HasherAssumption, TypeOK, Order, NEW r \in Readers, reader[r].pc = "read"
  PROVE  /\ Waiting(reader[r].task) = Len(hashpipe[reader[r].pipe])
         /\ \A i \in 1..Len(hashpipe[reader[r].pipe]) : hashpipe[reader[r].pipe][i].kind = "data"
<1> DEFINE q == hashpipe[reader[r].pipe]
           t == reader[r].task
<1>1. /\ InOrder(q, t) /\ q \in Seq(Buffers) /\ reader[r].pipe \in Pipes
      /\ OwnedBy(reader[r].pipe, r)
  BY PipeOfReader DEF HasPipe
<1>2. \A i \in 1..Len(q) : q[i].kind = "data"
  BY <1>1 DEF Order, PipesInOrder
<1>3. Len(q) \in Nat /\ Waiting(t) \in 0..Len(q) /\ \A i \in 1..Len(q) : ~(i > Waiting(t))
  BY <1>1, <1>2, LenProperties DEF InOrder
<1> QED
  BY <1>2, <1>3

\* What is appended to a pipe.
LEMMA Appended ==
  ASSUME NEW s \in Seq(Buffers), NEW c \in Seq(Buffers)
  PROVE  /\ s \o c \in Seq(Buffers) /\ Len(s \o c) = Len(s) + Len(c)
         /\ \A i \in 1..Len(s) : (s \o c)[i] = s[i]
         /\ \A i \in Len(s) + 1..Len(s) + Len(c) : (s \o c)[i] = c[i - Len(s)]
         /\ Len(s) \in Nat /\ Len(c) \in Nat
<1>1. Len(s) \in Nat /\ Len(c) \in Nat
  BY LenProperties
<1> QED
  BY <1>1, ConcatProperties

LEMMA AppendedOne ==
  ASSUME NEW s \in Seq(Buffers), NEW e \in Buffers
  PROVE  /\ Append(s, e) \in Seq(Buffers) /\ Len(Append(s, e)) = Len(s) + 1
         /\ \A i \in 1..Len(s) : Append(s, e)[i] = s[i]
         /\ Append(s, e)[Len(s) + 1] = e
         /\ Len(s) \in Nat
BY AppendProperties, LenProperties

\* A pipe gets n buffers, none of them empty unless the reader uses fread.
Grows(p, n) ==
  \E q : /\ hashpipe' = [hashpipe EXCEPT ![p] = q]
         /\ Len(q) = Len(hashpipe[p]) + n
         /\ ~use_buffered_read /\ (\A i \in 1..Len(hashpipe[p]) : hashpipe[p][i].kind # "empty")
            => \A i \in 1..Len(q) : q[i].kind # "empty"

LEMMA ReadOrder ==
  ASSUME HasherAssumption, TypeOK, Order, NEW r \in Readers, Read(r)
  PROVE  /\ Order' /\ hashpipe' \in [Pipes -> Seq(Buffers)]
         /\ sent' \in [Tasks -> Nat] /\ complete' \in [Tasks -> BOOLEAN]
         /\ \E n \in 0..reader[r].bufs :
              Grows(reader[r].pipe, n) /\ buf_sem' = buf_sem + (reader[r].bufs - n)
<1>1. PICK t \in Tasks, p \in Pipes : t = reader[r].task /\ p = reader[r].pipe
  BY PipeOfReader DEF Read, HasBatch, HasPipe
<1>2. HasPipe(r) /\ reader[r].pc = "read" /\ reader[r].bufs \in Nat /\ reader[r] \in Busy
  <2>1. HasPipe(r) /\ reader[r].pc = "read"
    BY DEF Read, HasBatch, HasPipe
  <2> QED
    BY <2>1, PipeOfReader DEF Busy
<1>3. PICK n \in 0..reader[r].bufs, short \in BOOLEAN :
        /\ hashpipe' = [hashpipe EXCEPT ![p] = @ \o [i \in 1..n |-> Data(t, sent[t] + i)]]
        /\ sent' = [sent EXCEPT ![t] = @ + n]
        /\ complete' = [complete EXCEPT ![t] = ~short /\ sent[t] + n = Blocks[t]]
        /\ \E pc \in {"read", "finish"} : reader' = [reader EXCEPT ![r] = Reading(pc, t, p, 0)]
        /\ buf_sem' = buf_sem + (reader[r].bufs - n)
        /\ UNCHANGED <<poolVars, worker, digest, state>>
  BY <1>1, <1>2, ZenonT(30) DEF Read, SendBlocks
<1>c. PICK c : /\ c = [i \in 1..n |-> Data(t, sent[t] + i)]
               /\ hashpipe' = [hashpipe EXCEPT ![p] = @ \o c]
  BY <1>3
<1>0. PICK old, q : old = hashpipe[p] /\ q = old \o c
  OBVIOUS
<1>4. old \in Seq(Buffers) /\ sent[t] \in Nat /\ n \in Nat /\ digest[t] \in Seq(Nat) /\ Len(digest[t]) \in Nat
  BY <1>0, <1>2, <1>3, LenProperties DEF TypeOK
<1>5. c \in Seq(Buffers) /\ Len(c) = n /\ \A i \in 1..n : c[i] = Data(t, sent[t] + i)
  <2>1. \A i \in 1..n : sent[t] + i \in Nat
    BY <1>4
  <2>2. \A i \in 1..n : Data(t, sent[t] + i) \in Buffers
    BY <2>1, BufferKinds
  <2>3. c \in [1..n -> Buffers]
    BY <1>3, <1>c, <2>2
  <2>4. c \in Seq(Buffers)
    BY <1>4, <2>3, SeqDef, SMTT(30)
  <2>5. Len(c) = n
    BY <1>4, <2>3, <2>4, LenProperties
  <2> QED
    BY <1>3, <1>c, <2>4, <2>5
<1>6. /\ q \in Seq(Buffers) /\ Len(q) = Len(old) + n /\ Len(old) \in Nat
      /\ \A i \in 1..Len(old) : q[i] = old[i]
      /\ \A i \in Len(old) + 1..Len(old) + n : q[i] = c[i - Len(old)]
  <2>1. /\ old \o c \in Seq(Buffers) /\ Len(old \o c) = Len(old) + Len(c) /\ Len(old) \in Nat
        /\ \A i \in 1..Len(old) : (old \o c)[i] = old[i]
        /\ \A i \in Len(old) + 1..Len(old) + Len(c) : (old \o c)[i] = c[i - Len(old)]
    BY <1>4, <1>5, Appended
  <2> QED
    BY <1>0, <1>5, <2>1
<1>n. sent[t] \in Nat /\ Len(digest[t]) \in Nat /\ Len(old) \in Nat /\ n \in Nat
  BY <1>4, <1>6
<1>7. /\ sent[t] = Len(digest[t]) + Len(old)
      /\ \A i \in 1..Len(old) : old[i] = Data(t, Len(digest[t]) + i)
  <2>1. Waiting(t) = Len(old) /\ InOrder(old, t)
    BY <1>0, <1>1, <1>2, AllWaiting, PipeOfReader
  <2> QED
    <3>1. sent[t] - Len(digest[t]) = Len(old)
      BY <2>1 DEF Waiting
    <3>2. sent[t] = Len(digest[t]) + Len(old)
      BY <1>n, <3>1, SMTT(30)
    <3>3. \A i \in 1..Len(old) : i <= Len(old)
      BY <1>6
    <3>4. \A i \in 1..Len(old) : i <= Waiting(t) => old[i] = Data(t, Len(digest[t]) + i)
      BY <2>1 DEF InOrder
    <3> QED
      BY <2>1, <3>2, <3>3, <3>4, Zenon
<1>8. \A i \in 1..Len(q) : q[i] = Data(t, Len(digest[t]) + i)
  <2>1. ASSUME NEW i \in Len(old) + 1..Len(old) + n PROVE q[i] = Data(t, Len(digest[t]) + i)
    <3>1. i - Len(old) \in 1..n
      BY <1>4, <1>6
    <3>2. q[i] = Data(t, sent[t] + (i - Len(old)))
      BY <1>5, <1>6, <3>1
    <3>3. sent[t] + (i - Len(old)) = Len(digest[t]) + i
      BY <1>4, <1>6, <1>7
    <3> QED
      BY <3>2, <3>3
  <2>2. \A i \in 1..Len(q) : i \in 1..Len(old) \/ i \in Len(old) + 1..Len(old) + n
    BY <1>4, <1>6
  <2> QED
    BY <1>6, <1>7, <2>1, <2>2
<1>9. \A i \in 1..Len(q) : q[i].kind = "data" /\ q[i].task = t
  <2>1. \A i \in 1..Len(q) : Len(digest[t]) + i \in Nat
    BY <1>4, <1>6
  <2> QED
    BY <1>8, <2>1, BufferKinds
<1>10. sent'[t] = sent[t] + n /\ \A u \in Tasks : u # t => sent'[u] = sent[u]
  BY <1>3 DEF TypeOK
<1>11. InOrder(q, t)'
  <2>1. sent'[t] - Len(digest[t]) = Len(q)
    <3>1. sent[t] = Len(digest[t]) + Len(old)
      BY <1>7
    <3>2. sent'[t] = sent[t] + n /\ Len(q) = Len(old) + n
      BY <1>6, <1>10
    <3>3. PICK a, b, d : a = sent[t] /\ b = Len(digest[t]) /\ d = Len(old)
      OBVIOUS
    <3>4. a \in Nat /\ b \in Nat /\ d \in Nat /\ n \in Nat /\ a = b + d
      BY <1>n, <3>1, <3>3
    <3>5. (a + n) - b = d + n
      BY <3>4
    <3> QED
      BY <3>2, <3>3, <3>5
  <2>2. UNCHANGED digest /\ Len(q) \in Nat
    BY <1>3, <1>4, <1>6
  <2> QED
    BY <1>8, <1>9, <2>1, <2>2 DEF InOrder, Waiting
<1>12. PICK pc \in {"read", "finish"} : reader' = [reader EXCEPT ![r] = Reading(pc, t, p, 0)]
  BY <1>3
<1>13. /\ Reading(pc, t, p, 0) \in Busy
       /\ Reading(pc, t, p, 0).pc = pc /\ Reading(pc, t, p, 0).task = t
       /\ Reading(pc, t, p, 0).pipe = p /\ Reading(pc, t, p, 0).bufs = 0
  BY Sizes DEF Reading, Busy
<1>14. hashpipe' = [hashpipe EXCEPT ![p] = q] /\ UNCHANGED <<hashpipe_pool, created, worker, digest, state>>
  BY <1>0, <1>3, <1>c DEF poolVars
<1>15. ReadersApart' /\ TasksFollowPipes' /\ PipesApart' /\ PipesInOrder'
  <2>1. PICK x : x = Reading(pc, t, p, 0)
    OBVIOUS
  <2>2. /\ x \in {Idle} \cup Busy /\ reader' = [reader EXCEPT ![r] = x]
        /\ x.pc \in {"read", "finish"} /\ x.task = t /\ x.pipe = p /\ x.bufs = 0
    BY <1>12, <1>13, <2>1
  <2>3. \A i \in 1..Len(q) : q[i].kind # "finish" /\ q[i].kind = "data"
    BY <1>9
  <2>4. \/ x = Idle /\ \E i \in 1..Len(q) : q[i].kind = "finish"
        \/ /\ x.pc \in {"read", "finish"} /\ x.task = t /\ x.pipe = p
           /\ \A i \in 1..Len(q) : q[i].kind # "finish"
           /\ x.pc = "finish" => x.bufs = 0
           /\ x.pc = "read" => \A i \in 1..Len(q) : q[i].kind = "data"
    BY <2>2, <2>3
  <2> QED
    BY <1>1, <1>2, <1>10, <1>11, <1>14, <2>2, <2>4, Sent, ZenonT(30)
<1>16. DigestsInOrder'
  <2>1. state[t] = "active"
    BY <1>1, <1>2, PipeOfReader DEF Order, ReadersApart
  <2>2. complete'[t] => sent'[t] = Blocks[t]
    BY <1>3, <1>10 DEF TypeOK
  <2>3. \A u \in Tasks : u # t => complete'[u] = complete[u]
    BY <1>3 DEF TypeOK
  <2> QED
    BY <1>10, <1>14, <2>1, <2>2, <2>3 DEF Order, DigestsInOrder
<1>17. hashpipe' \in [Pipes -> Seq(Buffers)]
  <2>1. q \in Seq(Buffers)
    BY <1>6
  <2> QED
    BY <1>14, <2>1 DEF TypeOK
<1>18. sent' \in [Tasks -> Nat] /\ complete' \in [Tasks -> BOOLEAN]
  <2>1. sent[t] + n \in Nat
    BY <1>n
  <2> QED
    BY <1>3, <2>1 DEF TypeOK
<1>19. Grows(p, n)
  <2>1. \A i \in 1..Len(q) : q[i].kind # "empty"
    BY <1>9
  <2> QED
    BY <1>0, <1>6, <1>14, <2>1 DEF Grows
<1> QED
  BY <1>1, <1>3, <1>15, <1>16, <1>17, <1>18, <1>19 DEF Order

\* The buffer that fread has left empty, and the finisher.
LEMMA LastBufferOrder ==
  ASSUME HasherAssumption, TypeOK, Order, NEW r \in Readers, EndOfFile(r) \/ TaskFinish(r)
  PROVE  Order' /\ hashpipe' \in [Pipes -> Seq(Buffers)] /\ Grows(reader[r].pipe, 1)
<1>1. HasPipe(r)
  BY DEF EndOfFile, TaskFinish, HasBatch, HasPipe
<1>2. PICK t \in Tasks, p \in Pipes : t = reader[r].task /\ p = reader[r].pipe
  BY <1>1, PipeOfReader
<1>3. PICK e \in {Empty(t), Finisher(t)}, x \in {Idle, Reading("finish", t, p, 0)} :
        /\ hashpipe' = [hashpipe EXCEPT ![p] = Append(@, e)]
        /\ reader' = [reader EXCEPT ![r] = x]
        /\ e = Finisher(t) <=> x = Idle
        /\ ~use_buffered_read => e = Finisher(t)
        /\ UNCHANGED <<poolVars, worker, sent, digest, complete, state>>
  <2>1. Empty(t) # Finisher(t) /\ Reading("finish", t, p, 0) # Idle
    <3>1. Empty(t).kind # Finisher(t).kind /\ Reading("finish", t, p, 0).pc # Idle.pc
      BY DEF Empty, Finisher, Reading, Idle
    <3> QED
      BY <3>1
  <2> QED
    BY <1>2, <2>1 DEF EndOfFile, TaskFinish
<1>0. PICK old, q : old = hashpipe[p] /\ q = Append(old, e)
  OBVIOUS
<1>4. old \in Seq(Buffers) /\ InOrder(old, t) /\ ~Finishing(p) /\ state[t] = "active"
  BY <1>0, <1>1, <1>2, PipeOfReader DEF Order, PipesApart, ReadersApart
<1>5. e \in Buffers /\ e.task = t /\ e.kind # "data" /\ (e.kind = "finish" <=> x = Idle)
  <2>1. \A u \in {"a"} : /\ Empty(t) \in Buffers /\ Empty(t).task = t /\ Empty(t).kind = "empty"
                         /\ Finisher(t) \in Buffers /\ Finisher(t).task = t /\ Finisher(t).kind = "finish"
    BY BufferKinds
  <2> QED
    BY <1>3, <2>1
<1>6. /\ q \in Seq(Buffers) /\ Len(q) = Len(old) + 1 /\ Len(old) \in Nat
      /\ \A i \in 1..Len(old) : q[i] = old[i]
      /\ q[Len(old) + 1] = e
  BY <1>0, <1>4, <1>5, AppendedOne
<1>7. \A i \in 1..Len(old) : old[i].kind # "finish"
  BY <1>0, <1>4 DEF Finishing
<1>8. hashpipe' = [hashpipe EXCEPT ![p] = q] /\ UNCHANGED <<hashpipe_pool, created, worker, digest, sent, complete, state>>
  BY <1>0, <1>3 DEF poolVars
<1>9. \A i \in 1..Len(q) : i \in 1..Len(old) \/ i = Len(old) + 1
  BY <1>6
<1>10. InOrder(q, t)'
  <2>1. Waiting(t)' = Waiting(t) /\ Waiting(t) \in 0..Len(q) /\ Len(digest'[t]) = Len(digest[t])
    BY <1>4, <1>6, <1>8 DEF InOrder, Waiting
  <2>2. ASSUME NEW i \in 1..Len(q)
        PROVE  /\ q[i].task = t
               /\ i <= Waiting(t) => q[i] = Data(t, Len(digest[t]) + i)
               /\ i > Waiting(t) => q[i].kind # "data"
               /\ q[i].kind = "finish" => i = Len(q)
    <3>1. CASE i \in 1..Len(old)
      BY <1>4, <1>6, <1>7, <3>1 DEF InOrder
    <3>2. CASE i = Len(old) + 1
      <4>1. ~(i <= Waiting(t))
        BY <1>4, <1>6, <3>2 DEF InOrder
      <4> QED
        BY <1>5, <1>6, <3>2, <4>1
    <3> QED
      BY <1>9, <3>1, <3>2
  <2> QED
    BY <2>1, <2>2 DEF InOrder
<1>11. /\ x = Idle => \E i \in 1..Len(q) : q[i].kind = "finish"
       /\ x # Idle => \A i \in 1..Len(q) : q[i].kind # "finish"
  BY <1>5, <1>6, <1>7, <1>9
<1>12. /\ x \in {Idle} \cup Busy
       /\ x # Idle => x.pc = "finish" /\ x.task = t /\ x.pipe = p /\ x.bufs = 0
  BY <1>3, Sizes DEF Reading, Busy
<1>13. ReadersApart' /\ TasksFollowPipes' /\ PipesApart' /\ PipesInOrder'
  <2>1. \/ x = Idle /\ \E i \in 1..Len(q) : q[i].kind = "finish"
        \/ /\ x.pc \in {"read", "finish"} /\ x.task = t /\ x.pipe = p
           /\ \A i \in 1..Len(q) : q[i].kind # "finish"
           /\ x.pc = "finish" => x.bufs = 0
           /\ x.pc = "read" => \A i \in 1..Len(q) : q[i].kind = "data"
    BY <1>11, <1>12
  <2>2. reader' = [reader EXCEPT ![r] = x]
    BY <1>3
  <2> QED
    BY <1>1, <1>2, <1>8, <1>10, <1>12, <2>1, <2>2, Sent, ZenonT(30)
<1>14. DigestsInOrder'
  BY <1>8 DEF Order, DigestsInOrder
<1>15. hashpipe' \in [Pipes -> Seq(Buffers)]
  <2>1. q \in Seq(Buffers)
    BY <1>6
  <2> QED
    BY <1>8, <2>1 DEF TypeOK
<1>16. Grows(p, 1)
  <2>1. ~use_buffered_read => e.kind # "empty"
    <3>1. ~use_buffered_read => e = Finisher(t)
      BY <1>3
    <3> QED
      BY <3>1, BufferKinds DEF Finisher
  <2>2. ~use_buffered_read /\ (\A i \in 1..Len(old) : old[i].kind # "empty")
        => \A i \in 1..Len(q) : q[i].kind # "empty"
    BY <1>6, <1>9, <2>1
  <2> QED
    BY <1>0, <1>6, <1>8, <2>2 DEF Grows
<1> QED
  BY <1>2, <1>13, <1>14, <1>15, <1>16 DEF Order

-----------------------------------------------------------------------------
(* Steps of the thread of a pipe. *)

LEMMA FirstOfPipe ==
  ASSUME HasherAssumption, TypeOK, Order, NEW p \in Pipes,
         NEW old, old = hashpipe[p], old # <<>>
  PROVE  /\ old[1] \in Buffers /\ old[1].task \in Tasks /\ First(p) = old[1]
         /\ Holds(p, old[1].task) /\ Carries(p, old[1].task)
         /\ state[old[1].task] = "active"
         /\ InOrder(old, old[1].task)
         /\ old \in Seq(Buffers) /\ Tail(old) \in Seq(Buffers)
         /\ Len(old) \in Nat \ {0} /\ Len(Tail(old)) = Len(old) - 1
         /\ \A i \in 1..Len(Tail(old)) : Tail(old)[i] = old[i + 1]
<1>1. /\ old \in Seq(Buffers) /\ Tail(old) \in Seq(Buffers) /\ Head(old) = old[1]
      /\ Len(old) \in Nat \ {0} /\ Len(Tail(old)) = Len(old) - 1
      /\ \A i \in 1..Len(Tail(old)) : Tail(old)[i] = old[i + 1]
  BY HeadTailProperties, EmptySeq, LenProperties DEF TypeOK
<1>2. old[1] \in Buffers /\ 1 \in 1..Len(old)
  BY <1>1, ElementOfSeq
<1>3. old[1].task \in Tasks
  BY <1>2 DEF Buffers
<1>4. Holds(p, old[1].task)
  BY <1>2 DEF Holds
<1>5. Carries(p, old[1].task)
  BY <1>4 DEF Carries
<1>6. state[old[1].task] = "active" /\ InOrder(old, old[1].task)
  BY <1>3, <1>4, <1>5 DEF Order, TasksFollowPipes, PipesInOrder
<1> QED
  BY <1>1, <1>2, <1>3, <1>4, <1>5, <1>6 DEF First

\* A block goes into the digest of its task.
Hash(t, b) == digest' = [digest EXCEPT ![t] = Append(@, b)]

\* The thread takes a buffer that is no finisher; data goes into the digest.
LEMMA Taken ==
  ASSUME HasherAssumption, TypeOK, Order, NEW p \in Pipes, NEW t \in Tasks,
         NEW old, old = hashpipe[p], old # <<>>, t = old[1].task, old[1].kind # "finish",
         NEW q, q = Tail(old), hashpipe' = [hashpipe EXCEPT ![p] = q],
         \/ old[1].kind = "data" /\ Hash(t, old[1].block)
         \/ old[1].kind # "data" /\ digest' = digest,
         UNCHANGED <<reader, hashpipe_pool, created, worker, sent, complete, state>>
  PROVE  Order' /\ digest' \in [Tasks -> Seq(Nat)]
<1>1. /\ old \in Seq(Buffers) /\ Carries(p, t) /\ Holds(p, t) /\ state[t] = "active"
      /\ InOrder(old, t) /\ Len(old) \in Nat \ {0} /\ Len(q) = Len(old) - 1
      /\ \A i \in 1..Len(q) : q[i] = old[i + 1]
  BY FirstOfPipe
<1>2. hashpipe'[p] = q /\ \A o \in Pipes : o # p => hashpipe'[o] = hashpipe[o]
  BY DEF TypeOK
<1>3. PICK w, d, s : w = Waiting(t) /\ d = Len(digest[t]) /\ s = sent[t]
  OBVIOUS
<1>4. d \in Nat /\ s \in Nat /\ w = s - d /\ w \in 0..Len(old)
  BY <1>1, <1>3, LenProperties DEF InOrder, Waiting, TypeOK
<1>5. \A i \in 1..Len(old) : /\ old[i].task = t
                             /\ i <= w => old[i] = Data(t, d + i)
                             /\ i > w => old[i].kind # "data"
                             /\ old[i].kind = "finish" => i = Len(old)
  BY <1>1, <1>3 DEF InOrder
<1>6. \A i \in 1..Len(q) : i + 1 \in 1..Len(old) /\ i \in Nat
  BY <1>1
<1>7. 1 \in 1..Len(old)
  BY <1>1
\* What changes in the digest.
<1>e. PICK e \in {0, 1} : e = IF old[1].kind = "data" THEN 1 ELSE 0
  OBVIOUS
<1>8.   /\ Len(digest'[t]) = d + e /\ e <= w /\ (e = 0 => w = 0)
        /\ digest' \in [Tasks -> Seq(Nat)]
        /\ \A i \in 1..d : digest'[t][i] = digest[t][i]
        /\ \A i \in d + 1..d + e : digest'[t][i] = i
        /\ \A u \in Tasks : u # t => digest'[u] = digest[u]
  <2>1. CASE old[1].kind = "data"
    <3>1. w >= 1 /\ old[1] = Data(t, d + 1)
      BY <1>4, <1>5, <1>7, <2>1
    <3>2. old[1].block = d + 1 /\ d + 1 \in Nat
      BY <1>4, <3>1 DEF Data
    <3>3. digest' = [digest EXCEPT ![t] = Append(@, d + 1)]
      BY <2>1, <3>2 DEF Hash
    <3>4. /\ Append(digest[t], d + 1) \in Seq(Nat)
          /\ Len(Append(digest[t], d + 1)) = d + 1
          /\ \A i \in 1..d : Append(digest[t], d + 1)[i] = digest[t][i]
          /\ Append(digest[t], d + 1)[d + 1] = d + 1
      <4>1. PICK g, b : g = digest[t] /\ b = d + 1
        OBVIOUS
      <4>2. g \in Seq(Nat) /\ b \in Nat /\ Len(g) = d
        BY <1>3, <3>2, <4>1 DEF TypeOK
      <4>3. /\ Append(g, b) \in Seq(Nat) /\ Len(Append(g, b)) = d + 1
            /\ \A i \in 1..d : Append(g, b)[i] = g[i]
            /\ Append(g, b)[d + 1] = b
        BY <4>2, AppendProperties
      <4> QED
        BY <4>1, <4>3
    <3>5. digest'[t] = Append(digest[t], d + 1) /\ \A u \in Tasks : u # t => digest'[u] = digest[u]
      BY <3>3 DEF TypeOK
    <3>6. digest' \in [Tasks -> Seq(Nat)]
      BY <3>3, <3>4 DEF TypeOK
    <3>7. \A i \in d + 1..d + 1 : i = d + 1
      BY <1>4
    <3>8. \A i \in d + 1..d + 1 : digest'[t][i] = i
      BY <3>4, <3>5, <3>7
    <3>9. Len(digest'[t]) = d + 1 /\ \A i \in 1..d : digest'[t][i] = digest[t][i]
      BY <3>4, <3>5
    <3>10. e = 1
      BY <1>e, <2>1
    <3>11. Len(digest'[t]) = d + e /\ \A i \in d + 1..d + e : digest'[t][i] = i
      BY <3>8, <3>9, <3>10
    <3>12. e <= w /\ (e = 0 => w = 0)
      BY <3>1, <3>10
    <3> QED
      BY <3>5, <3>6, <3>9, <3>11, <3>12
  <2>2. CASE old[1].kind # "data"
    <3>1. ~(1 <= w)
      <4>1. Data(t, d + 1).kind = "data"
        BY DEF Data
      <4> QED
        BY <1>5, <1>7, <2>2, <4>1
    <3>2. w = 0 /\ d + 0 = d
      BY <1>4, <3>1
    <3>3. \A i \in d + 1..d + 0 : FALSE
      BY <1>4
    <3>4. digest' = digest /\ digest \in [Tasks -> Seq(Nat)] /\ e = 0
      BY <1>e, <2>2 DEF TypeOK
    <3>5. Len(digest'[t]) = d + e /\ e <= w
      BY <1>3, <3>2, <3>4
    <3> QED
      BY <3>2, <3>3, <3>4, <3>5
  <2> QED
    BY <2>1, <2>2
<1>9. InOrder(q, t)'
  <2>0. e \in {0, 1} /\ e <= w /\ Len(q) = Len(old) - 1 /\ Len(old) \in Nat \ {0} /\ (e = 0 => w = 0)
    BY <1>1, <1>8
  <2>1. s - (d + e) = w - e /\ w - e \in 0..Len(q)
    BY <1>4, <2>0
  <2>2. Waiting(t)' = w - e
    BY <1>3, <1>8, <2>1 DEF Waiting
  <2>3. ASSUME NEW i \in 1..Len(q)
        PROVE  /\ q[i].task = t
               /\ i <= w - e => q[i] = Data(t, (d + e) + i)
               /\ i > w - e => q[i].kind # "data"
               /\ q[i].kind = "finish" => i = Len(q)
    <3>1. q[i] = old[i + 1] /\ i + 1 \in 1..Len(old) /\ i \in Nat /\ i >= 1
      BY <1>1, <1>6
    <3>2. q[i].task = t /\ (i + 1 <= w => q[i] = Data(t, d + (i + 1)))
          /\ (i + 1 > w => q[i].kind # "data") /\ (q[i].kind = "finish" => i + 1 = Len(old))
      BY <1>5, <3>1
    <3>3. i <= w - e => e = 1 /\ i + 1 <= w /\ d + (i + 1) = (d + e) + i
      BY <1>4, <1>8, <3>1
    <3>4. i > w - e => i + 1 > w
      BY <1>4, <1>8, <3>1
    <3>5. i + 1 = Len(old) => i = Len(q)
      BY <1>1, <3>1
    <3> QED
      BY <3>2, <3>3, <3>4, <3>5
  <2>4. Len(digest'[t]) = d + e
    BY <1>8
  <2>5. Waiting(t)' \in 0..Len(q)
    BY <2>1, <2>2
  <2>6. \A i \in 1..Len(q) :
          /\ q[i].task = t
          /\ i <= Waiting(t)' => q[i] = Data(t, Len(digest'[t]) + i)
          /\ i > Waiting(t)' => q[i].kind # "data"
          /\ q[i].kind = "finish" => i = Len(q)
    BY <2>2, <2>3, <2>4
  <2> QED
    BY <2>5, <2>6 DEF InOrder
<1>10. \A r \in Readers : /\ Looking(r)' <=> Looking(r)
                          /\ HasPipe(r)' <=> HasPipe(r)
                          /\ Working(r)' <=> Working(r)
                          /\ \A o : OwnedBy(o, r)' <=> OwnedBy(o, r)
  BY DEF Looking, HasPipe, Working, OwnedBy
<1>11. /\ \A o \in Pipes : \A u : o # p => (Holds(o, u)' <=> Holds(o, u))
       /\ \A u : Holds(p, u)' => u = t
  BY <1>1, <1>2, <1>5, <1>6 DEF Holds
<1>12. \A o \in Pipes : \A u : (Holds(o, u)' => Holds(o, u)) /\ (Carries(o, u)' => Carries(o, u))
  <2>1. \A o \in Pipes : \A u : Holds(o, u)' => Holds(o, u)
    BY <1>1, <1>11
  <2> QED
    BY <1>10, <2>1 DEF Carries
<1>13. \A u \in Tasks : Carries(p, u) => u = t
  <2>1. \A u \in Tasks : Carries(p, u) => InOrder(old, u)
    BY DEF Order, PipesInOrder
  <2>2. \A u \in Tasks : InOrder(old, u) => u = t
    BY <1>7 DEF InOrder
  <2> QED
    BY <2>1, <2>2
<1>14. \A o \in Pipes : Finishing(o)' <=> Finishing(o)
  <2>1. \A o \in Pipes : o # p => (Finishing(o)' <=> Finishing(o))
    BY <1>2 DEF Finishing
  <2>2. Finishing(p)' => Finishing(p)
    BY <1>1, <1>2, <1>6 DEF Finishing
  <2>3. Finishing(p) => Finishing(p)'
    <3>1. SUFFICES ASSUME NEW i \in 1..Len(old), old[i].kind = "finish" PROVE Finishing(p)'
      BY DEF Finishing
    <3>2. i - 1 \in 1..Len(q) /\ (i - 1) + 1 = i
      BY <1>1, <3>1
    <3>3. q[i - 1].kind = "finish"
      BY <1>1, <3>1, <3>2
    <3> QED
      BY <1>2, <3>2, <3>3 DEF Finishing
  <2> QED
    BY <2>1, <2>2, <2>3
<1>15. \A o : Pooled(o)' <=> Pooled(o)
  BY DEF Pooled
<1>16. ReadersApart'
  BY <1>10 DEF Order, ReadersApart
<1>17. TasksFollowPipes'
  <2>1. \A u \in Tasks : state[u] = "todo" => u # t
    BY <1>1
  <2>2. \A r \in Readers : Looking(r) => reader[r].task # t /\ reader[r].task \in Tasks
    BY <1>1, ReaderFacts DEF Order, TasksFollowPipes, Working
  <2>3. \A u \in Tasks : u # t => digest'[u] = digest[u]
    BY <1>8
  <2> QED
    BY <1>10, <1>12, <2>1, <2>2, <2>3 DEF Order, TasksFollowPipes
<1>18. PipesApart'
  <2>1. \A o \in Pipes : hashpipe[o] = <<>> => o # p /\ hashpipe'[o] = <<>>
    BY <1>2
  <2>2. \A o \in 1..created : o \in Pipes
    BY CreatedPipes
  <2> QED
    BY <1>10, <1>14, <1>15, <2>1, <2>2 DEF Order, PipesApart
<1>19. PipesInOrder'
  <2>1. \A o \in Pipes, u \in Tasks : Carries(o, u)' => InOrder(hashpipe[o], u)'
    <3>1. \A u \in Tasks : Carries(p, u)' => InOrder(hashpipe[p], u)'
      <4>1. \A u \in Tasks : Carries(p, u)' => u = t
        BY <1>12, <1>13
      <4>2. InOrder(hashpipe[p], t)'
        BY <1>2, <1>9, ZenonT(30) DEF InOrder
      <4> QED
        BY <4>1, <4>2
    <3>2. ASSUME NEW o \in Pipes, NEW u \in Tasks, Carries(o, u)', o # p
          PROVE  InOrder(hashpipe[o], u)'
      <4>1. Carries(o, u) /\ u # t
        BY <1>1, <1>12, <3>2 DEF Order, TasksFollowPipes
      <4>2. InOrder(hashpipe[o], u) /\ hashpipe'[o] = hashpipe[o] /\ digest'[u] = digest[u]
        BY <1>2, <1>8, <3>2, <4>1 DEF Order, PipesInOrder
      <4> QED
        BY <4>2 DEF InOrder, Waiting
    <3> QED
      BY <3>1, <3>2
  <2>2. ASSUME NEW o \in Pipes, NEW r \in Readers, OwnedBy(o, r)', reader'[r].pc = "read"
        PROVE  \A i \in 1..Len(hashpipe'[o]) : hashpipe'[o][i].kind = "data"
    <3>1. \A i \in 1..Len(hashpipe[o]) : hashpipe[o][i].kind = "data"
      BY <1>10, <2>2 DEF Order, PipesInOrder
    <3> QED
      BY <1>1, <1>2, <1>6, <3>1
  <2> QED
    BY <2>1, <2>2 DEF PipesInOrder
<1>20. DigestsInOrder'
  <2>1. \A i \in 1..d + e : i \in 1..d \/ i \in d + 1..d + e
    BY <1>4, <1>8
  <2>2. \A i \in 1..d : digest[t][i] = i
    BY <1>3 DEF Order, DigestsInOrder
  <2>3. \A i \in 1..Len(digest'[t]) : digest'[t][i] = i
    BY <1>8, <2>1, <2>2
  <2>4. \A u \in Tasks : u # t => digest'[u] = digest[u]
    BY <1>8
  <2>5. \A u \in Tasks :
          /\ \A i \in 1..Len(digest[u]) : digest[u][i] = i
          /\ state[u] = "called" => Len(digest[u]) = sent[u]
          /\ complete[u] => sent[u] = Blocks[u]
    BY DEF Order, DigestsInOrder
  <2>6. \A u \in Tasks : \A i \in 1..Len(digest'[u]) : digest'[u][i] = i
    BY <2>3, <2>4, <2>5
  <2>7. \A u \in Tasks : /\ state[u] = "called" => Len(digest'[u]) = sent[u]
                         /\ complete[u] => sent[u] = Blocks[u]
    BY <1>1, <2>4, <2>5
  <2> QED
    BY <2>6, <2>7 DEF DigestsInOrder
<1> QED
  BY <1>8, <1>16, <1>17, <1>18, <1>19, <1>20 DEF Order

LEMMA TakeBuffer ==
  ASSUME HasherAssumption, TypeOK, Order, NEW p \in Pipes, HashData(p) \/ SkipEmpty(p)
  PROVE  Order' /\ digest' \in [Tasks -> Seq(Nat)] /\ hashpipe' \in [Pipes -> Seq(Buffers)]
<1>1. PICK old, q : old = hashpipe[p] /\ q = Tail(old)
  OBVIOUS
<1>2. old # <<>>
  BY <1>1 DEF HashData, SkipEmpty
<1>3. First(p) = old[1] /\ old[1].task \in Tasks /\ q \in Seq(Buffers)
  BY <1>1, <1>2, FirstOfPipe
<1>4. PICK t \in Tasks : t = old[1].task
  BY <1>3
<1>5. /\ old[1].kind # "finish" /\ hashpipe' = [hashpipe EXCEPT ![p] = q]
      /\ \/ old[1].kind = "data" /\ Hash(t, old[1].block)
         \/ old[1].kind # "data" /\ digest' = digest
      /\ UNCHANGED <<reader, hashpipe_pool, created, worker, sent, complete, state>>
  BY <1>1, <1>3, <1>4 DEF HashData, SkipEmpty, Hash, readerVars, poolVars
<1>6. Order' /\ digest' \in [Tasks -> Seq(Nat)]
  BY <1>1, <1>2, <1>4, <1>5, Taken
<1>7. hashpipe' \in [Pipes -> Seq(Buffers)]
  BY <1>3, <1>5 DEF TypeOK
<1> QED
  BY <1>6, <1>7

\* The finisher is the last buffer of its pipe, and all data is hashed by then.
LEMMA CallbackOrder ==
  ASSUME HasherAssumption, TypeOK, Order, NEW p \in Pipes, Callback(p)
  PROVE  /\ Order' /\ hashpipe' \in [Pipes -> Seq(Buffers)]
         /\ Len(hashpipe[p]) = 1 /\ Tail(hashpipe[p]) = <<>>
         /\ First(p).task \in Tasks /\ state[First(p).task] = "active"
<1>1. PICK old, q : old = hashpipe[p] /\ q = Tail(old)
  OBVIOUS
<1>2. old # <<>>
  BY <1>1 DEF Callback
<1>3. /\ First(p) = old[1] /\ old[1].task \in Tasks /\ q \in Seq(Buffers)
      /\ Holds(p, old[1].task) /\ Carries(p, old[1].task) /\ state[old[1].task] = "active"
      /\ InOrder(old, old[1].task) /\ Len(old) \in Nat \ {0} /\ Len(q) = Len(old) - 1
  BY <1>1, <1>2, FirstOfPipe
<1>4. PICK t \in Tasks : t = old[1].task
  BY <1>3
<1>5. /\ old[1].kind = "finish" /\ hashpipe' = [hashpipe EXCEPT ![p] = q]
      /\ state' = [state EXCEPT ![t] = "called"] /\ worker' = [worker EXCEPT ![p] = "called"]
      /\ UNCHANGED <<reader, hashpipe_pool, created, sent, digest, complete>>
  BY <1>1, <1>3, <1>4 DEF Callback, readerVars, poolVars
<1>6. 1 \in 1..Len(old)
  BY <1>3
<1>7. Len(old) = 1 /\ q = <<>>
  <2>1. 1 = Len(old)
    BY <1>3, <1>5, <1>6 DEF InOrder
  <2>2. Len(q) = 0
    <3>1. Len(q) = Len(old) - 1
      BY <1>3
    <3> QED
      BY <2>1, <3>1
  <2> QED
    BY <1>3, <2>1, <2>2, EmptySeq
<1>8. sent[t] = Len(digest[t])
  <2>1. ~(1 <= Waiting(t))
    <3>1. 1 <= Waiting(t) => old[1] = Data(t, Len(digest[t]) + 1)
      BY <1>3, <1>4, <1>6 DEF InOrder
    <3>2. Data(t, Len(digest[t]) + 1).kind = "data"
      BY DEF Data
    <3> QED
      BY <1>5, <3>1, <3>2
  <2>2. Waiting(t) \in 0..Len(old)
    BY <1>3, <1>4 DEF InOrder
  <2>3. Waiting(t) = 0
    BY <1>7, <2>1, <2>2
  <2>4. sent[t] - Len(digest[t]) = 0
    BY <2>3 DEF Waiting
  <2>5. PICK a, b : a = sent[t] /\ b = Len(digest[t])
    OBVIOUS
  <2>6. a \in Nat /\ b \in Nat /\ a - b = 0
    BY <2>4, <2>5, LenProperties DEF TypeOK
  <2>7. a = b
    BY <2>6
  <2> QED
    BY <2>5, <2>7
<1>9. /\ hashpipe'[p] = <<>> /\ worker'[p] = "called" /\ state'[t] = "called"
      /\ \A o \in Pipes : o # p => hashpipe'[o] = hashpipe[o] /\ worker'[o] = worker[o]
      /\ \A u \in Tasks : u # t => state'[u] = state[u]
  BY <1>5, <1>7 DEF TypeOK
<1>10. \A r \in Readers : /\ Looking(r)' <=> Looking(r)
                          /\ HasPipe(r)' <=> HasPipe(r)
                          /\ Working(r)' <=> Working(r)
                          /\ \A o : OwnedBy(o, r)' <=> OwnedBy(o, r)
  BY <1>5 DEF Looking, HasPipe, Working, OwnedBy
<1>11. Finishing(p) /\ \A r \in Readers : ~OwnedBy(p, r)
  <2>1. Finishing(p)
    BY <1>1, <1>5, <1>6 DEF Finishing
  <2> QED
    BY <2>1 DEF Order, PipesApart
<1>12. 1..Len(<<>>) = {}
  OBVIOUS
<1>13. /\ \A u : ~Holds(p, u)' /\ ~Carries(p, u)'
       /\ \A o \in Pipes : \A u : (Holds(o, u)' => Holds(o, u)) /\ (Carries(o, u)' => Carries(o, u))
       /\ \A o \in Pipes : o # p => (Finishing(o)' <=> Finishing(o))
  <2>1. \A u : ~Holds(p, u)'
    BY <1>9, <1>12 DEF Holds
  <2>2. \A o \in Pipes : \A u : Holds(o, u)' => Holds(o, u)
    BY <1>9, <2>1 DEF Holds
  <2>3. \A u : ~Carries(p, u)'
    BY <1>10, <1>11, <2>1 DEF Carries
  <2>4. \A o \in Pipes : \A u : Carries(o, u)' => Carries(o, u)
    BY <1>5, <1>10, <2>2 DEF Carries
  <2>5. \A o \in Pipes : o # p => (Finishing(o)' <=> Finishing(o))
    BY <1>9 DEF Finishing
  <2> QED
    BY <2>1, <2>2, <2>3, <2>4, <2>5
<1>14. \A r \in Readers : Working(r) => reader[r].task # t
  <2>1. \A r \in Readers : Looking(r) => reader[r].task # t
    BY <1>3, <1>4 DEF Order, TasksFollowPipes
  <2>2. \A r \in Readers : HasPipe(r) => reader[r].task # t
    <3>1. SUFFICES ASSUME NEW r \in Readers, HasPipe(r), reader[r].task = t PROVE FALSE
      OBVIOUS
    <3>2. reader[r].pipe \in Pipes /\ OwnedBy(reader[r].pipe, r) /\ Carries(reader[r].pipe, t)
      BY <3>1, PipeOfReader
    <3>3. reader[r].pipe = p
      BY <1>3, <1>4, <3>2 DEF Order, TasksFollowPipes
    <3> QED
      BY <1>11, <3>2, <3>3
  <2> QED
    BY <2>1, <2>2 DEF Working
<1>15. ReadersApart'
  <2>1. \A r \in Readers : Working(r) => reader[r].task \in Tasks
    BY ReaderFacts
  <2> QED
    BY <1>5, <1>9, <1>10, <1>14, <2>1 DEF Order, ReadersApart
<1>16. TasksFollowPipes'
  <2>1. \A o \in Pipes, u \in Tasks : Holds(o, u)' => Holds(o, u) /\ u # t
    <3>1. \A o \in Pipes : Holds(o, t) => o = p
      BY <1>3, <1>4 DEF Order, TasksFollowPipes, Carries
    <3> QED
      BY <1>13, <3>1
  <2> QED
    BY <1>5, <1>9, <1>10, <1>13, <2>1 DEF Order, TasksFollowPipes
<1>17. PipesApart'
  <2>1. \A o : Pooled(o)' <=> Pooled(o)
    BY <1>5 DEF Pooled
  <2>2. ~Pooled(p)
    BY <1>1, <1>2 DEF Order, PipesApart
  <2>3. ~(p > created)
    BY <1>1, <1>2 DEF Order, PipesApart
  <2>4. \A o \in Pipes : /\ worker'[o] = "called" => hashpipe'[o] = <<>>
                         /\ o > created => hashpipe'[o] = <<>> /\ worker'[o] = "idle"
                         /\ Pooled(o) => o <= created /\ hashpipe'[o] = <<>> /\ worker'[o] # "called"
    BY <1>9, <2>2, <2>3 DEF Order, PipesApart
  <2>5. \A o \in Pipes, r \in Readers :
          OwnedBy(o, r) => o <= created /\ ~Pooled(o) /\ ~Finishing(o)' /\ worker'[o] # "called"
    BY <1>9, <1>11, <1>13 DEF Order, PipesApart
  <2>6. \A o \in 1..created : \/ Pooled(o) \/ Finishing(o)' \/ worker'[o] = "called"
                              \/ \E r \in Readers : OwnedBy(o, r)
    <3>1. \A o \in 1..created : o \in Pipes
      BY CreatedPipes
    <3> QED
      BY <1>9, <1>13, <3>1 DEF Order, PipesApart
  <2>7. \A r \in Readers : HasPipe(r)' => reader'[r].pipe \in Pipes
    BY <1>5, <1>10 DEF Order, PipesApart
  <2>8. \A i, j \in 1..Len(hashpipe_pool) : hashpipe_pool[i] = hashpipe_pool[j] => i = j
    BY DEF Order, PipesApart
  <2> QED
    BY <1>5, <1>10, <2>1, <2>4, <2>5, <2>6, <2>7, <2>8 DEF PipesApart
<1>18. PipesInOrder'
  <2>1. ASSUME NEW o \in Pipes, NEW u \in Tasks, Carries(o, u)'
        PROVE  InOrder(hashpipe[o], u)'
    <3>1. o # p /\ Carries(o, u)
      BY <1>13, <2>1
    <3>2. InOrder(hashpipe[o], u) /\ hashpipe'[o] = hashpipe[o]
      BY <1>9, <3>1 DEF Order, PipesInOrder
    <3> QED
      BY <1>5, <3>2 DEF InOrder, Waiting
  <2>2. ASSUME NEW o \in Pipes, NEW r \in Readers, OwnedBy(o, r)', reader'[r].pc = "read"
        PROVE  \A i \in 1..Len(hashpipe'[o]) : hashpipe'[o][i].kind = "data"
    BY <1>5, <1>9, <1>10, <1>11, <2>2 DEF Order, PipesInOrder
  <2> QED
    BY <2>1, <2>2 DEF PipesInOrder
<1>19. DigestsInOrder'
  BY <1>5, <1>8, <1>9 DEF Order, DigestsInOrder
<1>20. hashpipe' \in [Pipes -> Seq(Buffers)]
  BY <1>3, <1>5 DEF TypeOK
<1>21. Order'
  BY <1>15, <1>16, <1>17, <1>18, <1>19 DEF Order
<1>22. Len(hashpipe[p]) = 1 /\ Tail(hashpipe[p]) = <<>>
  BY <1>1, <1>7
<1> QED
  BY <1>3, <1>20, <1>21, <1>22

LEMMA RecycleOrder ==
  ASSUME HasherAssumption, TypeOK, Order, NEW p \in Pipes, Recycle(p)
  PROVE  Order' /\ hashpipe_pool' \in Seq(Pipes)
<1>1. /\ worker[p] = "called" /\ worker' = [worker EXCEPT ![p] = "recycled"]
      /\ hashpipe_pool' = Append(hashpipe_pool, p)
      /\ UNCHANGED <<reader, created, hashpipe, sent, digest, complete, state>>
  BY DEF Recycle, readerVars
<1>2. PICK pool, l : pool = hashpipe_pool /\ l = Len(pool)
  OBVIOUS
<1>3. /\ pool \in Seq(Pipes) /\ l \in Nat /\ hashpipe_pool' \in Seq(Pipes)
      /\ Len(hashpipe_pool') = l + 1 /\ hashpipe_pool'[l + 1] = p
      /\ \A i \in 1..l : hashpipe_pool'[i] = pool[i]
  <2>1. pool \in Seq(Pipes)
    BY <1>2 DEF TypeOK
  <2>2. /\ Append(pool, p) \in Seq(Pipes) /\ Len(Append(pool, p)) = l + 1
        /\ Append(pool, p)[l + 1] = p /\ l \in Nat
        /\ \A i \in 1..l : Append(pool, p)[i] = pool[i]
    BY <1>2, <2>1, AppendProperties, LenProperties
  <2> QED
    BY <1>1, <1>2, <2>1, <2>2
<1>4. \A i \in 1..l + 1 : i \in 1..l \/ i = l + 1
  BY <1>3
<1>5. \A i \in 1..l : i \in 1..l + 1
  BY <1>3
<1>6. l + 1 \in 1..l + 1
  BY <1>3
<1>7. \A q : Pooled(q)' <=> Pooled(q) \/ q = p
  BY <1>2, <1>3, <1>4, <1>5, <1>6 DEF Pooled
<1>8. ~Pooled(p) /\ hashpipe[p] = <<>> /\ ~(p > created) /\ \A r \in Readers : ~OwnedBy(p, r)
  BY <1>1 DEF Order, PipesApart
<1>9. worker'[p] = "recycled" /\ \A q \in Pipes : q # p => worker'[q] = worker[q]
  BY <1>1 DEF TypeOK
<1>10. \A r \in Readers : /\ Looking(r)' <=> Looking(r)
                          /\ HasPipe(r)' <=> HasPipe(r)
                          /\ Working(r)' <=> Working(r)
                          /\ \A o : OwnedBy(o, r)' <=> OwnedBy(o, r)
  BY <1>1 DEF Looking, HasPipe, Working, OwnedBy
<1>11. /\ \A q, u : (Holds(q, u)' <=> Holds(q, u)) /\ (Carries(q, u)' <=> Carries(q, u))
       /\ \A q : Finishing(q)' <=> Finishing(q)
  BY <1>1, <1>10 DEF Holds, Carries, Finishing
<1>12. ReadersApart' /\ TasksFollowPipes'
  BY <1>1, <1>10, <1>11 DEF Order, ReadersApart, TasksFollowPipes
<1>13. PipesApart'
  <2>1. \A i, j \in 1..l + 1 : hashpipe_pool'[i] = hashpipe_pool'[j] => i = j
    <3>1. \A i, j \in 1..l : pool[i] = pool[j] => i = j
      BY <1>2 DEF Order, PipesApart
    <3>2. \A i \in 1..l : pool[i] # p
      BY <1>2, <1>8 DEF Pooled
    <3> QED
      BY <1>3, <1>4, <3>1, <3>2
  <2>2. p <= created
    BY <1>8, CreatedPipes, Sizes
  <2>3. \A q \in Pipes : Pooled(q)' => q <= created /\ hashpipe[q] = <<>> /\ worker'[q] # "called"
    BY <1>7, <1>8, <1>9, <2>2 DEF Order, PipesApart
  <2>4. \A q \in Pipes : /\ worker'[q] = "called" => hashpipe[q] = <<>>
                         /\ q > created => hashpipe[q] = <<>> /\ worker'[q] = "idle"
    BY <1>8, <1>9 DEF Order, PipesApart
  <2>5. \A q \in Pipes, r \in Readers :
          OwnedBy(q, r) => q <= created /\ ~Pooled(q)' /\ ~Finishing(q) /\ worker'[q] # "called"
    BY <1>7, <1>8, <1>9 DEF Order, PipesApart
  <2>6. \A q \in 1..created : \/ Pooled(q)' \/ Finishing(q) \/ worker'[q] = "called"
                              \/ \E r \in Readers : OwnedBy(q, r)
    <3>1. \A o \in 1..created : o \in Pipes
      BY CreatedPipes
    <3> QED
      BY <1>7, <1>9, <3>1 DEF Order, PipesApart
  <2>7. \A r \in Readers : HasPipe(r)' => reader'[r].pipe \in Pipes
    BY <1>1, <1>10 DEF Order, PipesApart
  <2> QED
    BY <1>1, <1>3, <1>10, <1>11, <2>1, <2>3, <2>4, <2>5, <2>6, <2>7 DEF PipesApart
<1>14. PipesInOrder'
  <2>1. \A q \in Pipes, u \in Tasks : InOrder(hashpipe[q], u)' <=> InOrder(hashpipe[q], u)
    BY <1>1 DEF InOrder, Waiting
  <2> QED
    BY <1>1, <1>10, <1>11, <2>1 DEF Order, PipesInOrder
<1>15. DigestsInOrder'
  BY <1>1 DEF Order, DigestsInOrder
<1> QED
  BY <1>3, <1>12, <1>13, <1>14, <1>15 DEF Order

\* Steps that only end the hasher, and stuttering.
LEMMA NothingMoves ==
  ASSUME Order, UNCHANGED <<reader, hashpipe_pool, created, hashpipe, worker, sent, digest, complete, state>>
  PROVE  Order'
BY DEF Order, ReadersApart, TasksFollowPipes, PipesApart, PipesInOrder, DigestsInOrder, Working,
       Looking, HasPipe, OwnedBy, Pooled, Holds, Finishing, Carries, InOrder, Waiting

-----------------------------------------------------------------------------
(* What is counted. *)

\* Steps by which a reader keeps what it has.
OtherSteps(r) == NoPipe(r) \/ CheckLimit(r) \/ AcquireBuffer(r) \/ ReadFails(r)

LEMMA GoesOnOrder ==
  ASSUME HasherAssumption, TypeOK, Order, NEW r \in Readers, OtherSteps(r)
  PROVE  Order'
<1>1. reader[r] \in Busy /\ Preadv \in Nat
  BY ReaderFacts, Sizes DEF OtherSteps, NoPipe, CheckLimit, AcquireBuffer, ReadFails, HasBatch,
     Working, Looking, HasPipe
<1>2. UNCHANGED <<hashpipe_pool, created, hashpipe, worker, sent, digest, complete, state>>
  BY DEF OtherSteps, NoPipe, CheckLimit, AcquireBuffer, ReadFails, poolVars
<1>3. Looking(r) => reader[r].bufs = 0
  BY DEF Order, TasksFollowPipes
<1>4. CASE NoPipe(r)
  <2>1. PICK x : x = [reader[r] EXCEPT !.pc = "limit"]
    OBVIOUS
  <2>2. x \in Busy /\ x.task = reader[r].task /\ x.pipe = reader[r].pipe /\ x.pc = "limit" /\ x.bufs = reader[r].bufs
    BY <1>1, <2>1 DEF Busy
  <2>3. reader' = [reader EXCEPT ![r] = x] /\ Looking(r)
    BY <1>4, <2>1 DEF NoPipe, Looking
  <2> QED
    BY <1>2, <1>3, <2>2, <2>3, ReaderGoesOn
<1>5. CASE CheckLimit(r)
  <2>1. PICK pc \in {"create", "await"} : pc = IF unalloc_hashpipes > 0 THEN "create" ELSE "await"
    OBVIOUS
  <2>2. PICK x : x = [reader[r] EXCEPT !.pc = pc]
    OBVIOUS
  <2>3. x \in Busy /\ x.task = reader[r].task /\ x.pipe = reader[r].pipe /\ x.pc = pc /\ x.bufs = reader[r].bufs
    BY <1>1, <2>2 DEF Busy
  <2>4. reader' = [reader EXCEPT ![r] = x] /\ Looking(r)
    BY <1>5, <2>1, <2>2 DEF CheckLimit, Looking
  <2> QED
    BY <1>2, <1>3, <2>1, <2>3, <2>4, ReaderGoesOn
<1>6. CASE AcquireBuffer(r)
  <2>1. PICK x : x = [reader[r] EXCEPT !.bufs = @ + 1]
    OBVIOUS
  <2>2. x \in Busy /\ x.task = reader[r].task /\ x.pipe = reader[r].pipe /\ x.pc = "read"
    <3>1. reader[r].bufs + 1 <= Preadv
      <4>1. Blocks[reader[r].task] \in Nat \ {0}
        BY <1>1 DEF HasherAssumption, Busy
      <4> QED
        BY <1>1, <1>6, <4>1, Sizes DEF AcquireBuffer, BuffersWanted, Batch, Busy, HasherAssumption
    <3> QED
      BY <1>1, <1>6, <2>1, <3>1 DEF Busy, AcquireBuffer
  <2>3. reader' = [reader EXCEPT ![r] = x] /\ reader[r].pc = "read"
    BY <1>6, <2>1 DEF AcquireBuffer
  <2> QED
    BY <1>2, <2>2, <2>3, ReaderGoesOn
<1>7. CASE ReadFails(r)
  <2>1. PICK x : x = Reading("finish", reader[r].task, reader[r].pipe, 0)
    OBVIOUS
  <2>2. x \in Busy /\ x.task = reader[r].task /\ x.pipe = reader[r].pipe /\ x.pc = "finish" /\ x.bufs = 0
    BY <1>1, <2>1 DEF Busy, Reading
  <2>3. reader' = [reader EXCEPT ![r] = x] /\ HasPipe(r)
    BY <1>7, <2>1 DEF ReadFails, HasBatch, HasPipe
  <2> QED
    BY <1>2, <2>2, <2>3, ReaderGoesOn
<1> QED
  BY <1>4, <1>5, <1>6, <1>7 DEF OtherSteps

LEMMA OrderKept ==
  ASSUME HasherAssumption, TypeOK, Order, PipesCounted, Next \/ UNCHANGED vars
  PROVE  Order'
<1>1. ASSUME NEW r \in Readers, ReaderStep(r) PROVE Order'
  BY <1>1, NewTaskOrder, TakePipeOrder, CreatePipeOrder, GoesOnOrder, ReadOrder, LastBufferOrder
     DEF ReaderStep, OtherSteps
<1>2. ASSUME NEW p \in Pipes, PipeStep(p) PROVE Order'
  <2>1. FreeFinisher(p) \/ EndTask(p) => Order'
    <3>1. SUFFICES ASSUME FreeFinisher(p) \/ EndTask(p) PROVE Order'
      OBVIOUS
    <3>2. PICK x \in {"idle", "freed"} : worker' = [worker EXCEPT ![p] = x]
      BY <3>1 DEF FreeFinisher, EndTask
    <3>3. worker[p] \notin {"idle", "called"}
      BY <3>1 DEF FreeFinisher, EndTask
    <3>4. UNCHANGED <<reader, hashpipe_pool, created, hashpipe, sent, digest, complete, state>>
      BY <3>1 DEF FreeFinisher, EndTask, readerVars, poolVars
    <3> QED
      BY <3>2, <3>3, <3>4, ThreadGoesOn
  <2> QED
    BY <1>2, <2>1, TakeBuffer, CallbackOrder, RecycleOrder DEF PipeStep
<1>3. ASSUME Free \/ Freed \/ UNCHANGED vars PROVE Order'
  BY <1>3, NothingMoves DEF Free, Freed, vars, readerVars, poolVars
<1> QED
  BY <1>1, <1>2, <1>3 DEF Next

\* The steps of a reader, but for the one that acquires a buffer.
Moves(r) ==
  \/ \E t \in Tasks : NewTask(r, t)
  \/ TakePipe(r) \/ NoPipe(r) \/ CheckLimit(r) \/ CreatePipe(r)
  \/ Read(r) \/ ReadFails(r) \/ EndOfFile(r) \/ TaskFinish(r)

LEMMA ReaderMoves ==
  ASSUME HasherAssumption, TypeOK, Order, PipesCounted, NEW r \in Readers, Moves(r)
  PROVE  \E x \in {Idle} \cup Busy :
           /\ reader' = [reader EXCEPT ![r] = x] /\ InHand(x) = 0
           /\ x.pc = "create" => CheckLimit(r) /\ unalloc_hashpipes > 0
<1>1. \A pc \in {"pool", "read", "finish"}, t \in Tasks, p \in Pipes \cup {0} :
        /\ Reading(pc, t, p, 0) \in Busy /\ Reading(pc, t, p, 0).pc # "create"
        /\ InHand(Reading(pc, t, p, 0)) = 0
  BY Sizes DEF Reading, Busy, InHand
<1>2. Idle.pc = "idle" /\ InHand(Idle) = 0
  BY DEF Idle, InHand
<1>3. reader[r].pc # "idle" => reader[r] \in Busy /\ reader[r].task \in Tasks /\ reader[r].pipe \in Pipes \cup {0}
  BY ReaderFacts DEF Working, Busy
<1>4. ASSUME NEW t \in Tasks, NewTask(r, t)
      PROVE  \E pc \in {"pool", "read", "finish"}, u \in Tasks, p \in Pipes \cup {0} :
               reader' = [reader EXCEPT ![r] = Reading(pc, u, p, 0)]
  BY <1>4 DEF NewTask
<1>5. ASSUME TakePipe(r)
      PROVE  \E pc \in {"pool", "read", "finish"}, u \in Tasks, p \in Pipes \cup {0} :
               reader' = [reader EXCEPT ![r] = Reading(pc, u, p, 0)]
  <2>1. Head(hashpipe_pool) \in Pipes
    BY <1>5, HeadTailProperties DEF TakePipe, TypeOK
  <2> QED
    BY <1>3, <1>5, <2>1 DEF TakePipe
<1>6. ASSUME CreatePipe(r)
      PROVE  \E pc \in {"pool", "read", "finish"}, u \in Tasks, p \in Pipes \cup {0} :
               reader' = [reader EXCEPT ![r] = Reading(pc, u, p, 0)]
  <2>1. created + 1 \in Pipes
    BY <1>6, CreatePipeOrder
  <2> QED
    BY <1>3, <1>6, <2>1 DEF CreatePipe
<1>7. ASSUME Read(r)
      PROVE  \E pc \in {"pool", "read", "finish"}, u \in Tasks, p \in Pipes \cup {0} :
               reader' = [reader EXCEPT ![r] = Reading(pc, u, p, 0)]
  <2>1. PICK pc \in {"read", "finish"} :
          reader' = [reader EXCEPT ![r] = Reading(pc, reader[r].task, reader[r].pipe, 0)]
    BY <1>7 DEF Read
  <2> QED
    BY <1>3, <1>7, <2>1 DEF Read, HasBatch
<1>8. ASSUME ReadFails(r) \/ EndOfFile(r)
      PROVE  \E pc \in {"pool", "read", "finish"}, u \in Tasks, p \in Pipes \cup {0} :
               reader' = [reader EXCEPT ![r] = Reading(pc, u, p, 0)]
  BY <1>3, <1>8 DEF ReadFails, EndOfFile, HasBatch
<1>9. ASSUME TaskFinish(r) PROVE reader' = [reader EXCEPT ![r] = Idle]
  BY <1>9 DEF TaskFinish
<1>10. ASSUME NoPipe(r)
       PROVE  \E x \in Busy : reader' = [reader EXCEPT ![r] = x] /\ x.pc = "limit"
  <2>1. PICK x : x = [reader[r] EXCEPT !.pc = "limit"]
    OBVIOUS
  <2>2. x \in Busy /\ x.pc = "limit"
    BY <1>3, <1>10, <2>1 DEF NoPipe, Busy
  <2> QED
    BY <1>10, <2>1, <2>2 DEF NoPipe
<1>11. ASSUME CheckLimit(r)
       PROVE  \E x \in Busy : /\ reader' = [reader EXCEPT ![r] = x]
                              /\ x.pc = IF unalloc_hashpipes > 0 THEN "create" ELSE "await"
  <2>1. PICK pc \in {"create", "await"} : pc = IF unalloc_hashpipes > 0 THEN "create" ELSE "await"
    OBVIOUS
  <2>2. PICK x : x = [reader[r] EXCEPT !.pc = pc]
    OBVIOUS
  <2>3. x \in Busy /\ x.pc = pc
    BY <1>3, <1>11, <2>2 DEF CheckLimit, Busy
  <2> QED
    BY <1>11, <2>1, <2>2, <2>3 DEF CheckLimit
<1>12. (\E pc \in {"pool", "read", "finish"}, u \in Tasks, p \in Pipes \cup {0} :
          reader' = [reader EXCEPT ![r] = Reading(pc, u, p, 0)])
       => \E x \in {Idle} \cup Busy :
            /\ reader' = [reader EXCEPT ![r] = x] /\ InHand(x) = 0
            /\ x.pc = "create" => CheckLimit(r) /\ unalloc_hashpipes > 0
  BY <1>1
<1>13. TaskFinish(r) \/ NoPipe(r) \/ CheckLimit(r)
       => \E x \in {Idle} \cup Busy :
            /\ reader' = [reader EXCEPT ![r] = x] /\ InHand(x) = 0
            /\ x.pc = "create" => CheckLimit(r) /\ unalloc_hashpipes > 0
  BY <1>2, <1>9, <1>10, <1>11 DEF InHand
<1> QED
  BY <1>4, <1>5, <1>6, <1>7, <1>8, <1>12, <1>13 DEF Moves

LEMMA AcquireMoves ==
  ASSUME HasherAssumption, TypeOK, Order, NEW r \in Readers, AcquireBuffer(r)
  PROVE  \E x \in Busy : /\ reader' = [reader EXCEPT ![r] = x] /\ x.pc = "read"
                         /\ InHand(x) = InHand(reader[r]) + 1
<1>1. reader[r] \in Busy /\ Preadv \in Nat
  BY ReaderFacts, Sizes DEF AcquireBuffer, Working, Looking, HasPipe
<1>2. PICK x : x = [reader[r] EXCEPT !.bufs = @ + 1]
  OBVIOUS
<1>3. reader[r].bufs + 1 <= Preadv
  <2>1. Blocks[reader[r].task] \in Nat \ {0}
    BY <1>1 DEF HasherAssumption, Busy
  <2> QED
    BY <1>1, <2>1, Sizes DEF AcquireBuffer, BuffersWanted, Batch, Busy, HasherAssumption
<1>4. x \in Busy /\ x.pc = "read" /\ x.bufs = reader[r].bufs + 1
  BY <1>1, <1>2, <1>3 DEF Busy, AcquireBuffer
<1>5. reader' = [reader EXCEPT ![r] = x] /\ reader[r].pc = "read"
  BY <1>2 DEF AcquireBuffer
<1> QED
  BY <1>4, <1>5 DEF InHand

LEMMA PipesCountedKept ==
  ASSUME HasherAssumption, TypeOK, Order, PipesCounted, Next \/ UNCHANGED vars
  PROVE  /\ PipesCounted'
         /\ created' \in Pipes \cup {0} /\ unalloc_hashpipes' \in -Cardinality(Readers)..NumThreads
<1>1. /\ IsFiniteSet(Creating) /\ Cardinality(Creating) \in Nat
      /\ NumThreads \in Nat /\ Cardinality(Readers) \in Nat
      /\ created \in Nat /\ IsFiniteSet(Readers)
  BY CountsAreFinite, Sizes, CreatedPipes DEF HasherAssumption
<1>2. /\ unalloc_hashpipes = NumThreads - created
      /\ created + Cardinality(Creating) <= NumThreads + Cardinality(Readers)
  BY DEF PipesCounted
<1>3. \/ created' = created /\ unalloc_hashpipes' = unalloc_hashpipes /\ Creating' \subseteq Creating
      \/ /\ created' = created /\ unalloc_hashpipes' = unalloc_hashpipes /\ unalloc_hashpipes > 0
         /\ Creating' \subseteq Readers
      \/ /\ created' = created + 1 /\ unalloc_hashpipes' = unalloc_hashpipes - 1
         /\ \E r \in Creating : Creating' = Creating \ {r}
  <2>1. ASSUME NEW r \in Readers, CreatePipe(r)
        PROVE  /\ created' = created + 1 /\ unalloc_hashpipes' = unalloc_hashpipes - 1
               /\ \E s \in Creating : Creating' = Creating \ {s}
    <3>1. r \in Creating
      BY <2>1 DEF CreatePipe, Creating
    <3>2. reader'[r].pc = "read" /\ \A s \in Readers : s # r => reader'[s] = reader[s]
      BY <2>1 DEF CreatePipe, Reading, TypeOK
    <3>3. Creating' = Creating \ {r}
      BY <3>1, <3>2 DEF Creating
    <3> QED
      BY <2>1, <3>1, <3>3 DEF CreatePipe
  <2>2. ASSUME NEW r \in Readers, ReaderStep(r), ~CreatePipe(r)
        PROVE  /\ created' = created /\ unalloc_hashpipes' = unalloc_hashpipes
               /\ Creating' \subseteq Creating \/ (unalloc_hashpipes > 0 /\ Creating' \subseteq Readers)
    <3>1. UNCHANGED <<created, unalloc_hashpipes>>
      BY <2>2 DEF ReaderStep, NewTask, TakePipe, NoPipe, CheckLimit, AcquireBuffer, Read, ReadFails, EndOfFile,
         TaskFinish, poolVars
    <3>2. PICK x : reader' = [reader EXCEPT ![r] = x] /\ (x.pc = "create" => unalloc_hashpipes > 0)
      BY <2>2, ReaderMoves, AcquireMoves DEF ReaderStep, Moves
    <3>3. reader'[r] = x /\ \A s \in Readers : s # r => reader'[s] = reader[s]
      BY <3>2 DEF TypeOK
    <3>4. x.pc # "create" => Creating' \subseteq Creating
      BY <3>3 DEF Creating
    <3>5. Creating' \subseteq Readers
      BY DEF Creating
    <3> QED
      BY <3>1, <3>2, <3>4, <3>5
  <2>4. ASSUME \/ \E p \in Pipes : PipeStep(p)
               \/ Free \/ Freed \/ UNCHANGED vars
        PROVE  created' = created /\ unalloc_hashpipes' = unalloc_hashpipes /\ Creating' \subseteq Creating
    <3>1. UNCHANGED <<reader, created, unalloc_hashpipes>>
      BY <2>4 DEF PipeStep, HashData, SkipEmpty, Callback, Recycle, FreeFinisher, EndTask, Free, Freed, vars,
         readerVars, poolVars
    <3> QED
      BY <3>1 DEF Creating
  <2> QED
    BY <2>1, <2>2, <2>4 DEF Next
<1>4. IsFiniteSet(Creating') /\ Cardinality(Creating') \in Nat /\ Cardinality(Creating') <= Cardinality(Readers)
  <2>1. Creating' \in SUBSET Readers
    BY DEF Creating
  <2> QED
    BY <1>1, <2>1, FS_Subset, FS_CardinalityType
<1>5. PipesCounted'
  <2>1. CASE created' = created /\ unalloc_hashpipes' = unalloc_hashpipes /\ Creating' \subseteq Creating
    <3>1. Cardinality(Creating') <= Cardinality(Creating)
      BY <1>1, <2>1, FS_Subset
    <3> QED
      BY <1>1, <1>2, <1>4, <2>1, <3>1 DEF PipesCounted
  <2>2. CASE created' = created /\ unalloc_hashpipes' = unalloc_hashpipes /\ unalloc_hashpipes > 0
    BY <1>1, <1>2, <1>4, <2>2 DEF PipesCounted
  <2>3. CASE /\ created' = created + 1 /\ unalloc_hashpipes' = unalloc_hashpipes - 1
             /\ \E r \in Creating : Creating' = Creating \ {r}
    <3>1. Cardinality(Creating') = Cardinality(Creating) - 1
      BY <1>1, <2>3, FS_RemoveElement
    <3> QED
      BY <1>1, <1>2, <1>4, <2>3, <3>1 DEF PipesCounted
  <2> QED
    BY <1>3, <2>1, <2>2, <2>3
<1>6. created' \in Nat
  BY <1>1, <1>3
<1>7. created' <= NumThreads + Cardinality(Readers) /\ unalloc_hashpipes' = NumThreads - created'
  BY <1>1, <1>4, <1>5, <1>6 DEF PipesCounted
<1>8. created' \in Pipes \cup {0}
  BY <1>1, <1>6, <1>7 DEF Pipes
<1>9. unalloc_hashpipes' \in -Cardinality(Readers)..NumThreads
  <2>1. PICK n, m, c, u : /\ n = NumThreads /\ m = Cardinality(Readers)
                          /\ c = created' /\ u = unalloc_hashpipes'
    OBVIOUS
  <2>2. n \in Nat /\ m \in Nat /\ c \in Nat /\ c <= n + m /\ u = n - c
    BY <1>1, <1>6, <1>7, <2>1
  <2>3. u \in -m..n
    BY <2>2
  <2> QED
    BY <2>1, <2>3
<1> QED
  BY <1>5, <1>8, <1>9

LEMMA TasksCountedKept ==
  ASSUME HasherAssumption, TypeOK, Order, TasksCounted, Next \/ UNCHANGED vars
  PROVE  TasksCounted' /\ active_tasks' \in 0..Cardinality(Tasks)
<1> DEFINE Still == active_tasks' = active_tasks /\ Active' = Active /\ Called' = Called /\ Ending' = Ending
           Starts == active_tasks' = active_tasks + 1 /\ Called' = Called /\ Ending' = Ending
                     /\ \E t \in Tasks \ Active : Active' = Active \cup {t}
           Calls == /\ active_tasks' = active_tasks
                    /\ \E t \in Active \ Called, p \in Pipes \ Ending :
                         /\ Active' = Active \ {t} /\ Called' = Called \cup {t}
                         /\ Ending' = Ending \cup {p}
           Ends == active_tasks' = active_tasks - 1 /\ Active' = Active /\ Called' = Called
                   /\ \E p \in Ending : Ending' = Ending \ {p}
<1>1. Still \/ Starts \/ Calls \/ Ends
  <2>1. ASSUME NEW r \in Readers, ReaderStep(r) PROVE Still \/ Starts
    <3>1. ASSUME NEW t \in Tasks, NewTask(r, t) PROVE Starts
      <4>1. /\ active_tasks' = active_tasks + 1 /\ state[t] = "todo" /\ worker' = worker
            /\ state'[t] = "active" /\ \A u \in Tasks : u # t => state'[u] = state[u]
        BY <3>1 DEF NewTask, TypeOK
      <4>2. t \in Tasks \ Active /\ Active' = Active \cup {t} /\ Called' = Called /\ Ending' = Ending
        BY <4>1 DEF Active, Called, Ending
      <4> QED
        BY <4>1, <4>2
    <3>2. ASSUME ReaderStep(r), \A t \in Tasks : ~NewTask(r, t) PROVE Still
      <4>1. UNCHANGED <<active_tasks, state, worker>>
        BY <3>2 DEF ReaderStep, TakePipe, NoPipe, CheckLimit, CreatePipe, AcquireBuffer, Read, ReadFails,
           EndOfFile, TaskFinish
      <4> QED
        BY <4>1 DEF Active, Called, Ending
    <3> QED
      BY <2>1, <3>1, <3>2
  <2>2. ASSUME NEW p \in Pipes, Callback(p) PROVE Calls
    <3>1. PICK t \in Tasks : t = First(p).task /\ state[t] = "active"
      BY <2>2, CallbackOrder
    <3>2. /\ worker[p] = "idle" /\ worker'[p] = "called" /\ \A q \in Pipes : q # p => worker'[q] = worker[q]
          /\ state'[t] = "called" /\ \A u \in Tasks : u # t => state'[u] = state[u]
          /\ active_tasks' = active_tasks
      BY <2>2, <3>1 DEF Callback, TypeOK
    <3>3. p \in Pipes \ Ending /\ Ending' = Ending \cup {p}
      BY <3>2 DEF Ending
    <3>4. t \in Active \ Called /\ Active' = Active \ {t} /\ Called' = Called \cup {t}
      BY <3>1, <3>2 DEF Active, Called
    <3> QED
      BY <3>2, <3>3, <3>4
  <2>3. ASSUME NEW p \in Pipes, EndTask(p) PROVE Ends
    <3>1. /\ worker[p] = "freed" /\ worker'[p] = "idle" /\ \A q \in Pipes : q # p => worker'[q] = worker[q]
          /\ state' = state /\ active_tasks' = active_tasks - 1
      BY <2>3 DEF EndTask, TypeOK
    <3>2. p \in Ending /\ Ending' = Ending \ {p} /\ Active' = Active /\ Called' = Called
      BY <3>1 DEF Ending, Active, Called
    <3> QED
      BY <3>1, <3>2
  <2>4. ASSUME NEW p \in Pipes, HashData(p) \/ SkipEmpty(p) \/ Recycle(p) \/ FreeFinisher(p) PROVE Still
    <3>1. /\ state' = state /\ active_tasks' = active_tasks
          /\ \A q \in Pipes : worker'[q] = "idle" <=> worker[q] = "idle"
      BY <2>4 DEF HashData, SkipEmpty, Recycle, FreeFinisher, TypeOK
    <3> QED
      BY <3>1 DEF Ending, Active, Called
  <2>5. ASSUME Free \/ Freed \/ UNCHANGED vars PROVE Still
    <3>1. UNCHANGED <<active_tasks, state, worker>>
      BY <2>5 DEF Free, Freed, vars
    <3> QED
      BY <3>1 DEF Active, Called, Ending
  <2> QED
    BY <2>1, <2>2, <2>3, <2>4, <2>5 DEF Next, PipeStep
<1>2. /\ IsFiniteSet(Active) /\ Cardinality(Active) \in Nat
      /\ IsFiniteSet(Called) /\ Cardinality(Called) \in Nat
      /\ IsFiniteSet(Ending) /\ Cardinality(Ending) \in Nat
      /\ IsFiniteSet(Tasks) /\ Cardinality(Tasks) \in Nat
  BY CountsAreFinite, Sizes DEF HasherAssumption
<1>3. active_tasks = Cardinality(Active) + Cardinality(Ending) /\ Cardinality(Ending) <= Cardinality(Called)
  BY DEF TasksCounted
<1>4. TasksCounted'
  <2>1. CASE Still
    BY <1>3, <2>1 DEF TasksCounted
  <2>2. CASE Starts
    <3>1. Cardinality(Active') = Cardinality(Active) + 1
      BY <1>2, <2>2, FS_AddElement
    <3>2. Called' = Called /\ Ending' = Ending /\ active_tasks' = active_tasks + 1
      BY <2>2
    <3> HIDE DEF Starts
    <3> QED
      BY <1>2, <1>3, <3>1, <3>2 DEF TasksCounted
  <2>3. CASE Calls
    <3>1. Cardinality(Active') = Cardinality(Active) - 1
      BY <1>2, <2>3, FS_RemoveElement
    <3>2. Cardinality(Called') = Cardinality(Called) + 1
      BY <1>2, <2>3, FS_AddElement
    <3>3. Cardinality(Ending') = Cardinality(Ending) + 1
      BY <1>2, <2>3, FS_AddElement
    <3> QED
      BY <1>2, <1>3, <2>3, <3>1, <3>2, <3>3 DEF TasksCounted
  <2>4. CASE Ends
    <3>1. Cardinality(Ending') = Cardinality(Ending) - 1
      BY <1>2, <2>4, FS_RemoveElement
    <3>2. Called' = Called /\ Active' = Active /\ active_tasks' = active_tasks - 1
      BY <2>4
    <3> HIDE DEF Ends
    <3> QED
      BY <1>2, <1>3, <3>1, <3>2 DEF TasksCounted
  <2> QED
    BY <1>1, <2>1, <2>2, <2>3, <2>4
<1> HIDE DEF Still, Starts, Calls, Ends
<1>5. /\ Cardinality(Active') \in Nat /\ Cardinality(Called') \in Nat /\ Cardinality(Ending') \in Nat
      /\ Cardinality(Active') + Cardinality(Called') <= Cardinality(Tasks)
  <2>1. Active' \in SUBSET Tasks /\ Called' \in SUBSET Tasks /\ Ending' \in SUBSET Pipes
    BY DEF Active, Called, Ending
  <2>2. Active' \cap Called' = {}
    BY DEF Active, Called
  <2>3. IsFiniteSet(Active') /\ IsFiniteSet(Called') /\ IsFiniteSet(Ending')
    BY <1>2, <2>1, Sizes, FS_Subset
  <2>4. Cardinality(Active' \cup Called') = Cardinality(Active') + Cardinality(Called') - Cardinality(Active' \cap Called')
    BY <2>3, FS_Union
  <2>5. Cardinality(Active' \cap Called') = 0
    BY <2>2, FS_EmptySet, Zenon
  <2>6. Active' \cup Called' \in SUBSET Tasks
    BY <2>1
  <2>7. Cardinality(Active' \cup Called') <= Cardinality(Tasks)
    BY <1>2, <2>6, FS_Subset
  <2>8. Cardinality(Active') \in Nat /\ Cardinality(Called') \in Nat /\ Cardinality(Ending') \in Nat
    BY <2>3, FS_CardinalityType
  <2> QED
    BY <2>4, <2>5, <2>7, <2>8
<1>6. active_tasks' = Cardinality(Active') + Cardinality(Ending') /\ Cardinality(Ending') <= Cardinality(Called')
  BY <1>4 DEF TasksCounted
<1>7. active_tasks' \in 0..Cardinality(Tasks)
  BY <1>2, <1>5, <1>6
<1> QED
  BY <1>4, <1>7

\* No step loses a buffer but those that put a buffer without data into a pipe
\* or take one from it.
Balanced ==
  /\ IsFiniteSet(Queued') /\ buf_sem' \in Nat
  /\ \/ buf_sem' + BuffersInUse' = buf_sem + BuffersInUse
     \/ use_buffered_read /\ buf_sem' + BuffersInUse' = buf_sem + BuffersInUse - 1
  /\ ~use_buffered_read /\ (\A p \in Pipes : \A i \in 1..Len(hashpipe[p]) : hashpipe[p][i].kind # "empty")
     => \A p \in Pipes : \A i \in 1..Len(hashpipe'[p]) : hashpipe'[p][i].kind # "empty"

LEMMA InUse ==
  ASSUME HasherAssumption, TypeOK, IsFiniteSet(Queued)
  PROVE  /\ Cardinality(Acquired) \in Nat /\ Cardinality(Queued) \in Nat /\ Cardinality(AtThread) \in Nat
         /\ BuffersInUse = Cardinality(Acquired) + Cardinality(Queued) + Cardinality(AtThread)
         /\ buf_sem \in Nat
BY CountsAreFinite, FS_CardinalityType, Sizes DEF BuffersInUse, TypeOK

\* Steps that only move a reader, with its buffers given back or one more taken.
LEMMA ReaderBalance ==
  ASSUME HasherAssumption, TypeOK, Order, IsFiniteSet(Queued), NEW r \in Readers, NEW x \in {Idle} \cup Busy,
         reader' = [reader EXCEPT ![r] = x], UNCHANGED <<hashpipe, worker>>,
         buf_sem' = buf_sem + (InHand(reader[r]) - InHand(x)), buf_sem' \in Nat
  PROVE  Balanced
<1>1. Queued' = Queued /\ AtThread' = AtThread
  BY DEF Queued, AtThread
<1>2. /\ InHand(x) \in Nat /\ InHand(reader[r]) \in Nat
      /\ Cardinality(Acquired') = Cardinality(Acquired) - InHand(reader[r]) + InHand(x)
  BY AcquiredMoves
<1>3. BuffersInUse' = Cardinality(Acquired') + Cardinality(Queued) + Cardinality(AtThread)
  BY <1>1 DEF BuffersInUse
<1>4. buf_sem' + BuffersInUse' = buf_sem + BuffersInUse
  BY <1>2, <1>3, InUse
<1> QED
  BY <1>1, <1>4 DEF Balanced

\* Steps that put n buffers into a pipe.
LEMMA SendBalance ==
  ASSUME HasherAssumption, TypeOK, Order, IsFiniteSet(Queued), NEW r \in Readers, NEW x \in {Idle} \cup Busy,
         reader' = [reader EXCEPT ![r] = x], UNCHANGED worker, NEW p \in Pipes, NEW n \in Nat, Grows(p, n),
         InHand(x) = 0, buf_sem' = buf_sem + (InHand(reader[r]) - n), buf_sem' \in Nat
  PROVE  Balanced
<1>1. AtThread' = AtThread
  BY DEF AtThread
<1>2. /\ InHand(x) \in Nat /\ InHand(reader[r]) \in Nat
      /\ Cardinality(Acquired') = Cardinality(Acquired) - InHand(reader[r]) + InHand(x)
  BY AcquiredMoves
<1>3. PICK q : /\ hashpipe' = [hashpipe EXCEPT ![p] = q]
               /\ Len(q) = Len(hashpipe[p]) + n
               /\ ~use_buffered_read /\ (\A i \in 1..Len(hashpipe[p]) : hashpipe[p][i].kind # "empty")
                  => \A i \in 1..Len(q) : q[i].kind # "empty"
  BY DEF Grows
<1>4. IsFiniteSet(Queued') /\ Cardinality(Queued') = Cardinality(Queued) + n
  BY <1>3, QueuedGrows
<1>5. BuffersInUse' = Cardinality(Acquired') + Cardinality(Queued') + Cardinality(AtThread)
  BY <1>1 DEF BuffersInUse
<1>6. Cardinality(Acquired') = Cardinality(Acquired) - InHand(reader[r])
  BY <1>2, InUse
<1>7. buf_sem' + BuffersInUse' = buf_sem + BuffersInUse
  BY <1>2, <1>4, <1>5, <1>6, InUse
<1>8. ASSUME ~use_buffered_read, \A o \in Pipes : \A i \in 1..Len(hashpipe[o]) : hashpipe[o][i].kind # "empty"
      PROVE  \A o \in Pipes : \A i \in 1..Len(hashpipe'[o]) : hashpipe'[o][i].kind # "empty"
  <2>1. hashpipe'[p] = q /\ \A o \in Pipes : o # p => hashpipe'[o] = hashpipe[o]
    BY <1>3 DEF TypeOK
  <2>2. \A i \in 1..Len(q) : q[i].kind # "empty"
    BY <1>3, <1>8
  <2> QED
    BY <1>8, <2>1, <2>2
<1> QED
  BY <1>4, <1>7, <1>8 DEF Balanced

\* Steps that take the first buffer out of a pipe: the thread keeps it or it is
\* free again, unless it is an empty one.
LEMMA TakeBalance ==
  ASSUME HasherAssumption, TypeOK, Order, IsFiniteSet(Queued), UNCHANGED reader, NEW p \in Pipes,
         hashpipe[p] # <<>>, NEW q, q = Tail(hashpipe[p]), hashpipe' = [hashpipe EXCEPT ![p] = q],
         buf_sem' \in Nat, Cardinality(AtThread') \in Nat,
         \/ buf_sem' + Cardinality(AtThread') = buf_sem + Cardinality(AtThread) + 1
         \/ use_buffered_read /\ buf_sem' + Cardinality(AtThread') = buf_sem + Cardinality(AtThread)
  PROVE  Balanced
<1>1. Acquired' = Acquired
  BY DEF Acquired
<1>2. PICK old : old = hashpipe[p]
  OBVIOUS
<1>3. /\ Len(old) \in Nat \ {0} /\ Len(q) = Len(old) - 1 /\ First(p) = old[1]
      /\ \A i \in 1..Len(q) : q[i] = old[i + 1]
  BY <1>2, FirstOfPipe
<1>4. IsFiniteSet(Queued') /\ Cardinality(Queued') = Cardinality(Queued) - 1
  <2>1. Len(hashpipe[p]) > 0 /\ Len(q) = Len(hashpipe[p]) - 1
    BY <1>2, <1>3
  <2> QED
    BY <2>1, QueuedShrinks
<1>5. BuffersInUse' = Cardinality(Acquired) + Cardinality(Queued') + Cardinality(AtThread')
  BY <1>1 DEF BuffersInUse
<1>6. /\ Cardinality(Acquired) \in Nat /\ Cardinality(Queued) \in Nat /\ Cardinality(AtThread) \in Nat
      /\ BuffersInUse = Cardinality(Acquired) + Cardinality(Queued) + Cardinality(AtThread)
      /\ buf_sem \in Nat
  BY InUse
<1>8. \A o \in Pipes : o # p => hashpipe'[o] = hashpipe[o]
  BY DEF TypeOK
<1>9. hashpipe'[p] = q
  BY DEF TypeOK
<1>10. ASSUME \A o \in Pipes : \A i \in 1..Len(hashpipe[o]) : hashpipe[o][i].kind # "empty"
       PROVE  \A o \in Pipes : \A i \in 1..Len(hashpipe'[o]) : hashpipe'[o][i].kind # "empty"
  <2>1. \A i \in 1..Len(q) : i + 1 \in 1..Len(old)
    BY <1>3
  <2>2. \A i \in 1..Len(q) : q[i].kind # "empty"
    BY <1>2, <1>3, <1>10, <2>1
  <2> QED
    BY <1>8, <1>9, <1>10, <2>2
<1>n. PICK a, k, t, u : /\ a = Cardinality(Acquired) /\ k = Cardinality(Queued)
                        /\ t = Cardinality(AtThread) /\ u = Cardinality(AtThread')
  OBVIOUS
<1>m. PICK b, c : b = buf_sem /\ c = buf_sem'
  OBVIOUS
<1>i. /\ a \in Nat /\ k \in Nat /\ t \in Nat /\ u \in Nat /\ b \in Nat /\ c \in Nat
      /\ BuffersInUse = a + k + t /\ BuffersInUse' = a + (k - 1) + u
  BY <1>4, <1>5, <1>6, <1>n, <1>m
<1>11. CASE buf_sem' + Cardinality(AtThread') = buf_sem + Cardinality(AtThread) + 1
  <2>1. buf_sem' + BuffersInUse' = buf_sem + BuffersInUse
    <3>1. c + u = b + t + 1
      BY <1>11, <1>n, <1>m
    <3>2. c + (a + (k - 1) + u) = b + (a + k + t)
      BY <1>i, <3>1
    <3> QED
      BY <1>i, <1>m, <3>2
  <2> QED
    BY <1>4, <1>10, <2>1 DEF Balanced
<1>12. CASE use_buffered_read /\ buf_sem' + Cardinality(AtThread') = buf_sem + Cardinality(AtThread)
  <2>1. buf_sem' + BuffersInUse' = buf_sem + BuffersInUse - 1
    <3>1. c + u = b + t
      BY <1>12, <1>n, <1>m
    <3>2. c + (a + (k - 1) + u) = b + (a + k + t) - 1
      BY <1>i, <3>1
    <3> QED
      BY <1>i, <1>m, <3>2
  <2> QED
    BY <1>4, <1>10, <1>12, <2>1 DEF Balanced
<1> QED
  BY <1>11, <1>12

\* Steps of a thread without its queue.
LEMMA ThreadBalance ==
  ASSUME HasherAssumption, TypeOK, Order, IsFiniteSet(Queued), UNCHANGED <<reader, hashpipe>>,
         NEW d \in {0, 1}, buf_sem' = buf_sem + d, Cardinality(AtThread') = Cardinality(AtThread) - d
  PROVE  Balanced
<1>1. Acquired' = Acquired /\ Queued' = Queued
  BY DEF Acquired, Queued
<1>2. BuffersInUse' = Cardinality(Acquired) + Cardinality(Queued) + Cardinality(AtThread')
  BY <1>1 DEF BuffersInUse
<1>3. buf_sem' + BuffersInUse' = buf_sem + BuffersInUse /\ buf_sem' \in Nat
  BY <1>2, InUse
<1> QED
  BY <1>1, <1>3 DEF Balanced

LEMMA Balance ==
  ASSUME HasherAssumption, TypeOK, Order, PipesCounted, BuffersCounted, Next \/ UNCHANGED vars
  PROVE  Balanced
<1>1. IsFiniteSet(Queued) /\ buf_sem \in Nat
  BY InUse DEF BuffersCounted
<1>2. ASSUME NEW r \in Readers, ReaderStep(r) PROVE Balanced
  <2>1. reader[r].pc # "idle" => /\ reader[r] \in Busy /\ reader[r].bufs \in Nat
                                /\ reader[r].task \in Tasks
    BY ReaderFacts DEF Working, Busy
  <2>2. InHand(reader[r]) \in Nat /\ (reader[r].pc # "read" => InHand(reader[r]) = 0)
        /\ (reader[r].pc = "read" => InHand(reader[r]) = reader[r].bufs)
    BY <2>1 DEF InHand
  <2>3. ASSUME Moves(r), buf_sem' = buf_sem + InHand(reader[r]), UNCHANGED <<hashpipe, worker>>
        PROVE  Balanced
    <3>1. PICK x \in {Idle} \cup Busy : reader' = [reader EXCEPT ![r] = x] /\ InHand(x) = 0
      BY <2>3, ReaderMoves
    <3>2. buf_sem' = buf_sem + (InHand(reader[r]) - InHand(x)) /\ buf_sem' \in Nat
      BY <1>1, <2>2, <2>3, <3>1
    <3> QED
      BY <1>1, <2>3, <3>1, <3>2, ReaderBalance
  <2>4. ASSUME Moves(r), UNCHANGED worker, NEW p \in Pipes, NEW n \in Nat, Grows(p, n),
               buf_sem' = buf_sem + (InHand(reader[r]) - n), buf_sem' \in Nat
        PROVE  Balanced
    <3>1. PICK x \in {Idle} \cup Busy : reader' = [reader EXCEPT ![r] = x] /\ InHand(x) = 0
      BY <2>4, ReaderMoves
    <3> QED
      BY <1>1, <2>4, <3>1, SendBalance
  <2>5. ASSUME (\E t \in Tasks : NewTask(r, t)) \/ TakePipe(r) \/ NoPipe(r) \/ CheckLimit(r) \/ CreatePipe(r)
        PROVE  Balanced
    <3>1. UNCHANGED <<hashpipe, worker, buf_sem>> /\ reader[r].pc # "read"
      BY <2>5 DEF NewTask, TakePipe, NoPipe, CheckLimit, CreatePipe
    <3>2. Moves(r)
      BY <2>5 DEF Moves
    <3>3. buf_sem' = buf_sem + InHand(reader[r])
      BY <1>1, <2>2, <3>1
    <3> QED
      BY <2>3, <3>1, <3>2, <3>3
  <2>6. ASSUME ReadFails(r) PROVE Balanced
    <3>1. UNCHANGED <<hashpipe, worker>> /\ reader[r].pc = "read" /\ buf_sem' = buf_sem + reader[r].bufs
      BY <2>6 DEF ReadFails, HasBatch
    <3>2. Moves(r)
      BY <2>6 DEF Moves
    <3> QED
      BY <2>2, <2>3, <3>1, <3>2
  <2>7. ASSUME AcquireBuffer(r) PROVE Balanced
    <3>1. PICK x \in Busy : reader' = [reader EXCEPT ![r] = x] /\ InHand(x) = InHand(reader[r]) + 1
      BY <2>7, AcquireMoves
    <3>2. UNCHANGED <<hashpipe, worker>> /\ buf_sem > 0 /\ buf_sem' = buf_sem - 1
      BY <2>7 DEF AcquireBuffer
    <3>3. buf_sem' = buf_sem + (InHand(reader[r]) - InHand(x)) /\ buf_sem' \in Nat
      BY <1>1, <2>2, <3>1, <3>2
    <3> QED
      BY <1>1, <3>1, <3>2, <3>3, ReaderBalance
  <2>8. ASSUME Read(r) PROVE Balanced
    <3>1. HasPipe(r) /\ reader[r].pc = "read" /\ UNCHANGED worker /\ Moves(r)
      BY <2>8 DEF Read, HasBatch, HasPipe, Moves
    <3>2. PICK n \in 0..reader[r].bufs :
            Grows(reader[r].pipe, n) /\ buf_sem' = buf_sem + (reader[r].bufs - n)
      BY <2>8, ReadOrder
    <3>3. n \in Nat /\ buf_sem' = buf_sem + (InHand(reader[r]) - n) /\ buf_sem' \in Nat
      BY <1>1, <2>1, <2>2, <3>1, <3>2
    <3>4. PICK p \in Pipes : p = reader[r].pipe
      BY <3>1, PipeOfReader
    <3> QED
      BY <2>4, <3>1, <3>2, <3>3, <3>4
  <2>9. ASSUME EndOfFile(r) PROVE Balanced
    <3>1. /\ HasPipe(r) /\ reader[r].pc = "read" /\ UNCHANGED <<worker, buf_sem>> /\ Moves(r)
          /\ reader[r].bufs = 1
      <4>1. Blocks[reader[r].task] \in Nat \ {0}
        BY <2>1, <2>9 DEF EndOfFile, HasBatch, HasherAssumption
      <4>2. BuffersWanted(reader[r].task) = 1
        BY <2>9, <4>1 DEF EndOfFile, BuffersWanted, Batch
      <4> QED
        BY <2>9, <4>2 DEF EndOfFile, HasBatch, HasPipe, Moves
    <3>2. Grows(reader[r].pipe, 1)
      BY <2>9, LastBufferOrder
    <3>3. buf_sem' = buf_sem + (InHand(reader[r]) - 1) /\ buf_sem' \in Nat
      BY <1>1, <2>2, <3>1
    <3>4. PICK p \in Pipes : p = reader[r].pipe
      BY <3>1, PipeOfReader
    <3> QED
      BY <2>4, <3>1, <3>2, <3>3, <3>4
  <2>10. ASSUME TaskFinish(r) PROVE Balanced
    <3>1. /\ HasPipe(r) /\ reader[r].pc # "read" /\ UNCHANGED worker /\ Moves(r)
          /\ buf_sem > 0 /\ buf_sem' = buf_sem - 1
      BY <2>10 DEF TaskFinish, HasPipe, Moves
    <3>2. Grows(reader[r].pipe, 1)
      BY <2>10, LastBufferOrder
    <3>3. buf_sem' = buf_sem + (InHand(reader[r]) - 1) /\ buf_sem' \in Nat
      BY <1>1, <2>2, <3>1
    <3>4. PICK p \in Pipes : p = reader[r].pipe
      BY <3>1, PipeOfReader
    <3> QED
      BY <2>4, <3>1, <3>2, <3>3, <3>4
  <2> QED
    BY <1>2, <2>5, <2>6, <2>7, <2>8, <2>9, <2>10 DEF ReaderStep
<1>3. IsFiniteSet(AtThread) /\ Cardinality(AtThread) \in Nat
  BY CountsAreFinite
<1>4. ASSUME NEW p \in Pipes, PipeStep(p) PROVE Balanced
  <2>1. PICK q : q = Tail(hashpipe[p])
    OBVIOUS
  <2>2. ASSUME HashData(p) PROVE Balanced
    <3>1. /\ hashpipe[p] # <<>> /\ hashpipe' = [hashpipe EXCEPT ![p] = q] /\ buf_sem' = buf_sem + 1
          /\ UNCHANGED <<reader, worker>>
      BY <2>1, <2>2 DEF HashData, readerVars
    <3>2. /\ Cardinality(AtThread') \in Nat /\ buf_sem' \in Nat
          /\ buf_sem' + Cardinality(AtThread') = buf_sem + Cardinality(AtThread) + 1
      <4>1. AtThread' = AtThread
        BY <3>1 DEF AtThread
      <4> QED
        BY <1>1, <1>3, <3>1, <4>1
    <3> QED
      BY <1>1, <2>1, <3>1, <3>2, TakeBalance
  <2>3. ASSUME SkipEmpty(p) PROVE Balanced
    <3>1. /\ hashpipe[p] # <<>> /\ hashpipe' = [hashpipe EXCEPT ![p] = q] /\ buf_sem' = buf_sem
          /\ UNCHANGED <<reader, worker>> /\ First(p).kind = "empty"
      BY <2>1, <2>3 DEF SkipEmpty, readerVars
    <3>2. /\ Cardinality(AtThread') \in Nat /\ buf_sem' \in Nat
          /\ buf_sem' + Cardinality(AtThread') = buf_sem + Cardinality(AtThread)
      <4>1. AtThread' = AtThread
        BY <3>1 DEF AtThread
      <4> QED
        BY <1>1, <1>3, <3>1, <4>1
    <3>3. use_buffered_read
      <4>1. PICK old : old = hashpipe[p]
        OBVIOUS
      <4>2. First(p) = old[1] /\ Len(old) \in Nat \ {0}
        BY <3>1, <4>1, FirstOfPipe
      <4>3. 1 \in 1..Len(hashpipe[p]) /\ hashpipe[p][1].kind = "empty"
        BY <3>1, <4>1, <4>2
      <4> QED
        BY <4>3 DEF BuffersCounted
    <3> QED
      BY <1>1, <2>1, <3>1, <3>2, <3>3, TakeBalance
  <2>4. ASSUME Callback(p) PROVE Balanced
    <3>1. /\ hashpipe[p] # <<>> /\ hashpipe' = [hashpipe EXCEPT ![p] = q] /\ buf_sem' = buf_sem
          /\ UNCHANGED reader
          /\ worker[p] = "idle" /\ worker'[p] = "called" /\ \A o \in Pipes : o # p => worker'[o] = worker[o]
      BY <2>1, <2>4 DEF Callback, readerVars, TypeOK
    <3>2. p \notin AtThread /\ AtThread' = AtThread \cup {p}
      BY <3>1 DEF AtThread
    <3>3. /\ Cardinality(AtThread') \in Nat /\ buf_sem' \in Nat
          /\ buf_sem' + Cardinality(AtThread') = buf_sem + Cardinality(AtThread) + 1
      <4>1. Cardinality(AtThread') = Cardinality(AtThread) + 1
        BY <1>3, <3>2, FS_AddElement
      <4> QED
        BY <1>1, <1>3, <3>1, <4>1
    <3> QED
      BY <1>1, <2>1, <3>1, <3>3, TakeBalance
  <2>5. ASSUME Recycle(p) \/ EndTask(p) PROVE Balanced
    <3>1. /\ UNCHANGED <<reader, hashpipe, buf_sem>>
          /\ \A o \in Pipes : worker'[o] \in {"called", "recycled"} <=> worker[o] \in {"called", "recycled"}
      BY <2>5 DEF Recycle, EndTask, readerVars, TypeOK
    <3>2. Cardinality(AtThread') = Cardinality(AtThread) - 0 /\ buf_sem' = buf_sem + 0
      <4>1. AtThread' = AtThread
        BY <3>1 DEF AtThread
      <4> QED
        BY <1>1, <1>3, <3>1, <4>1
    <3> QED
      BY <1>1, <3>1, <3>2, ThreadBalance
  <2>6. ASSUME FreeFinisher(p) PROVE Balanced
    <3>1. /\ UNCHANGED <<reader, hashpipe>> /\ buf_sem' = buf_sem + 1
          /\ worker[p] = "recycled" /\ worker'[p] = "freed" /\ \A o \in Pipes : o # p => worker'[o] = worker[o]
      BY <2>6 DEF FreeFinisher, readerVars, TypeOK
    <3>2. p \in AtThread /\ AtThread' = AtThread \ {p}
      BY <3>1 DEF AtThread
    <3>3. Cardinality(AtThread') = Cardinality(AtThread) - 1
      BY <1>3, <3>2, FS_RemoveElement
    <3> QED
      BY <1>1, <3>1, <3>3, ThreadBalance
  <2> QED
    BY <1>4, <2>2, <2>3, <2>4, <2>5, <2>6 DEF PipeStep
<1>5. ASSUME Free \/ Freed \/ UNCHANGED vars PROVE Balanced
  <2>1. UNCHANGED <<reader, hashpipe, worker, buf_sem>>
    BY <1>5 DEF Free, Freed, vars, readerVars
  <2>2. Cardinality(AtThread') = Cardinality(AtThread) - 0 /\ buf_sem' = buf_sem + 0
    <3>1. AtThread' = AtThread
      BY <2>1 DEF AtThread
    <3> QED
      BY <1>1, <1>3, <2>1, <3>1
  <2> QED
    BY <1>1, <2>1, <2>2, ThreadBalance
<1> QED
  BY <1>2, <1>4, <1>5 DEF Next

LEMMA BuffersCountedKept ==
  ASSUME HasherAssumption, TypeOK, Order, PipesCounted, BuffersCounted, TypeOK', Next \/ UNCHANGED vars
  PROVE  BuffersCounted'
<1>1. Balanced
  BY Balance
<1>2. use_buffered_read' = use_buffered_read
  BY DEF Next, ReaderStep, PipeStep, NewTask, TakePipe, NoPipe, CheckLimit, CreatePipe, AcquireBuffer, Read,
     ReadFails, EndOfFile, TaskFinish, HashData, SkipEmpty, Callback, Recycle, FreeFinisher, EndTask, Free,
     Freed, vars, poolVars
<1>3. BuffersInUse \in Nat /\ buf_sem \in Nat /\ MaxBuffers \in Nat
  BY InUse, Sizes DEF BuffersCounted
<1> QED
  BY <1>1, <1>2, <1>3 DEF Balanced, BuffersCounted

-----------------------------------------------------------------------------
(* The invariant is kept. *)

LEMMA TypeKept ==
  ASSUME HasherAssumption, TypeOK, Order, PipesCounted, TasksCounted, BuffersCounted,
         Next \/ UNCHANGED vars
  PROVE  TypeOK'
<1>1. reader' \in [Readers -> {Idle} \cup Busy]
  <2>1. ASSUME NEW r \in Readers, ReaderStep(r)
        PROVE  \E x \in {Idle} \cup Busy : reader' = [reader EXCEPT ![r] = x]
    BY <2>1, ReaderMoves, AcquireMoves DEF ReaderStep, Moves
  <2>2. ASSUME (\E p \in Pipes : PipeStep(p)) \/ Free \/ Freed \/ UNCHANGED vars
        PROVE  reader' = reader
    BY <2>2 DEF PipeStep, HashData, SkipEmpty, Callback, Recycle, FreeFinisher, EndTask, Free, Freed, vars,
       readerVars
  <2> QED
    BY <2>1, <2>2 DEF Next, TypeOK
<1>2. active_tasks' \in 0..Cardinality(Tasks)
  BY TasksCountedKept
<1>3. created' \in Pipes \cup {0} /\ unalloc_hashpipes' \in -Cardinality(Readers)..NumThreads
  BY PipesCountedKept
<1>4. hashpipe_pool' \in Seq(Pipes)
  <2>1. ASSUME NEW r \in Readers, TakePipe(r) PROVE hashpipe_pool' \in Seq(Pipes)
    BY <2>1, HeadTailProperties DEF TakePipe, TypeOK
  <2>2. ASSUME NEW r \in Readers, ReaderStep(r), ~TakePipe(r) PROVE hashpipe_pool' = hashpipe_pool
    BY <2>2 DEF ReaderStep, NewTask, NoPipe, CheckLimit, CreatePipe, AcquireBuffer, Read, ReadFails, EndOfFile,
       TaskFinish, poolVars
  <2>3. ASSUME NEW p \in Pipes, PipeStep(p), ~Recycle(p) PROVE hashpipe_pool' = hashpipe_pool
    BY <2>3 DEF PipeStep, HashData, SkipEmpty, Callback, FreeFinisher, EndTask, poolVars
  <2>4. ASSUME Free \/ Freed \/ UNCHANGED vars PROVE hashpipe_pool' = hashpipe_pool
    BY <2>4 DEF Free, Freed, vars, poolVars
  <2> QED
    BY <2>1, <2>2, <2>3, <2>4, RecycleOrder DEF Next, TypeOK
<1>5. hashpipe' \in [Pipes -> Seq(Buffers)]
  <2>1. ASSUME NEW r \in Readers, ReaderStep(r), ~(Read(r) \/ EndOfFile(r) \/ TaskFinish(r))
        PROVE  hashpipe' = hashpipe
    BY <2>1 DEF ReaderStep, NewTask, TakePipe, NoPipe, CheckLimit, CreatePipe, AcquireBuffer, ReadFails
  <2>2. ASSUME NEW p \in Pipes, PipeStep(p), ~(HashData(p) \/ SkipEmpty(p) \/ Callback(p))
        PROVE  hashpipe' = hashpipe
    BY <2>2 DEF PipeStep, Recycle, FreeFinisher, EndTask
  <2>3. ASSUME Free \/ Freed \/ UNCHANGED vars PROVE hashpipe' = hashpipe
    BY <2>3 DEF Free, Freed, vars
  <2> QED
    BY <2>1, <2>2, <2>3, ReadOrder, LastBufferOrder, TakeBuffer, CallbackOrder DEF Next, TypeOK
<1>6. worker' \in [Pipes -> {"idle", "called", "recycled", "freed"}]
  <2>1. ASSUME NEW r \in Readers, ReaderStep(r) PROVE worker' = worker
    BY <2>1 DEF ReaderStep, NewTask, TakePipe, NoPipe, CheckLimit, CreatePipe, AcquireBuffer, Read, ReadFails,
       EndOfFile, TaskFinish
  <2>2. ASSUME NEW p \in Pipes, PipeStep(p)
        PROVE  worker' = worker \/ \E x \in {"idle", "called", "recycled", "freed"} : worker' = [worker EXCEPT ![p] = x]
    BY <2>2 DEF PipeStep, HashData, SkipEmpty, Callback, Recycle, FreeFinisher, EndTask
  <2>3. ASSUME Free \/ Freed \/ UNCHANGED vars PROVE worker' = worker
    BY <2>3 DEF Free, Freed, vars
  <2> QED
    BY <2>1, <2>2, <2>3 DEF Next, TypeOK
<1>7. buf_sem' \in 0..MaxBuffers
  <2>1. /\ IsFiniteSet(Queued') /\ buf_sem' \in Nat
        /\ buf_sem' + BuffersInUse' <= buf_sem + BuffersInUse
    BY Balance, InUse DEF Balanced, BuffersCounted
  <2>2. Acquired' \in SUBSET (Readers \X (1..Preadv)) /\ IsFiniteSet(Readers \X (1..Preadv))
    <3>1. IsFiniteSet(Readers) /\ IsFiniteSet(1..Preadv)
      BY FS_Interval DEF HasherAssumption
    <3> QED
      BY <3>1, FS_Product DEF Acquired
  <2>3. AtThread' \in SUBSET Pipes /\ IsFiniteSet(Pipes)
    BY Sizes DEF AtThread
  <2>4. IsFiniteSet(Acquired') /\ IsFiniteSet(AtThread')
    BY <2>2, <2>3, FS_Subset
  <2>5. /\ Cardinality(Acquired') \in Nat /\ Cardinality(AtThread') \in Nat
        /\ Cardinality(Queued') \in Nat
    BY <2>1, <2>4, FS_CardinalityType
  <2>6. BuffersInUse' \in Nat
    BY <2>5 DEF BuffersInUse
  <2>7. buf_sem + BuffersInUse <= MaxBuffers /\ MaxBuffers \in Nat /\ buf_sem \in Nat /\ BuffersInUse \in Nat
    BY InUse, Sizes DEF BuffersCounted
  <2>8. PICK b, c, u, v, m : /\ b = buf_sem /\ c = buf_sem' /\ u = BuffersInUse /\ v = BuffersInUse'
                             /\ m = MaxBuffers
    OBVIOUS
  <2>9. /\ b \in Nat /\ c \in Nat /\ u \in Nat /\ v \in Nat /\ m \in Nat
        /\ c + v <= b + u /\ b + u <= m
    BY <2>1, <2>6, <2>7, <2>8
  <2>10. c \in 0..m
    BY <2>9
  <2> QED
    BY <2>8, <2>10
<1>8. sent' \in [Tasks -> Nat] /\ complete' \in [Tasks -> BOOLEAN]
  <2>1. ASSUME NEW r \in Readers, ReaderStep(r), ~Read(r) PROVE sent' = sent /\ complete' = complete
    BY <2>1 DEF ReaderStep, NewTask, TakePipe, NoPipe, CheckLimit, CreatePipe, AcquireBuffer, ReadFails,
       EndOfFile, TaskFinish
  <2>2. ASSUME (\E p \in Pipes : PipeStep(p)) \/ Free \/ Freed \/ UNCHANGED vars
        PROVE  sent' = sent /\ complete' = complete
    BY <2>2 DEF PipeStep, HashData, SkipEmpty, Callback, Recycle, FreeFinisher, EndTask, Free, Freed, vars,
       readerVars
  <2> QED
    BY <2>1, <2>2, ReadOrder DEF Next, TypeOK
<1>9. digest' \in [Tasks -> Seq(Nat)]
  <2>1. ASSUME NEW r \in Readers, ReaderStep(r) PROVE digest' = digest
    BY <2>1 DEF ReaderStep, NewTask, TakePipe, NoPipe, CheckLimit, CreatePipe, AcquireBuffer, Read, ReadFails,
       EndOfFile, TaskFinish
  <2>2. ASSUME NEW p \in Pipes, PipeStep(p), ~(HashData(p) \/ SkipEmpty(p)) PROVE digest' = digest
    BY <2>2 DEF PipeStep, Callback, Recycle, FreeFinisher, EndTask
  <2>3. ASSUME Free \/ Freed \/ UNCHANGED vars PROVE digest' = digest
    BY <2>3 DEF Free, Freed, vars
  <2> QED
    BY <2>1, <2>2, <2>3, TakeBuffer DEF Next, TypeOK
<1>10. state' \in [Tasks -> {"todo", "active", "called"}]
  <2>1. ASSUME NEW r \in Readers, ReaderStep(r)
        PROVE  state' = state \/ \E t \in Tasks : state' = [state EXCEPT ![t] = "active"]
    BY <2>1 DEF ReaderStep, NewTask, TakePipe, NoPipe, CheckLimit, CreatePipe, AcquireBuffer, Read, ReadFails,
       EndOfFile, TaskFinish
  <2>2. ASSUME NEW p \in Pipes, PipeStep(p)
        PROVE  state' = state \/ \E t : state' = [state EXCEPT ![t] = "called"]
    BY <2>2 DEF PipeStep, HashData, SkipEmpty, Callback, Recycle, FreeFinisher, EndTask
  <2>3. ASSUME Free \/ Freed \/ UNCHANGED vars PROVE state' = state
    BY <2>3 DEF Free, Freed, vars
  <2> QED
    BY <2>1, <2>2, <2>3 DEF Next, TypeOK
<1>11. use_buffered_read' = use_buffered_read /\ (main' = main \/ main' = "freed")
  BY DEF Next, ReaderStep, PipeStep, NewTask, TakePipe, NoPipe, CheckLimit, CreatePipe, AcquireBuffer, Read,
     ReadFails, EndOfFile, TaskFinish, HashData, SkipEmpty, Callback, Recycle, FreeFinisher, EndTask, Free,
     Freed, vars, poolVars
<1>12. use_buffered_read \in BOOLEAN /\ main \in {"running", "freed"}
  BY DEF TypeOK
<1> QED
  BY <1>1, <1>2, <1>3, <1>4, <1>5, <1>6, <1>7, <1>8, <1>9, <1>10, <1>11, <1>12 DEF TypeOK

\* When every task is called back and none is counted, nothing is left to do.
LEMMA NothingToDo ==
  ASSUME HasherAssumption, TypeOK, Order, TasksCounted,
         \A t \in Tasks : state[t] = "called", active_tasks = 0
  PROVE  /\ \A r \in Readers : reader[r].pc = "idle"
         /\ \A p \in Pipes : hashpipe[p] = <<>> /\ worker[p] = "idle"
<1>1. \A r \in Readers : reader[r].pc = "idle"
  <2>1. \A r \in Readers : Working(r) => FALSE
    BY ReaderFacts DEF Order, ReadersApart
  <2> QED
    BY <2>1, ReaderFacts
<1>2. \A p \in Pipes : worker[p] = "idle"
  <2>1. IsFiniteSet(Ending) /\ Cardinality(Ending) \in Nat /\ Cardinality(Active) \in Nat
    BY CountsAreFinite
  <2>2. Cardinality(Ending) = 0
    BY <2>1 DEF TasksCounted
  <2>3. Ending = {}
    BY <2>1, <2>2, FS_EmptySet
  <2> QED
    BY <2>3 DEF Ending
<1>3. ASSUME NEW p \in Pipes PROVE hashpipe[p] = <<>>
  <2>1. SUFFICES ASSUME hashpipe[p] # <<>> PROVE FALSE
    OBVIOUS
  <2>2. PICK old : old = hashpipe[p]
    OBVIOUS
  <2>3. old[1].task \in Tasks /\ state[old[1].task] = "active"
    BY <2>1, <2>2, FirstOfPipe
  <2> QED
    BY <2>3
<1> QED
  BY <1>1, <1>2, <1>3

LEMMA QuietKept ==
  ASSUME HasherAssumption, TypeOK, Order, TasksCounted, FreeIsQuiet, Next \/ UNCHANGED vars
  PROVE  FreeIsQuiet'
<1>1. CASE main = "freed"
  <2>1. /\ \A t \in Tasks : state[t] = "called"
        /\ active_tasks = 0
    BY <1>1 DEF FreeIsQuiet
  <2>2. /\ \A r \in Readers : reader[r].pc = "idle"
        /\ \A p \in Pipes : hashpipe[p] = <<>> /\ worker[p] = "idle"
    BY <2>1, NothingToDo
  <2>3. \A r \in Readers : ~ReaderStep(r)
    BY <2>1, <2>2 DEF ReaderStep, NewTask, TakePipe, NoPipe, CheckLimit, CreatePipe, AcquireBuffer, Read,
       ReadFails, EndOfFile, TaskFinish, HasBatch
  <2>4. \A p \in Pipes : ~PipeStep(p)
    BY <2>2 DEF PipeStep, HashData, SkipEmpty, Callback, Recycle, FreeFinisher, EndTask
  <2>5. UNCHANGED <<state, active_tasks>>
    BY <2>3, <2>4 DEF Next, Free, Freed, vars
  <2> QED
    BY <2>1, <2>5 DEF FreeIsQuiet
<1>2. CASE main # "freed"
  <2>1. ASSUME Free PROVE FreeIsQuiet'
    BY <2>1 DEF Free, FreeIsQuiet
  <2>2. ASSUME ~Free PROVE main' = main
    BY <2>2 DEF Next, ReaderStep, PipeStep, NewTask, TakePipe, NoPipe, CheckLimit, CreatePipe, AcquireBuffer,
       Read, ReadFails, EndOfFile, TaskFinish, HashData, SkipEmpty, Callback, Recycle, FreeFinisher, EndTask,
       Freed, vars
  <2> QED
    BY <1>2, <2>1, <2>2 DEF FreeIsQuiet
<1> QED
  BY <1>1, <1>2

LEMMA Initially ==
  ASSUME HasherAssumption, Init
  PROVE  IInv
<1>1. \A r \in Readers : reader[r] = Idle /\ reader[r].pc = "idle"
  BY DEF Init, Idle
<1>2. \A p \in Pipes : hashpipe[p] = <<>> /\ worker[p] = "idle"
  BY DEF Init
<1>3. 1..Len(<<>>) = {} /\ 1..0 = {}
  OBVIOUS
<1>4. \A t \in Tasks : sent[t] = 0 /\ digest[t] = <<>> /\ complete[t] = FALSE /\ state[t] = "todo"
  BY DEF Init
<1>5. TypeOK
  <2>1. <<>> \in Seq(Pipes) /\ <<>> \in Seq(Buffers) /\ <<>> \in Seq(Nat)
    OBVIOUS
  <2>2. 0 \in -Cardinality(Readers)..NumThreads /\ NumThreads \in -Cardinality(Readers)..NumThreads
    <3>1. PICK n, m : n = Cardinality(Readers) /\ m = NumThreads
      OBVIOUS
    <3>2. n \in Nat /\ m \in Nat
      BY <3>1, Sizes
    <3>3. 0 \in -n..m /\ m \in -n..m
      BY <3>2
    <3> QED
      BY <3>1, <3>3
  <2>3. 0 \in 0..Cardinality(Tasks) /\ MaxBuffers \in 0..MaxBuffers
    BY Sizes
  <2> QED
    BY <2>1, <2>2, <2>3 DEF Init, TypeOK
<1>6. \A r \in Readers : ~Working(r) /\ ~Looking(r) /\ ~HasPipe(r) /\ \A p : ~OwnedBy(p, r)
  BY <1>1 DEF Working, Looking, HasPipe, OwnedBy
<1>7. \A p \in Pipes : \A t : ~Holds(p, t) /\ ~Finishing(p) /\ ~Carries(p, t)
  BY <1>2, <1>3, <1>6 DEF Holds, Finishing, Carries
<1>8. created = 0 /\ hashpipe_pool = <<>> /\ \A p : ~Pooled(p)
  BY <1>3 DEF Init, Pooled
<1>9. ReadersApart /\ TasksFollowPipes
  BY <1>1, <1>4, <1>6, <1>7 DEF ReadersApart, TasksFollowPipes
<1>10. PipesApart
  BY <1>2, <1>3, <1>6, <1>8 DEF PipesApart
<1>11. PipesInOrder
  BY <1>6, <1>7 DEF PipesInOrder
<1>12. DigestsInOrder
  BY <1>3, <1>4 DEF DigestsInOrder
<1>13. Cardinality({}) = 0 /\ IsFiniteSet({})
  BY FS_EmptySet
<1>14. PipesCounted
  <2>1. Creating = {}
    BY <1>1 DEF Creating
  <2> QED
    BY <1>8, <1>13, <2>1, Sizes DEF PipesCounted, Init
<1>15. TasksCounted
  <2>1. Active = {} /\ Called = {} /\ Ending = {}
    BY <1>2, <1>4 DEF Active, Called, Ending
  <2> QED
    BY <1>13, <2>1 DEF TasksCounted, Init
<1>16. BuffersCounted
  <2>1. Acquired = {} /\ AtThread = {}
    BY <1>1, <1>2 DEF Acquired, AtThread
  <2>2. Queued = {}
    BY <1>2, <1>3 DEF Queued
  <2>3. BuffersInUse = 0
    BY <1>13, <2>1, <2>2 DEF BuffersInUse
  <2>4. \A p \in Pipes : \A i \in 1..Len(hashpipe[p]) : hashpipe[p][i].kind # "empty"
    BY <1>2, <1>3
  <2> QED
    BY <1>13, <2>2, <2>3, <2>4, Sizes DEF BuffersCounted, Init
<1>17. FreeIsQuiet
  BY DEF Init, FreeIsQuiet
<1> QED
  BY <1>5, <1>9, <1>10, <1>11, <1>12, <1>14, <1>15, <1>16, <1>17 DEF IInv, Order

LEMMA Inductive ==
  ASSUME HasherAssumption, IInv, [Next]_vars
  PROVE  IInv'
<1>1. TypeOK /\ Order /\ PipesCounted /\ TasksCounted /\ BuffersCounted /\ FreeIsQuiet
  BY DEF IInv
<1>2. Next \/ UNCHANGED vars
  OBVIOUS
<1>3. TypeOK'
  BY <1>1, <1>2, TypeKept
<1>4. Order'
  BY <1>1, <1>2, OrderKept
<1>5. PipesCounted' /\ TasksCounted'
  BY <1>1, <1>2, PipesCountedKept, TasksCountedKept
<1>6. BuffersCounted'
  BY <1>1, <1>2, <1>3, BuffersCountedKept
<1>7. FreeIsQuiet'
  BY <1>1, <1>2, QuietKept
<1> QED
  BY <1>3, <1>4, <1>5, <1>6, <1>7 DEF IInv

-----------------------------------------------------------------------------
(* Theorems *)

\* The inductive invariant holds in every reachable state.
THEOREM Invariance == ASSUME HasherAssumption PROVE Spec => []IInv
<1>1. Init => IInv
  BY Initially
<1>2. IInv /\ [Next]_vars => IInv'
  BY Inductive
<1> QED
  BY <1>1, <1>2, PTL DEF Spec

\* Every variable keeps its type; in particular the semaphore is never below zero,
\* no pipe is created beyond the threads that may pass the limit at once, and the
\* count of active tasks does not wrap.
THEOREM TypeCorrect == ASSUME HasherAssumption PROVE Spec => []TypeOK
<1>1. IInv => TypeOK
  BY DEF IInv
<1> QED
  BY <1>1, Invariance, PTL

\* "hashing must be done in order": at the callback, the digest is of exactly
\* what was read, in order, for any schedule of readers and pipes.
THEOREM HashingIsInOrder == ASSUME HasherAssumption PROVE Spec => []DigestIsOfWholeRead
<1>1. ASSUME IInv PROVE DigestIsOfWholeRead
  <2>1. SUFFICES ASSUME NEW t \in Tasks, state[t] = "called"
                 PROVE  /\ digest[t] = [i \in 1..sent[t] |-> i]
                        /\ complete[t] => Len(digest[t]) = Blocks[t]
    BY DEF DigestIsOfWholeRead
  <2>2. /\ \A i \in 1..Len(digest[t]) : digest[t][i] = i
        /\ Len(digest[t]) = sent[t] /\ (complete[t] => sent[t] = Blocks[t])
    BY <1>1, <2>1 DEF IInv, Order, DigestsInOrder
  <2>3. digest[t] \in Seq(Nat)
    BY <1>1 DEF IInv, TypeOK
  <2>4. digest[t] \in [1..Len(digest[t]) -> Nat]
    BY <2>3, LenProperties
  <2> QED
    BY <2>2, <2>4
<1> QED
  BY <1>1, Invariance, PTL

\* What the semaphore has given out is in the hands of a reader, in a pipe or with
\* its thread, unless files are read with fread.
THEOREM NoBufferIsLost == ASSUME HasherAssumption PROVE Spec => []BuffersAreReturned
<1>1. IInv => BuffersAreReturned
  BY DEF IInv, BuffersCounted, BuffersAreReturned
<1> QED
  BY <1>1, Invariance, PTL

\* rm_hasher_free frees nothing that is still in use, and frees every pipe.
THEOREM FreeWaitsForAll == ASSUME HasherAssumption PROVE Spec => []FreedWhenQuiet
<1>1. ASSUME HasherAssumption, IInv PROVE FreedWhenQuiet
  <2>1. SUFFICES ASSUME main = "freed"
                 PROVE  /\ Len(hashpipe_pool) = created
                        /\ \A p \in Pipes : hashpipe[p] = <<>> /\ worker[p] = "idle"
    BY DEF FreedWhenQuiet
  <2>2. TypeOK /\ Order /\ TasksCounted /\ FreeIsQuiet
    BY <1>1 DEF IInv
  <2>3. /\ \A r \in Readers : reader[r].pc = "idle"
        /\ \A p \in Pipes : hashpipe[p] = <<>> /\ worker[p] = "idle"
    <3>1. /\ \A t \in Tasks : state[t] = "called"
          /\ active_tasks = 0
      BY <2>1, <2>2 DEF FreeIsQuiet
    <3> QED
      BY <2>2, <3>1, NothingToDo
  <2>4. PICK pool : pool = hashpipe_pool
    OBVIOUS
  <2>5. PICK n, m : n = Len(pool) /\ m = created
    OBVIOUS
  <2>6. n \in Nat /\ m \in Nat /\ pool \in Seq(Pipes) /\ \A p \in 1..m : p \in Pipes
    BY <2>2, <2>4, <2>5, CreatedPipes, LenProperties DEF TypeOK
  <2>7. \A p \in 1..m : \E i \in 1..n : pool[i] = p
    <3>1. 1..Len(<<>>) = {}
      OBVIOUS
    <3>2. \A p \in Pipes : ~Finishing(p) /\ worker[p] # "called" /\ \A r \in Readers : ~OwnedBy(p, r)
      BY <2>3, <3>1 DEF Finishing, OwnedBy, HasPipe
    <3>3. \A p \in 1..m : Pooled(p)
      BY <2>2, <2>5, <2>6, <3>2 DEF Order, PipesApart
    <3> QED
      BY <2>4, <2>5, <3>3 DEF Pooled
  <2>8. \A i \in 1..n : pool[i] \in 1..m
    <3>1. ASSUME NEW i \in 1..n PROVE pool[i] \in 1..m
      <4>1. pool[i] \in Pipes
        BY <2>5, <2>6, ElementOfSeq
      <4>2. Pooled(pool[i])
        BY <2>4, <2>5 DEF Pooled
      <4>3. pool[i] <= created
        BY <2>2, <4>1, <4>2 DEF Order, PipesApart
      <4> QED
        BY <1>1, <2>5, <2>6, <4>1, <4>3, Sizes
    <3> QED
      BY <3>1
  <2>9. \A i, j \in 1..n : pool[i] = pool[j] => i = j
    BY <2>2, <2>4, <2>5 DEF Order, PipesApart
  <2>10. pool \in Bijection(1..n, 1..m)
    <3>1. pool \in [1..n -> 1..m]
      <4>1. pool \in [1..n -> Pipes]
        BY <2>5, <2>6, LenProperties
      <4> QED
        BY <2>8, <4>1
    <3>2. pool \in Injection(1..n, 1..m)
      BY <2>9, <3>1 DEF Injection, IsInjective
    <3>3. pool \in Surjection(1..n, 1..m)
      BY <2>7, <3>1 DEF Surjection
    <3> QED
      BY <3>2, <3>3 DEF Bijection
  <2>11. IsFiniteSet(1..n) /\ Cardinality(1..n) = n /\ Cardinality(1..m) = m
    <3>1. \A k \in Nat : IsFiniteSet(1..k) /\ Cardinality(1..k) = k
      BY FS_Interval
    <3> QED
      BY <2>6, <3>1
  <2>12. Cardinality(1..m) = Cardinality(1..n)
    <3>1. ExistsBijection(1..n, 1..m)
      BY <2>10, Zenon DEF ExistsBijection
    <3> QED
      BY <2>11, <3>1, FS_Bijection, Zenon
  <2>13. Len(hashpipe_pool) = created
    BY <2>4, <2>5, <2>11, <2>12
  <2> QED
    BY <2>3, <2>13
<1>2. IInv => FreedWhenQuiet
  BY <1>1
<1> QED
  BY <1>2, Invariance, PTL
=============================================================================
