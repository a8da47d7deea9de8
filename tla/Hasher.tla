------------------------------- MODULE Hasher -------------------------------
(***************************************************************************)
(* lib/hasher.c and the buffers of lib/checksum.c.  A device thread reads  *)
(* an increment of a file into buffers and sends them through a hash pipe, *)
(* a queue with a single thread; the last buffer is a finisher, which      *)
(* calls the client back and returns the pipe.  Pipes are recycled, a      *)
(* semaphore limits the buffers, and rm_hasher_free waits for the tasks.   *)
(*                                                                         *)
(* A task of this module is one increment of one file; a buffer holds one  *)
(* block of it.  What a read returns is up to the file system: an error,   *)
(* or fewer blocks than were asked for, down to none.                      *)
(***************************************************************************)
EXTENDS Integers, Sequences, FiniteSets

CONSTANTS
  Readers,        \* device threads
  Tasks,          \* increments to hash
  Blocks,         \* Blocks[t]: buffers that an increment fills
  Preadv,         \* N_PREADV_BUFFERS
  NumThreads,     \* num_threads of rm_hasher_new
  MaxBuffers      \* what the semaphore starts with

\* There are at most as many device threads as hash pipes, and 64 batches of
\* buffers for each.
ASSUME HasherAssumption ==
  /\ IsFiniteSet(Readers) /\ IsFiniteSet(Tasks)
  /\ Blocks \in [Tasks -> Nat \ {0}]
  /\ Preadv \in Nat \ {0}
  /\ NumThreads \in Nat \ {0}
  /\ MaxBuffers \in Nat /\ MaxBuffers >= Cardinality(Readers) * Preadv

\* Enough for every reader to find the pool empty at once.
Pipes == 1..(NumThreads + Cardinality(Readers))

VARIABLES
  use_buffered_read, \* read with fread, not with preadv; never changes
  reader,            \* per device thread: where it is, and with what
  active_tasks,
  hashpipe_pool,     \* pipes that wait for a task
  unalloc_hashpipes,
  created,           \* pipes created so far
  hashpipe,          \* per pipe, its queue of buffers
  worker,            \* per pipe, what its thread is doing
  buf_sem,           \* buffers that may still be allocated
  sent,              \* per task, the blocks sent to its pipe
  digest,            \* per task, the blocks its digest was updated with
  complete,          \* per task, what rm_hasher_task_hash returned
  state,             \* per task: "todo", "active", "called"
  main               \* the thread that calls rm_hasher_free

readerVars == <<reader, sent, complete>>
poolVars   == <<hashpipe_pool, unalloc_hashpipes, created, use_buffered_read>>
vars == <<readerVars, poolVars, active_tasks, hashpipe, worker, buf_sem, digest,
          state, main>>

Idle == [pc |-> "idle"]
Reading(pc, t, p, n) == [pc |-> pc, task |-> t, pipe |-> p, bufs |-> n]

\* Buffers: a block of data, one of length zero, and the finisher.
Data(t, b)  == [kind |-> "data", task |-> t, block |-> b]
Empty(t)    == [kind |-> "empty", task |-> t]
Finisher(t) == [kind |-> "finish", task |-> t]

\* Buffers read at once.
Batch == IF use_buffered_read THEN 1 ELSE Preadv

Init ==
  /\ use_buffered_read \in BOOLEAN
  /\ reader = [r \in Readers |-> Idle]
  /\ active_tasks = 0
  /\ hashpipe_pool = <<>>
  /\ unalloc_hashpipes = NumThreads
  /\ created = 0
  /\ hashpipe = [p \in Pipes |-> <<>>]
  /\ worker = [p \in Pipes |-> "idle"]
  /\ buf_sem = MaxBuffers
  /\ sent = [t \in Tasks |-> 0]
  /\ digest = [t \in Tasks |-> <<>>]
  /\ complete = [t \in Tasks |-> FALSE]
  /\ state = [t \in Tasks |-> "todo"]
  /\ main = "running"

-----------------------------------------------------------------------------
(* rm_hasher_task_new *)

NewTask(r, t) ==
  /\ reader[r].pc = "idle" /\ state[t] = "todo"
  /\ active_tasks' = active_tasks + 1
  /\ state' = [state EXCEPT ![t] = "active"]
  /\ reader' = [reader EXCEPT ![r] = Reading("pool", t, 0, 0)]
  /\ UNCHANGED <<poolVars, hashpipe, worker, buf_sem, sent, digest, complete, main>>

\* g_async_queue_try_pop, and g_async_queue_pop, which waits.
TakePipe(r) ==
  /\ reader[r].pc \in {"pool", "await"} /\ hashpipe_pool # <<>>
  /\ reader' = [reader EXCEPT ![r] = Reading("read", @.task, Head(hashpipe_pool), 0)]
  /\ hashpipe_pool' = Tail(hashpipe_pool)
  /\ UNCHANGED <<unalloc_hashpipes, created, active_tasks, hashpipe, worker, buf_sem, sent,
                 digest, complete, state, main, use_buffered_read>>

NoPipe(r) ==
  /\ reader[r].pc = "pool" /\ hashpipe_pool = <<>>
  /\ reader' = [reader EXCEPT ![r].pc = "limit"]
  /\ UNCHANGED <<poolVars, active_tasks, hashpipe, worker, buf_sem, sent, digest, complete,
                 state, main>>

\* The limit is read first and lowered later, in CreatePipe.
CheckLimit(r) ==
  /\ reader[r].pc = "limit"
  /\ reader' = [reader EXCEPT ![r].pc = IF unalloc_hashpipes > 0 THEN "create" ELSE "await"]
  /\ UNCHANGED <<poolVars, active_tasks, hashpipe, worker, buf_sem, sent, digest, complete,
                 state, main>>

CreatePipe(r) ==
  /\ reader[r].pc = "create"
  /\ unalloc_hashpipes' = unalloc_hashpipes - 1
  /\ created' = created + 1
  /\ reader' = [reader EXCEPT ![r] = Reading("read", @.task, created + 1, 0)]
  /\ UNCHANGED <<hashpipe_pool, active_tasks, hashpipe, worker, buf_sem, sent, digest,
                 complete, state, main, use_buffered_read>>

-----------------------------------------------------------------------------
(* rm_hasher_task_hash: the reader acquires its buffers one by one. *)

BuffersWanted(t) == IF Blocks[t] < Batch THEN Blocks[t] ELSE Batch

AcquireBuffer(r) ==
  /\ reader[r].pc = "read" /\ reader[r].bufs < BuffersWanted(reader[r].task)
  /\ buf_sem > 0
  /\ buf_sem' = buf_sem - 1
  /\ reader' = [reader EXCEPT ![r].bufs = @ + 1]
  /\ UNCHANGED <<poolVars, active_tasks, hashpipe, worker, sent, digest, complete, state,
                 main>>

\* The next n blocks of a task go to its pipe.
SendBlocks(t, p, n) ==
  /\ hashpipe' = [hashpipe EXCEPT ![p] = @ \o [i \in 1..n |-> Data(t, sent[t] + i)]]
  /\ sent' = [sent EXCEPT ![t] = @ + n]

HasBatch(r) == reader[r].pc = "read" /\ reader[r].bufs = BuffersWanted(reader[r].task)

\* Mutant: the buffers that a short read left empty are not freed.
ReadKeepsUnused(r) ==
  LET t == reader[r].task
      k == reader[r].bufs
  IN  /\ HasBatch(r)
      /\ \E n \in 0..k :
           /\ sent[t] + n <= Blocks[t]
           /\ SendBlocks(t, reader[r].pipe, n)
           /\ complete' = [complete EXCEPT ![t] = sent[t] + n = Blocks[t]]
           /\ reader' = [reader EXCEPT
                ![r] = Reading(IF sent[t] + n = Blocks[t] \/ n = 0 THEN "finish" ELSE "read",
                               t, @.pipe, 0)]
      /\ UNCHANGED <<poolVars, active_tasks, worker, buf_sem, digest, state, main>>

\* One turn of rm_hasher_unbuffered_read or rm_hasher_buffered_read: n blocks
\* arrive and the other buffers are freed.  The loop ends at the last block,
\* when nothing more arrives and, with fread, at a block that is cut short.
Read(r) ==
  LET t == reader[r].task
      k == reader[r].bufs
  IN  /\ HasBatch(r)
      /\ \E n \in 0..k :
           /\ n > 0 \/ ~use_buffered_read
           /\ sent[t] + n <= Blocks[t]
           /\ SendBlocks(t, reader[r].pipe, n)
           /\ buf_sem' = buf_sem + (k - n)
           /\ \E short \in BOOLEAN :
                /\ short => use_buffered_read
                /\ complete' = [complete EXCEPT ![t] = ~short /\ sent[t] + n = Blocks[t]]
                /\ reader' = [reader EXCEPT
                     ![r] = Reading(IF short \/ sent[t] + n = Blocks[t] \/ n = 0
                                    THEN "finish" ELSE "read", t, @.pipe, 0)]
      /\ UNCHANGED <<poolVars, active_tasks, worker, digest, state, main>>

\* An error: all buffers of the batch are freed.
ReadFails(r) ==
  /\ HasBatch(r)
  /\ buf_sem' = buf_sem + reader[r].bufs
  /\ reader' = [reader EXCEPT ![r] = Reading("finish", @.task, @.pipe, 0)]
  /\ UNCHANGED <<poolVars, active_tasks, hashpipe, worker, sent, digest, complete, state,
                 main>>

\* The file ends before the increment: rm_hasher_buffered_read sends the buffer
\* although fread has left it empty.
EndOfFile(r) ==
  LET t == reader[r].task
      p == reader[r].pipe
  IN  /\ HasBatch(r) /\ use_buffered_read
      /\ hashpipe' = [hashpipe EXCEPT ![p] = Append(@, Empty(t))]
      /\ reader' = [reader EXCEPT ![r] = Reading("finish", t, p, 0)]
      /\ UNCHANGED <<poolVars, active_tasks, worker, buf_sem, sent, digest, complete, state,
                     main>>

\* Mutant: the finisher overtakes the data.
FinishFirst(r) ==
  LET t == reader[r].task
      p == reader[r].pipe
  IN  /\ reader[r].pc = "finish" /\ buf_sem > 0
      /\ buf_sem' = buf_sem - 1
      /\ hashpipe' = [hashpipe EXCEPT ![p] = <<Finisher(t)>> \o @]
      /\ reader' = [reader EXCEPT ![r] = Idle]
      /\ UNCHANGED <<poolVars, active_tasks, worker, sent, digest, complete, state, main>>

\* rm_hasher_task_finish
TaskFinish(r) ==
  LET t == reader[r].task
      p == reader[r].pipe
  IN  /\ reader[r].pc = "finish" /\ buf_sem > 0
      /\ buf_sem' = buf_sem - 1
      /\ hashpipe' = [hashpipe EXCEPT ![p] = Append(@, Finisher(t))]
      /\ reader' = [reader EXCEPT ![r] = Idle]
      /\ UNCHANGED <<poolVars, active_tasks, worker, sent, digest, complete, state, main>>

-----------------------------------------------------------------------------
(* rm_hasher_hashpipe_worker *)

First(p) == Head(hashpipe[p])

\* rm_digest_buffered_update, which frees the buffer.
HashData(p) ==
  /\ worker[p] = "idle" /\ hashpipe[p] # <<>> /\ First(p).kind = "data"
  /\ digest' = [digest EXCEPT ![First(p).task] = Append(@, First(p).block)]
  /\ buf_sem' = buf_sem + 1
  /\ hashpipe' = [hashpipe EXCEPT ![p] = Tail(@)]
  /\ UNCHANGED <<readerVars, poolVars, active_tasks, worker, state, main>>

\* Neither branch is for a buffer without data that is no finisher.
SkipEmpty(p) ==
  /\ worker[p] = "idle" /\ hashpipe[p] # <<>> /\ First(p).kind = "empty"
  /\ hashpipe' = [hashpipe EXCEPT ![p] = Tail(@)]
  /\ UNCHANGED <<readerVars, poolVars, active_tasks, worker, buf_sem, digest, state, main>>

Callback(p) ==
  /\ worker[p] = "idle" /\ hashpipe[p] # <<>> /\ First(p).kind = "finish"
  /\ state' = [state EXCEPT ![First(p).task] = "called"]
  /\ hashpipe' = [hashpipe EXCEPT ![p] = Tail(@)]
  /\ worker' = [worker EXCEPT ![p] = "called"]
  /\ UNCHANGED <<readerVars, poolVars, active_tasks, buf_sem, digest, main>>

\* rm_hasher_task_free
Recycle(p) ==
  /\ worker[p] = "called"
  /\ hashpipe_pool' = Append(hashpipe_pool, p)
  /\ worker' = [worker EXCEPT ![p] = "recycled"]
  /\ UNCHANGED <<readerVars, unalloc_hashpipes, created, active_tasks, hashpipe, buf_sem,
                 digest, state, main, use_buffered_read>>

\* Mutant: the finisher is not freed.
KeepFinisher(p) ==
  /\ worker[p] = "recycled"
  /\ worker' = [worker EXCEPT ![p] = "freed"]
  /\ UNCHANGED <<readerVars, poolVars, active_tasks, hashpipe, buf_sem, digest, state, main>>

\* rm_buffer_free of the finisher
FreeFinisher(p) ==
  /\ worker[p] = "recycled"
  /\ buf_sem' = buf_sem + 1
  /\ worker' = [worker EXCEPT ![p] = "freed"]
  /\ UNCHANGED <<readerVars, poolVars, active_tasks, hashpipe, digest, state, main>>

EndTask(p) ==
  /\ worker[p] = "freed"
  /\ active_tasks' = active_tasks - 1
  /\ worker' = [worker EXCEPT ![p] = "idle"]
  /\ UNCHANGED <<readerVars, poolVars, hashpipe, buf_sem, digest, state, main>>

-----------------------------------------------------------------------------
\* Mutant: rm_hasher_free does not wait.
FreeAtOnce ==
  /\ main = "running"
  /\ \A t \in Tasks : state[t] = "called"
  /\ main' = "freed"
  /\ UNCHANGED <<readerVars, poolVars, active_tasks, hashpipe, worker, buf_sem, digest,
                 state>>

\* rm_hasher_free(hasher, TRUE): the client calls it when the last callback is
\* through with its file.
Free ==
  /\ main = "running"
  /\ \A t \in Tasks : state[t] = "called"
  /\ active_tasks = 0
  /\ main' = "freed"
  /\ UNCHANGED <<readerVars, poolVars, active_tasks, hashpipe, worker, buf_sem, digest,
                 state>>

Freed == main = "freed" /\ UNCHANGED vars

ReaderStep(r) ==
  \/ \E t \in Tasks : NewTask(r, t)
  \/ TakePipe(r) \/ NoPipe(r) \/ CheckLimit(r) \/ CreatePipe(r)
  \/ AcquireBuffer(r) \/ Read(r) \/ ReadFails(r) \/ EndOfFile(r) \/ TaskFinish(r)

PipeStep(p) == \/ HashData(p) \/ SkipEmpty(p) \/ Callback(p)
               \/ Recycle(p) \/ FreeFinisher(p) \/ EndTask(p)

Next ==
  \/ \E r \in Readers : ReaderStep(r)
  \/ \E p \in Pipes : PipeStep(p)
  \/ Free \/ Freed

Spec == Init /\ [][Next]_vars

\* Threads keep running.
FairSpec ==
  /\ Spec
  /\ \A r \in Readers : WF_vars(ReaderStep(r))
  /\ \A p \in Pipes : WF_vars(PipeStep(p))
  /\ WF_vars(Free)

-----------------------------------------------------------------------------
(* Properties *)

Buffers == [kind : {"data"}, task : Tasks, block : Nat] \cup [kind : {"empty", "finish"}, task : Tasks]
Busy    == [pc : {"pool", "limit", "create", "await", "read", "finish"},
            task : Tasks, pipe : Pipes \cup {0}, bufs : 0..Preadv]

\* Every variable has its type.
TypeOK ==
  /\ use_buffered_read \in BOOLEAN
  /\ reader \in [Readers -> {Idle} \cup Busy]
  /\ active_tasks \in 0..Cardinality(Tasks)
  /\ hashpipe_pool \in Seq(Pipes)
  /\ unalloc_hashpipes \in -Cardinality(Readers)..NumThreads
  /\ created \in Pipes \cup {0}
  /\ hashpipe \in [Pipes -> Seq(Buffers)]
  /\ worker \in [Pipes -> {"idle", "called", "recycled", "freed"}]
  /\ buf_sem \in 0..MaxBuffers
  /\ sent \in [Tasks -> Nat]
  /\ digest \in [Tasks -> Seq(Nat)]
  /\ complete \in [Tasks -> BOOLEAN]
  /\ state \in [Tasks -> {"todo", "active", "called"}]
  /\ main \in {"running", "freed"}

\* "hashing must be done in order" (rm_hasher_new): when the client is called
\* back, the digest was updated with exactly the blocks that were read, each
\* once and in order; with all of them unless the read is reported as failed.
DigestIsOfWholeRead ==
  \A t \in Tasks :
    state[t] = "called" =>
      /\ digest[t] = [i \in 1..sent[t] |-> i]
      /\ complete[t] => Len(digest[t]) = Blocks[t]

\* The buffers that a reader has acquired for its batch, those in the pipes, and
\* the finishers that are with the thread of a pipe.
Acquired == {x \in Readers \X (1..Preadv) : reader[x[1]].pc = "read" /\ x[2] <= reader[x[1]].bufs}
Queued   == UNION {{p} \X (1..Len(hashpipe[p])) : p \in Pipes}
AtThread == {p \in Pipes : worker[p] \in {"called", "recycled"}}

BuffersInUse == Cardinality(Acquired) + Cardinality(Queued) + Cardinality(AtThread)

\* "the logic regarding buffer freeing must be very tough, since we might risk
\* deadlocks otherwise" (rm_buffer_new): what the semaphore has given out is in
\* the hands of a reader, in a pipe or with its thread.  With fread this does not
\* hold: the empty buffer of a file that ends early is released by nobody.
BuffersAreReturned == ~use_buffered_read => buf_sem + BuffersInUse = MaxBuffers

\* "To ensure graceful exit" (rm_hasher_free): nothing that is freed with the
\* hasher is still in use, and every pipe is in the pool to be freed with it.
FreedWhenQuiet ==
  main = "freed" =>
    /\ Len(hashpipe_pool) = created
    /\ \A p \in Pipes : hashpipe[p] = <<>> /\ worker[p] = "idle"

\* Readers that hold some buffers and wait for more do not starve each other,
\* nor a finisher, as long as there are as many buffers as they can hold.
AllTasksFinish == <>(main = "freed")
=============================================================================
