---------------------------- MODULE MDScheduler ----------------------------
(***************************************************************************)
(* lib/md-scheduler.c: the multi-disk scheduler.  Each device keeps two    *)
(* lists of tasks and runs as ThreadsPerDisk tokens in one thread pool.  A *)
(* pool thread that takes a token makes one pass over the device and puts  *)
(* the token back, until the device has no references left; the token that *)
(* finds it so last frees the device, and rm_mds_finish waits until all    *)
(* devices are gone.                                                       *)
(*                                                                         *)
(* The client is lib/shredder.c, reduced to what the scheduler sees of it: *)
(* its callback takes a task, which comes back later from another thread,  *)
(* or refuses it for now (paranoid memory) and pushes it back at once; and *)
(* it holds references for tasks that it pushes, or drops, later on.       *)
(***************************************************************************)
EXTENDS Naturals, Sequences, FiniteSets, SequencesExt

CONSTANTS
  Tasks,            \* RmMDSTask, by its task_data
  Devices,
  Disk,             \* Disk[t]: the device of a task
  Before(_, _),     \* mds->prioritiser: t is not to be served after u
  Later,            \* tasks that the client holds back when rm_mds_start is called
  Waits,            \* Waits[t]: t is refused or held until these are done
  Rounds,           \* Rounds[t]: how often t will be processed
  Workers,          \* threads of mds->pool
  ThreadsPerDisk,   \* mds->threads_per_disk
  Quota             \* mds->pass_quota, 0 for no limit

MDSAssumption ==
  /\ IsFiniteSet(Tasks) /\ IsFiniteSet(Devices)
  /\ Disk \in [Tasks -> Devices]
  /\ Later \subseteq Tasks
  /\ Waits \in [Tasks -> SUBSET Tasks]
  /\ Rounds \in [Tasks -> Nat \ {0}]
  /\ Workers # {} /\ IsFiniteSet(Workers)
  /\ ThreadsPerDisk \in Nat \ {0}
  /\ Quota \in Nat

VARIABLES
  sorted_tasks,   \* per device, the tasks of the current passes
  unsorted_tasks, \* per device, those pushed since
  ref_count,      \* per device
  threads,        \* per device, the tokens that have not given up
  disks,          \* mds->disks
  pool,           \* the queue of mds->pool: devices
  worker,         \* per pool thread: where it is in rm_mds_factory
  task,           \* per task: where the client believes it to be
  left,           \* per task: how often it is still to be processed
  main            \* devices rm_mds_start has yet to start, and its caller

vars == <<sorted_tasks, unsorted_tasks, ref_count, threads, disks, pool, worker,
          task, left, main>>
queueVars  == <<sorted_tasks, unsorted_tasks>>
deviceVars == <<ref_count, threads, disks>>

Idle == [pc |-> "idle"]
At(pc, d, n) == [pc |-> pc, dev |-> d, processed |-> n]
Serving(d, n, t) == [pc |-> "func", dev |-> d, processed |-> n, task |-> t]

Init ==
  /\ sorted_tasks = [d \in Devices |-> <<>>]
  /\ unsorted_tasks = [d \in Devices |-> {t \in Tasks \ Later : Disk[t] = d}]
  /\ ref_count = [d \in Devices |-> Cardinality({t \in Tasks : Disk[t] = d})]
  /\ threads = [d \in Devices |-> 0]
  /\ disks = Devices
  /\ pool = <<>>
  /\ worker = [w \in Workers |-> Idle]
  /\ task = [t \in Tasks |-> IF t \in Later THEN "held" ELSE "pushed"]
  /\ left = Rounds
  /\ main = [unstarted |-> Devices, pc |-> "start"]

-----------------------------------------------------------------------------
\* rm_mds_device_start, called by rm_mds_start for one device after the other.
StartDevice(d) ==
  /\ d \in main.unstarted
  /\ threads' = [threads EXCEPT ![d] = ThreadsPerDisk]
  /\ pool' = pool \o [i \in 1..ThreadsPerDisk |-> d]
  /\ main' = [main EXCEPT !.unstarted = @ \ {d}]
  /\ UNCHANGED <<queueVars, ref_count, disks, worker, task, left>>

\* rm_mds_finish.
Finish ==
  /\ main.pc = "start" /\ main.unstarted = {}
  /\ disks = {}
  /\ main' = [main EXCEPT !.pc = "returned"]
  /\ UNCHANGED <<queueVars, deviceVars, pool, worker, task, left>>

-----------------------------------------------------------------------------
(* rm_mds_factory *)

TakeToken(w) ==
  /\ worker[w].pc = "idle" /\ pool # <<>>
  /\ worker' = [worker EXCEPT ![w] = At("enter", Head(pool), 0)]
  /\ pool' = Tail(pool)
  /\ UNCHANGED <<queueVars, deviceVars, task, left, main>>

\* Mutant: the rest of the last pass is dropped.
MergeOverwrites(d) ==
  /\ \E s \in SetToSeqs(unsorted_tasks[d]) :
       /\ \A i, j \in 1..Len(s) : i < j => Before(s[i], s[j])
       /\ sorted_tasks' = [sorted_tasks EXCEPT ![d] = s]
  /\ unsorted_tasks' = [unsorted_tasks EXCEPT ![d] = {}]

\* New tasks are sorted, and served before what the last pass left over.
Merge(d) ==
  /\ \E s \in SetToSeqs(unsorted_tasks[d]) :
       /\ \A i, j \in 1..Len(s) : i < j => Before(s[i], s[j])
       /\ sorted_tasks' = [sorted_tasks EXCEPT ![d] = s \o @]
  /\ unsorted_tasks' = [unsorted_tasks EXCEPT ![d] = {}]

\* The first critical section, unless both lists are empty.
Enter(w) ==
  LET d == worker[w].dev
  IN  /\ worker[w].pc = "enter"
      /\ IF sorted_tasks[d] = <<>> /\ unsorted_tasks[d] = {} /\ ref_count[d] > 0
         THEN worker' = [worker EXCEPT ![w] = At("wait", d, 0)] /\ UNCHANGED queueVars
         ELSE worker' = [worker EXCEPT ![w] = At("sweep", d, 0)] /\ Merge(d)
      /\ UNCHANGED <<deviceVars, pool, task, left, main>>

\* g_cond_wait_until returns, for a new task or because the time is over.
Wake(w) ==
  /\ worker[w].pc = "wait"
  /\ worker' = [worker EXCEPT ![w] = At("sweep", @.dev, 0)]
  /\ Merge(worker[w].dev)
  /\ UNCHANGED <<deviceVars, pool, task, left, main>>

WithinQuota(n) == Quota = 0 \/ n < Quota

\* The condition of the loop, and rm_util_slist_pop under the device's lock.
Pop(w) ==
  LET d == worker[w].dev
  IN  /\ worker[w].pc = "sweep"
      /\ WithinQuota(worker[w].processed) /\ sorted_tasks[d] # <<>>
      /\ worker' = [worker EXCEPT ![w] = Serving(d, @.processed, Head(sorted_tasks[d]))]
      /\ sorted_tasks' = [sorted_tasks EXCEPT ![d] = Tail(@)]
      /\ UNCHANGED <<unsorted_tasks, deviceVars, pool, task, left, main>>

EndSweep(w) ==
  LET d == worker[w].dev
  IN  /\ worker[w].pc = "sweep"
      /\ ~(WithinQuota(worker[w].processed) /\ sorted_tasks[d] # <<>>)
      /\ worker' = [worker EXCEPT ![w].pc = "leave"]
      /\ UNCHANGED <<queueVars, deviceVars, pool, task, left, main>>

\* rm_mds_device_ref(device, 0): is there more to do?
Leave(w) ==
  /\ worker[w].pc = "leave"
  /\ worker' = [worker EXCEPT ![w].pc =
                  IF ref_count[worker[w].dev] > 0 THEN "again" ELSE "last"]
  /\ UNCHANGED <<queueVars, deviceVars, pool, task, left, main>>

\* rm_util_thread_pool_push(mds->pool, device)
Again(w) ==
  /\ worker[w].pc = "again"
  /\ pool' = Append(pool, worker[w].dev)
  /\ worker' = [worker EXCEPT ![w] = Idle]
  /\ UNCHANGED <<queueVars, deviceVars, task, left, main>>

\* Mutant: the first token to give up frees the device.
GiveUpFirst(w) ==
  LET d == worker[w].dev
  IN  /\ worker[w].pc = "last"
      /\ threads' = [threads EXCEPT ![d] = @ - 1]
      /\ disks' = disks \ {d}
      /\ worker' = [worker EXCEPT ![w] = Idle]
      /\ UNCHANGED <<queueVars, ref_count, pool, task, left, main>>

\* g_atomic_int_dec_and_test(&device->threads), and rm_mds_device_free.
GiveUp(w) ==
  LET d == worker[w].dev
  IN  /\ worker[w].pc = "last"
      /\ threads' = [threads EXCEPT ![d] = @ - 1]
      /\ disks' = IF threads[d] = 1 THEN disks \ {d} ELSE disks
      /\ worker' = [worker EXCEPT ![w] = Idle]
      /\ UNCHANGED <<queueVars, ref_count, pool, task, left, main>>

-----------------------------------------------------------------------------
(* The client: mds->func, and the threads that push and drop tasks. *)

Ready(t) == \A u \in Waits[t] : task[u] = "done"

\* rm_mds_push_task
PushTask(t) ==
  /\ unsorted_tasks' = [unsorted_tasks EXCEPT ![Disk[t]] = @ \cup {t}]
  /\ UNCHANGED sorted_tasks

\* The callback takes the task; it comes back from elsewhere.
FuncTakes(w) ==
  LET t == worker[w].task
  IN  /\ worker[w].pc = "func" /\ Ready(t)
      /\ task' = [task EXCEPT ![t] = "outside"]
      /\ worker' = [worker EXCEPT ![w] = At("sweep", @.dev, @.processed + 1)]
      /\ UNCHANGED <<queueVars, deviceVars, pool, left, main>>

\* Mutant: a refused task counts towards the quota.
FuncRefusesForQuota(w) ==
  LET t == worker[w].task
  IN  /\ worker[w].pc = "func" /\ ~Ready(t)
      /\ PushTask(t)
      /\ worker' = [worker EXCEPT ![w] = At("sweep", @.dev, @.processed + 1)]
      /\ UNCHANGED <<deviceVars, pool, task, left, main>>

\* The callback pushes the task back and returns 0.
FuncRefuses(w) ==
  LET t == worker[w].task
  IN  /\ worker[w].pc = "func" /\ ~Ready(t)
      /\ PushTask(t)
      /\ worker' = [worker EXCEPT ![w] = At("sweep", @.dev, @.processed)]
      /\ UNCHANGED <<deviceVars, pool, task, left, main>>

\* rm_mds_device_ref(device, -1)
Drop(t) ==
  /\ ref_count' = [ref_count EXCEPT ![Disk[t]] = @ - 1]
  /\ task' = [task EXCEPT ![t] = "done"]
  /\ UNCHANGED queueVars

\* A task that was taken is pushed for its next round, or is done.
ComeBack(t) ==
  /\ task[t] = "outside"
  /\ left' = [left EXCEPT ![t] = @ - 1]
  /\ IF left[t] > 1
     THEN /\ PushTask(t)
          /\ task' = [task EXCEPT ![t] = "pushed"]
          /\ UNCHANGED ref_count
     ELSE Drop(t)
  /\ UNCHANGED <<threads, disks, pool, worker, main>>

\* A task that was held is pushed after all, or given up.
Release(t) ==
  /\ task[t] = "held" /\ Ready(t)
  /\ \/ /\ PushTask(t)
        /\ task' = [task EXCEPT ![t] = "pushed"]
        /\ UNCHANGED ref_count
     \/ Drop(t)
  /\ UNCHANGED <<threads, disks, pool, worker, left, main>>

Returned == main.pc = "returned" /\ UNCHANGED vars

Start == \E d \in Devices : StartDevice(d)

Work(w) == \/ TakeToken(w) \/ Enter(w) \/ Wake(w) \/ Pop(w) \/ EndSweep(w) \/ Leave(w)
           \/ Again(w) \/ GiveUp(w) \/ FuncTakes(w) \/ FuncRefuses(w)

Next ==
  \/ Start \/ Finish \/ Returned
  \/ \E w \in Workers : Work(w)
  \/ \E t \in Tasks : ComeBack(t) \/ Release(t)

Spec == Init /\ [][Next]_vars

\* Threads keep running, the timed wait ends, and what the client took or
\* holds comes back.
FairSpec ==
  /\ Spec
  /\ WF_vars(Start) /\ WF_vars(Finish)
  /\ \A w \in Workers : WF_vars(Work(w))
  /\ \A t \in Tasks : WF_vars(ComeBack(t)) /\ WF_vars(Release(t))

-----------------------------------------------------------------------------
(* Properties *)

InPass(w, d) == worker[w].pc # "idle" /\ worker[w].dev = d

\* Every variable has its type.
TypeOK ==
  /\ sorted_tasks \in [Devices -> Seq(Tasks)]
  /\ unsorted_tasks \in [Devices -> SUBSET Tasks]
  /\ ref_count \in [Devices -> Nat]
  /\ threads \in [Devices -> 0..ThreadsPerDisk]
  /\ disks \subseteq Devices
  /\ pool \in Seq(Devices)
  /\ worker \in [Workers ->
       {Idle}
         \cup [pc : {"enter", "wait", "sweep", "leave", "again", "last"},
               dev : Devices, processed : Nat]
         \cup [pc : {"func"}, dev : Devices, processed : Nat, task : Tasks]]
  /\ task \in [Tasks -> {"held", "pushed", "outside", "done"}]
  /\ left \in [Tasks -> Nat]
  /\ main \in [unstarted : SUBSET Devices, pc : {"start", "returned"}]

\* A freed device is not in the pool, in no pass, and no task that the client
\* may still push or drop belongs to it.
DeviceOutlivesWork ==
  \A d \in Devices \ disks :
    /\ \A i \in 1..Len(pool) : pool[i] # d
    /\ \A w \in Workers : ~InPass(w, d)
    /\ \A t \in Tasks : Disk[t] = d => task[t] = "done"

Places(t) ==
  {<<"unsorted", d>> : d \in {e \in Devices : t \in unsorted_tasks[e]}}
  \cup {<<"sorted", i>> : i \in {j \in 1..Len(sorted_tasks[Disk[t]]) :
                                   sorted_tasks[Disk[t]][j] = t}}
  \cup {<<"func", w>> : w \in {v \in Workers : worker[v].pc = "func" /\ worker[v].task = t}}

\* A task that was pushed is in one place, whatever threads merge and pop the
\* lists of its device at a time; one that was not is in none.
EachTaskOnce ==
  \A t \in Tasks : Cardinality(Places(t)) = IF task[t] = "pushed" THEN 1 ELSE 0

\* rm_mds_finish returns: refused tasks, which are put before the rest of the pass
\* that refused them, do not starve the task that they wait for, even with a
\* single thread for all devices and a quota of one task.
HasReturned == main.pc = "returned"
=============================================================================
