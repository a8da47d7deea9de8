------------------------------ MODULE MCDevices ------------------------------
(***************************************************************************)
(* Small instances of what keeps the device threads busy and what they     *)
(* wait for: the scheduler of their tasks and the memory bank of paranoid  *)
(* hashing.  The initial state chooses one of them.                        *)
(***************************************************************************)
EXTENDS MDScheduler, Integers, TLC

CONSTANTS
  Parts,            \* "scheduler", "memory"
  Memory,           \* files, their sizes and increments, threads, and how much they may use
  w1, w2, f1, f2, f3, f4, f5, f6, f7, t1, t2, p1, p2

VARIABLES
  part,
  status, orphan, num_pending, is_active, mem_allocation, paranoid_mem_alloc,
  active_groups, at, depth, asker, finalising, returned, orphaning

memoryVars == <<status, orphan, num_pending, is_active, mem_allocation, paranoid_mem_alloc,
                active_groups, at, depth, asker, finalising, returned, orphaning>>
MCvars == <<part, vars, memoryVars>>

\* Two disks with two tasks each.  One task is refused until another is done, and one
\* is held until then.
DiskTasks   == {"a", "b", "c", "d"}
DiskDevices == {"hdd", "ssd"}
DiskOf      == "a" :> "hdd" @@ "b" :> "hdd" @@ "c" :> "ssd" @@ "d" :> "ssd"
DiskOffset  == "a" :> 2 @@ "b" :> 1 @@ "c" :> 1 @@ "d" :> 1
DiskBefore(t, u) == DiskOffset[t] <= DiskOffset[u]
DiskLater   == {"c"}
DiskWaits   == "a" :> {} @@ "b" :> {"a"} @@ "c" :> {"a"} @@ "d" :> {}
DiskRounds  == "a" :> 2 @@ "b" :> 2 @@ "c" :> 1 @@ "d" :> 1
DiskWorkers == {w1, w2}

\* Five files of one size, two of which differ from the others.
\* The group of the two can take what the root had, so that the group of the three is
\* refused, and refused again when its third file arrives.
FiveFiles ==
  LET files == {f1, f2, f3, f4, f5}
  IN  [size |-> [f \in files |-> 2],
       content |-> [f \in files |-> <<IF f \in {f1, f2} THEN "a" ELSE "b", "c">>],
       threads |-> {t1, t2}, pipes |-> {p1}, bytes |-> 1, bank |-> 3]

\* The same files beside a pair of small ones, whose memory comes back before or after
\* the third file asks: what was refused to the second is granted to it.
SevenFiles ==
  LET files == {f1, f2, f3, f4, f5, f6, f7}
      small(f) == f \in {f6, f7}
  IN  [size |-> [f \in files |-> IF small(f) THEN 1 ELSE 2],
       content |-> [f \in files |-> IF small(f) THEN <<"a">>
                                    ELSE <<IF f \in {f1, f2} THEN "a" ELSE "b", "c">>],
       threads |-> {t1}, pipes |-> {p1}, bytes |-> 1, bank |-> 5]

\* Two pairs; the larger files ask for more than the whole bank.
LargeFiles ==
  LET files == {f1, f2, f3, f4}
  IN  [size |-> [f \in files |-> IF f \in {f1, f2} THEN 1 ELSE 3],
       content |-> [f \in files |-> <<"a">>],
       threads |-> {t1, t2}, pipes |-> {p1}, bytes |-> 3, bank |-> 4]

MemoryFiles == DOMAIN Memory.size
MemoryThreads == Memory.threads

Mem == INSTANCE ParanoidMem WITH
  Files <- MemoryFiles, Size <- Memory.size, Content <- Memory.content,
  DeviceThreads <- MemoryThreads, Pipes <- Memory.pipes,
  ParanoidBytes <- Memory.bytes, Bank <- Memory.bank

ASSUME DevicesAssumption == MDSAssumption /\ Mem!ParanoidMemAssumption

\* The part that is not looked at stays as it begins.
MCInit == part \in Parts /\ Init /\ Mem!Init

Scheduler  == part = "scheduler" /\ UNCHANGED <<part, memoryVars>>
MemoryBank == part = "memory" /\ UNCHANGED <<part, vars>>

MCNext ==
  \/ Scheduler /\ Next
  \/ MemoryBank /\ Mem!Next

MCSpec == MCInit /\ [][MCNext]_MCvars

\* The fairness of MDScheduler and of ParanoidMem, which they explain.
MCFairSpec ==
  /\ MCSpec
  /\ WF_MCvars(Scheduler /\ Start) /\ WF_MCvars(Scheduler /\ Finish)
  /\ \A w \in Workers : WF_MCvars(Scheduler /\ Work(w))
  /\ \A t \in Tasks : WF_MCvars(Scheduler /\ ComeBack(t)) /\ WF_MCvars(Scheduler /\ Release(t))
  /\ \A f \in MemoryFiles : SF_MCvars(MemoryBank /\ \E t \in MemoryThreads : Mem!TakeFile(t, f))
  /\ \A t \in MemoryThreads : WF_MCvars(MemoryBank /\ Mem!DeviceDecide(t))
  /\ \A p \in Memory.pipes : WF_MCvars(MemoryBank /\ Mem!Pipe(p))
  /\ \A g \in Mem!Groups : WF_MCvars(MemoryBank /\ Mem!Final(g))

-----------------------------------------------------------------------------
(* The properties that are about one of the parts only; the invariants of the *)
(* scheduler are checked as they are.                                          *)

\* Refused tasks starve nobody, and rm_mds_finish returns.
SchedulerFinishes == <>(part = "scheduler" => HasReturned)

\* A group that is granted memory twice is never undercounted.
NeverUndercounted == Mem!NeverUndercounted

\* All memory that is lent comes back.
MemoryIsNotLost == Mem!MemoryIsNotLost

\* Every refused file is read in the end.
SessionCompletes == <>[](part = "memory" => Mem!AllOut)
=============================================================================
