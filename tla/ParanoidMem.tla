---------------------------- MODULE ParanoidMem ----------------------------
(***************************************************************************)
(* The memory bank of paranoid hashing (lib/shredder.c).  A group of files *)
(* must be granted memory before its files are read: what it inherits from *)
(* its parent, and the rest from the bank.  A group that asks for more     *)
(* than there is waits, unless no more than a threshold of groups are      *)
(* active.  The memory goes back when the group is finalised.              *)
(*                                                                         *)
(* Two kinds of threads ask: a device thread, for a file of its queue and  *)
(* without the lock of the group (rm_shred_reassign_checksum), and a hash  *)
(* pipe, from rm_shred_group_push_file, with that lock.  Each first tests  *)
(* the status of the group and only then takes hash_mem_mtx.               *)
(*                                                                         *)
(* The tree of groups is that of module Shredder, reduced to what the bank *)
(* sees: a group qualifies when it has two files, and reads do not fail.   *)
(***************************************************************************)
EXTENDS Integers, Sequences, FiniteSets, FiniteSetsExt, Functions

CONSTANTS
  Files,        \* the files, each of which has another of its size
  Size,         \* Size[f]: file_size
  Content,      \* Content[f]: its increments; files of one size have as many
  DeviceThreads,
  Pipes,        \* hash pipes
  ParanoidBytes, \* SHRED_PARANOID_BYTES: what an increment reads, save the last
  Bank          \* paranoid_mem_alloc at the start

Steps(f) == Len(Content[f])

SameSize(f) == {h \in Files : Size[h] = Size[f]}

ParanoidMemAssumption ==
  /\ IsFiniteSet(Files) /\ IsFiniteSet(DeviceThreads) /\ IsFiniteSet(Pipes)
  /\ Bank \in Nat
  /\ DeviceThreads \cap Pipes = {}
  /\ ParanoidBytes \in Nat \ {0} /\ Size \in [Files -> Nat \ {0}]
  /\ \A f \in Files : /\ Content[f] \in Seq(Range(Content[f]))
                       /\ SameSize(f) # {f}
                       /\ Size[f] \in (Steps(f) - 1) * ParanoidBytes + 1
                                     .. Steps(f) * ParanoidBytes

Askers == DeviceThreads \cup Pipes

\* Named by the size and the increments that its files have in common.
Group(f, n) == [size |-> Size[f], prefix |-> SubSeq(Content[f], 1, n)]
Groups      == UNION {{Group(f, n) : n \in 0..Steps(f)} : f \in Files}
Complete(g) == \E f \in Files : g = Group(f, Steps(f))
IsRoot(g)   == g.prefix = <<>>
\* The n-th group on the way from the root to g, and the parent of g.
Ancestor(g, n) == [g EXCEPT !.prefix = SubSeq(@, 1, n)]
Up(g)          == Ancestor(g, Len(g.prefix) - 1)

VARIABLES
  status,       \* RmShredGroup.status; "none" before, "freed" after its life
  orphan,       \* parent = NULL
  num_pending,
  is_active,
  mem_allocation,
  paranoid_mem_alloc, \* the bank
  active_groups,
  at,           \* where a file is
  depth,        \* its increments read so far
  asker,        \* what a thread does in rm_shred_check_paranoid_mem_alloc
  finalising,   \* groups to be passed to rm_shred_group_finalise
  returned,     \* those among them that passed the lock of rm_shred_mem_return
  orphaning     \* groups to be passed to rm_shred_group_make_orphan

groupVars == <<status, orphan, num_pending>>
memVars   == <<is_active, mem_allocation, paranoid_mem_alloc, active_groups>>
finalVars == <<finalising, returned, orphaning>>
vars == <<groupVars, memVars, at, depth, asker, finalVars>>

Idle == [pc |-> "idle"]
\* A thread that tested the status, or is about to, on behalf of file f.
Asking(pc, f, required) == [pc |-> pc, file |-> f, required |-> required]

\* The shred_group of a file.
GroupOf(f) == Group(f, depth[f])

\* The locks a pipe holds while it asks: those of the group a file leaves and
\* of the group that it enters.
Locked(g) == \E p \in Pipes : /\ asker[p] # Idle
                              /\ g \in {GroupOf(asker[p].file), Up(GroupOf(asker[p].file))}

Init ==
  /\ status = [g \in Groups |-> IF IsRoot(g) THEN "start_hashing" ELSE "none"]
  /\ orphan = [g \in Groups |-> IsRoot(g)]
  /\ num_pending = [g \in Groups |->
                      Cardinality({f \in Files : IsRoot(g) /\ Group(f, 0) = g})]
  /\ is_active = [g \in Groups |-> FALSE]
  /\ mem_allocation = [g \in Groups |-> 0]
  /\ paranoid_mem_alloc = Bank
  /\ active_groups = 0
  /\ at = [f \in Files |-> "queued"]
  /\ depth = [f \in Files |-> 0]
  /\ asker = [a \in Askers |-> Idle]
  /\ finalising = {} /\ returned = {} /\ orphaning = {}

-----------------------------------------------------------------------------
\* rm_shred_group_potential_file_count: the pending files of a group and of
\* the ancestors it can still reach.
PotentialFileCount(g) ==
  LET reached == {n \in 0..Len(g.prefix) :
                    \A k \in n + 1 .. Len(g.prefix) : ~orphan[Ancestor(g, k)]}
  IN  SumFunctionOnSet(num_pending, {Ancestor(g, n) : n \in reached})

\* mem_required: an increment of one file in two, and of one more.
Required(g) ==
  (PotentialFileCount(g) \div 2 + 1)
     * Min({g.size - Len(g.prefix) * ParanoidBytes, ParanoidBytes})

Inherited(g, required) ==
  IF orphan[g] THEN [from |-> g, amount |-> 0]
  ELSE [from |-> Up(g), amount |-> Min({mem_allocation[Up(g)], required})]

\* Enough memory for the group, or few enough others.
MayProceed(g, required, threshold) ==
  \/ required <= paranoid_mem_alloc + Inherited(g, required).amount
  \/ active_groups <= threshold

\* Mutant: the group is not remembered to be active, and returns nothing.
GrantInactive(g, required) ==
  LET inherited == Inherited(g, required)
      borrowed  == Min({required - inherited.amount, paranoid_mem_alloc})
  IN  /\ mem_allocation' = [h \in Groups |->
           mem_allocation[h] + (IF h = g THEN inherited.amount + borrowed ELSE 0)
                             - (IF h = inherited.from THEN inherited.amount ELSE 0)]
      /\ paranoid_mem_alloc' = paranoid_mem_alloc - borrowed
      /\ active_groups' = active_groups + 1
      /\ UNCHANGED is_active

\* Mutant: the amount is set, so that a second grant forgets the first.
GrantOverwrites(g, required) ==
  LET inherited == Inherited(g, required)
      borrowed  == Min({required - inherited.amount, paranoid_mem_alloc})
  IN  /\ mem_allocation' = [h \in Groups |->
           IF h = g THEN inherited.amount + borrowed
           ELSE mem_allocation[h] - (IF h = inherited.from THEN inherited.amount ELSE 0)]
      /\ paranoid_mem_alloc' = paranoid_mem_alloc - borrowed
      /\ active_groups' = active_groups + 1
      /\ is_active' = [is_active EXCEPT ![g] = TRUE]

\* The transfer that rm_shred_check_paranoid_mem_alloc makes under hash_mem_mtx.
Grant(g, required) ==
  LET inherited == Inherited(g, required)
      borrowed  == Min({required - inherited.amount, paranoid_mem_alloc})
  IN  /\ mem_allocation' = [h \in Groups |->
           mem_allocation[h] + (IF h = g THEN inherited.amount + borrowed ELSE 0)
                             - (IF h = inherited.from THEN inherited.amount ELSE 0)]
      /\ paranoid_mem_alloc' = paranoid_mem_alloc - borrowed
      /\ active_groups' = active_groups + 1
      /\ is_active' = [is_active EXCEPT ![g] = TRUE]

-----------------------------------------------------------------------------
\* Device threads: rm_shred_can_process.

\* Take a file from the queue and test the status of its group, unlocked.
TakeFile(t, f) ==
  /\ asker[t] = Idle /\ at[f] = "queued"
  /\ IF status[GroupOf(f)] = "hashing"
     THEN at' = [at EXCEPT ![f] = "hashing"] /\ UNCHANGED asker
     ELSE /\ at' = [at EXCEPT ![f] = "asked"]
          /\ asker' = [asker EXCEPT ![t] = Asking("grant", f, Required(GroupOf(f)))]
  /\ UNCHANGED <<groupVars, memVars, depth, finalVars>>

\* Under hash_mem_mtx: the group is granted its memory and the file is read, or
\* the file goes back to the queue.
DeviceDecide(t) ==
  LET f == asker[t].file
      g == GroupOf(f)
  IN  /\ asker[t].pc = "grant"
      /\ asker' = [asker EXCEPT ![t] = Idle]
      /\ IF MayProceed(g, asker[t].required, 0)
         THEN /\ Grant(g, asker[t].required)
              /\ status' = [status EXCEPT ![g] = "hashing"]
              /\ at' = [at EXCEPT ![f] = "hashing"]
         ELSE at' = [at EXCEPT ![f] = "queued"] /\ UNCHANGED <<memVars, status>>
      /\ UNCHANGED <<orphan, num_pending, depth, finalVars>>

-----------------------------------------------------------------------------
\* Hash pipes: rm_shred_sift.

FilesHeld(g) == {f \in Files : at[f] = "held" /\ GroupOf(f) = g}

\* The last test of rm_shred_sift, once pending files are left in g.
LeaveGroup(g, left) ==
  finalising' = IF orphan[g] /\ left = 0 THEN finalising \cup {g} ELSE finalising

\* What rm_shred_group_push_file finds when a file arrives: the second file makes the
\* group worth hashing, which it stays while it is refused.
StartsHashing(c) ==
  \/ status[c] = "start_hashing"
  \/ FilesHeld(c) # {} /\ ~Complete(c)

\* A file enters a child that holds its files, or that is being hashed.
Sift(p, f) ==
  LET g == GroupOf(f)
      c == Group(f, depth[f] + 1)
      goes == status[c] = "hashing"
  IN  /\ asker[p] = Idle /\ at[f] = "hashing" /\ ~Locked(g) /\ ~Locked(c)
      /\ ~StartsHashing(c)
      /\ depth' = [depth EXCEPT ![f] = @ + 1]
      /\ at' = [at EXCEPT ![f] = IF goes THEN "queued" ELSE "held"]
      /\ status' = [status EXCEPT ![c] = IF goes THEN @ ELSE "dormant"]
      /\ num_pending' = [num_pending EXCEPT ![g] = @ - 1,
                                            ![c] = IF goes THEN @ + 1 ELSE @]
      /\ LeaveGroup(g, num_pending'[g])
      /\ UNCHANGED <<orphan, memVars, asker, returned, orphaning>>

\* Any file that comes before the child has its memory asks for it, again if it was
\* refused.  Files that were held are queued first, where a device thread may find them.
SiftAsks(p, f) ==
  LET g == GroupOf(f)
      c == Group(f, depth[f] + 1)
  IN  /\ asker[p] = Idle /\ at[f] = "hashing" /\ ~Locked(g) /\ ~Locked(c)
      /\ StartsHashing(c)
      /\ depth' = [depth EXCEPT ![f] = @ + 1]
      /\ at' = [h \in Files |-> IF h = f THEN "asked"
                                ELSE IF h \in FilesHeld(c) THEN "queued" ELSE at[h]]
      /\ status' = [status EXCEPT ![c] = "start_hashing"]
      /\ num_pending' = [num_pending EXCEPT ![g] = @ - 1,
                                            ![c] = @ + Cardinality(FilesHeld(c))]
      /\ asker' = [asker EXCEPT ![p] = Asking("test", f, 0)]
      /\ UNCHANGED <<orphan, memVars, finalVars>>

\* The pipe tests the status; a device thread may have been granted the memory.
PipeTest(p) ==
  LET g == GroupOf(asker[p].file)
  IN  /\ asker[p].pc = "test"
      /\ asker' = [asker EXCEPT ![p] =
           Asking(IF status[g] = "hashing" THEN "push" ELSE "grant", @.file, Required(g))]
      /\ UNCHANGED <<groupVars, memVars, at, depth, finalVars>>

PipeDecide(p) ==
  LET g == GroupOf(asker[p].file)
  IN  /\ asker[p].pc = "grant"
      /\ asker' = [asker EXCEPT ![p].pc = "push"]
      /\ IF MayProceed(g, asker[p].required, 1)
         THEN /\ Grant(g, asker[p].required)
              /\ status' = [status EXCEPT ![g] = "hashing"]
         ELSE UNCHANGED <<memVars, status>>
      /\ UNCHANGED <<orphan, num_pending, at, depth, finalVars>>

\* The end of rm_shred_group_push_file, with an answer or without, and of the
\* rm_shred_sift around it.
PipePush(p) ==
  LET f == asker[p].file
      c == GroupOf(f)
  IN  /\ asker[p].pc = "push"
      /\ asker' = [asker EXCEPT ![p] = Idle]
      /\ at' = [at EXCEPT ![f] = "queued"]
      /\ num_pending' = [num_pending EXCEPT ![c] = @ + 1]
      /\ LeaveGroup(Up(c), num_pending[Up(c)])
      /\ UNCHANGED <<status, orphan, memVars, depth, returned, orphaning>>

-----------------------------------------------------------------------------
\* rm_shred_group_finalise.

\* Mutant: the count is lowered for a group that was never granted memory.
ReturnAlways(g) ==
  /\ paranoid_mem_alloc' = paranoid_mem_alloc + mem_allocation[g]
  /\ active_groups' = active_groups - 1
  /\ is_active' = [is_active EXCEPT ![g] = FALSE]

\* The part of rm_shred_mem_return under hash_mem_mtx.
Return(g) ==
  IF is_active[g]
  THEN /\ paranoid_mem_alloc' = paranoid_mem_alloc + mem_allocation[g]
       /\ active_groups' = active_groups - 1
       /\ is_active' = [is_active EXCEPT ![g] = FALSE]
  ELSE UNCHANGED <<paranoid_mem_alloc, active_groups, is_active>>

MemReturn(g) ==
  /\ g \in finalising \ returned
  /\ returned' = returned \cup {g}
  /\ Return(g)
  /\ UNCHANGED <<groupVars, mem_allocation, at, depth, asker, finalising, orphaning>>

\* mem_allocation = 0, after the unlock, and the switch: the files of a dormant
\* group go out through the result pool, the children of another are orphaned.
Finalise(g) ==
  /\ g \in returned
  /\ returned' = returned \ {g} /\ finalising' = finalising \ {g}
  /\ mem_allocation' = [mem_allocation EXCEPT ![g] = 0]
  /\ status' = [status EXCEPT ![g] = "freed"]
  /\ at' = [f \in Files |-> IF f \in FilesHeld(g) THEN "out" ELSE at[f]]
  /\ orphaning' = orphaning \cup {c \in Groups : /\ ~IsRoot(c) /\ Up(c) = g
                                                 /\ status[c] # "none"}
  /\ UNCHANGED <<orphan, num_pending, is_active, paranoid_mem_alloc, active_groups,
                 depth, asker>>

MakeOrphan(c) ==
  /\ c \in orphaning /\ ~Locked(c)
  /\ orphaning' = orphaning \ {c}
  /\ orphan' = [orphan EXCEPT ![c] = TRUE]
  /\ finalising' = IF num_pending[c] = 0 THEN finalising \cup {c} ELSE finalising
  /\ UNCHANGED <<status, num_pending, memVars, at, depth, asker, returned>>

AllOut == at = [f \in Files |-> "out"]

Done == AllOut /\ finalising = {} /\ orphaning = {} /\ UNCHANGED vars

Device(t) == DeviceDecide(t) \/ \E f \in Files : TakeFile(t, f)
Pipe(p)   == \/ \E f \in Files : Sift(p, f) \/ SiftAsks(p, f)
             \/ PipeTest(p) \/ PipeDecide(p) \/ PipePush(p)
Final(g)  == MemReturn(g) \/ Finalise(g) \/ MakeOrphan(g)

Next ==
  \/ \E t \in DeviceThreads : Device(t)
  \/ \E p \in Pipes : Pipe(p)
  \/ \E g \in Groups : Final(g)
  \/ Done

Spec == Init /\ [][Next]_vars

\* Threads keep running, and a device thread comes to every file of its queue:
\* a pass works through all tasks, those that are refused included.
FairSpec ==
  /\ Spec
  /\ \A f \in Files : SF_vars(\E t \in DeviceThreads : TakeFile(t, f))
  /\ \A t \in DeviceThreads : WF_vars(DeviceDecide(t))
  /\ \A p \in Pipes : WF_vars(Pipe(p))
  /\ \A g \in Groups : WF_vars(Final(g))

-----------------------------------------------------------------------------
(* Properties *)

\* Every variable has its type.
TypeOK ==
  /\ status \in [Groups -> {"none", "dormant", "start_hashing", "hashing", "freed"}]
  /\ orphan \in [Groups -> BOOLEAN]
  /\ num_pending \in [Groups -> Nat]
  /\ is_active \in [Groups -> BOOLEAN]
  /\ mem_allocation \in [Groups -> Nat]
  /\ paranoid_mem_alloc \in Nat
  /\ active_groups \in Nat
  /\ at \in [Files -> {"queued", "asked", "hashing", "held", "out"}]
  /\ \A f \in Files : depth[f] \in 0..Steps(f)
  /\ finalising \subseteq Groups /\ returned \subseteq finalising
  /\ orphaning \subseteq Groups

Active == {g \in Groups : is_active[g]}
Allocated == SumFunctionOnSet(mem_allocation, Groups)

\* The governor lets a group that is short of memory proceed when
\* active_groups is low, so the count must never be below the number of groups
\* that are active, whoever asked at the same time.
NeverUndercounted == active_groups >= Cardinality(Active)

\* The bank and the groups together keep what the bank had: memory that a
\* group borrowed, inherited or passed on to a child comes back.  More than
\* that may be counted, never less: a group that inherits from a parent which
\* has just returned its memory takes what was credited already.
MemoryIsNotLost == paranoid_mem_alloc + Allocated >= Bank

\* A refused file is tried again until its group is granted memory: every file
\* is read to its end, and the session completes.
SessionCompletes == <>[]AllOut
=============================================================================
