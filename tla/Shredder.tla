------------------------------ MODULE Shredder ------------------------------
(***************************************************************************)
(* The core of lib/shredder.c: files of equal size are hashed one          *)
(* increment at a time and sifted into a tree of groups, one generation of *)
(* groups per increment.  A group is finalised when no file can reach it   *)
(* any more: it is freed if its files went on to its children, and sent to *)
(* the result pool otherwise.                                              *)
(*                                                                         *)
(* The actors are the threads of each device (md-scheduler.c), the hash    *)
(* pipes that call rm_shred_hash_callback (hasher.c), any of which may be  *)
(* the one to finalise a group, and the single thread of the result pool.  *)
(* The critical section that rm_shred_sift runs under the lock of the      *)
(* current group (and, nested in it, the lock of the child) is one action; *)
(* everything that the code does unlocked is an action of its own.         *)
(*                                                                         *)
(* A file of this module is what enters rm_shred_group_push_file: one file *)
(* with the hardlinks and checksum twins clustered to it.  Digests are     *)
(* taken to be collision free, so that a group is named by what its files  *)
(* have in common: their size and the increments hashed so far.            *)
(***************************************************************************)
EXTENDS Naturals, Sequences, FiniteSets

CONSTANTS
  Files,            \* clusters that reach rm_shred_process_group
  Devices,          \* RmMDSDevice, one per disk
  Disk,             \* Disk[f]: the device of a file
  Blocks,           \* what an increment may read
  Content,          \* Content[f]: its increments; files of one size have as many
  Meta,             \* Meta[f]: what the counters of a group count of it
  Config,           \* the options that rm_shred_group_qualifies reads
  Rotational,       \* devices whose threads may wait for a hash
  ThreadsPerDisk    \* cfg->threads_per_disk

\* The number of increments of a file; two files have it in common exactly
\* when they have the same size.
Steps(f) == Len(Content[f])

SameSize(f) == {h \in Files : Steps(h) = Steps(f)}

\* Every file of a size has a checksum in its extended attributes already.
AllHaveExtCksum(f) == \A h \in SameSize(f) : Meta[h].ext

Same(f, h) == Content[f] = Content[h]

MetaRecord ==
  [files : Nat \ {0}, pref : Nat, npref : Nat, new : Nat, inodes : Nat \ {0},
   ext : BOOLEAN, names : SUBSET STRING]

ConfigRecord ==
  [needsPref : BOOLEAN, needsNPref : BOOLEAN, needsNew : BOOLEAN,
   unmatchedBasenames : BOOLEAN, mergeDirectories : BOOLEAN]

ASSUME FilesAssumption ==
  /\ IsFiniteSet(Files)
  /\ Disk \in [Files -> Devices]
  /\ Content \in [Files -> Seq(Blocks)]
  /\ Meta \in [Files -> MetaRecord]
  /\ Config \in ConfigRecord
  /\ Rotational \subseteq Devices
  /\ ThreadsPerDisk \in Nat \ {0}

\* Checksum twins were clustered, and the stored checksums are right.
ASSUME ExtAssumption ==
  \A f, h \in Files : AllHaveExtCksum(f) /\ Same(f, h) => f = h

-----------------------------------------------------------------------------
\* RmShredGroup: named by the size, the hashed increments and, when it holds a
\* cluster that needs no hashing at all, that cluster.
GroupAt(f, n) ==
  [size   |-> Steps(f),
   alone  |-> IF AllHaveExtCksum(f) THEN {f} ELSE {},
   prefix |-> SubSeq(Content[f], 1, n)]

Groups == UNION {{GroupAt(f, n) : n \in 0..Steps(f)} : f \in Files}

Root(f)     == GroupAt(f, 0)
Complete(g) == Len(g.prefix) = g.size
Parent(g)   == [size |-> g.size, alone |-> g.alone,
                prefix |-> SubSeq(g.prefix, 1, Len(g.prefix) - 1)]
Children(g) == {c \in Groups : c.prefix # <<>> /\ Parent(c) = g}

\* rm_shred_group_qualifies, of the clusters that have entered a group.
Qualifies(S) ==
  /\ \/ \E f, h \in S : f # h
     \/ \E f \in S : Meta[f].files >= 2
  /\ Config.needsPref => \E f \in S : Meta[f].pref > 0
  /\ Config.needsNPref => \E f \in S : Meta[f].npref > 0
  /\ Config.needsNew => \E f \in S : Meta[f].new > 0
  /\ Config.unmatchedBasenames =>
       \E f, h \in S : \E a \in Meta[f].names, b \in Meta[h].names : a # b

\* The last two tests of rm_shred_group_update_status: several clusters, or
\* hardlinks of one inode whose checksum the directory merger will need.
WorthHashing(S) ==
  \/ \E f, h \in S : f # h
  \/ /\ Config.mergeDirectories
     /\ \E f \in S : Meta[f].inodes = 1 /\ ~Meta[f].ext

-----------------------------------------------------------------------------
VARIABLES
  stat,         \* RmShredGroup.status; "none" before, "freed" after its life
  members,      \* the clusters that have entered a group
  pending,      \* num_pending
  orphan,       \* parent = NULL
  at,           \* where a cluster is
  offset,       \* RmFile.hash_offset, in increments
  shred_group,  \* RmFile.shred_group
  failed,       \* RmFile.status = RM_FILE_STATE_IGNORE
  waiting,      \* RmFile.shredder_waiting
  finalising,   \* groups some thread is about to pass to rm_shred_group_finalise
  orphaning,    \* groups some thread is about to pass to rm_shred_group_make_orphan
  result_pool,  \* groups pushed to the result pool
  ref_count,    \* RmMDSDevice.ref_count
  aborted,      \* rm_session_was_aborted()
  verdict       \* what became of each cluster

groupVars == <<stat, members, pending, orphan>>
fileVars  == <<at, offset, shred_group, failed, waiting>>
workVars  == <<finalising, orphaning, result_pool>>
vars == <<groupVars, fileVars, workVars, ref_count, aborted, verdict>>

Undecided == [kind |-> "none", twins |-> {}]
Ignored   == [kind |-> "ignored", twins |-> {}]

Places == {"input",    \* in session->tables, not yet preprocessed
           "queued",   \* a task of its device
           "busy",     \* in the hands of a device thread
           "hashing",  \* its increment is on its way through a hash pipe
           "hashed",   \* the hash is done and a device thread waits for it
           "held",     \* in held_files of its group
           "out"}      \* discarded

\* What num_pending counts.
InFlight(f) == at[f] \in {"queued", "busy", "hashing", "hashed"}
Pending(g)  == {f \in Files : InFlight(f) /\ shred_group[f] = g}
Held(g)     == {f \in Files : at[f] = "held" /\ shred_group[f] = g}

Init ==
  /\ stat = [g \in Groups |-> "none"]
  /\ members = [g \in Groups |-> {}]
  /\ pending = [g \in Groups |-> 0]
  /\ orphan = [g \in Groups |-> g.prefix = <<>>]
  /\ at = [f \in Files |-> "input"]
  /\ offset = [f \in Files |-> 0]
  /\ shred_group = [f \in Files |-> Root(f)]
  /\ failed = [f \in Files |-> FALSE]
  /\ waiting = [f \in Files |-> FALSE]
  /\ finalising = {} /\ orphaning = {} /\ result_pool = {}
  /\ ref_count = [d \in Devices |-> 0]
  /\ aborted = FALSE
  /\ verdict = [f \in Files |-> Undecided]

-----------------------------------------------------------------------------
\* rm_shred_group_update_status, once the clusters S have entered g.
StatusWith(g, S) ==
  IF stat[g] \in {"none", "dormant"}
  THEN IF Qualifies(S) /\ ~Complete(g) /\ WorthHashing(S)
       THEN "start_hashing" ELSE "dormant"
  ELSE stat[g]

\* rm_shred_process_group: the main thread fills the root group of one size
\* (one group per cluster when all have checksums) before the devices start.
Preprocess(f) ==
  LET class == IF AllHaveExtCksum(f) THEN {f} ELSE SameSize(f)
      new   == StatusWith(Root(f), class)
  IN  /\ at[f] = "input"
      /\ stat' = [stat EXCEPT ![Root(f)] = new]
      /\ members' = [members EXCEPT ![Root(f)] = class]
      /\ pending' = [pending EXCEPT
                       ![Root(f)] = IF new = "dormant" THEN 0 ELSE Cardinality(class)]
      /\ at' = [h \in Files |->
                  IF h \notin class THEN at[h]
                  ELSE IF new = "dormant" THEN "held" ELSE "queued"]
      /\ ref_count' = [d \in Devices |->
                         ref_count[d] + Cardinality({h \in class : Disk[h] = d})]
      /\ finalising' = IF new = "dormant" THEN finalising \cup {Root(f)} ELSE finalising
      /\ UNCHANGED <<orphan, offset, shred_group, failed, waiting, orphaning,
                     result_pool, aborted, verdict>>

Started == \A f \in Files : at[f] # "input"

-----------------------------------------------------------------------------
\* Mutant: the held files are released, but not counted.
PushFileForgetsHeld(child, f) ==
  LET arrived == members[child] \cup {f}
      new     == StatusWith(child, arrived)
      goes    == new = "start_hashing"
      freed   == IF goes THEN Held(child) ELSE {}
  IN  /\ stat' = [stat EXCEPT ![child] = new]
      /\ members' = [members EXCEPT ![child] = arrived]
      /\ pending' = [pending EXCEPT ![child] = IF goes THEN @ + 1 ELSE @,
                                    ![shred_group[f]] = @ - 1]
      /\ shred_group' = [shred_group EXCEPT ![f] = child]
      /\ at' = [h \in Files |->
                  IF h \in freed THEN "queued"
                  ELSE IF h # f THEN at[h]
                  ELSE IF ~goes THEN "held"
                  ELSE IF waiting[f] THEN "busy" ELSE "queued"]

\* rm_shred_group_push_file(child, f, FALSE): f enters the child group; the
\* first arrival that makes it worth hashing releases those held so far.
PushFile(child, f) ==
  LET arrived == members[child] \cup {f}
      new     == StatusWith(child, arrived)
      goes    == new = "start_hashing"
      freed   == IF goes THEN Held(child) ELSE {}
  IN  /\ stat' = [stat EXCEPT ![child] = new]
      /\ members' = [members EXCEPT ![child] = arrived]
      /\ pending' = [pending EXCEPT
                       ![child] = IF goes THEN @ + Cardinality(freed) + 1 ELSE @,
                       ![shred_group[f]] = @ - 1]
      /\ shred_group' = [shred_group EXCEPT ![f] = child]
      /\ at' = [h \in Files |->
                  IF h \in freed THEN "queued"
                  ELSE IF h # f THEN at[h]
                  ELSE IF ~goes THEN "held"
                  ELSE IF waiting[f] THEN "busy" ELSE "queued"]

\* Mutants: the device keeps its reference to a file that failed; the device
\* thread drops one of its own.
DiscardKeepsRef(S, reason) ==
  /\ ref_count' = IF reason = Ignored THEN ref_count
                  ELSE [d \in Devices |->
                          ref_count[d] - Cardinality({h \in S : Disk[h] = d})]
  /\ verdict' = [h \in Files |-> IF h \in S THEN reason ELSE verdict[h]]
DiscardTwice(S, reason) ==
  /\ ref_count' = [d \in Devices |->
                     ref_count[d] - 2 * Cardinality({h \in S : Disk[h] = d})]
  /\ verdict' = [h \in Files |-> IF h \in S THEN reason ELSE verdict[h]]

\* rm_shred_discard_file of the clusters S.
Discard(S, reason) ==
  /\ ref_count' = [d \in Devices |->
                     ref_count[d] - Cardinality({h \in S : Disk[h] = d})]
  /\ verdict' = [h \in Files |-> IF h \in S THEN reason ELSE verdict[h]]

\* Mutant: the parent, which may still send a file, is forgotten.
LastFileLeftTooSoon(g) == pending'[g] = 0
\* The test of rm_shred_sift for a group that no file will enter or leave.
LastFileLeft(g) == orphan[g] /\ pending'[g] = 0

\* The critical section of rm_shred_sift, and the decision it ends in; ignore
\* says that f->status is RM_FILE_STATE_IGNORE.
Sift(f, ignore) ==
  LET g == shred_group[f]
  IN  /\ IF ignore
         THEN /\ pending' = [pending EXCEPT ![g] = @ - 1]
              /\ at' = [at EXCEPT ![f] = "out"]
              /\ Discard({f}, Ignored)
              /\ UNCHANGED <<stat, members, shred_group>>
         ELSE /\ PushFile(GroupAt(f, offset[f]), f)
              /\ UNCHANGED <<ref_count, verdict>>
      /\ finalising' = IF LastFileLeft(g)
                       THEN finalising \cup {g} ELSE finalising
      /\ UNCHANGED <<orphan, offset, waiting, orphaning, result_pool, aborted>>

-----------------------------------------------------------------------------
\* Device threads: rm_shred_process_file.

SlotsUsed(d) ==
  Cardinality({f \in Files : Disk[f] = d /\ \/ at[f] = "busy"
                                            \/ at[f] \in {"hashing", "hashed"} /\ waiting[f]})

IdleThread(d) == Started /\ SlotsUsed(d) < ThreadsPerDisk

\* The first test of rm_shred_process_file fails: give the file up.
ProcessAborted(f) ==
  /\ at[f] = "queued" /\ IdleThread(Disk[f]) /\ aborted
  /\ failed' = [failed EXCEPT ![f] = TRUE]
  /\ Sift(f, TRUE)

ProcessFile(f) ==
  /\ at[f] = "queued" /\ IdleThread(Disk[f]) /\ ~aborted
  /\ at' = [at EXCEPT ![f] = "busy"]
  /\ UNCHANGED <<groupVars, offset, shred_group, failed, waiting, workVars,
                 ref_count, aborted, verdict>>

\* It pays to wait for the hash: there is more to read, the disk would seek,
\* and the group has a child that the file may follow.
MayWait(f) ==
  /\ offset[f] + 1 < Steps(f)
  /\ Disk[f] \in Rotational
  /\ \E c \in Children(shred_group[f]) : stat[c] # "none"

\* One turn of the loop: read an increment, successfully or not, decide
\* whether to wait and hand the task over to its hash pipe.
ReadIncrement(f) ==
  /\ at[f] = "busy"
  /\ \E ok \in BOOLEAN, wait \in BOOLEAN :
       /\ wait => ok /\ MayWait(f)
       /\ failed' = [failed EXCEPT ![f] = ~ok]
       /\ waiting' = [waiting EXCEPT ![f] = wait]
  /\ offset' = [offset EXCEPT ![f] = @ + 1]
  /\ at' = [at EXCEPT ![f] = "hashing"]
  /\ UNCHANGED <<groupVars, shred_group, workVars, ref_count, aborted, verdict>>

\* rm_shred_hash_callback: wake the thread that waits, or sift the file here.
HashCallback(f) ==
  /\ at[f] = "hashing"
  /\ IF waiting[f]
     THEN /\ at' = [at EXCEPT ![f] = "hashed"]
          /\ UNCHANGED <<groupVars, offset, shred_group, failed, waiting, workVars,
                         ref_count, aborted, verdict>>
     ELSE Sift(f, failed[f]) /\ UNCHANGED failed

\* rm_signal_wait returns; the device thread sifts the file and goes on with
\* it if it is handed back.
SiftWaiting(f) ==
  /\ at[f] = "hashed"
  /\ Sift(f, failed[f])
  /\ UNCHANGED failed

-----------------------------------------------------------------------------
\* Mutant: every group of files that match is reported.
FinalStatusAlways(g) == "finishing"
FinalStatus(g) == IF Qualifies(members[g]) THEN "finishing" ELSE "dormant"

\* Mutant: the children are not told.
OrphansNone(g) == {}
\* Those that rm_shred_group_free calls rm_shred_group_make_orphan for.
Orphans(g) == {c \in Children(g) : stat[c] # "none"}

\* rm_shred_group_finalise, unlocked.
Finalise(g) ==
  /\ g \in finalising
  /\ finalising' = finalising \ {g}
  /\ IF stat[g] = "dormant"
     THEN /\ stat' = [stat EXCEPT ![g] = FinalStatus(g)]
          /\ result_pool' = result_pool \cup {g}
          /\ UNCHANGED orphaning
     ELSE \* rm_shred_group_free
          /\ stat' = [stat EXCEPT ![g] = "freed"]
          /\ orphaning' = orphaning \cup Orphans(g)
          /\ UNCHANGED result_pool
  /\ UNCHANGED <<members, pending, orphan, fileVars, ref_count, aborted, verdict>>

\* Mutant: the group is finalised although files of it are still hashed.
MakeOrphanBusy(c) ==
  /\ c \in orphaning
  /\ orphaning' = orphaning \ {c}
  /\ orphan' = [orphan EXCEPT ![c] = TRUE]
  /\ finalising' = finalising \cup {c}
  /\ UNCHANGED <<stat, members, pending, fileVars, result_pool, ref_count, aborted,
                 verdict>>

\* rm_shred_group_make_orphan, called for each child of a freed group.
MakeOrphan(c) ==
  /\ c \in orphaning
  /\ orphaning' = orphaning \ {c}
  /\ orphan' = [orphan EXCEPT ![c] = TRUE]
  /\ finalising' = IF pending[c] = 0 THEN finalising \cup {c} ELSE finalising
  /\ UNCHANGED <<stat, members, pending, fileVars, result_pool, ref_count, aborted,
                 verdict>>

\* The single thread of the result pool: rm_shred_result_factory down to the
\* rm_shred_group_free that lets go of the files.
ResultFactory(g) ==
  /\ g \in result_pool
  /\ result_pool' = result_pool \ {g}
  /\ stat' = [stat EXCEPT ![g] = "freed"]
  /\ at' = [f \in Files |-> IF f \in Held(g) THEN "out" ELSE at[f]]
  /\ Discard(Held(g), [kind  |-> IF stat[g] = "finishing" THEN "dup" ELSE "unique",
                       twins |-> Held(g)])
  /\ UNCHANGED <<members, pending, orphan, offset, shred_group, failed, waiting,
                 finalising, orphaning, aborted>>

\* rm_session_abort, from a signal handler.
Abort ==
  /\ ~aborted
  /\ aborted' = TRUE
  /\ UNCHANGED <<groupVars, fileVars, workVars, ref_count, verdict>>

Quiet == at = [f \in Files |-> "out"] /\ finalising = {} /\ orphaning = {}

\* rm_shred_run returns.
Finished == Quiet /\ UNCHANGED vars

Work ==
  \/ \E f \in Files : \/ Preprocess(f) \/ ProcessAborted(f) \/ ProcessFile(f)
                      \/ ReadIncrement(f) \/ HashCallback(f) \/ SiftWaiting(f)
  \/ \E g \in Groups : Finalise(g) \/ MakeOrphan(g) \/ ResultFactory(g)

Next == Work \/ Abort \/ Finished

Spec == Init /\ [][Next]_vars

\* Every thread keeps running: g_thread_pool schedules each of them.
FairSpec == Spec /\ WF_vars(Work)

-----------------------------------------------------------------------------
(* Properties *)

Status == {"none", "dormant", "start_hashing", "finishing", "freed"}

\* Every variable has its type.
TypeOK ==
  /\ stat \in [Groups -> Status]
  /\ members \in [Groups -> SUBSET Files]
  /\ pending \in [Groups -> Nat]
  /\ orphan \in [Groups -> BOOLEAN]
  /\ at \in [Files -> Places]
  /\ offset \in [Files -> Nat]
  /\ shred_group \in [Files -> Groups]
  /\ failed \in [Files -> BOOLEAN]
  /\ waiting \in [Files -> BOOLEAN]
  /\ finalising \subseteq Groups
  /\ orphaning \subseteq Groups
  /\ result_pool \subseteq Groups
  /\ ref_count \in [Devices -> Nat]
  /\ aborted \in BOOLEAN
  /\ verdict \in [Files -> [kind : {"none", "ignored", "dup", "unique"},
                            twins : SUBSET Files]]

\* num_pending, which decides when a group is finalised, counts exactly the
\* clusters of the group that a queue, a device thread or a hash pipe holds:
\* the increments and decrements of rm_shred_group_push_file and rm_shred_sift
\* agree, however the threads interleave.
PendingIsExact == \A g \in Groups : pending[g] = Cardinality(Pending(g))

\* A cluster that a thread will sift belongs to a group that is still hashing
\* and that nobody is about to finalise: no thread uses a freed group.
NoFileInDeadGroup ==
  \A f \in Files :
    InFlight(f) => /\ stat[shred_group[f]] = "start_hashing"
                   /\ shred_group[f] \notin finalising

\* g_assert(self->parent == NULL) in rm_shred_group_free, "children should
\* outlive their parents": what is on its way to be freed has lost its parent,
\* and whoever still has one has a living one.
ChildrenOutliveParents ==
  \A g \in Groups :
    /\ g \in finalising \cup result_pool \/ stat[g] = "freed" => orphan[g]
    /\ stat[g] # "none" /\ ~orphan[g] /\ g \notin orphaning =>
         stat[Parent(g)] = "start_hashing"

\* The threads of a device run until its ref_count is zero, so it must count
\* the clusters of the device that still wait for a verdict, wherever they are.
RefCountCoversWork ==
  \A d \in Devices :
    ref_count[d] = Cardinality({f \in Files : Disk[f] = d /\ at[f] \notin {"input", "out"}})

\* Every verdict that the threads arrive at together is one that a sequential
\* comparison of whole files could have given.
Promise == INSTANCE Sieve WITH Files <- Files, Same <- Same, Qualifies <- Qualifies,
                              verdict <- verdict
ImplementsSieve == Promise!Spec

\* The run ends with a verdict for every file, aborted or not.
EveryFileDecided == <>[](\A f \in Files : verdict[f] # Undecided)
=============================================================================
