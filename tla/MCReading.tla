----------------------------- MODULE MCReading -----------------------------
(***************************************************************************)
(* Small instances of what a device thread does to read an increment: how  *)
(* much of the file it reads (ReadSize), and how the buffers get to a hash *)
(* pipe (Hasher).  The initial state chooses one of them.                  *)
(***************************************************************************)
EXTENDS Hasher, Increments, TLC

CONSTANTS
  Parts,            \* "hasher", "sizes"
  Files, FileSize, BalancedBytes, MaxFactor, Paranoid, ParanoidBytes, \* of ReadSize
  r1, r2, f1, f2, f3

VARIABLES part, offset_factor

Sizes == INSTANCE ReadSize

sizeVars == <<offset_factor, next_offset, group, hash_offset, pc, bytes_to_read>>
MCvars   == <<part, vars, sizeVars>>

\* Two device threads, three increments.
TwoReaders == {r1, r2}
MCTasks    == {"t", "u", "v"}
MCBlocks   == "t" :> 3 @@ "u" :> 1 @@ "v" :> 1

\* Three threads, each with a file of one group.
ThreeFiles == {f1, f2, f3}

ASSUME ReadingAssumption == Sizes!ReadSizeAssumption

\* The part that is not looked at stays as it begins.
MCInit == part \in Parts /\ Init /\ Sizes!Init

Hashing == part = "hasher" /\ UNCHANGED <<part, sizeVars>>
Sizing  == part = "sizes" /\ UNCHANGED <<part, vars>>

MCNext ==
  \/ Hashing /\ Next
  \/ Sizing /\ Sizes!Next

MCSpec == MCInit /\ [][MCNext]_MCvars

\* The fairness of Hasher and of ReadSize: threads keep running.
MCFairSpec ==
  /\ MCSpec
  /\ \A r \in Readers : WF_MCvars(Hashing /\ ReaderStep(r))
  /\ \A p \in Pipes : WF_MCvars(Hashing /\ PipeStep(p))
  /\ WF_MCvars(Hashing /\ Free)
  /\ \A f \in Files : WF_MCvars(Sizing /\ Sizes!Step(f))

-----------------------------------------------------------------------------
(* The invariants of both parts are checked as they are. *)

\* However threads compete for pipes and buffers, all tasks are done and the hasher is
\* freed (hasher.c); in however many increments, every file is read to its end (shredder.c).
ReadsComplete ==
  <>(IF part = "hasher" THEN main = "freed" ELSE \A f \in Files : hash_offset[f] = FileSize)
=============================================================================
