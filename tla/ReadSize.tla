------------------------------ MODULE ReadSize ------------------------------
(***************************************************************************)
(* How much of a file is read next: rm_shred_get_read_size of              *)
(* lib/shredder.c.  The increments of a file grow from one generation of   *)
(* groups to the next, and all files of a group must read the same         *)
(* increment, because the next generation compares what they have read.    *)
(* The size is kept in next_offset of the group, which every device thread *)
(* that is about to read a file of the group computes again, without the   *)
(* lock of the group; the hash pipes read it when the increment is hashed. *)
(* For paranoid digests rm_shred_reassign_checksum computes it once more,  *)
(* under the lock, which makes no difference to those who take none.       *)
(*                                                                         *)
(* The files of this module have the same contents, so that one group per  *)
(* generation holds them all.  It is named by its hash_offset.  Offsets    *)
(* are in bytes; target_bytes is a multiple of the page size already, so   *)
(* that the rounding of the code does not change it.                       *)
(***************************************************************************)
EXTENDS Increments

CONSTANTS
  Files,          \* files of one size and one content
  FileSize,
  BalancedBytes,  \* page_size * SHRED_BALANCED_PAGES
  MaxFactor,      \* SHRED_MAX_READ_FACTOR
  Paranoid,       \* the digest is RM_DIGEST_PARANOID
  ParanoidBytes   \* SHRED_PARANOID_BYTES

\* SHRED_MAX_READ_FACTOR keeps the longest read at 256 MiB and a bit.
ReadSizeAssumption ==
  /\ FileSize \in Nat \ {0}
  /\ BalancedBytes \in Nat \ {0}
  /\ MaxFactor \in Nat \ {0}
  /\ Paranoid \in BOOLEAN
  /\ ParanoidBytes \in Nat \ {0}
  /\ MaxInt \in Nat
  /\ BalancedBytes * MaxFactor + BalancedBytes <= MaxInt

Lesser(a, b) == IF a <= b THEN a ELSE b

\* Mutant: the end of the file is rounded down to whole pages.
TargetWholePages(start, factor) ==
  LET bytes == BalancedBytes * factor
  IN  IF start + bytes + BalancedBytes >= FileSize
      THEN FileSize - (FileSize % BalancedBytes) ELSE start + bytes

\* Where the next increment of a group ends, paranoid digests aside: at the
\* end of the file if what would remain is not worth another seek.
Target(start, factor) ==
  LET bytes == BalancedBytes * factor
  IN  IF start + bytes + BalancedBytes >= FileSize
      THEN FileSize ELSE start + bytes

Offsets == 0..FileSize

VARIABLE offset_factor   \* of the group at a hash_offset, 0 if there is none

vars == <<offset_factor, next_offset, group, hash_offset, pc, bytes_to_read>>

Init ==
  /\ offset_factor = [h \in Offsets |-> IF h = 0 THEN 1 ELSE 0]
  /\ next_offset = [h \in Offsets |-> 0]
  /\ group = [f \in Files |-> 0]
  /\ hash_offset = [f \in Files |-> 0]
  /\ pc = [f \in Files |-> "size"]
  /\ bytes_to_read = [f \in Files |-> 0]

\* Mutant: what was computed before is taken for the start of the increment.
SizePlusRest(f) ==
  /\ pc[f] = "size"
  /\ next_offset' = [next_offset EXCEPT
       ![group[f]] = IF @ = 0 THEN Target(group[f], offset_factor[group[f]])
                     ELSE Lesser(FileSize, @ + BalancedBytes)]
  /\ pc' = [pc EXCEPT ![f] = IF Paranoid THEN "cap" ELSE "read"]
  /\ UNCHANGED <<offset_factor, group, hash_offset, bytes_to_read>>

\* rm_shred_get_read_size up to the first assignment to next_offset.
Size(f) ==
  /\ pc[f] = "size"
  /\ next_offset' = [next_offset EXCEPT
       ![group[f]] = Target(group[f], offset_factor[group[f]])]
  /\ pc' = [pc EXCEPT ![f] = IF Paranoid THEN "cap" ELSE "read"]
  /\ UNCHANGED <<offset_factor, group, hash_offset, bytes_to_read>>

\* Its second assignment, for paranoid digests only.
Cap(f) ==
  /\ pc[f] = "cap"
  /\ next_offset' = [next_offset EXCEPT
       ![group[f]] = Lesser(@, group[f] + ParanoidBytes)]
  /\ pc' = [pc EXCEPT ![f] = "read"]
  /\ UNCHANGED <<offset_factor, group, hash_offset, bytes_to_read>>

\* Its result, read from next_offset once more, and the read of that many bytes.
Read(f) ==
  LET bytes == next_offset[group[f]] - hash_offset[f]
  IN  /\ pc[f] = "read"
      /\ bytes_to_read' = [bytes_to_read EXCEPT ![f] = bytes]
      /\ hash_offset' = [hash_offset EXCEPT ![f] = @ + bytes]
      /\ pc' = [pc EXCEPT ![f] = "hashed"]
      /\ UNCHANGED <<offset_factor, next_offset, group>>

\* Mutant: the increments grow without a limit.
GrowForever(f, h) ==
  offset_factor' = [offset_factor EXCEPT
    ![h] = IF @ = 0 THEN offset_factor[group[f]] * 8 ELSE @]

\* rm_shred_group_new: the first file to arrive creates the group.
Grow(f, h) ==
  offset_factor' = [offset_factor EXCEPT
    ![h] = IF @ = 0 THEN Lesser(offset_factor[group[f]] * 8, MaxFactor) ELSE @]

\* rm_shred_hash_callback and rm_shred_sift, which moves the file to the group
\* of the next generation.  The guard is the assertion of the callback.
HashCallback(f) ==
  LET h == hash_offset[f]
  IN  /\ pc[f] = "hashed"
      /\ h = next_offset[group[f]]
      /\ Grow(f, h)
      /\ group' = [group EXCEPT ![f] = h]
      /\ pc' = [pc EXCEPT ![f] = IF h = FileSize THEN "done" ELSE "size"]
      /\ UNCHANGED <<next_offset, hash_offset, bytes_to_read>>

Done == (\A f \in Files : pc[f] = "done") /\ UNCHANGED vars

Step(f) == Size(f) \/ Cap(f) \/ Read(f) \/ HashCallback(f)

Next == Done \/ \E f \in Files : Step(f)

Spec == Init /\ [][Next]_vars

FairSpec == Spec /\ \A f \in Files : WF_vars(Step(f))

-----------------------------------------------------------------------------
(* Properties *)

\* Every variable has its type.
TypeOK ==
  /\ offset_factor \in [Offsets -> 0..MaxFactor]
  /\ next_offset \in [Offsets -> Offsets]
  /\ group \in [Files -> Offsets]
  /\ hash_offset \in [Files -> Offsets]
  /\ pc \in [Files -> {"size", "cap", "read", "hashed", "done"}]
  /\ bytes_to_read \in [Files -> Nat]

\* The race between the threads that compute next_offset is harmless: every
\* digest but a paranoid one has a single assignment, of the same value, and
\* in a file that fits the paranoid buffer the second one changes nothing.
Harmless == Paranoid => FileSize <= ParanoidBytes

\* Every file is read to its end, in however many increments.
FilesAreReadWhole == <>(\A f \in Files : hash_offset[f] = FileSize)
=============================================================================
