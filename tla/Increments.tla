---------------------------- MODULE Increments ----------------------------
(***************************************************************************)
(* The increments in which the files of one group are read: what the       *)
(* device threads and the hash pipes share of it without a lock, and what  *)
(* must hold of it.  ReadSize has the steps, and ShredderProofs proves     *)
(* that they keep to it.                                                   *)
(***************************************************************************)
EXTENDS Integers

CONSTANT MaxInt   \* the largest gint32

VARIABLES
  next_offset,    \* of the group at a hash_offset, 0 if not yet computed
  group,          \* per file, the hash_offset of its group
  hash_offset,    \* per file
  pc,             \* per file, what is next in rm_shred_process_file
  bytes_to_read   \* per file, the increment being read

\* g_assert(file->hash_offset == file->shred_group->next_offset) in
\* rm_shred_hash_callback: no other thread has changed its mind about the
\* increment while the file was read and hashed.
CallbackAgrees ==
  \A f \in DOMAIN pc : pc[f] = "hashed" => hash_offset[f] = next_offset[group[f]]

\* Files of one group are equally far: the digests that the children of the
\* group are told apart by cover the same part of each file, and each read
\* makes progress and fits the gint32 it is returned in.
EqualIncrements ==
  \A f, g \in DOMAIN pc :
    pc[f] = "hashed" =>
      /\ pc[g] = "hashed" /\ group[f] = group[g] => hash_offset[f] = hash_offset[g]
      /\ bytes_to_read[f] \in 1..MaxInt
=============================================================================
