------------------------------ MODULE XattrCache ------------------------------
(***************************************************************************)
(* The checksums that rmlint keeps in the extended attributes of a file    *)
(* (lib/xattr.c), seen from one file: searches that read, trust, clear and *)
(* write them, one after another, while a user edits the file, and any     *)
(* search may die between two system calls.                                *)
(*                                                                         *)
(* A checksum is the data that it is of.  Times count half seconds, so     *)
(* that st_mtime, which is in whole ones, loses something.                 *)
(***************************************************************************)
EXTENDS Integers, Sequences, FiniteSets

CONSTANTS Caches     \* see CacheRecord

Absent == {}

\* The first content of the file (an empty one is not hashed), what an edit adds to its mtime, what searches do,
\* and how many edits and searches there are.
CacheRecord(c) ==
  /\ c.data \in Seq({"a", "b"}) \ {<<>>} /\ c.tick \in Nat \ {0}
  /\ \A o \in c.searches : o.algorithm \in c.algorithms
  /\ c.edits \in Nat /\ c.runs \in Nat

XattrCacheAssumption == \A c \in Caches : CacheRecord(c)

VARIABLES
  cfg,
  disk,      \* the file: data, mtime
  xattr,     \* user.rmlint.<algorithm>.{cksum, mtime, dedup}
  search,    \* the search that runs, and its RmFile
  budget     \* the edits and searches that are left

cacheVars == <<cfg, disk, xattr, search, budget>>

Idle == [pc |-> "idle"]

At(pc) == search.pc = pc

-----------------------------------------------------------------------------
\* rm_traverse_file stats the file, and clears its attributes if that is asked for.
StartSearch(o) ==
  /\ At("idle") /\ budget.runs > 0
  /\ search' = [pc |-> IF o.clear THEN "delCksum" ELSE IF o.read THEN "getCksum" ELSE "hash",
                then |-> IF o.read THEN "getCksum" ELSE "hash",
                option |-> o, mtime |-> disk.mtime, got |-> Absent, ext_cksum |-> Absent,
                digest |-> <<>>]
  /\ budget' = [budget EXCEPT !.runs = @ - 1]
  /\ UNCHANGED <<cfg, disk, xattr>>

Key == search.option.algorithm
Goto(pc) == search' = [search EXCEPT !.pc = pc]

\* rm_xattr_clear_hash.
ClearCksum ==
  /\ At("delCksum")
  /\ xattr' = [xattr EXCEPT ![Key].cksum = Absent]
  /\ Goto("delMtime")
  /\ UNCHANGED <<cfg, disk, budget>>

ClearMtime ==
  /\ At("delMtime")
  /\ xattr' = [xattr EXCEPT ![Key].mtime = Absent]
  /\ Goto(search.then)
  /\ UNCHANGED <<cfg, disk, budget>>

\* rm_xattr_read_hash.
ReadCksum ==
  /\ At("getCksum")
  /\ search' = [search EXCEPT !.pc = "getMtime", !.got = xattr[Key].cksum, !.then = "hash"]
  /\ UNCHANGED <<cfg, disk, xattr, budget>>

\* The time that was stored is the one that the traversal saw.
Fresh(mtime) == mtime = {search.mtime}

\* What is stale is cleaned away.
ReadMtime ==
  /\ At("getMtime")
  /\ LET mtime == xattr[Key].mtime
     IN  IF search.got = Absent \/ mtime = Absent THEN Goto("hash")
         ELSE IF ~Fresh(mtime) THEN Goto("delCksum")
         ELSE search' = [search EXCEPT !.pc = "grouped", !.ext_cksum = search.got]
  /\ UNCHANGED <<cfg, disk, xattr, budget>>

\* The hasher, which may read a file that is being edited.
HashStart ==
  /\ At("hash")
  /\ search' = [search EXCEPT !.pc = "hash rest", !.digest = SubSeq(disk.data, 1, 1)]
  /\ UNCHANGED <<cfg, disk, xattr, budget>>
HashRest ==
  /\ At("hash rest")
  /\ search' = [search EXCEPT !.pc = "grouped", !.digest = @ \o SubSeq(disk.data, 2, Len(disk.data))]
  /\ UNCHANGED <<cfg, disk, xattr, budget>>

\* rm_shred_write_group_to_xattr and the start of rm_xattr_write_hash.
WritesHash(matched) ==
  /\ search.option.write /\ ~search.option.clamp
  /\ matched \/ search.option.writeUnfinished
  /\ search.ext_cksum = Absent

\* The file is in a group with others or alone.
WriteGroup(matched) ==
  /\ At("grouped")
  /\ IF WritesHash(matched) THEN Goto("setCksum") ELSE search' = Idle
  /\ UNCHANGED <<cfg, disk, xattr, budget>>

\* rm_xattr_write_hash.
WriteCksum ==
  /\ At("setCksum")
  /\ xattr' = [xattr EXCEPT ![Key].cksum = {search.digest}]
  /\ Goto("setMtime")
  /\ UNCHANGED <<cfg, disk, budget>>

\* Mutant: the time of now.
StampNow == disk.mtime
\* RmFile.mtime, from before the file was read.
Stamp == search.mtime

WriteMtime ==
  /\ At("setMtime")
  /\ xattr' = [xattr EXCEPT ![Key].mtime = {Stamp}]
  /\ search' = Idle
  /\ UNCHANGED <<cfg, disk, budget>>

\* The search is killed, or one of the calls fails, which ends what it does here.
Crash ==
  /\ ~At("idle")
  /\ search' = Idle
  /\ UNCHANGED <<cfg, disk, xattr, budget>>

\* The user changes a block, which sets the mtime and leaves the attributes.
Flip(data, b) == [data EXCEPT ![b] = IF @ = "a" THEN "b" ELSE "a"]
Edit(b) ==
  /\ budget.edits > 0
  /\ disk' = [data |-> Flip(disk.data, b), mtime |-> disk.mtime + cfg.tick]
  /\ budget' = [budget EXCEPT !.edits = @ - 1]
  /\ UNCHANGED <<cfg, xattr, search>>

CacheInit ==
  /\ cfg \in Caches
  /\ disk = [data |-> cfg.data, mtime |-> 2]
  /\ xattr = [a \in cfg.algorithms |-> [cksum |-> Absent, mtime |-> Absent, dedup |-> Absent]]
  /\ search = Idle
  /\ budget = [edits |-> cfg.edits, runs |-> cfg.runs]

SearchNext ==
  \/ \E o \in cfg.searches : StartSearch(o)
  \/ ClearCksum \/ ClearMtime \/ ReadCksum \/ ReadMtime \/ HashStart \/ HashRest
  \/ \E matched \in BOOLEAN : WriteGroup(matched)
  \/ WriteCksum \/ WriteMtime \/ Crash

-----------------------------------------------------------------------------
(* Properties *)

\* A checksum that is trusted instead of reading the file is the checksum of what the file
\* held when the search looked at it, whatever crashed between two calls before; it is assumed that
\* an edit changes the mtime, as docs/rmlint.1.rst asks for.
TrustedChecksumIsTrue ==
  ~At("idle") /\ search.ext_cksum # Absent /\ disk.mtime = search.mtime =>
    search.ext_cksum = {disk.data}

\* And so is what is left behind when everything is quiet: a stored pair with the mtime of the file
\* speaks of its data.
StoredChecksumIsTrue ==
  \A a \in cfg.algorithms :
    At("idle") /\ xattr[a].mtime = {disk.mtime} /\ xattr[a].cksum # Absent =>
      xattr[a].cksum = {disk.data}
===============================================================================
