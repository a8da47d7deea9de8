-------------------------------- MODULE Dedupe --------------------------------
(***************************************************************************)
(* rmlint --dedupe (rm_session_dedupe_main in lib/session.c): a file is    *)
(* made to share its extents with an equal one, range by range, and is     *)
(* marked in its extended attributes so that this need not be done again.  *)
(* It runs beside the searches and the user of XattrCache.                 *)
(***************************************************************************)
EXTENDS XattrCache, FiniteSetsExt

\* Blocks per call of the ioctl; the real ones are 16 MiB and 16 KiB.
MaxChunk == 2
MinChunk == 1

\* A scenario has besides: source, dedupes (the number of runs), checkXattr, readonly.
DedupeAssumption ==
  /\ XattrCacheAssumption
  /\ \A c \in Caches : c.source \in Seq({"a", "b"}) /\ c.dedupes \in Nat

VARIABLES
  source,    \* the data of the source
  shared,    \* the blocks of the destination that share the extents of the source
  loop,      \* the run of rm_session_dedupe_main; raced once the user edits during one
  whole      \* what the destination held whenever a run went through to its end

vars == <<cfg, disk, xattr, search, budget, source, shared, loop, whole>>

Off == [pc |-> "off", left |-> cfg.dedupes, result |-> "none", raced |-> FALSE]
To(pc) == loop' = [loop EXCEPT !.pc = pc]
Return(result) == loop' = [Off EXCEPT !.left = loop.left, !.result = result, !.raced = loop.raced]
On(pc) == loop.pc = pc

StartDedupe ==
  /\ On("off") /\ loop.left > 0
  /\ loop' = [pc |-> IF cfg.checkXattr THEN "stat" ELSE "link", left |-> loop.left - 1,
              result |-> "none", mtime |-> 0, offset |-> 0, chunk |-> MaxChunk, size |-> 0,
              quiet |-> TRUE, raced |-> loop.raced]
  /\ UNCHANGED <<cacheVars, source, shared, whole>>

-----------------------------------------------------------------------------
\* stat(2) of rm_xattr_is_deduplicated and of rm_xattr_mark_deduplicated.
StatFile ==
  /\ On("stat") \/ On("stat again")
  /\ loop' = [loop EXCEPT !.pc = IF @ = "stat" THEN "look" ELSE "mark", !.mtime = disk.mtime]
  /\ UNCHANGED <<cacheVars, source, shared, whole>>

\* The attributes whose time is st_mtime, which has no fractions.
Current == {a \in cfg.algorithms : /\ xattr[a].mtime = {2 * (loop.mtime \div 2)}
                                   /\ xattr[a].cksum # Absent}

\* rm_xattr_is_deduplicated.
IsMarked == \E a \in Current : xattr[a].dedup = xattr[a].cksum

Look ==
  /\ On("look")
  /\ IF IsMarked THEN Return("marked") ELSE To("link")
  /\ UNCHANGED <<cacheVars, source, shared, whole>>

\* rm_util_link_type finds that all extents are shared already.
CheckLink ==
  /\ On("link")
  /\ IF Len(source) = Len(disk.data) /\ shared = DOMAIN source THEN Return("reflink")
     ELSE loop' = [loop EXCEPT !.pc = "loop", !.size = Len(source), !.quiet = TRUE]
  /\ UNCHANGED <<cacheVars, source, shared, whole>>

\* A file cannot be opened, or the kernel is too old.
OpenFails ==
  /\ On("link")
  /\ Return("failure")
  /\ UNCHANGED <<cacheVars, source, shared, whole>>

-----------------------------------------------------------------------------
\* What is asked of the kernel: the blocks from offset on.
Length == Min({loop.chunk, loop.size - loop.offset})
Asked  == loop.offset + 1..loop.offset + Length
Within == Asked \subseteq (DOMAIN disk.data \cap DOMAIN source)
Equal  == \A b \in Asked : disk.data[b] = source[b]

\* Mutant: the whole of what was asked for counts.
AdvanceWhole(n) == loop.offset + Length
\* bytes_deduped += dedupe.info.bytes_deduped.
Advance(n) == loop.offset + n

Looping == On("loop") /\ loop.offset < loop.size

\* The kernel shares the first n blocks; to share none ends the loop.
IoctlShares(n) ==
  /\ Looping /\ Within /\ Equal /\ n \in 0..Length
  /\ shared' = shared \cup (loop.offset + 1..loop.offset + n)
  /\ IF n = 0 THEN To("end") ELSE loop' = [loop EXCEPT !.offset = Advance(n)]
  /\ UNCHANGED <<cacheVars, source, whole>>

\* The data differs: the loop goes on in the smallest steps.
IoctlDiffers ==
  /\ Looping /\ Within /\ ~Equal
  /\ loop' = [loop EXCEPT !.chunk = MinChunk, !.pc = IF loop.chunk = MinChunk THEN "end" ELSE @]
  /\ UNCHANGED <<cacheVars, source, shared, whole>>

\* The call fails, for a range past the end for example, or the user interrupts.
IoctlFails ==
  /\ Looping
  /\ To("end")
  /\ UNCHANGED <<cacheVars, source, shared, whole>>

EndLoop ==
  /\ On("end") \/ (On("loop") /\ loop.offset >= loop.size)
  /\ IF loop.offset # loop.size THEN Return("failure") /\ UNCHANGED whole
     ELSE /\ whole' = whole \cup {disk.data}
          /\ IF cfg.checkXattr /\ ~cfg.readonly THEN To("stat again")
             ELSE loop' = [loop EXCEPT !.pc = "success"]
  /\ UNCHANGED <<cacheVars, source, shared>>

\* rm_xattr_mark_deduplicated.
Mark ==
  /\ On("mark")
  /\ xattr' = [a \in cfg.algorithms |-> IF a \in Current THEN [xattr[a] EXCEPT !.dedup = xattr[a].cksum]
                                        ELSE xattr[a]]
  /\ To("success")
  /\ UNCHANGED <<cfg, disk, search, budget, source, shared, whole>>

Succeed ==
  /\ On("success")
  /\ Return("success")
  /\ UNCHANGED <<cacheVars, source, shared, whole>>

-----------------------------------------------------------------------------
\* Who writes to a file no longer shares what is written.
Disturbed == loop' = IF On("off") THEN loop ELSE [loop EXCEPT !.quiet = FALSE, !.raced = TRUE]
EditFile(b) ==
  /\ Edit(b)
  /\ shared' = shared \ {b}
  /\ Disturbed
  /\ UNCHANGED <<source, whole>>
EditSource(b) ==
  /\ budget.edits > 0
  /\ budget' = [budget EXCEPT !.edits = @ - 1]
  /\ source' = Flip(source, b)
  /\ shared' = shared \ {b}
  /\ Disturbed
  /\ UNCHANGED <<cfg, disk, xattr, search, whole>>

Over == At("idle") /\ On("off") /\ loop.left = 0 /\ budget.runs = 0
Done == Over /\ UNCHANGED vars

Init ==
  /\ CacheInit
  /\ source = cfg.source /\ shared = {} /\ loop = Off /\ whole = {}

Next ==
  \/ SearchNext /\ UNCHANGED <<source, shared, loop, whole>>
  \/ \E b \in DOMAIN disk.data : EditFile(b)
  \/ \E b \in DOMAIN source : EditSource(b)
  \/ StartDedupe \/ StatFile \/ Look \/ CheckLink \/ OpenFails
  \/ \E n \in 0..MaxChunk : IoctlShares(n)
  \/ IoctlDiffers \/ IoctlFails \/ EndLoop \/ Mark \/ Succeed \/ Done

Spec == Init /\ [][Next]_vars

-----------------------------------------------------------------------------
(* Properties *)

\* EXIT_SUCCESS means that the work is done.  After a loop nobody disturbed, the file begins with
\* the source, of which it shares every block (a file may be longer than its source and pass: nobody
\* compares the sizes); when the mark says so, the file holds what it held when a loop went through.
\* For the mark no edit may fall into a run, and mtimes must be on whole seconds, since it is looked
\* up by st_mtime.
SuccessMeansDeduplicated ==
  /\ On("success") /\ loop.quiet => /\ shared = DOMAIN source
                                    /\ \A b \in DOMAIN source : b \in DOMAIN disk.data /\ disk.data[b] = source[b]
  /\ On("look") /\ IsMarked /\ ~loop.raced /\ cfg.tick % 2 = 0 => disk.data \in whole
===============================================================================
