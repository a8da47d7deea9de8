----------------------------- MODULE FileExtents -----------------------------
(***************************************************************************)
(* How rm_util_link_type finds out that two files are reflinks: it asks    *)
(* the kernel for one extent after the other of each, joins those that     *)
(* follow each other on the disk, and compares what it gets                *)
(* (lib/utilities.c).  Offsets count blocks.                               *)
(***************************************************************************)
EXTENDS Integers, Sequences, FiniteSets, FiniteSetsExt

CONSTANTS Pairs     \* pairs of files, each the sequence of its extents

Unknown == 0        \* the physical offset of what is stored inline or not yet allocated

Extent == [logical : Nat, physical : Nat, length : Nat \ {0}]

\* The kernel reports extents in their order in the file.
FileExtentsAssumption ==
  \A p \in Pairs : \A f \in {"a", "b"} :
    /\ p[f] \in Seq(Extent)
    /\ \A n, k \in DOMAIN p[f] : n < k => p[f][n].logical + p[f][n].length <= p[f][k].logical

VARIABLES
  files,
  logical_current,
  reading,     \* the call of rm_offset_get_from_fd that runs
  found,       \* what the calls for each file have returned in this round
  verdict

vars == <<files, logical_current, reading, found, verdict>>

Outcome(start, next, is_last) ==
  [physical |-> start.physical, logical |-> start.logical, next |-> next, is_last |-> is_last]
Nothing == [physical |-> 0, logical |-> 0, next |-> 0, is_last |-> FALSE]
Call(f, offset) == [file |-> f, offset |-> offset, first |-> TRUE,
                    fm_last |-> [logical |-> 0, physical |-> 0, length |-> 0]]

Init ==
  /\ files \in Pairs
  /\ logical_current = 0
  /\ reading = Call("a", 0)
  /\ found = [f \in {"a", "b"} |-> Nothing]
  /\ verdict = "none yet"

\* FS_IOC_FIEMAP for one extent: the first that does not end before the offset, or none.
Fiemap(f, offset) == {n \in DOMAIN files[f] : files[f][n].logical + files[f][n].length > offset}

\* Mutant: a hole in between does not matter.
ContiguousAcrossHoles(e) == e.physical = reading.fm_last.physical + reading.fm_last.length
\* The extent continues the last one on the disk and in the file.
Contiguous(e) ==
  /\ e.physical = reading.fm_last.physical + reading.fm_last.length
  /\ e.physical = reading.fm_last.physical + (e.logical - reading.fm_last.logical)

\* The call returns; the second file follows the first, and the comparison both.
Return(start, next, is_last) ==
  /\ found' = [found EXCEPT ![reading.file] = Outcome(start, next, is_last)]
  /\ reading' = IF reading.file = "a" THEN Call("b", logical_current) ELSE [reading EXCEPT !.file = "compare"]

Running == verdict = "none yet"
Asking == Running /\ reading.file # "compare"

NoExtent ==
  /\ Asking /\ Fiemap(reading.file, reading.offset) = {}
  /\ Return(found[reading.file], reading.offset, FALSE)
  /\ UNCHANGED <<files, logical_current, verdict>>

ReadExtent ==
  /\ Asking /\ Fiemap(reading.file, reading.offset) # {}
  /\ LET f == reading.file
         n == Min(Fiemap(f, reading.offset))
         e == files[f][n]
         start == IF reading.first THEN e ELSE found[f]
     IN  IF ~reading.first /\ ~Contiguous(e) THEN Return(start, reading.offset, FALSE)
         ELSE IF n = Len(files[f]) THEN Return(start, e.logical + e.length, TRUE)
         ELSE /\ found' = [found EXCEPT ![f] = Outcome(start, 0, FALSE)]
              /\ reading' = [reading EXCEPT !.offset = e.logical + e.length, !.first = FALSE, !.fm_last = e]
  /\ UNCHANGED <<files, logical_current, verdict>>

CompareOffsets ==
  /\ Running /\ reading.file = "compare"
  /\ LET a == found["a"]
         b == found["b"]
         result == IF a # b THEN "none"
                   ELSE IF a.physical = Unknown THEN "maybe"
                   ELSE IF a.next <= logical_current THEN "error"
                   ELSE IF a.is_last THEN "reflink" ELSE "none yet"
     IN  /\ verdict' = result
         /\ IF result # "none yet" THEN UNCHANGED <<logical_current, reading, found>>
            ELSE /\ logical_current' = a.next
                 /\ reading' = Call("a", a.next)
                 /\ found' = [f \in {"a", "b"} |-> Nothing]
  /\ UNCHANGED files

Done == ~Running /\ UNCHANGED vars

Next == NoExtent \/ ReadExtent \/ CompareOffsets \/ Done

Spec == Init /\ [][Next]_vars

-----------------------------------------------------------------------------
(* Properties *)

\* Where each block of a file is on the disk, for the blocks that are anywhere.
BlockMap(f) ==
  UNION {{<<e.logical + i, IF e.physical = Unknown THEN Unknown ELSE e.physical + i>> : i \in 0..e.length - 1}
           : e \in {files[f][n] : n \in DOMAIN files[f]}}
Known(f) == \A n \in DOMAIN files[f] : files[f][n].physical # Unknown

\* However the extents are cut, files that are called reflinks share every block, those that share
\* every block are called reflinks, and the search for a difference always ends in an answer.
ReflinksShareAll ==
  /\ verdict = "reflink" => BlockMap("a") = BlockMap("b") /\ Known("a")
  /\ verdict = "none" => BlockMap("a") # BlockMap("b") \/ ~Known("a")
  /\ verdict = "maybe" => ~Known("a") \/ files["a"] = << >>
  /\ verdict # "error"
==============================================================================
