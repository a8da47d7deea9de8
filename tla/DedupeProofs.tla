---------------------------- MODULE DedupeProofs ----------------------------
(***************************************************************************)
(* Proofs about XattrCache and Dedupe, for any file, any searches with any *)
(* algorithms and any number of edits, searches and runs of --dedupe: what *)
(* is trusted is the checksum of the present contents, and success of      *)
(* --dedupe means that the source is shared.                               *)
(***************************************************************************)
EXTENDS Dedupe, SequenceTheorems, TLAPS

-----------------------------------------------------------------------------
(* Types. *)

Data  == Seq({"a", "b"})
Pairs == [cksum : SUBSET Data, mtime : SUBSET Nat, dedup : SUBSET Data]

SearchPcs == {"delCksum", "delMtime", "getCksum", "getMtime", "hash", "hash rest", "grouped",
              "setCksum", "setMtime"}
Searching == [pc : SearchPcs, then : {"getCksum", "hash"}, option : cfg.searches, mtime : Nat,
              got : SUBSET Data, ext_cksum : SUBSET Data, digest : Data]

DedupePcs == {"stat", "look", "link", "loop", "end", "stat again", "mark", "success"}
Results   == {"none", "marked", "reflink", "failure", "success"}
Resting   == [pc : {"off"}, left : Nat, result : Results, raced : BOOLEAN]
Running   == [pc : DedupePcs, left : Nat, result : Results, mtime : Nat, offset : Nat,
              chunk : {MinChunk, MaxChunk}, size : Nat, quiet : BOOLEAN, raced : BOOLEAN]

TypeOK ==
  /\ cfg \in Caches
  /\ disk \in [data : Data, mtime : Nat]
  /\ Len(disk.data) > 0
  /\ xattr \in [cfg.algorithms -> Pairs]
  /\ search \in {Idle} \cup Searching
  /\ budget \in [edits : Nat, runs : Nat]
  /\ source \in Data
  /\ shared \subseteq DOMAIN source
  /\ loop \in Resting \cup Running
  /\ whole \subseteq Data

-----------------------------------------------------------------------------
(* The inductive invariant.  An edit moves the mtime on, so what carries the present  *)
(* mtime was written after the last edit.                                             *)

\* A search knows a time that has been, and stored times are not later.
TimesPast ==
  /\ ~At("idle") => search.mtime <= disk.mtime
  /\ \A a \in cfg.algorithms : \A m \in xattr[a].mtime :
       m <= disk.mtime /\ (~At("idle") => m <= search.mtime)

\* Stored times that are up to date stand beside checksums that are true, at any moment.
StoredPairs ==
  \A a \in cfg.algorithms : disk.mtime \in xattr[a].mtime => xattr[a].cksum \subseteq {disk.data}

\* A search that has not been overtaken by an edit has read, trusted and written the truth.
SearchIsTrue ==
  /\ At("getMtime") => search.got = xattr[Key].cksum
  /\ At("setCksum") => search.ext_cksum = Absent
  /\ ~At("idle") /\ search.mtime = disk.mtime =>
       /\ At("hash rest") => search.digest = SubSeq(disk.data, 1, 1)
       /\ (At("grouped") \/ At("setCksum")) /\ search.ext_cksum = Absent =>
            search.digest = disk.data
       /\ search.ext_cksum # Absent => search.ext_cksum = {disk.data}
       /\ At("setMtime") => xattr[Key].cksum = {disk.data}

\* The loop has compared and shared everything before its offset.
LoopIsTrue ==
  /\ \A pc \in {"loop", "end", "stat again", "mark", "success"} : On(pc) =>
       /\ loop.size = Len(source) /\ loop.offset <= loop.size
       /\ loop.quiet =>
            /\ 1..loop.offset \subseteq shared
            /\ \A b \in 1..loop.offset : b \in DOMAIN disk.data /\ disk.data[b] = source[b]
  /\ \A pc \in {"stat", "look", "link"} : On(pc) => loop.offset = 0
  /\ \A pc \in {"stat again", "mark", "success"} : On(pc) => loop.offset = loop.size

\* Without an edit in between, what is marked went through the loop.
MarksAreTrue ==
  ~loop.raced =>
    /\ \A pc \in {"stat again", "mark", "success"} : On(pc) => disk.data \in whole
    /\ \A pc \in {"look", "mark"} : On(pc) => loop.mtime = disk.mtime
    /\ cfg.tick % 2 = 0 => /\ disk.mtime % 2 = 0
                           /\ \A a \in cfg.algorithms : xattr[a].dedup \subseteq whole

IInv ==
  /\ TypeOK
  /\ TimesPast
  /\ StoredPairs
  /\ SearchIsTrue
  /\ LoopIsTrue
  /\ MarksAreTrue

-----------------------------------------------------------------------------
(* Types. *)

LEMMA SearchKind ==
  ASSUME TypeOK, ~At("idle")
  PROVE  search \in Searching
BY DEF TypeOK, At, Idle

LEMMA LoopKind ==
  ASSUME TypeOK
  PROVE  /\ On("off") => loop \in Resting
         /\ ~On("off") => loop \in Running
BY DEF TypeOK, On, Resting, Running, DedupePcs

\* The attributes that a search works on are among those of the file.
LEMMA KeyIsKnown ==
  ASSUME DedupeAssumption, TypeOK, ~At("idle")
  PROVE  Key \in cfg.algorithms
<1>1. search \in Searching
  BY SearchKind
<1> QED
  BY <1>1 DEF DedupeAssumption, XattrCacheAssumption, CacheRecord, TypeOK, Searching, Key

\* What the hasher reads is data, and all of it once it is through.
LEMMA ReadInTwo ==
  ASSUME NEW data \in Data, Len(data) > 0
  PROVE  /\ SubSeq(data, 1, 1) \in Data
         /\ SubSeq(data, 2, Len(data)) \in Data
         /\ SubSeq(data, 1, 1) \o SubSeq(data, 2, Len(data)) = data
<1>1. \A i \in 1..Len(data) : data[i] \in {"a", "b"}
  BY ElementOfSeq DEF Data
<1>2. SubSeq(data, 1, 1) \in Data
  BY <1>1, SubSeqProperties, LenProperties DEF Data
<1>3. SubSeq(data, 2, Len(data)) \in Data
  BY <1>1, SubSeqProperties, LenProperties DEF Data
<1>4. SubSeq(data, 1, 1) \o SubSeq(data, 2, Len(data)) = data
  <2>1. data \in Seq({"a", "b"}) /\ Len(data) \in Nat
    BY LenProperties DEF Data
  <2>2. 1 \in 1..(Len(data) + 1) /\ 1 \in (1 - 1)..Len(data) /\ Len(data) \in 1..Len(data)
    BY <2>1
  <2>3. SubSeq(data, 1, 1) \o SubSeq(data, 1 + 1, Len(data)) = SubSeq(data, 1, Len(data))
    BY ONLY <2>1, <2>2, ConcatAdjacentSubSeq, Zenon
  <2> QED
    BY <2>1, <2>3, SubSeqFull
<1> QED
  BY <1>2, <1>3, <1>4

\* An edit keeps the length of the data.
LEMMA FlipIsData ==
  ASSUME NEW data \in Data, NEW b \in DOMAIN data
  PROVE  /\ Flip(data, b) \in Data
         /\ DOMAIN Flip(data, b) = DOMAIN data
         /\ Len(Flip(data, b)) = Len(data)
         /\ \A i \in DOMAIN data \ {b} : Flip(data, b)[i] = data[i]
<1>1. Flip(data, b) \in Data
  BY ExceptSeq DEF Data, Flip
<1> QED
  BY <1>1, LenProperties DEF Data, Flip

\* The length of a request.
LEMMA RequestLength ==
  ASSUME TypeOK, On("loop"), loop.offset < loop.size
  PROVE  /\ Length \in Nat \ {0}
         /\ Length <= loop.chunk /\ loop.offset + Length <= loop.size
<1>1. loop \in Running
  BY LoopKind DEF On
<1> DEFINE rest == loop.size - loop.offset
<1>2. loop.chunk \in Nat \ {0} /\ rest \in Nat \ {0}
  BY <1>1 DEF Running, MinChunk, MaxChunk
<1>3. \E x \in {loop.chunk, rest} : \A y \in {loop.chunk, rest} : x <= y
  <2>1. CASE loop.chunk <= rest
    BY <1>2, <2>1
  <2>2. CASE ~(loop.chunk <= rest)
    BY <1>2, <2>2
  <2> QED
    BY <2>1, <2>2
<1>4. Length \in {loop.chunk, rest} /\ \A y \in {loop.chunk, rest} : Length <= y
  BY <1>3 DEF Length, Min
<1> QED
  BY <1>1, <1>2, <1>4 DEF Running


\* The rest of the state is typed whatever a search does.
LEMMA SearchKeepsTypes ==
  ASSUME DedupeAssumption, TypeOK, SearchNext, UNCHANGED <<source, shared, loop, whole>>
  PROVE  TypeOK'
<1>1. /\ UNCHANGED <<cfg, disk>>
      /\ budget' = budget \/ (budget.runs > 0 /\ budget' = [budget EXCEPT !.runs = @ - 1])
  BY DEF SearchNext, StartSearch, ClearCksum, ClearMtime, ReadCksum, ReadMtime, HashStart, HashRest,
         WriteGroup, WriteCksum, WriteMtime, Crash
<1>2. budget' \in [edits : Nat, runs : Nat]
  BY <1>1 DEF TypeOK
<1>3. SUFFICES xattr' \in [cfg.algorithms -> Pairs] /\ search' \in {Idle} \cup Searching
  BY <1>1, <1>2 DEF TypeOK, Searching
<1>4. disk.data \in Data /\ Len(disk.data) > 0 /\ disk.mtime \in Nat
  BY DEF TypeOK
<1>5. \A pc \in SearchPcs : ~At("idle") /\ Goto(pc) => search' \in Searching
  BY SearchKind DEF Goto, Searching
<1>6. CASE \E o \in cfg.searches : StartSearch(o)
  <2>1. PICK o \in cfg.searches : StartSearch(o)
    BY <1>6
  <2>2. <<>> \in Data
    BY DEF Data
  <2> QED
    BY <2>1, <2>2, <1>4 DEF StartSearch, Searching, SearchPcs, Absent, TypeOK
<1>7. CASE ClearCksum \/ ClearMtime
  <2>1. ~At("idle")
    BY <1>7 DEF ClearCksum, ClearMtime, At
  <2>2. Key \in cfg.algorithms /\ xattr \in [cfg.algorithms -> Pairs]
    BY <2>1, KeyIsKnown DEF TypeOK
  <2>3. xattr' \in [cfg.algorithms -> Pairs]
    BY <1>7, <2>2 DEF ClearCksum, ClearMtime, Pairs, Absent
  <2>4. search.then \in SearchPcs
    BY <2>1, SearchKind DEF Searching, SearchPcs
  <2> QED
    BY <1>5, <1>7, <2>1, <2>3, <2>4 DEF ClearCksum, ClearMtime, SearchPcs
<1>8. CASE ReadCksum \/ ReadMtime
  <2>1. ~At("idle")
    BY <1>8 DEF ReadCksum, ReadMtime, At
  <2>2. Key \in cfg.algorithms /\ xattr \in [cfg.algorithms -> Pairs] /\ UNCHANGED xattr
    BY <1>8, <2>1, KeyIsKnown DEF TypeOK, ReadCksum, ReadMtime
  <2>3. xattr[Key].cksum \in SUBSET Data /\ search \in Searching
    BY <2>1, <2>2, SearchKind DEF Pairs
  <2>4. CASE ReadCksum
    BY <2>2, <2>3, <2>4 DEF ReadCksum, Searching, SearchPcs
  <2>5. CASE ReadMtime /\ (Goto("hash") \/ Goto("delCksum"))
    BY <1>5, <2>1, <2>2, <2>5 DEF SearchPcs
  <2>6. CASE ReadMtime /\ search' = [search EXCEPT !.pc = "grouped", !.ext_cksum = search.got]
    BY <2>2, <2>3, <2>6 DEF Searching, SearchPcs
  <2> QED
    BY <1>8, <2>4, <2>5, <2>6 DEF ReadMtime
<1>9. CASE HashStart \/ HashRest
  <2>1. search \in Searching
    BY <1>9, SearchKind DEF HashStart, HashRest, At
  <2>2. SubSeq(disk.data, 1, 1) \in Data
    BY <1>4, ReadInTwo
  <2>3. search.digest \o SubSeq(disk.data, 2, Len(disk.data)) \in Data
    <3>1. SubSeq(disk.data, 2, Len(disk.data)) \in Data
      BY <1>4, ReadInTwo
    <3> QED
      BY <2>1, <3>1, ConcatProperties DEF Searching, Data
  <2>4. CASE HashStart
    BY <2>1, <2>2, <2>4 DEF HashStart, Searching, SearchPcs, TypeOK
  <2>5. CASE HashRest
    <3> DEFINE d == search.digest \o SubSeq(disk.data, 2, Len(disk.data))
    <3>1. search' = [search EXCEPT !.pc = "grouped", !.digest = d] /\ UNCHANGED xattr
      BY <2>5 DEF HashRest
    <3>2. d \in Data
      BY <2>3
    <3> HIDE DEF d
    <3> QED
      BY <2>1, <3>1, <3>2 DEF Searching, SearchPcs, TypeOK
  <2> QED
    BY <1>9, <2>4, <2>5
<1>10. CASE WriteCksum \/ WriteMtime
  <2>1. ~At("idle") /\ search \in Searching
    BY <1>10, SearchKind DEF WriteCksum, WriteMtime, At
  <2>2. Key \in cfg.algorithms /\ xattr \in [cfg.algorithms -> Pairs]
    BY <2>1, KeyIsKnown DEF TypeOK
  <2>3. search.digest \in Data /\ search.mtime \in Nat
    BY <2>1 DEF Searching
  <2>4. xattr' \in [cfg.algorithms -> Pairs]
    <3>1. CASE WriteCksum
      BY <2>2, <2>3, <3>1 DEF WriteCksum, Pairs
    <3>2. CASE WriteMtime
      BY <2>2, <2>3, <3>2 DEF WriteMtime, Stamp, Pairs
    <3> QED
      BY <1>10, <3>1, <3>2
  <2> QED
    BY <1>5, <1>10, <2>1, <2>4 DEF WriteCksum, WriteMtime, SearchPcs
<1>11. CASE (\E matched \in BOOLEAN : WriteGroup(matched)) \/ Crash
  <2>1. ~At("idle") /\ UNCHANGED xattr /\ (Goto("setCksum") \/ search' = Idle)
    BY <1>11 DEF WriteGroup, Crash, At
  <2> QED
    BY <1>5, <2>1 DEF SearchPcs, TypeOK
<1> QED
  BY <1>6, <1>7, <1>8, <1>9, <1>10, <1>11 DEF SearchNext

LEMMA EditKeepsTypes ==
  ASSUME DedupeAssumption, TypeOK,
         (\E b \in DOMAIN disk.data : EditFile(b)) \/ (\E b \in DOMAIN source : EditSource(b))
  PROVE  TypeOK'
<1>1. /\ budget' \in [edits : Nat, runs : Nat]
      /\ UNCHANGED <<cfg, xattr, search, whole>>
      /\ Disturbed
  BY DEF EditFile, EditSource, Edit, TypeOK
<1>2. loop' \in Resting \cup Running
  <2>1. CASE On("off")
    BY <1>1, <2>1 DEF Disturbed, TypeOK
  <2>2. CASE ~On("off")
    BY <1>1, <2>2, LoopKind DEF Disturbed, Running
  <2> QED
    BY <2>1, <2>2
<1>3. CASE \E b \in DOMAIN disk.data : EditFile(b)
  <2>1. PICK b \in DOMAIN disk.data : EditFile(b)
    BY <1>3
  <2>2. cfg.tick \in Nat
    BY DEF DedupeAssumption, XattrCacheAssumption, CacheRecord, TypeOK
  <2>3. Flip(disk.data, b) \in Data /\ Len(Flip(disk.data, b)) = Len(disk.data)
    BY FlipIsData DEF TypeOK
  <2>4. /\ disk' \in [data : Data, mtime : Nat] /\ Len(disk'.data) > 0
        /\ UNCHANGED source /\ shared' \subseteq shared
    BY <2>1, <2>2, <2>3 DEF EditFile, Edit, TypeOK
  <2> QED
    BY <1>1, <1>2, <2>4 DEF TypeOK, Searching
<1>4. CASE \E b \in DOMAIN source : EditSource(b)
  <2>1. PICK b \in DOMAIN source : EditSource(b)
    BY <1>4
  <2>2. Flip(source, b) \in Data /\ DOMAIN Flip(source, b) = DOMAIN source
    BY FlipIsData DEF TypeOK
  <2>3. source' \in Data /\ shared' \subseteq DOMAIN source' /\ UNCHANGED disk
    BY <2>1, <2>2 DEF EditSource, TypeOK
  <2> QED
    BY <1>1, <1>2, <2>3 DEF TypeOK, Searching
<1> QED
  BY <1>3, <1>4


\* A step of rm_session_dedupe_main.
DedupeStep ==
  \/ StartDedupe \/ StatFile \/ Look \/ CheckLink \/ OpenFails
  \/ \E n \in 0..MaxChunk : IoctlShares(n)
  \/ IoctlDiffers \/ IoctlFails \/ EndLoop \/ Mark \/ Succeed

\* It leaves all but its own mark alone.
LEMMA DedupeFrame ==
  ASSUME TypeOK, DedupeStep
  PROVE  /\ UNCHANGED <<cfg, disk, search, budget, source>>
         /\ whole \subseteq whole' /\ shared \subseteq shared'
         /\ xattr' \in [cfg.algorithms -> Pairs]
         /\ \A a \in cfg.algorithms :
              xattr'[a].mtime = xattr[a].mtime /\ xattr'[a].cksum = xattr[a].cksum
         /\ ~On("mark") => UNCHANGED xattr
<1>1. CASE Mark
  BY <1>1 DEF Mark, TypeOK, Pairs, On
<1>2. CASE ~Mark
  <2>1. UNCHANGED cacheVars /\ UNCHANGED source /\ whole \subseteq whole' /\ shared \subseteq shared'
    BY <1>2 DEF DedupeStep, StartDedupe, StatFile, Look, CheckLink, OpenFails, IoctlShares,
                IoctlDiffers, IoctlFails, EndLoop, Succeed
  <2> QED
    BY <2>1 DEF cacheVars, TypeOK
<1> QED
  BY <1>1, <1>2

LEMMA DedupeKeepsTypes ==
  ASSUME DedupeAssumption, TypeOK, DedupeStep
  PROVE  TypeOK'
<1>1. /\ UNCHANGED <<cfg, disk, search, budget, source>>
      /\ xattr' \in [cfg.algorithms -> Pairs]
  BY DedupeFrame
<1>2. SUFFICES shared' \subseteq DOMAIN source /\ loop' \in Resting \cup Running /\ whole' \subseteq Data
  BY <1>1 DEF TypeOK, Searching
<1>3. disk.mtime \in Nat /\ Len(source) \in Nat /\ disk.data \in Data
  BY LenProperties DEF TypeOK, Data
<1>4. \A result \in Results : Return(result) => loop' \in Resting
  BY DEF Return, Off, TypeOK, Resting, Running
<1>5. \A pc \in DedupePcs : ~On("off") /\ To(pc) => loop' \in Running
  BY LoopKind DEF To, Running
<1>6. CASE StartDedupe
  <2>1. loop.left - 1 \in Nat /\ loop.raced \in BOOLEAN /\ UNCHANGED <<shared, whole>>
    BY <1>6, LoopKind DEF StartDedupe, Resting
  <2>2. loop' \in Running
    BY <1>6, <2>1 DEF StartDedupe, Running, DedupePcs, Results
  <2> QED
    BY <2>1, <2>2 DEF TypeOK
<1>7. CASE StatFile
  BY <1>3, <1>7, LoopKind DEF StatFile, Running, DedupePcs, TypeOK, On
<1>8. CASE Look \/ CheckLink \/ OpenFails \/ Succeed
  <2>1. UNCHANGED <<shared, whole>> /\ ~On("off")
    BY <1>8 DEF Look, CheckLink, OpenFails, Succeed, On
  <2>2. CASE Look \/ OpenFails \/ Succeed
    BY <1>4, <1>5, <2>1, <2>2 DEF Look, OpenFails, Succeed, DedupePcs, Results, TypeOK
  <2>3. CASE CheckLink
    BY <1>3, <1>4, <2>1, <2>3, LoopKind, ZenonT(30) DEF CheckLink, DedupePcs, Results, Running, TypeOK
  <2> QED
    BY <1>8, <2>2, <2>3
<1>9. CASE \E n \in 0..MaxChunk : IoctlShares(n)
  <2>1. PICK n \in 0..MaxChunk : IoctlShares(n)
    BY <1>9
  <2>2. On("loop") /\ loop.offset < loop.size /\ ~On("off") /\ loop \in Running /\ UNCHANGED whole
    BY <2>1, LoopKind DEF IoctlShares, Looping, On
  <2>3. n \in 0..Length /\ Asked \subseteq DOMAIN source
    BY <2>1 DEF IoctlShares, Within
  <2>4. n <= Length /\ Length \in Nat /\ loop.offset \in Nat
    BY <2>2, <2>3, RequestLength DEF Running
  <2>5. shared' \subseteq DOMAIN source
    BY <2>1, <2>3, <2>4 DEF IoctlShares, Asked, TypeOK
  <2>6. loop' \in Running
    <3>1. CASE n = 0
      BY <1>5, <2>1, <2>2, <3>1 DEF IoctlShares, DedupePcs
    <3>2. CASE n # 0
      BY <2>1, <2>2, <2>4, <3>2 DEF IoctlShares, Advance, Running
    <3> QED
      BY <3>1, <3>2
  <2> QED
    BY <2>2, <2>5, <2>6 DEF TypeOK
<1>10. CASE IoctlDiffers \/ IoctlFails
  <2>1. loop \in Running /\ ~On("off") /\ UNCHANGED <<shared, whole>>
    BY <1>10, LoopKind DEF IoctlDiffers, IoctlFails, Looping, On
  <2> QED
    BY <1>5, <1>10, <2>1 DEF IoctlDiffers, IoctlFails, Running, DedupePcs, TypeOK
<1>11. CASE EndLoop
  <2>1. loop \in Running /\ ~On("off") /\ UNCHANGED shared /\ whole' \subseteq Data
    BY <1>3, <1>11, LoopKind DEF EndLoop, On, TypeOK
  <2>2. Return("failure") \/ To("stat again") \/ loop' = [loop EXCEPT !.pc = "success"]
    BY <1>11 DEF EndLoop
  <2> QED
    BY <1>4, <1>5, <2>1, <2>2 DEF To, DedupePcs, Results, TypeOK
<1>12. CASE Mark
  BY <1>5, <1>12 DEF Mark, On, DedupePcs, TypeOK
<1> QED
  BY <1>6, <1>7, <1>8, <1>9, <1>10, <1>11, <1>12 DEF DedupeStep

\* What Next does, in the words of this module.
LEMMA Steps ==
  ASSUME [Next]_vars
  PROVE  \/ SearchNext /\ UNCHANGED <<source, shared, loop, whole>>
         \/ \E b \in DOMAIN disk.data : EditFile(b)
         \/ \E b \in DOMAIN source : EditSource(b)
         \/ DedupeStep
         \/ UNCHANGED vars
BY DEF Next, DedupeStep, Done

LEMMA TypeInvariant ==
  ASSUME DedupeAssumption, TypeOK, [Next]_vars
  PROVE  TypeOK'
<1>1. CASE UNCHANGED vars
  BY <1>1 DEF vars, TypeOK, Searching
<1> QED
  BY <1>1, Steps, SearchKeepsTypes, EditKeepsTypes, DedupeKeepsTypes


-----------------------------------------------------------------------------
(* Checksums are true. *)

LEMMA SearchKeepsChecksums ==
  ASSUME DedupeAssumption, TypeOK, TimesPast, StoredPairs, SearchIsTrue, SearchNext
  PROVE  TimesPast' /\ StoredPairs' /\ SearchIsTrue'
<1>1. UNCHANGED <<cfg, disk>>
  BY DEF SearchNext, StartSearch, ClearCksum, ClearMtime, ReadCksum, ReadMtime, HashStart, HashRest,
         WriteGroup, WriteCksum, WriteMtime, Crash
<1>2. /\ disk.mtime \in Nat /\ xattr \in [cfg.algorithms -> Pairs]
      /\ \A a \in cfg.algorithms : xattr[a].mtime \subseteq Nat
  BY DEF TypeOK, Pairs
<1>3. CASE \E o \in cfg.searches : StartSearch(o)
  BY <1>1, <1>2, <1>3 DEF StartSearch, TimesPast, StoredPairs, SearchIsTrue, At, Absent
<1> DEFINE stays(x) == /\ search.mtime <= disk.mtime
                       /\ \A a \in cfg.algorithms : \A m \in x[a].mtime :
                            m <= disk.mtime /\ m <= search.mtime
           pairs(x) == \A a \in cfg.algorithms : disk.mtime \in x[a].mtime => x[a].cksum \subseteq {disk.data}
<1>4. ASSUME ~At("idle")
      PROVE  /\ search \in Searching /\ search.mtime \in Nat
             /\ Key \in cfg.algorithms
             /\ stays(xattr) /\ pairs(xattr)
             /\ search.option \in cfg.searches
  BY <1>4, SearchKind, KeyIsKnown DEF TimesPast, StoredPairs, Searching
<1>5. CASE ClearCksum
  <2>1. ~At("idle") /\ search.pc = "delCksum"
    BY <1>5 DEF ClearCksum, At
  <2>2. search' = [search EXCEPT !.pc = "delMtime"] /\ xattr' = [xattr EXCEPT ![Key].cksum = {}]
    BY <1>5 DEF ClearCksum, Goto, Absent
  <2>3. /\ search'.pc = "delMtime" /\ search'.mtime = search.mtime
        /\ search'.ext_cksum = search.ext_cksum
    BY <1>4, <2>1, <2>2 DEF Searching
  <2>4. \A a \in cfg.algorithms : xattr'[a].mtime = xattr[a].mtime /\ xattr'[a].cksum \subseteq xattr[a].cksum
    BY <1>2, <1>4, <2>1, <2>2 DEF Pairs
  <2>5. stays(xattr') /\ pairs(xattr')
    BY <1>4, <2>1, <2>4
  <2> QED
    BY <1>1, <2>1, <2>3, <2>5 DEF TimesPast, StoredPairs, SearchIsTrue, At
<1>6. CASE ClearMtime
  <2>1. ~At("idle") /\ search.pc = "delMtime"
    BY <1>6 DEF ClearMtime, At
  <2>2. search' = [search EXCEPT !.pc = search.then] /\ xattr' = [xattr EXCEPT ![Key].mtime = {}]
    BY <1>6 DEF ClearMtime, Goto, Absent
  <2>3. /\ search'.pc \in {"getCksum", "hash"} /\ search'.mtime = search.mtime
        /\ search'.ext_cksum = search.ext_cksum
    BY <1>4, <2>1, <2>2 DEF Searching
  <2>4. \A a \in cfg.algorithms : xattr'[a].mtime \subseteq xattr[a].mtime /\ xattr'[a].cksum = xattr[a].cksum
    BY <1>2, <1>4, <2>1, <2>2 DEF Pairs
  <2>5. stays(xattr') /\ pairs(xattr')
    BY <1>4, <2>1, <2>4
  <2> QED
    BY <1>1, <2>1, <2>3, <2>5 DEF TimesPast, StoredPairs, SearchIsTrue, At
<1>7. CASE ReadCksum
  <2>1. ~At("idle") /\ search.pc = "getCksum" /\ UNCHANGED xattr
    BY <1>7 DEF ReadCksum, At
  <2>2. /\ search'.pc = "getMtime" /\ search'.mtime = search.mtime
        /\ search'.ext_cksum = search.ext_cksum
        /\ search'.got = xattr[Key].cksum /\ Key' = Key
    BY <1>4, <1>7, <2>1 DEF ReadCksum, Searching, Key
  <2>3. stays(xattr) /\ pairs(xattr)
    BY <1>4, <2>1
  <2> QED
    BY <1>1, <2>1, <2>2, <2>3 DEF TimesPast, StoredPairs, SearchIsTrue, At
<1>8. CASE ReadMtime
  <2>1. ~At("idle") /\ search.pc = "getMtime" /\ UNCHANGED xattr
    BY <1>8 DEF ReadMtime, At
  <2>2. stays(xattr) /\ pairs(xattr)
    BY <1>4, <2>1
  <2>3. CASE Goto("hash") \/ Goto("delCksum")
    <3>1. /\ search'.pc \in {"hash", "delCksum"} /\ search'.mtime = search.mtime
          /\ search'.ext_cksum = search.ext_cksum
      BY <1>4, <2>1, <2>3 DEF Goto, Searching
    <3> QED
      BY <1>1, <2>1, <2>2, <3>1 DEF TimesPast, StoredPairs, SearchIsTrue, At
  <2>4. CASE ~(Goto("hash") \/ Goto("delCksum"))
    <3>1. /\ search' = [search EXCEPT !.pc = "grouped", !.ext_cksum = search.got]
          /\ search.got # {} /\ xattr[Key].mtime = {search.mtime}
      BY <1>8, <2>4 DEF ReadMtime, Fresh, Absent
    <3>2. /\ search'.pc = "grouped" /\ search'.mtime = search.mtime
          /\ search'.ext_cksum = search.got
      BY <1>4, <2>1, <3>1 DEF Searching
    <3>3. search.got = xattr[Key].cksum
      BY <2>1 DEF SearchIsTrue, At
    <3>4. search.mtime = disk.mtime => search.got = {disk.data}
      BY <1>4, <2>1, <2>2, <3>1, <3>3
    <3> QED
      BY <1>1, <2>1, <2>2, <3>1, <3>2, <3>4 DEF TimesPast, StoredPairs, SearchIsTrue, At, Absent
  <2> QED
    BY <2>3, <2>4
<1>9. CASE HashStart
  <2>1. ~At("idle") /\ search.pc = "hash" /\ UNCHANGED xattr
    BY <1>9 DEF HashStart, At
  <2>2. /\ search'.pc = "hash rest" /\ search'.mtime = search.mtime
        /\ search'.ext_cksum = search.ext_cksum /\ search'.digest = SubSeq(disk.data, 1, 1)
    BY <1>4, <1>9, <2>1 DEF HashStart, Searching
  <2>3. stays(xattr) /\ pairs(xattr)
    BY <1>4, <2>1
  <2> QED
    BY <1>1, <2>1, <2>2, <2>3 DEF TimesPast, StoredPairs, SearchIsTrue, At
<1>10. CASE HashRest
  <2>1. ~At("idle") /\ search.pc = "hash rest" /\ UNCHANGED xattr
    BY <1>10 DEF HashRest, At
  <2>2. /\ search'.pc = "grouped" /\ search'.mtime = search.mtime
        /\ search'.ext_cksum = search.ext_cksum
        /\ search'.digest = search.digest \o SubSeq(disk.data, 2, Len(disk.data))
    BY <1>4, <1>10, <2>1 DEF HashRest, Searching
  <2>3. search.mtime = disk.mtime => search'.digest = disk.data
    <3>1. search.mtime = disk.mtime => search.digest = SubSeq(disk.data, 1, 1)
      BY <2>1 DEF SearchIsTrue, At
    <3>2. SubSeq(disk.data, 1, 1) \o SubSeq(disk.data, 2, Len(disk.data)) = disk.data
      BY ReadInTwo DEF TypeOK
    <3> QED
      BY <2>2, <3>1, <3>2
  <2>4. stays(xattr) /\ pairs(xattr)
    BY <1>4, <2>1
  <2> QED
    BY <1>1, <2>1, <2>2, <2>3, <2>4 DEF TimesPast, StoredPairs, SearchIsTrue, At
<1>11. CASE \E matched \in BOOLEAN : WriteGroup(matched)
  <2>1. ~At("idle") /\ search.pc = "grouped" /\ UNCHANGED xattr
    BY <1>11 DEF WriteGroup, At
  <2>2. stays(xattr) /\ pairs(xattr)
    BY <1>4, <2>1
  <2>3. CASE search' = Idle
    BY <1>1, <2>1, <2>2, <2>3 DEF Idle, TimesPast, StoredPairs, SearchIsTrue, At
  <2>4. CASE search' # Idle
    <3>1. Goto("setCksum") /\ search.ext_cksum = {}
      BY <1>11, <2>4 DEF WriteGroup, WritesHash, Absent
    <3>2. /\ search'.pc = "setCksum" /\ search'.mtime = search.mtime
          /\ search'.ext_cksum = {} /\ search'.digest = search.digest
      BY <1>4, <2>1, <3>1 DEF Goto, Searching
    <3> QED
      BY <1>1, <2>1, <2>2, <3>1, <3>2 DEF TimesPast, StoredPairs, SearchIsTrue, At, Absent
  <2> QED
    BY <2>3, <2>4
<1>12. CASE WriteCksum
  <2>1. ~At("idle") /\ search.pc = "setCksum"
    BY <1>12 DEF WriteCksum, At
  <2>2. search' = [search EXCEPT !.pc = "setMtime"] /\ xattr' = [xattr EXCEPT ![Key].cksum = {search.digest}]
    BY <1>12 DEF WriteCksum, Goto
  <2>3. /\ search'.pc = "setMtime" /\ search'.mtime = search.mtime
        /\ search'.ext_cksum = search.ext_cksum /\ Key' = Key
    BY <1>4, <2>1, <2>2 DEF Searching, Key
  <2>4. /\ \A a \in cfg.algorithms : xattr'[a].mtime = xattr[a].mtime
        /\ \A a \in cfg.algorithms \ {Key} : xattr'[a].cksum = xattr[a].cksum
        /\ xattr'[Key].cksum = {search.digest}
    BY <1>2, <1>4, <2>1, <2>2 DEF Pairs
  <2>5. search.mtime = disk.mtime => search.digest = disk.data
    BY <2>1 DEF SearchIsTrue, At
  <2>6. stays(xattr')
    BY <1>4, <2>1, <2>4
  <2>7. disk.mtime \in xattr[Key].mtime => search.mtime = disk.mtime
    BY <1>2, <1>4, <2>1
  <2>8. pairs(xattr')
    BY <1>4, <2>1, <2>4, <2>5, <2>7
  <2> QED
    BY <1>1, <2>1, <2>3, <2>4, <2>5, <2>6, <2>8 DEF TimesPast, StoredPairs, SearchIsTrue, At
<1>13. CASE WriteMtime
  <2>1. ~At("idle") /\ search.pc = "setMtime"
    BY <1>13 DEF WriteMtime, At
  <2>2. search' = Idle /\ xattr' = [xattr EXCEPT ![Key].mtime = {search.mtime}]
    BY <1>13 DEF WriteMtime, Stamp
  <2>3. /\ \A a \in cfg.algorithms : xattr'[a].cksum = xattr[a].cksum
        /\ \A a \in cfg.algorithms \ {Key} : xattr'[a].mtime = xattr[a].mtime
        /\ xattr'[Key].mtime = {search.mtime}
    BY <1>2, <1>4, <2>1, <2>2 DEF Pairs
  <2>4. search.mtime = disk.mtime => xattr[Key].cksum = {disk.data}
    BY <2>1 DEF SearchIsTrue, At
  <2>5. stays(xattr')
    BY <1>2, <1>4, <2>1, <2>3
  <2>6. pairs(xattr')
    BY <1>4, <2>1, <2>3, <2>4
  <2> QED
    BY <1>1, <2>2, <2>5, <2>6 DEF Idle, TimesPast, StoredPairs, SearchIsTrue, At
<1>14. CASE Crash
  BY <1>1, <1>14 DEF Crash, Idle, TimesPast, StoredPairs, SearchIsTrue, At
<1> QED
  BY <1>3, <1>5, <1>6, <1>7, <1>8, <1>9, <1>10, <1>11, <1>12, <1>13, <1>14 DEF SearchNext

\* What is stored is older than an edit, and so is what a search has seen.
LEMMA EditKeepsChecksums ==
  ASSUME DedupeAssumption, TypeOK, TimesPast, StoredPairs, SearchIsTrue,
         (\E b \in DOMAIN disk.data : EditFile(b)) \/ (\E b \in DOMAIN source : EditSource(b))
  PROVE  TimesPast' /\ StoredPairs' /\ SearchIsTrue'
<1>1. UNCHANGED <<cfg, xattr, search>>
  BY DEF EditFile, EditSource, Edit
<1>2. CASE \E b \in DOMAIN source : EditSource(b)
  <2>1. UNCHANGED disk
    BY <1>2 DEF EditSource
  <2> QED
    BY <1>1, <2>1 DEF TimesPast, StoredPairs, SearchIsTrue, At, Key
<1>3. CASE \E b \in DOMAIN disk.data : EditFile(b)
  <2>1. disk'.mtime = disk.mtime + cfg.tick
    BY <1>3 DEF EditFile, Edit
  <2>2. disk.mtime \in Nat /\ cfg.tick \in Nat \ {0}
    BY DEF DedupeAssumption, XattrCacheAssumption, CacheRecord, TypeOK
  <2>3. disk.mtime < disk'.mtime /\ disk'.mtime \in Nat
    BY <2>1, <2>2
  <2>4. \A m \in Nat : m <= disk.mtime => m <= disk'.mtime /\ m # disk'.mtime
    BY <2>2, <2>3
  <2>5. \A a \in cfg.algorithms : xattr[a].mtime \subseteq Nat
    BY DEF TypeOK, Pairs
  <2>6. ~At("idle") => search.mtime \in Nat
    BY SearchKind DEF Searching
  <2>7. TimesPast'
    BY <1>1, <2>4, <2>5, <2>6 DEF TimesPast, At
  <2>8. StoredPairs'
    BY <1>1, <2>4, <2>5 DEF TimesPast, StoredPairs
  <2>9. ~At("idle") => search.mtime # disk'.mtime
    BY <2>4, <2>6 DEF TimesPast
  <2>10. SearchIsTrue'
    BY <1>1, <2>9 DEF SearchIsTrue, At, Key
  <2> QED
    BY <2>7, <2>8, <2>10
<1> QED
  BY <1>2, <1>3

LEMMA DedupeKeepsChecksums ==
  ASSUME DedupeAssumption, TypeOK, TimesPast, StoredPairs, SearchIsTrue, DedupeStep
  PROVE  TimesPast' /\ StoredPairs' /\ SearchIsTrue'
<1>1. /\ UNCHANGED <<cfg, disk, search>>
      /\ \A a \in cfg.algorithms :
           xattr'[a].mtime = xattr[a].mtime /\ xattr'[a].cksum = xattr[a].cksum
  BY DedupeFrame
<1>2. ~At("idle") => Key \in cfg.algorithms /\ Key' = Key
  BY <1>1, KeyIsKnown DEF Key
<1>3. TimesPast' /\ StoredPairs'
  BY <1>1 DEF TimesPast, StoredPairs, At
<1>4. ~At("idle") => xattr'[Key].cksum = xattr[Key].cksum
  BY <1>1, <1>2
<1>5. SearchIsTrue'
  BY <1>1, <1>2, <1>4 DEF SearchIsTrue, At
<1> QED
  BY <1>3, <1>5


-----------------------------------------------------------------------------
(* The loop and the mark it leaves. *)

LEMMA SearchKeepsLoop ==
  ASSUME DedupeAssumption, TypeOK, LoopIsTrue, MarksAreTrue,
         SearchNext, UNCHANGED <<source, shared, loop, whole>>
  PROVE  LoopIsTrue' /\ MarksAreTrue'
<1>1. UNCHANGED <<cfg, disk>>
  BY DEF SearchNext, StartSearch, ClearCksum, ClearMtime, ReadCksum, ReadMtime, HashStart, HashRest,
         WriteGroup, WriteCksum, WriteMtime, Crash
<1>2. LoopIsTrue'
  BY <1>1 DEF LoopIsTrue, On
<1>3. \A a \in cfg.algorithms : xattr'[a].dedup = xattr[a].dedup
  <2>1. xattr \in [cfg.algorithms -> Pairs]
    BY DEF TypeOK
  <2>2. CASE ClearCksum \/ ClearMtime
    BY <2>1, <2>2 DEF ClearCksum, ClearMtime, Pairs
  <2>3. CASE WriteCksum \/ WriteMtime
    BY <2>1, <2>3 DEF WriteCksum, WriteMtime, Pairs
  <2>4. CASE ~(ClearCksum \/ ClearMtime) /\ ~(WriteCksum \/ WriteMtime)
    BY <2>4 DEF SearchNext, StartSearch, ReadCksum, ReadMtime, HashStart, HashRest, WriteGroup, Crash
  <2> QED
    BY <2>2, <2>3, <2>4
<1>4. MarksAreTrue'
  BY <1>1, <1>3 DEF MarksAreTrue, On
<1> QED
  BY <1>2, <1>4

\* Who edits while --dedupe runs loses its promises.
LEMMA EditKeepsLoop ==
  ASSUME DedupeAssumption, TypeOK, LoopIsTrue, MarksAreTrue,
         (\E b \in DOMAIN disk.data : EditFile(b)) \/ (\E b \in DOMAIN source : EditSource(b))
  PROVE  LoopIsTrue' /\ MarksAreTrue'
<1>1. Disturbed /\ UNCHANGED <<cfg, xattr, whole>> /\ Len(source') = Len(source)
  <2>1. CASE \E b \in DOMAIN disk.data : EditFile(b)
    BY <2>1 DEF EditFile, Edit
  <2>2. CASE \E b \in DOMAIN source : EditSource(b)
    BY <2>2, FlipIsData DEF EditSource, TypeOK
  <2> QED
    BY <2>1, <2>2
<1>2. CASE On("off")
  <2>1. UNCHANGED loop /\ loop.pc = "off"
    BY <1>1, <1>2 DEF Disturbed, On
  <2>2. LoopIsTrue'
    BY <2>1 DEF LoopIsTrue, On
  <2>3. disk.mtime % 2 = 0 /\ cfg.tick % 2 = 0 => disk'.mtime % 2 = 0
    <3>1. disk'.mtime = disk.mtime \/ disk'.mtime = disk.mtime + cfg.tick
      BY DEF EditFile, EditSource, Edit
    <3>2. disk.mtime \in Nat /\ cfg.tick \in Nat
      BY DEF DedupeAssumption, XattrCacheAssumption, CacheRecord, TypeOK
    <3> QED
      BY <3>1, <3>2
  <2>4. MarksAreTrue'
    BY <1>1, <2>1, <2>3 DEF MarksAreTrue, On
  <2> QED
    BY <2>2, <2>4
<1>3. CASE ~On("off")
  <2>1. loop \in Running
    BY <1>3, LoopKind
  <2>2. loop' = [loop EXCEPT !.quiet = FALSE, !.raced = TRUE]
    BY <1>1, <1>3 DEF Disturbed
  <2>3. /\ loop'.pc = loop.pc /\ loop'.size = loop.size /\ loop'.offset = loop.offset
        /\ ~loop'.quiet /\ loop'.raced
    BY <2>1, <2>2 DEF Running
  <2>4. LoopIsTrue'
    BY <1>1, <2>3 DEF LoopIsTrue, On
  <2>5. MarksAreTrue'
    BY <2>3 DEF MarksAreTrue
  <2> QED
    BY <2>4, <2>5
<1> QED
  BY <1>2, <1>3

LEMMA DedupeKeepsLoop ==
  ASSUME DedupeAssumption, TypeOK, LoopIsTrue, DedupeStep
  PROVE  LoopIsTrue'
<1>1. UNCHANGED <<disk, source>> /\ shared \subseteq shared'
  BY DedupeFrame
<1>2. CASE loop'.pc \in {"off", "none"}
  BY <1>2 DEF LoopIsTrue, On
<1>3. \A result : Return(result) => loop'.pc = "off"
  BY DEF Return, Off
<1> DEFINE same == /\ loop'.size = loop.size /\ loop'.offset = loop.offset
                   /\ loop'.quiet = loop.quiet
<1>4. ~On("off") => /\ loop \in Running
                    /\ \A pc \in DedupePcs : To(pc) => loop'.pc = pc /\ same
  BY LoopKind DEF To, Running
<1>5. CASE StartDedupe
  BY <1>5 DEF StartDedupe, LoopIsTrue, On
<1>6. CASE StatFile
  <2>1. \/ On("stat") /\ loop'.pc = "look"
        \/ On("stat again") /\ loop'.pc = "mark"
    BY <1>4, <1>6 DEF StatFile, On, Running
  <2>2. same
    BY <1>4, <1>6 DEF StatFile, On, Running
  <2> QED
    BY <1>1, <2>1, <2>2 DEF LoopIsTrue, On
<1>7. CASE Look \/ OpenFails \/ Succeed
  <2>1. CASE Look /\ To("link")
    <3>1. loop'.pc = "link" /\ same /\ loop.pc = "look"
      BY <1>4, <2>1 DEF Look, On, DedupePcs
    <3> QED
      BY <3>1 DEF LoopIsTrue, On
  <2> QED
    BY <1>2, <1>3, <1>7, <2>1 DEF Look, OpenFails, Succeed
<1>8. CASE CheckLink
  <2>1. CASE loop' = [loop EXCEPT !.pc = "loop", !.size = Len(source), !.quiet = TRUE]
    <3>1. loop.pc = "link" /\ loop \in Running
      BY <1>4, <1>8 DEF CheckLink, On
    <3>2. loop'.pc = "loop" /\ loop'.size = Len(source) /\ loop'.offset = loop.offset
      BY <2>1, <3>1 DEF Running
    <3>3. loop.offset = 0 /\ Len(source) \in Nat /\ 1..loop.offset = {}
      BY <3>1, LenProperties DEF LoopIsTrue, On, TypeOK, Data
    <3>4. /\ loop'.size = Len(source') /\ loop'.offset <= loop'.size
          /\ 1..loop'.offset \subseteq shared'
          /\ \A b \in 1..loop'.offset : b \in DOMAIN disk'.data /\ disk'.data[b] = source'[b]
      BY <1>1, <3>2, <3>3
    <3> QED
      BY <3>2, <3>4 DEF LoopIsTrue, On
  <2> QED
    BY <1>2, <1>3, <1>8, <2>1 DEF CheckLink
<1>9. CASE \E n \in 0..MaxChunk : IoctlShares(n)
  <2>1. PICK n \in 0..MaxChunk : IoctlShares(n)
    BY <1>9
  <2>2. loop.pc = "loop" /\ loop.offset < loop.size /\ loop \in Running
    BY <1>4, <2>1 DEF IoctlShares, Looping, On
  <2>3. /\ loop.size = Len(source) /\ loop.offset <= loop.size
        /\ loop.quiet =>
             /\ 1..loop.offset \subseteq shared
             /\ \A b \in 1..loop.offset : b \in DOMAIN disk.data /\ disk.data[b] = source[b]
    BY <2>2 DEF LoopIsTrue, On
  <2>4. CASE n = 0
    <3>1. loop'.pc = "end" /\ same
      BY <1>4, <2>1, <2>2, <2>4 DEF IoctlShares, On, DedupePcs
    <3> QED
      BY <1>1, <2>3, <3>1 DEF LoopIsTrue, On
  <2>5. CASE n # 0
    <3>1. loop' = [loop EXCEPT !.offset = loop.offset + n]
      BY <2>1, <2>5 DEF IoctlShares, Advance
    <3>2. /\ loop'.pc = "loop" /\ loop'.size = loop.size /\ loop'.offset = loop.offset + n
          /\ loop'.quiet = loop.quiet
      BY <2>2, <3>1 DEF Running
    <3>3. n \in 0..Length /\ Length \in Nat /\ loop.offset + Length <= loop.size
      BY <2>1, <2>2, RequestLength DEF IoctlShares, On
    <3>4. loop.offset \in Nat /\ loop.size \in Nat /\ n \in Nat /\ loop.offset + n <= loop.size
      BY <2>2, <3>3 DEF Running
    <3>5. /\ loop.offset + 1..loop.offset + n \subseteq shared'
          /\ \A b \in loop.offset + 1..loop.offset + n : b \in DOMAIN disk.data /\ disk.data[b] = source[b]
      <4>1. /\ shared' = shared \cup (loop.offset + 1..loop.offset + n)
            /\ Asked \subseteq DOMAIN disk.data /\ \A b \in Asked : disk.data[b] = source[b]
        BY <2>1 DEF IoctlShares, Within, Equal
      <4>2. loop.offset + 1..loop.offset + n \subseteq Asked
        BY <3>3, <3>4 DEF Asked
      <4> QED
        BY <4>1, <4>2
    <3>6. \A b \in 1..loop.offset + n : b \in 1..loop.offset \/ b \in loop.offset + 1..loop.offset + n
      BY <3>4
    <3>7. loop.quiet => /\ 1..loop.offset + n \subseteq shared'
                        /\ \A b \in 1..loop.offset + n : b \in DOMAIN disk.data /\ disk.data[b] = source[b]
      BY <1>1, <2>3, <3>5, <3>6
    <3> QED
      BY <1>1, <2>3, <3>2, <3>4, <3>7 DEF LoopIsTrue, On
  <2> QED
    BY <2>4, <2>5
<1>10. CASE IoctlDiffers \/ IoctlFails
  <2>1. loop.pc = "loop" /\ loop \in Running /\ loop'.pc \in {"loop", "end"} /\ same
    BY <1>4, <1>10 DEF IoctlDiffers, IoctlFails, Looping, On, To, Running
  <2> QED
    BY <1>1, <2>1 DEF LoopIsTrue, On
<1>11. CASE EndLoop
  <2>1. loop.pc \in {"end", "loop"} /\ loop \in Running
    BY <1>4, <1>11 DEF EndLoop, On
  <2>2. CASE Return("failure")
    BY <1>2, <1>3, <2>2
  <2>3. CASE ~Return("failure")
    <3>1. loop.offset = loop.size /\ (To("stat again") \/ loop' = [loop EXCEPT !.pc = "success"])
      BY <1>11, <2>3 DEF EndLoop
    <3>2. loop'.pc \in {"stat again", "success"} /\ same
      BY <2>1, <3>1 DEF To, Running
    <3> QED
      BY <1>1, <2>1, <3>1, <3>2 DEF LoopIsTrue, On
  <2> QED
    BY <2>2, <2>3
<1>12. CASE Mark
  <2>1. loop.pc = "mark" /\ loop'.pc = "success" /\ same
    BY <1>4, <1>12 DEF Mark, On, DedupePcs
  <2> QED
    BY <1>1, <2>1 DEF LoopIsTrue, On
<1> QED
  BY <1>5, <1>6, <1>7, <1>8, <1>9, <1>10, <1>11, <1>12 DEF DedupeStep

\* Twice the whole seconds of an even time is the time.
LEMMA WholeSeconds == ASSUME NEW m \in Nat, m % 2 = 0 PROVE 2 * (m \div 2) = m
OBVIOUS

LEMMA DedupeKeepsMarks ==
  ASSUME DedupeAssumption, TypeOK, StoredPairs, LoopIsTrue, MarksAreTrue, DedupeStep
  PROVE  MarksAreTrue'
<1>1. UNCHANGED <<cfg, disk>> /\ whole \subseteq whole'
  BY DedupeFrame
<1>2. loop'.raced = loop.raced
  <2>1. CASE StartDedupe
    BY <2>1 DEF StartDedupe
  <2>2. CASE ~StartDedupe
    <3>1. ~On("off")
      BY <2>2 DEF DedupeStep, StatFile, Look, CheckLink, OpenFails, IoctlShares, Looping,
                  IoctlDiffers, IoctlFails, EndLoop, Mark, Succeed, On
    <3>2. loop \in Running
      BY <3>1, LoopKind
    <3>3. \A result : Return(result) => loop'.raced = loop.raced
      BY DEF Return, Off
    <3>4. \A pc : To(pc) => loop'.raced = loop.raced
      BY <3>2 DEF To, Running
    <3>5. CASE Look \/ CheckLink \/ OpenFails \/ Succeed \/ EndLoop \/ Mark
      BY <3>2, <3>3, <3>4, <3>5 DEF Look, CheckLink, OpenFails, Succeed, EndLoop, Mark, Running
    <3>6. CASE StatFile \/ IoctlDiffers \/ IoctlFails \/ \E n \in 0..MaxChunk : IoctlShares(n)
      BY <3>2, <3>4, <3>6 DEF StatFile, IoctlDiffers, IoctlFails, IoctlShares, Running
    <3> QED
      BY <2>2, <3>5, <3>6 DEF DedupeStep
  <2> QED
    BY <2>1, <2>2
<1> SUFFICES ASSUME ~loop.raced
             PROVE  /\ \A pc \in {"stat again", "mark", "success"} : On(pc)' => disk.data \in whole'
                    /\ \A pc \in {"look", "mark"} : On(pc)' => loop'.mtime = disk.mtime
                    /\ cfg.tick % 2 = 0 => /\ disk.mtime % 2 = 0
                                           /\ \A a \in cfg.algorithms : xattr'[a].dedup \subseteq whole'
  BY <1>1, <1>2 DEF MarksAreTrue
<1>3. \A result : Return(result) => loop'.pc = "off"
  BY DEF Return, Off
<1>4. ~On("off") => /\ loop \in Running
                    /\ \A pc \in DedupePcs : To(pc) => loop'.pc = pc /\ loop'.mtime = loop.mtime
  BY LoopKind DEF To, Running
<1>5. \A pc \in {"stat again", "mark", "success"} : On(pc)' => disk.data \in whole'
  <2>1. CASE EndLoop
    <3>1. CASE Return("failure")
      BY <1>3, <3>1 DEF On
    <3>2. CASE ~Return("failure")
      BY <2>1, <3>2 DEF EndLoop
    <3> QED
      BY <3>1, <3>2
  <2>2. CASE Mark
    <3>1. On("mark")
      BY <2>2 DEF Mark
    <3> QED
      BY <1>1, <3>1 DEF MarksAreTrue
  <2>3. CASE StatFile
    <3>1. On("stat again") \/ loop'.pc = "look"
      BY <1>4, <2>3 DEF StatFile, On, Running
    <3> QED
      BY <1>1, <3>1 DEF MarksAreTrue, On
  <2>4. CASE ~EndLoop /\ ~Mark /\ ~StatFile
    <3>1. CASE StartDedupe
      BY <3>1 DEF StartDedupe, On
    <3>2. CASE Look \/ CheckLink \/ OpenFails \/ Succeed
      <4>1. loop \in Running
        BY <1>4, <3>2 DEF Look, CheckLink, OpenFails, Succeed, On
      <4>2. loop'.pc \in {"off", "link", "loop"}
        BY <1>3, <3>2, <4>1 DEF Look, CheckLink, OpenFails, Succeed, To, Running
      <4> QED
        BY <4>2 DEF On
    <3>3. CASE IoctlDiffers \/ IoctlFails \/ \E n \in 0..MaxChunk : IoctlShares(n)
      <4>1. loop \in Running /\ loop.pc = "loop"
        BY <1>4, <3>3 DEF IoctlDiffers, IoctlFails, IoctlShares, Looping, On
      <4>2. loop'.pc \in {"loop", "end"}
        BY <3>3, <4>1 DEF IoctlDiffers, IoctlFails, IoctlShares, To, Running
      <4> QED
        BY <4>2 DEF On
    <3> QED
      BY <2>4, <3>1, <3>2, <3>3 DEF DedupeStep
  <2> QED
    BY <2>1, <2>2, <2>3, <2>4
<1>6. \A pc \in {"look", "mark"} : On(pc)' => loop'.mtime = disk.mtime
  <2>1. CASE StatFile
    <3>1. loop \in Running
      BY <1>4, <2>1 DEF StatFile, On
    <3> QED
      BY <2>1, <3>1 DEF StatFile, Running
  <2>2. CASE ~StatFile
    <3>1. CASE StartDedupe
      BY <3>1 DEF StartDedupe, On
    <3>2. CASE Look \/ CheckLink \/ OpenFails \/ Succeed \/ EndLoop \/ Mark
      <4>1. loop \in Running
        BY <1>4, <3>2 DEF Look, CheckLink, OpenFails, Succeed, EndLoop, Mark, On
      <4>2. loop'.pc \in {"off", "link", "loop", "stat again", "success"}
        BY <1>3, <3>2, <4>1 DEF Look, CheckLink, OpenFails, Succeed, EndLoop, Mark, To, Running
      <4> QED
        BY <4>2 DEF On
    <3>3. CASE IoctlDiffers \/ IoctlFails \/ \E n \in 0..MaxChunk : IoctlShares(n)
      <4>1. loop \in Running /\ loop.pc = "loop"
        BY <1>4, <3>3 DEF IoctlDiffers, IoctlFails, IoctlShares, Looping, On
      <4>2. loop'.pc \in {"loop", "end"}
        BY <3>3, <4>1 DEF IoctlDiffers, IoctlFails, IoctlShares, To, Running
      <4> QED
        BY <4>2 DEF On
    <3> QED
      BY <2>2, <3>1, <3>2, <3>3 DEF DedupeStep
  <2> QED
    BY <2>1, <2>2
<1>7. ASSUME cfg.tick % 2 = 0
      PROVE  disk.mtime % 2 = 0 /\ \A a \in cfg.algorithms : xattr'[a].dedup \subseteq whole'
  <2>1. disk.mtime % 2 = 0 /\ \A a \in cfg.algorithms : xattr[a].dedup \subseteq whole
    BY <1>7 DEF MarksAreTrue
  <2>2. CASE ~Mark
    <3>1. UNCHANGED xattr
      BY <2>2 DEF DedupeStep, StartDedupe, StatFile, Look, CheckLink, OpenFails, IoctlShares,
                  IoctlDiffers, IoctlFails, EndLoop, Succeed, cacheVars
    <3> QED
      BY <1>1, <2>1, <3>1
  <2>3. CASE Mark
    <3>1. loop.mtime = disk.mtime /\ disk.data \in whole /\ disk.mtime \in Nat
      BY <2>3 DEF Mark, MarksAreTrue, TypeOK
    <3>2. 2 * (loop.mtime \div 2) = disk.mtime
      BY <2>1, <3>1, WholeSeconds
    <3>3. \A a \in Current : a \in cfg.algorithms /\ disk.mtime \in xattr[a].mtime
      BY <3>2 DEF Current
    <3>4. \A a \in Current : xattr[a].cksum \subseteq whole
      BY <3>1, <3>3 DEF StoredPairs
    <3>5. \A a \in cfg.algorithms : \/ xattr'[a].dedup = xattr[a].cksum /\ a \in Current
                                    \/ xattr'[a].dedup = xattr[a].dedup
      BY <2>3 DEF Mark, TypeOK, Pairs
    <3> QED
      BY <1>1, <2>1, <3>4, <3>5
  <2> QED
    BY <2>2, <2>3
<1> QED
  BY <1>5, <1>6, <1>7

-----------------------------------------------------------------------------
(* The theorems. *)

LEMMA Initially ==
  ASSUME DedupeAssumption, Init
  PROVE  IInv
<1>1. /\ cfg \in Caches /\ cfg.data \in Seq({"a", "b"}) \ {<<>>} /\ cfg.edits \in Nat /\ cfg.runs \in Nat
      /\ cfg.source \in Seq({"a", "b"}) /\ cfg.dedupes \in Nat
  BY DEF DedupeAssumption, XattrCacheAssumption, CacheRecord, Init, CacheInit
<1>2. Len(cfg.data) > 0
  BY <1>1, EmptySeq, LenProperties
<1>3. TypeOK
  BY <1>1, <1>2 DEF Init, CacheInit, TypeOK, Data, Pairs, Idle, Absent, Off, Resting, Results
<1>4. /\ search = Idle /\ loop = Off /\ disk.mtime = 2
      /\ \A a \in cfg.algorithms : /\ xattr[a].mtime = {} /\ xattr[a].cksum = {}
                                   /\ xattr[a].dedup = {}
  BY DEF Init, CacheInit, Absent
<1>5. search.pc = "idle" /\ loop.pc = "off"
  BY <1>4 DEF Idle, Off
<1>6. TimesPast /\ StoredPairs /\ SearchIsTrue /\ LoopIsTrue /\ MarksAreTrue
  BY <1>4, <1>5 DEF TimesPast, StoredPairs, SearchIsTrue, LoopIsTrue, MarksAreTrue, At, On
<1> QED
  BY <1>3, <1>6 DEF IInv

LEMMA Inductive ==
  ASSUME DedupeAssumption, IInv, [Next]_vars
  PROVE  IInv'
<1>1. TypeOK'
  BY TypeInvariant DEF IInv
<1>2. TimesPast' /\ StoredPairs' /\ SearchIsTrue'
  <2>1. CASE UNCHANGED vars
    BY <2>1 DEF vars, IInv, TimesPast, StoredPairs, SearchIsTrue, At, Key
  <2> QED
    BY <2>1, Steps, SearchKeepsChecksums, EditKeepsChecksums, DedupeKeepsChecksums DEF IInv
<1>3. LoopIsTrue' /\ MarksAreTrue'
  <2>1. CASE UNCHANGED vars
    BY <2>1 DEF vars, IInv, LoopIsTrue, MarksAreTrue, On
  <2> QED
    BY <2>1, Steps, SearchKeepsLoop, EditKeepsLoop, DedupeKeepsLoop, DedupeKeepsMarks DEF IInv
<1> QED
  BY <1>1, <1>2, <1>3 DEF IInv

THEOREM Invariance == ASSUME DedupeAssumption PROVE Spec => []IInv
<1>1. Init => IInv
  BY Initially
<1>2. IInv /\ [Next]_vars => IInv'
  BY Inductive
<1> QED
  BY <1>1, <1>2, PTL DEF Spec

\* Whatever searches crashed before, a search only trusts the checksum of what the file
\* holds, unless the file was edited since the search looked at it (rm_xattr_read_hash).
THEOREM TrustIsJustified == ASSUME DedupeAssumption PROVE Spec => []TrustedChecksumIsTrue
<1>1. IInv => TrustedChecksumIsTrue
  BY DEF IInv, SearchIsTrue, TrustedChecksumIsTrue
<1> QED
  BY <1>1, Invariance, PTL

\* A pair of attributes with the mtime of the file is of its data (rm_xattr_write_hash).
THEOREM CacheIsTrue == ASSUME DedupeAssumption PROVE Spec => []StoredChecksumIsTrue
<1>1. IInv => StoredChecksumIsTrue
  BY DEF IInv, StoredPairs, StoredChecksumIsTrue, Absent
<1> QED
  BY <1>1, Invariance, PTL

\* A run that reaches "success" has shared the source, and what is believed is in whole.
LEMMA HonestIfInvariant ==
  ASSUME IInv
  PROVE  SuccessMeansDeduplicated
<1>1. ASSUME On("success"), loop.quiet
      PROVE  /\ shared = DOMAIN source
             /\ \A b \in DOMAIN source : b \in DOMAIN disk.data /\ disk.data[b] = source[b]
  <2>1. /\ loop.offset = Len(source) /\ 1..loop.offset \subseteq shared
        /\ \A b \in 1..loop.offset : b \in DOMAIN disk.data /\ disk.data[b] = source[b]
    BY <1>1 DEF IInv, LoopIsTrue
  <2>2. DOMAIN source = 1..Len(source) /\ shared \subseteq DOMAIN source
    BY LenProperties DEF IInv, TypeOK, Data
  <2> QED
    BY <2>1, <2>2
<1>2. ASSUME On("look"), IsMarked, ~loop.raced, cfg.tick % 2 = 0
      PROVE  disk.data \in whole
  <2>1. PICK a \in Current : xattr[a].dedup = xattr[a].cksum
    BY <1>2 DEF IsMarked
  <2>2. loop.mtime = disk.mtime /\ disk.mtime % 2 = 0 /\ disk.mtime \in Nat
    BY <1>2 DEF IInv, MarksAreTrue, TypeOK
  <2>3. 2 * (loop.mtime \div 2) = disk.mtime
    BY <2>2, WholeSeconds
  <2>4. a \in cfg.algorithms /\ disk.mtime \in xattr[a].mtime /\ xattr[a].cksum # {}
    BY <2>1, <2>3 DEF Current, Absent
  <2>5. xattr[a].cksum = {disk.data}
    BY <2>4 DEF IInv, StoredPairs
  <2>6. xattr[a].dedup \subseteq whole
    BY <1>2, <2>4 DEF IInv, MarksAreTrue
  <2> QED
    BY <2>1, <2>5, <2>6
<1> QED
  BY <1>1, <1>2 DEF SuccessMeansDeduplicated

\* Success of --dedupe means that the source is shared, block for block, and a mark that is believed
\* is on contents that went through the loop (rm_session_dedupe_main).
THEOREM DedupeIsHonest == ASSUME DedupeAssumption PROVE Spec => []SuccessMeansDeduplicated
<1>1. IInv => SuccessMeansDeduplicated
  BY HonestIfInvariant
<1> QED
  BY <1>1, Invariance, PTL
=============================================================================
