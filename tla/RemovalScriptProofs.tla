------------------------- MODULE RemovalScriptProofs -------------------------
(***************************************************************************)
(* Proofs about RemovalScript, for any report that is right and any file   *)
(* system: however often users change files, the script is interrupted and *)
(* run again, and whichever handlers and options were chosen, it never     *)
(* destroys the last copy of a content; and a run that nobody disturbs     *)
(* does what its lines say and nothing else.                               *)
(***************************************************************************)
EXTENDS RemovalScript, SequenceTheorems, FiniteSetTheorems, TLAPS

-----------------------------------------------------------------------------
(* Paths *)

LEMMA PrefixIs ==
  ASSUME NEW s \in Seq(STRING), NEW t \in Seq(STRING)
  PROVE  IsPrefix(s, t) <=> Len(s) <= Len(t) /\ \A i \in 1..Len(s) : s[i] = t[i]
<1>1. CASE Len(s) <= Len(t)
  <2>1. SubSeq(s, 1, Len(s)) = s
    BY SubSeqFull
  <2>2. SubSeq(t, 1, Len(s)) \in Seq(STRING) /\ Len(SubSeq(t, 1, Len(s))) = Len(s)
        /\ \A i \in 1..Len(s) : SubSeq(t, 1, Len(s))[i] = t[i]
    BY <1>1, SubSeqProperties
  <2>3. SubSeq(t, 1, Len(s)) = s <=> \A i \in 1..Len(s) : s[i] = t[i]
    BY <2>2, SeqEqual
  <2> QED
    BY <1>1, <2>1, <2>3 DEF IsPrefix
<1> QED
  BY <1>1 DEF IsPrefix

LEMMA PrefixOrder ==
  ASSUME NEW s \in Seq(STRING), NEW t \in Seq(STRING), NEW u \in Seq(STRING)
  PROVE  /\ IsPrefix(s, s)
         /\ IsPrefix(s, t) /\ IsPrefix(t, u) => IsPrefix(s, u)
         /\ IsPrefix(s, t) /\ IsPrefix(t, s) => s = t
         /\ IsStrictPrefix(s, t) /\ Len(s) > 0 => s \in Above(t)
<1>1. IsPrefix(s, s) /\ (IsPrefix(s, t) /\ IsPrefix(t, u) => IsPrefix(s, u))
  BY PrefixIs
<1>2. Len(s) = Len(t) /\ IsPrefix(s, t) => s = t
  BY PrefixIs, SeqEqual
<1>3. IsPrefix(s, t) /\ IsPrefix(t, s) => s = t
  BY <1>2, PrefixIs
<1>4. IsStrictPrefix(s, t) /\ Len(s) > 0 => s \in Above(t)
  <2>1. IsPrefix(s, t) => SubSeq(t, 1, Len(s)) = s /\ Len(s) <= Len(t)
    BY SubSeqFull DEF IsPrefix
  <2>2. IsStrictPrefix(s, t) /\ Len(s) > 0 => Len(s) \in 1..Len(t) - 1
    BY <1>2, <2>1 DEF IsStrictPrefix
  <2> QED
    BY <2>1, <2>2, Zenon DEF IsStrictPrefix, Above
<1> QED
  BY <1>1, <1>3, <1>4

-----------------------------------------------------------------------------
(* The inductive invariant. *)

Dup(d, o) == d \in DOMAIN cfg.node /\ o \in DOMAIN cfg.node /\ Pair(cfg, d, o)

LinkTo(d, o) == [kind |-> "link", to |-> o, inode |-> Seen(d)]
NameOf(o) == [kind |-> "file", inode |-> Seen(o)]

\* What was there is as it was, or a duplicate that the script replaced.
Node(p) ==
  \/ fs.node[p] = cfg.node[p]
  \/ \E o \in DOMAIN cfg.node :
       /\ Dup(p, o)
       /\ fs.node[p] = LinkTo(p, o) \/ (fs.node[p] = NameOf(o) /\ File(cfg, o))

Nodes ==
  /\ cfg \in Scripts /\ DOMAIN fs = {"node", "data"}
  /\ Paths \subseteq DOMAIN cfg.node /\ DOMAIN fs.data = DOMAIN cfg.data
  /\ \A p \in Paths : Node(p)
  /\ \A p \in Paths, q \in DOMAIN cfg.node : IsStrictPrefix(q, p) => Is(q, "dir")

\* The part of the report that has been written ends with k; its last original is last_original.
Written(k) ==
  /\ k \in 0..Len(cfg.report) /\ report = SubSeq(cfg.report, k + 1, Len(cfg.report))
  /\ last_original # << >> =>
       \E m \in 1..k :
         /\ OfGroup(cfg.report[m]) /\ cfg.report[m].original /\ cfg.report[m].path = last_original
         /\ \A j \in m + 1..k : ~(OfGroup(cfg.report[j]) /\ cfg.report[j].original)

Handled == {"cp_symlink", "cp_hardlink", "cp_reflink", "remove_cmd"}
LineIsRight(l) ==
  /\ l.cmd \in Handled => Dup(l.dup, l.orig)
  /\ l.cmd = "cp_reflink" => CanReflink(l.dup, l.orig) /\ File(cfg, l.dup)
  /\ l.cmd = "cp_hardlink" => SameDevice(l.dup, l.orig)
  /\ l.cmd = "original_cmd" => \E n \in DOMAIN cfg.report : OfGroup(cfg.report[n]) /\ cfg.report[n].original /\ l.dup = cfg.report[n].path
  /\ l.cmd = "handle_emptyfile" => \E n \in DOMAIN cfg.report : cfg.report[n].type = "emptyfile" /\ l.dup = cfg.report[n].path
  /\ l.cmd = "handle_bad_symlink" => \E n \in DOMAIN cfg.report : cfg.report[n].type = "badlink" /\ l.dup = cfg.report[n].path

Commands == Handled \cup {"original_cmd", "user_command", "clone", "skip_hardlink", "skip_reflink", "handle_emptydir",
                          "handle_emptyfile", "handle_bad_symlink", "strip or chown"}
LineType == [cmd : Commands, dup : DOMAIN cfg.node, orig : DOMAIN cfg.node]

Lines ==
  /\ \E k \in Int : Written(k)
  /\ DOMAIN script = {"lines", "there", "ran"} /\ script.lines \in Seq(LineType)
  /\ \A n \in DOMAIN script.lines : LineIsRight(script.lines[n])

\* As long as no user came near a pair, what it holds is what rmlint saw.
Unaltered(d, o) ==
  /\ \A p \in Paths : Is(p, "file") /\ (IsPrefix(d, p) \/ IsPrefix(o, p)) => fs.data[fs.node[p].inode] = Content(cfg, p)
  /\ \A p \in DOMAIN cfg.node : IsStrictPrefix(o, p) /\ File(cfg, p) /\ Content(cfg, p) # "" => p \in Paths

Quiet ==
  /\ \A d, o \in DOMAIN cfg.node : Dup(d, o) /\ d \notin touched /\ o \notin touched => Unaltered(d, o)
  /\ \A n \in DOMAIN cfg.report :
       LET z == cfg.report[n].path
       IN  cfg.report[n].type = "emptyfile" /\ z \in Paths /\ z \notin touched => fs.data[Seen(z)] = ""

\* Every content in the tree of d is in that of o.
Covered(d, o) ==
  \A p \in Tree(d) : Is(p, "file") /\ fs.data[fs.node[p].inode] # "" =>
    \E q \in Tree(o) : Is(q, "file") /\ fs.data[fs.node[q].inode] = fs.data[fs.node[p].inode]

ShellFields == {"pc", "n", "opt", "cmd", "quiet", "dir"}
Handling == {"check original", "check duplicate", "compare", "act", "rm", "link", "copy", "clean", "rmdir"}

Shell ==
  /\ sh.pc \in {"off", "line"} \cup Handling
  /\ ~At("off") => DOMAIN sh = ShellFields /\ report = << >> /\ sh.n \in Nat \ {0}
  /\ sh.pc \in Handling => sh.n <= Len(script.lines) /\ L.cmd \in Handled /\ (sh.cmd = "cp_reflink" => L.cmd = "cp_reflink")
  /\ At("copy") => sh.cmd = "cp_reflink"
  /\ At("check duplicate") /\ sh.quiet => L.orig \in Paths
  /\ sh.pc \in {"compare", "act", "rm", "link"} => \A q \in DOMAIN cfg.node : IsStrictPrefix(q, L.dup) => Is(q, "dir")
  /\ sh.pc \in {"act", "rm", "copy"} /\ Relies => Covered(L.dup, L.orig)
  /\ At("link") => L.dup \notin Paths

IInv == Nodes /\ Lines /\ Quiet /\ Shell /\ NothingIsLost

-----------------------------------------------------------------------------
(* What the report says, and the paths it speaks of. *)

LEMMA ConfigIsRight ==
  ASSUME RemovalScriptAssumption, cfg \in Scripts
  PROVE  ScriptRecord(cfg) /\ ReportIsRight(cfg)
BY DEF RemovalScriptAssumption

LEMMA PathsAreNames ==
  ASSUME RemovalScriptAssumption, cfg \in Scripts, NEW p \in DOMAIN cfg.node
  PROVE  p \in Seq(STRING) /\ Len(p) > 0 /\ IsPrefix(p, p) /\ Seen(p) \in DOMAIN cfg.data
BY ConfigIsRight, PrefixOrder DEF ScriptRecord, Seen

LEMMA PrefixesCompare ==
  ASSUME NEW s \in Seq(STRING), NEW t \in Seq(STRING), NEW u \in Seq(STRING), IsPrefix(s, u), IsPrefix(t, u)
  PROVE  IsPrefix(s, t) \/ IsPrefix(t, s)
<1>1. CASE Len(s) <= Len(t)
  BY <1>1, PrefixIs
<1>2. CASE Len(t) <= Len(s)
  BY <1>2, PrefixIs
<1> QED
  BY <1>1, <1>2

\* The entries of a pair.
IsDuplicate(n, d) == OfGroup(cfg.report[n]) /\ ~cfg.report[n].original /\ cfg.report[n].path = d
IsOriginal(m, n, o) ==
  /\ m < n /\ OfGroup(cfg.report[m]) /\ cfg.report[m].original /\ cfg.report[m].path = o
  /\ \A k \in m + 1..n - 1 : ~(OfGroup(cfg.report[k]) /\ cfg.report[k].original)

LEMMA DupEntries ==
  ASSUME NEW d, NEW o, Dup(d, o)
  PROVE  \E m, n \in DOMAIN cfg.report : IsOriginal(m, n, o) /\ IsDuplicate(n, d)
BY DEF Dup, Pair, IsOriginal, IsDuplicate

LEMMA ReportPath ==
  ASSUME RemovalScriptAssumption, cfg \in Scripts, NEW n \in DOMAIN cfg.report
  PROVE  n \in Int /\ cfg.report[n].path \in DOMAIN cfg.node /\ cfg.report[n].path \in Seq(STRING)
<1>1. ScriptRecord(cfg) /\ cfg.report \in Seq(Range(cfg.report))
  BY ConfigIsRight DEF ScriptRecord
<1>2. n \in Int
  <2>1. DOMAIN cfg.report = 1..Len(cfg.report)
    BY <1>1
  <2> QED
    BY <2>1
<1>3. cfg.report[n].path \in DOMAIN cfg.node
  BY <1>1 DEF ScriptRecord
<1> QED
  BY <1>2, <1>3, PathsAreNames

\* A duplicate is listed once, and no other member of a group is near it.
LEMMA MemberApart ==
  ASSUME RemovalScriptAssumption, cfg \in Scripts, NEW m \in DOMAIN cfg.report, NEW n \in DOMAIN cfg.report,
         OfGroup(cfg.report[m]), OfGroup(cfg.report[n]), ~cfg.report[m].original, m # n,
         NEW p \in DOMAIN cfg.node, IsPrefix(cfg.report[m].path, p)
  PROVE  ~IsPrefix(cfg.report[n].path, p)
<1>1. MembersAreApart(cfg)
  BY ConfigIsRight DEF ReportIsRight
<1>2. /\ ~IsPrefix(cfg.report[m].path, cfg.report[n].path)
      /\ ~IsPrefix(cfg.report[n].path, cfg.report[m].path)
  BY <1>1 DEF MembersAreApart
<1> QED
  BY <1>2, PrefixesCompare, ReportPath, PathsAreNames

LEMMA Apart ==
  ASSUME RemovalScriptAssumption, cfg \in Scripts,
         NEW d, NEW o, NEW d2, NEW o2, Dup(d, o), Dup(d2, o2),
         NEW p \in DOMAIN cfg.node, IsPrefix(d, p)
  PROVE  ~IsPrefix(o2, p) /\ (IsPrefix(d2, p) => d2 = d /\ o2 = o)
<1>1. PICK m \in DOMAIN cfg.report, n \in DOMAIN cfg.report : IsOriginal(m, n, o) /\ IsDuplicate(n, d)
  BY DupEntries
<1>2. PICK m2 \in DOMAIN cfg.report, n2 \in DOMAIN cfg.report : IsOriginal(m2, n2, o2) /\ IsDuplicate(n2, d2)
  BY DupEntries
<1>3. ~IsPrefix(o2, p)
  BY <1>1, <1>2, MemberApart DEF IsOriginal, IsDuplicate
<1>4. ASSUME IsPrefix(d2, p) PROVE d2 = d /\ o2 = o
  <2>1. n2 = n
    BY <1>1, <1>2, <1>4, MemberApart DEF IsDuplicate
  <2>2. m \in Int /\ m2 \in Int /\ n \in Int
    BY ReportPath
  <2>3. ~(m < m2) /\ ~(m2 < m)
    BY <1>1, <1>2, <2>1, <2>2 DEF IsOriginal
  <2> QED
    BY <1>1, <1>2, <2>1, <2>2, <2>3 DEF IsOriginal, IsDuplicate
<1> QED
  BY <1>3, <1>4

LEMMA MemberFull ==
  ASSUME RemovalScriptAssumption, cfg \in Scripts, NEW n \in DOMAIN cfg.report, OfGroup(cfg.report[n])
  PROVE  /\ cfg.node[cfg.report[n].path].kind \in {"file", "dir"}
         /\ \E x \in Range(cfg.data) \ {""} : FilesWith(cfg, cfg.report[n].path, x) # {}
BY ConfigIsRight DEF ReportIsRight, MemberIsFull

\* A file holds itself.
LEMMA FileTree ==
  ASSUME RemovalScriptAssumption, cfg \in Scripts, NEW p \in DOMAIN cfg.node, File(cfg, p), NEW x, NEW q \in FilesWith(cfg, p, x)
  PROVE  q = p
<1>1. q \in DOMAIN cfg.node /\ IsPrefix(p, q)
  BY DEF FilesWith
<1>2. ~IsStrictPrefix(p, q)
  BY <1>1, ConfigIsRight DEF ScriptRecord, File
<1> QED
  BY <1>1, <1>2 DEF IsStrictPrefix

\* Every content of a duplicate is in its original.
PairHolds(c, d, o) ==
  /\ c.node[d].kind = c.node[o].kind /\ c.node[d].kind \in {"file", "dir"}
  /\ \A p \in DOMAIN c.node : IsPrefix(d, p) /\ File(c, p) /\ Content(c, p) # "" =>
       \E q \in DOMAIN c.node : IsPrefix(o, q) /\ File(c, q) /\ Content(c, q) = Content(c, p)
  /\ File(c, d) => Content(c, d) = Content(c, o) /\ Content(c, d) # ""

LEMMA PairCounts ==
  ASSUME RemovalScriptAssumption, cfg \in Scripts, NEW d, NEW o, Dup(d, o)
  PROVE  PairIsEqual(cfg, d, o)
BY ConfigIsRight DEF ReportIsRight, Dup

LEMMA PairEqual ==
  ASSUME RemovalScriptAssumption, cfg \in Scripts, NEW d, NEW o, Dup(d, o)
  PROVE  PairHolds(cfg, d, o)
<1>1. PICK m \in DOMAIN cfg.report, n \in DOMAIN cfg.report : IsOriginal(m, n, o) /\ IsDuplicate(n, d)
  BY DupEntries
<1>2. cfg.node[d].kind = cfg.node[o].kind /\ cfg.node[d].kind \in {"file", "dir"}
  BY <1>1, MemberFull, PairCounts DEF PairIsEqual, IsDuplicate
<1>3. ASSUME NEW p \in DOMAIN cfg.node, IsPrefix(d, p), File(cfg, p), Content(cfg, p) # ""
      PROVE  \E q \in DOMAIN cfg.node : IsPrefix(o, q) /\ File(cfg, q) /\ Content(cfg, q) = Content(cfg, p)
  <2> DEFINE x == Content(cfg, p)
  <2>1. p \in FilesWith(cfg, d, x)
    BY <1>3 DEF FilesWith
  <2>2. x \in Range(cfg.data) \ {""}
    BY <1>3, PathsAreNames DEF Content, Seen, Range
  <2>3. IsFiniteSet(DOMAIN cfg.node)
    BY ConfigIsRight DEF ScriptRecord
  <2>4. IsFiniteSet(FilesWith(cfg, d, x)) /\ IsFiniteSet(FilesWith(cfg, o, x))
    BY <2>3, FS_Subset DEF FilesWith
  <2>5. Cardinality(FilesWith(cfg, d, x)) = Cardinality(FilesWith(cfg, o, x))
    BY <2>2, PairCounts DEF PairIsEqual
  <2>6. FilesWith(cfg, o, x) # {}
    BY <2>1, <2>4, <2>5, FS_EmptySet
  <2>7. PICK q : q \in FilesWith(cfg, o, x)
    BY <2>6
  <2> QED
    BY <2>7 DEF FilesWith
<1>4. ASSUME File(cfg, d) PROVE Content(cfg, d) = Content(cfg, o) /\ Content(cfg, d) # ""
  <2>1. PICK x \in Range(cfg.data) \ {""} : FilesWith(cfg, d, x) # {}
    BY <1>1, MemberFull DEF IsDuplicate
  <2>2. PICK q : q \in FilesWith(cfg, d, x)
    BY <2>1
  <2>3. q = d /\ Content(cfg, d) = x
    BY <1>4, <2>2, FileTree DEF FilesWith, Dup
  <2>4. IsPrefix(d, d) /\ d \in DOMAIN cfg.node /\ o \in DOMAIN cfg.node /\ File(cfg, o)
    BY <1>2, <1>4, PathsAreNames DEF Dup, File
  <2>5. PICK r \in DOMAIN cfg.node : IsPrefix(o, r) /\ File(cfg, r) /\ Content(cfg, r) = x
    BY <1>3, <1>4, <2>1, <2>3, <2>4
  <2>6. r = o
    BY <2>4, <2>5, FileTree DEF FilesWith
  <2> QED
    BY <2>1, <2>3, <2>5, <2>6
<1> QED
  BY <1>2, <1>3, <1>4 DEF PairHolds

\* Nothing in the tree of an original is replaced, nor anything in that of a duplicate but the
\* duplicate itself.
LEMMA OriginalIsPlain ==
  ASSUME RemovalScriptAssumption, Nodes, NEW d, NEW o, Dup(d, o), NEW p \in Paths, IsPrefix(o, p)
  PROVE  fs.node[p] = cfg.node[p]
<1>1. p \in DOMAIN cfg.node /\ IsPrefix(p, p) /\ Node(p)
  BY PathsAreNames DEF Nodes
<1>2. \A o2 : ~Dup(p, o2)
  BY <1>1, Apart DEF Nodes
<1> QED
  BY <1>1, <1>2 DEF Node

LEMMA DuplicateIsPlain ==
  ASSUME RemovalScriptAssumption, Nodes, NEW d, NEW o, Dup(d, o), NEW p \in Paths, IsPrefix(d, p)
  PROVE  \/ fs.node[p] = cfg.node[p]
         \/ p = d /\ fs.node[p] = LinkTo(d, o)
         \/ p = d /\ fs.node[p] = NameOf(o) /\ File(cfg, o)
<1>1. p \in DOMAIN cfg.node /\ IsPrefix(p, p) /\ Node(p)
  BY PathsAreNames DEF Nodes
<1>2. \A o2 : Dup(p, o2) => p = d /\ o2 = o
  BY <1>1, Apart DEF Nodes
<1> QED
  BY <1>1, <1>2 DEF Node

LEMMA LintIsPlain ==
  ASSUME RemovalScriptAssumption, Nodes, NEW n \in DOMAIN cfg.report,
         cfg.report[n].type \in {"emptyfile", "badlink"}, cfg.report[n].path \in Paths
  PROVE  /\ fs.node[cfg.report[n].path] = cfg.node[cfg.report[n].path]
         /\ LintIsSo(cfg, cfg.report[n])
<1> DEFINE z == cfg.report[n].path
<1>1. LintIsSo(cfg, cfg.report[n])
  BY ConfigIsRight DEF ReportIsRight, Nodes
<1>2. \A o : ~Dup(z, o)
  <2> SUFFICES ASSUME NEW o, Dup(z, o) PROVE FALSE
    OBVIOUS
  <2>1. PairHolds(cfg, z, o)
    BY PairEqual DEF Nodes
  <2> QED
    BY <1>1, <2>1 DEF PairHolds, LintIsSo, File
<1>3. Node(z)
  BY DEF Nodes
<1> QED
  BY <1>1, <1>2, <1>3 DEF Node

\* A tree whose root is no directory is its root.
LEMMA RootOnly ==
  ASSUME Nodes, NEW p \in Paths, NEW q \in Paths, IsPrefix(p, q), ~Is(p, "dir")
  PROVE  q = p
BY DEF Nodes, IsStrictPrefix

LEMMA ExistsIsPath ==
  ASSUME NEW p, Exists(p)
  PROVE  p \in Paths
BY DEF Exists, Target, Is

\* Inodes stay what they were.
LEMMA InodeOf ==
  ASSUME RemovalScriptAssumption, Nodes, NEW p \in Paths
  PROVE  fs.node[p].inode \in DOMAIN fs.data
<1>1. p \in DOMAIN cfg.node /\ Node(p)
  BY DEF Nodes
<1>2. \A q \in DOMAIN cfg.node : Seen(q) \in DOMAIN fs.data
  BY PathsAreNames DEF Nodes
<1>3. CASE fs.node[p] = cfg.node[p]
  BY <1>1, <1>2, <1>3 DEF Seen
<1>4. ASSUME NEW o \in DOMAIN cfg.node, fs.node[p] = LinkTo(p, o) \/ fs.node[p] = NameOf(o)
      PROVE  fs.node[p].inode \in {Seen(p), Seen(o)}
  BY <1>4 DEF LinkTo, NameOf
<1> QED
  BY <1>1, <1>2, <1>3, <1>4 DEF Node

-----------------------------------------------------------------------------
(* Changes of the file system *)

LEMMA AfterWithout ==
  ASSUME Nodes, NEW p, fs' = Without(p)
  PROVE  /\ DOMAIN fs' = {"node", "data"} /\ fs'.data = fs.data
         /\ Paths' = Paths \ {p}
         /\ \A q \in Paths' : fs'.node[q] = fs.node[q]
BY DEF Nodes, Without, Paths

LEMMA AfterWithNode ==
  ASSUME Nodes, NEW p, NEW n, fs' = WithNode(p, n)
  PROVE  /\ DOMAIN fs' = {"node", "data"} /\ fs'.data = fs.data
         /\ Paths' = Paths \cup {p} /\ fs'.node[p] = n
         /\ \A q \in Paths \ {p} : fs'.node[q] = fs.node[q]
BY DEF Nodes, WithNode, Paths

LEMMA AfterWithData ==
  ASSUME Nodes, NEW i \in DOMAIN fs.data, NEW c, fs' = WithData(i, c)
  PROVE  /\ DOMAIN fs' = {"node", "data"} /\ fs'.node = fs.node /\ Paths' = Paths
         /\ DOMAIN fs'.data = DOMAIN fs.data /\ fs'.data[i] = c
         /\ \A j \in DOMAIN fs.data \ {i} : fs'.data[j] = fs.data[j]
BY DEF Nodes, WithData, Paths

\* What the invariant says of a path stays true of it as long as it is there.
LEMMA NodeStays ==
  ASSUME NEW q, Node(q), UNCHANGED cfg, fs'.node[q] = fs.node[q]
  PROVE  Node(q)'
BY DEF Node, Dup, LinkTo, NameOf, Seen, File

LEMMA NodesWithout ==
  ASSUME Nodes, NEW p, fs' = Without(p), UNCHANGED cfg,
         \A q \in Paths : ~IsStrictPrefix(p, q)
  PROVE  Nodes'
<1>1. \A q \in Paths' : Node(q)'
  BY AfterWithout, NodeStays DEF Nodes
<1>2. \A q \in Paths', r \in DOMAIN cfg.node : IsStrictPrefix(r, q) => Is(r, "dir")'
  BY AfterWithout DEF Nodes, Is
<1> QED
  BY <1>1, <1>2, AfterWithout DEF Nodes

LEMMA NodesWithNode ==
  ASSUME Nodes, NEW d \in DOMAIN cfg.node, NEW o, Dup(d, o), NEW n,
         n = LinkTo(d, o) \/ (n = NameOf(o) /\ File(cfg, o)),
         fs' = WithNode(d, n), UNCHANGED cfg, d \notin Paths,
         \A q \in DOMAIN cfg.node : IsStrictPrefix(q, d) => Is(q, "dir")
  PROVE  Nodes'
<1>1. ASSUME NEW q \in Paths' PROVE Node(q)'
  <2>1. CASE q = d
    BY <2>1, AfterWithNode DEF Node, Dup, LinkTo, NameOf, Seen, File
  <2>2. CASE q # d
    BY <2>2, AfterWithNode, NodeStays DEF Nodes
  <2> QED
    BY <2>1, <2>2
<1>2. \A q \in Paths', r \in DOMAIN cfg.node : IsStrictPrefix(r, q) => Is(r, "dir")'
  BY AfterWithNode DEF Nodes, Is
<1> QED
  BY <1>1, <1>2, AfterWithNode DEF Nodes

LEMMA NodesWithData ==
  ASSUME Nodes, NEW i \in DOMAIN fs.data, NEW c, fs' = WithData(i, c), UNCHANGED cfg
  PROVE  Nodes'
<1>1. \A q \in Paths : Node(q)'
  BY AfterWithData, NodeStays DEF Nodes
<1> QED
  BY <1>1, AfterWithData DEF Nodes, Is

-----------------------------------------------------------------------------
(* What no user came near *)

LEMMA QuietWithout ==
  ASSUME Nodes, Quiet, NEW p, fs' = Without(p), UNCHANGED cfg, touched \subseteq touched',
         \A d, o : Dup(d, o) /\ IsStrictPrefix(o, p) /\ File(cfg, p) /\ Content(cfg, p) # "" => o \in touched'
  PROVE  Quiet'
<1>1. ASSUME NEW d \in DOMAIN cfg.node, NEW o \in DOMAIN cfg.node,
             Dup(d, o), d \notin touched', o \notin touched'
      PROVE  Unaltered(d, o)'
  <2>1. Unaltered(d, o)
    BY <1>1 DEF Quiet
  <2> QED
    BY <1>1, <2>1, AfterWithout DEF Unaltered, Is
<1>2. \A d, o \in DOMAIN cfg.node : Dup(d, o)' <=> Dup(d, o)
  BY DEF Dup
<1>3. \A d, o \in (DOMAIN cfg.node)' : Dup(d, o)' /\ (d \notin touched)' /\ (o \notin touched)' => Unaltered(d, o)'
  BY <1>1, <1>2
<1>4. fs'.data = fs.data /\ Paths' \subseteq Paths
  BY AfterWithout
<1>5. ASSUME NEW n \in DOMAIN cfg.report, NEW z, z = cfg.report[n].path,
             cfg.report[n].type = "emptyfile", z \in Paths', z \notin touched'
      PROVE  fs'.data[Seen(z)] = ""
  BY <1>4, <1>5 DEF Quiet
<1> QED
  BY <1>3, <1>5 DEF Quiet, Seen

LEMMA QuietWithNode ==
  ASSUME RemovalScriptAssumption, Nodes, Quiet, UNCHANGED cfg, UNCHANGED touched, NEW d, NEW o, Dup(d, o), NEW n,
         n = LinkTo(d, o) \/ (n = NameOf(o) /\ File(cfg, o) /\ Is(o, "file")),
         fs' = WithNode(d, n), d \notin Paths
  PROVE  Quiet'
<1>0. /\ fs'.data = fs.data /\ Paths' = Paths \cup {d} /\ fs'.node[d] = n
      /\ \A q \in Paths \ {d} : fs'.node[q] = fs.node[q]
  BY AfterWithNode
<1>1. ASSUME NEW d2 \in DOMAIN cfg.node, NEW o2 \in DOMAIN cfg.node,
             Dup(d2, o2), d2 \notin touched, o2 \notin touched
      PROVE  Unaltered(d2, o2)'
  <2>1. Unaltered(d2, o2)
    BY <1>1 DEF Quiet
  <2>2. ASSUME NEW p \in Paths', Is(p, "file")', IsPrefix(d2, p) \/ IsPrefix(o2, p)
        PROVE  fs'.data[fs'.node[p].inode] = Content(cfg, p)'
    <3>1. CASE p # d
      BY <2>1, <2>2, <3>1, <1>0 DEF Unaltered, Is
    <3>2. CASE p = d
      <4>1. IsPrefix(d, d) /\ d \in DOMAIN cfg.node
        BY PathsAreNames DEF Dup, Nodes
      <4>2. d2 = d /\ o2 = o
        BY <1>1, <2>2, <3>2, <4>1, Apart DEF Nodes
      <4>3. n = NameOf(o) /\ File(cfg, o) /\ Is(o, "file")
        BY <2>2, <3>2, <1>0 DEF LinkTo, Is
      <4>4. o \in Paths /\ IsPrefix(o, o) /\ fs.node[o] = cfg.node[o]
        BY <4>3, PathsAreNames, OriginalIsPlain DEF Is, Nodes
      <4>5. fs.data[Seen(o)] = Content(cfg, o)
        BY <2>1, <4>2, <4>3, <4>4 DEF Unaltered, Seen
      <4>6. Content(cfg, o) = Content(cfg, d)
        BY <4>3, PairEqual DEF PairHolds, File, Nodes
      <4> QED
        BY <3>2, <4>3, <4>5, <4>6, <1>0 DEF NameOf, Content
    <3> QED
      BY <3>1, <3>2
  <2> QED
    BY <2>1, <2>2, <1>0 DEF Unaltered
<1>2. ASSUME NEW k \in DOMAIN cfg.report, cfg.report[k].type = "emptyfile"
      PROVE  cfg.report[k].path # d
  <2>1. LintIsSo(cfg, cfg.report[k]) /\ PairHolds(cfg, d, o)
    BY PairEqual, ConfigIsRight DEF ReportIsRight, Nodes
  <2> QED
    BY <1>2, <2>1 DEF LintIsSo, PairHolds
<1> QED
  BY <1>1, <1>2, <1>0 DEF Quiet, Dup, Seen

-----------------------------------------------------------------------------
(* What is left *)

\* A change loses nothing on which the command relies if every content of a file is left in one.
LEMMA LosesNothing ==
  ASSUME NEW new, Becomes(new), NothingIsLost, Nodes,
         Relies => \A p \in Paths : Is(p, "file") /\ fs.data[fs.node[p].inode] # "" =>
           \E q \in DOMAIN new.node : new.node[q].kind = "file" /\ new.data[new.node[q].inode] = fs.data[fs.node[p].inode]
  PROVE  NothingIsLost'
<1>1. ASSUME NEW c \in Contents, c # "", Relies
      PROVE  c \in {new.data[new.node[p].inode] : p \in {q \in DOMAIN new.node : new.node[q].kind = "file"}}
  <2>1. PICK p \in Paths : Is(p, "file") /\ c = fs.data[fs.node[p].inode]
    BY DEF Contents, Data, Inode, Target, Is
  <2> QED
    BY <1>1, <2>1
<1> QED
  BY <1>1 DEF Becomes, NothingIsLost

LEMMA LosesNothingWithout ==
  ASSUME NEW p, Becomes(Without(p)), NothingIsLost, Nodes,
         Relies /\ Is(p, "file") /\ fs.data[fs.node[p].inode] # "" =>
           \E q \in Paths \ {p} : Is(q, "file") /\ fs.data[fs.node[q].inode] = fs.data[fs.node[p].inode]
  PROVE  NothingIsLost'
<1> DEFINE new == Without(p)
<1>1. DOMAIN new.node = Paths \ {p} /\ new.data = fs.data /\ \A q \in Paths \ {p} : new.node[q] = fs.node[q]
  BY DEF Nodes, Without
<1>2. ASSUME Relies, NEW q \in Paths, Is(q, "file"), fs.data[fs.node[q].inode] # ""
      PROVE  \E r \in DOMAIN new.node : new.node[r].kind = "file" /\ new.data[new.node[r].inode] = fs.data[fs.node[q].inode]
  <2> HIDE DEF new
  <2> QED
    BY <1>1, <1>2 DEF Is
<1> HIDE DEF new
<1>3. Becomes(new)
  BY DEF new
<1> QED
  BY <1>2, <1>3, LosesNothing

-----------------------------------------------------------------------------
(* The script overwrites a duplicate *)

\* What cp --reflink finds and does: the duplicate has its own inode, and gets the original's content.
Overwrites(d, o) ==
  /\ d \in Paths /\ fs.node[d] = cfg.node[d] /\ File(cfg, d)
  /\ o \in Paths /\ fs.node[o] = cfg.node[o] /\ File(cfg, o)
  /\ Inode(d) = Seen(d) /\ Inode(o) = Seen(o)

LEMMA CopyOverwrites ==
  ASSUME RemovalScriptAssumption, Nodes, NEW d, NEW o, Dup(d, o), File(cfg, d),
         IsFile(o), IsFile(d), Inode(d) # Inode(o)
  PROVE  Overwrites(d, o)
<1>1. d \in Paths /\ o \in Paths
  BY DEF IsFile, Target, Is
<1>2. IsPrefix(d, d) /\ IsPrefix(o, o)
  BY PathsAreNames DEF Dup, Nodes
<1>3. fs.node[o] = cfg.node[o] /\ cfg.node[o].kind = "file"
  BY <1>1, <1>2, OriginalIsPlain, PairEqual DEF PairHolds, File, Nodes
<1>4. Inode(o) = Seen(o)
  BY <1>3 DEF Inode, Target, Is, Seen
<1>5. fs.node[d] # LinkTo(d, o)
  <2> SUFFICES ASSUME fs.node[d] = LinkTo(d, o) PROVE FALSE
    OBVIOUS
  <2>1. Target(d) = o /\ Target(o) = o
    BY <1>1, <1>3 DEF LinkTo, Target, Is
  <2> QED
    BY <2>1 DEF Inode
<1>6. fs.node[d] # NameOf(o)
  BY <1>4 DEF NameOf, Inode, Target, Is
<1>7. fs.node[d] = cfg.node[d]
  BY <1>1, <1>2, <1>5, <1>6, DuplicateIsPlain
<1>8. Inode(d) = Seen(d)
  BY <1>7 DEF Inode, Target, Is, Seen, File
<1> QED
  BY <1>1, <1>3, <1>4, <1>7, <1>8 DEF Overwrites, File

LEMMA QuietCopy ==
  ASSUME RemovalScriptAssumption, Nodes, Quiet, UNCHANGED cfg, UNCHANGED touched,
         NEW d, NEW o, Dup(d, o), CanReflink(d, o), Overwrites(d, o),
         fs' = WithData(Seen(d), fs.data[Seen(o)])
  PROVE  Quiet'
<1>0. /\ fs'.node = fs.node /\ Paths' = Paths /\ fs'.data[Seen(d)] = fs.data[Seen(o)]
      /\ \A j \in DOMAIN fs.data \ {Seen(d)} : fs'.data[j] = fs.data[j]
  <2>1. Seen(d) \in DOMAIN fs.data
    BY PathsAreNames DEF Nodes, Dup
  <2> QED
    BY <2>1, AfterWithData
<1>1. /\ File(cfg, d) /\ cfg.dev[cfg.node[d].inode] \in cfg.reflinkfs
      /\ Content(cfg, d) = Content(cfg, o) /\ Content(cfg, d) # ""
  BY PairEqual DEF Overwrites, CanReflink, SameDevice, Seen, PairHolds, Nodes
<1>2. ASSUME NEW d2 \in DOMAIN cfg.node, NEW o2 \in DOMAIN cfg.node,
             Dup(d2, o2), d2 \notin touched, o2 \notin touched
      PROVE  Unaltered(d2, o2)'
  <2>1. Unaltered(d2, o2)
    BY <1>2 DEF Quiet
  <2>2. ASSUME NEW p \in Paths, Is(p, "file"), IsPrefix(d2, p) \/ IsPrefix(o2, p)
        PROVE  fs'.data[fs.node[p].inode] = Content(cfg, p)
    <3>1. CASE fs.node[p].inode # Seen(d)
      BY <1>0, <2>1, <2>2, <3>1, InodeOf DEF Unaltered
    <3>2. CASE fs.node[p].inode = Seen(d)
      <4>1. PICK r \in DOMAIN cfg.node : /\ File(cfg, r) /\ Seen(r) = Seen(d) /\ Content(cfg, r) = Content(cfg, p)
                                         /\ IsPrefix(d2, r) \/ IsPrefix(o2, r)
        <5>1. CASE fs.node[p] = cfg.node[p]
          <6>1. p \in DOMAIN cfg.node /\ File(cfg, p) /\ Seen(p) = Seen(d)
            BY <2>2, <3>2, <5>1 DEF Nodes, File, Seen, Is
          <6> QED
            BY <2>2, <6>1
        <5>2. CASE fs.node[p] # cfg.node[p]
          <6>1. ~IsPrefix(o2, p)
            BY <1>2, <5>2, OriginalIsPlain
          <6>2. p = d2 /\ (fs.node[p] = LinkTo(d2, o2) \/ (fs.node[p] = NameOf(o2) /\ File(cfg, o2)))
            BY <1>2, <2>2, <5>2, <6>1, DuplicateIsPlain
          <6>3. p = d2 /\ fs.node[p] = NameOf(o2) /\ File(cfg, o2)
            BY <2>2, <6>2 DEF LinkTo, Is
          <6>4. Seen(o2) = Seen(d)
            BY <3>2, <6>3 DEF NameOf
          <6>5. Content(cfg, o2) = Content(cfg, p)
            <7>1. PairHolds(cfg, p, o2)
              BY <1>2, <6>3, PairEqual DEF Nodes
            <7>2. File(cfg, p)
              BY <6>3, <7>1 DEF PairHolds, File
            <7> QED
              BY <7>1, <7>2 DEF PairHolds
          <6> QED
            BY <6>3, <6>4, <6>5, PathsAreNames DEF Nodes
        <5> QED
          BY <5>1, <5>2
      <4>2. IsPrefix(o2, o)
        <5>1. NamesAreTogether(cfg, d, o, d2, o2)
          BY <1>2, ConfigIsRight DEF ReportIsRight, Dup, Nodes
        <5> QED
          BY <1>1, <4>1, <5>1 DEF NamesAreTogether, Seen
      <4>3. fs.data[Seen(o)] = Content(cfg, o)
        BY <2>1, <4>2 DEF Unaltered, Overwrites, File, Is, Seen
      <4>4. Content(cfg, r) = Content(cfg, d)
        BY <4>1 DEF Content, Seen
      <4> QED
        BY <1>0, <1>1, <3>2, <4>1, <4>3, <4>4
    <3> QED
      BY <3>1, <3>2
  <2> QED
    BY <1>0, <2>1, <2>2 DEF Unaltered, Is
<1>3. ASSUME NEW k \in DOMAIN cfg.report, cfg.report[k].type = "emptyfile",
             cfg.report[k].path \in Paths, cfg.report[k].path \notin touched
      PROVE  fs'.data[Seen(cfg.report[k].path)] = ""
  <2> DEFINE z == cfg.report[k].path
  <2>1. Content(cfg, z) = "" /\ z \in DOMAIN cfg.node /\ Seen(z) \in DOMAIN fs.data
    BY <1>3, LintIsPlain, PathsAreNames DEF LintIsSo, Nodes
  <2>2. Seen(z) # Seen(d)
    BY <1>1, <2>1 DEF Content, Seen
  <2>3. fs.data[Seen(z)] = ""
    BY <1>3 DEF Quiet
  <2> QED
    BY <1>0, <2>1, <2>2, <2>3
<1> QED
  BY <1>0, <1>2, <1>3 DEF Quiet, Dup, Seen

LEMMA CopyLosesNothing ==
  ASSUME RemovalScriptAssumption, Nodes, NothingIsLost, NEW d, NEW o, Dup(d, o), Overwrites(d, o),
         Relies => Covered(d, o), Becomes(WithData(Seen(d), fs.data[Seen(o)]))
  PROVE  NothingIsLost'
<1> DEFINE new == WithData(Seen(d), fs.data[Seen(o)])
<1>1. /\ new.node = fs.node /\ new.data[Seen(d)] = fs.data[Seen(o)]
      /\ \A j \in DOMAIN fs.data \ {Seen(d)} : new.data[j] = fs.data[j]
  <2>1. Seen(d) \in DOMAIN fs.data
    BY PathsAreNames DEF Nodes, Dup
  <2> QED
    BY <2>1 DEF WithData, Nodes
<1> HIDE DEF new
<1>2. ASSUME Relies, NEW p \in Paths, Is(p, "file"), fs.data[fs.node[p].inode] # ""
      PROVE  new.data[fs.node[p].inode] = fs.data[fs.node[p].inode]
  <2>1. CASE fs.node[p].inode # Seen(d)
    BY <1>1, <2>1, InodeOf
  <2>2. CASE fs.node[p].inode = Seen(d)
    <3>1. d \in Tree(d) /\ Is(d, "file") /\ fs.node[d].inode = Seen(d)
      BY PathsAreNames DEF Overwrites, Tree, Is, File, Seen, Nodes, Dup
    <3>2. PICK q \in Tree(o) : fs.data[fs.node[q].inode] = fs.data[Seen(d)]
      BY <1>2, <2>2, <3>1 DEF Covered
    <3>3. q = o
      BY <3>2, RootOnly DEF Overwrites, Is, File, Tree
    <3> QED
      BY <1>1, <2>2, <3>2, <3>3 DEF Overwrites, Seen
  <2> QED
    BY <2>1, <2>2
<1>3. ASSUME Relies, NEW p \in Paths, Is(p, "file"), fs.data[fs.node[p].inode] # ""
      PROVE  \E q \in DOMAIN new.node : new.node[q].kind = "file" /\ new.data[new.node[q].inode] = fs.data[fs.node[p].inode]
  BY <1>1, <1>2, <1>3 DEF Is, Paths
<1>4. Becomes(new)
  BY DEF new
<1> QED
  BY <1>3, <1>4, LosesNothing

-----------------------------------------------------------------------------
(* Users *)

LEMMA QuietRewrite ==
  ASSUME RemovalScriptAssumption, Nodes, Quiet, NEW p \in Paths, Rewrite(p)
  PROVE  Quiet'
<1>1. UNCHANGED cfg /\ touched' = touched \cup (Names(p) \cup UNION {Above(q) : q \in Names(p)})
  BY DEF Rewrite, Disturb
<1>2. \A q \in Paths : Is(q, "file") => Inode(q) = fs.node[q].inode
  BY DEF Inode, Target, Is
<1>3. \A q \in Paths : Is(q, "file") /\ fs.node[q].inode = Inode(p) => q \in Names(p)
  BY <1>2 DEF Names
<1>4. /\ fs'.node = fs.node /\ Paths' = Paths
      /\ \A j \in DOMAIN fs.data \ {Inode(p)} : fs'.data[j] = fs.data[j]
  <2>1. Is(p, "file") /\ fs' = WithData(Inode(p), "new")
    BY DEF Rewrite
  <2>2. Inode(p) \in DOMAIN fs.data
    BY <1>2, <2>1, InodeOf
  <2> QED
    BY <2>1, <2>2, AfterWithData
<1>5. ASSUME NEW q \in Names(p), NEW d \in DOMAIN cfg.node, IsPrefix(d, q)
      PROVE  d \in touched'
  <2>1. q \in Paths /\ q \in DOMAIN cfg.node
    BY DEF Names, Nodes
  <2>2. d = q \/ d \in Above(q)
    BY <1>5, <2>1, PathsAreNames, PrefixOrder DEF IsStrictPrefix, Nodes
  <2> QED
    BY <1>1, <2>2
<1>6. ASSUME NEW d \in DOMAIN cfg.node, NEW o \in DOMAIN cfg.node, Dup(d, o), d \notin touched', o \notin touched'
      PROVE  Unaltered(d, o)'
  <2>1. Unaltered(d, o)
    BY <1>1, <1>6 DEF Quiet
  <2>2. ASSUME NEW q \in Paths, Is(q, "file"), IsPrefix(d, q) \/ IsPrefix(o, q)
        PROVE  fs'.data[fs.node[q].inode] = fs.data[fs.node[q].inode]
    <3>1. fs.node[q].inode # Inode(p)
      BY <1>3, <1>5, <1>6, <2>2
    <3> QED
      BY <1>4, <3>1, InodeOf
  <2> QED
    BY <1>1, <1>4, <2>1, <2>2 DEF Unaltered, Is
<1>7. ASSUME NEW k \in DOMAIN cfg.report, cfg.report[k].type = "emptyfile",
             cfg.report[k].path \in Paths, cfg.report[k].path \notin touched'
      PROVE  fs'.data[Seen(cfg.report[k].path)] = ""
  <2> DEFINE z == cfg.report[k].path
  <2>1. Is(z, "file") /\ fs.node[z].inode = Seen(z) /\ z \in DOMAIN cfg.node /\ IsPrefix(z, z)
    BY <1>7, LintIsPlain, PathsAreNames DEF LintIsSo, Nodes, Is, File, Seen
  <2>2. Seen(z) # Inode(p)
    BY <1>3, <1>5, <1>7, <2>1
  <2>3. fs.data[Seen(z)] = ""
    BY <1>1, <1>7 DEF Quiet
  <2> QED
    BY <1>4, <1>7, <2>1, <2>2, <2>3, InodeOf
<1> QED
  BY <1>1, <1>4, <1>6, <1>7 DEF Quiet, Dup, Seen

LEMMA QuietUnlink ==
  ASSUME RemovalScriptAssumption, Nodes, Quiet, NEW p \in Paths, Unlink(p)
  PROVE  Quiet'
<1>1. UNCHANGED cfg /\ touched' = touched \cup Above(p) /\ fs' = Without(p)
  BY DEF Unlink, Disturb
<1>2. ASSUME NEW d, NEW o, Dup(d, o), IsStrictPrefix(o, p) PROVE o \in touched'
  BY <1>1, <1>2, PathsAreNames, PrefixOrder DEF Nodes, Dup
<1> QED
  BY <1>1, <1>2, QuietWithout

-----------------------------------------------------------------------------
(* The lines of the script *)

LEMMA SameFiles ==
  ASSUME Nodes, Quiet, UNCHANGED cfg, UNCHANGED fs, UNCHANGED touched
  PROVE  Nodes' /\ Quiet'
<1>1. Nodes'
  BY DEF Nodes, Node, Paths, Is, Dup, LinkTo, NameOf, Seen, File
<1>2. \A d, o : Unaltered(d, o) => Unaltered(d, o)'
  BY DEF Unaltered, Paths, Is, File, Content
<1> QED
  BY <1>1, <1>2 DEF Quiet, Dup, Paths, Seen

LEMMA LineStays ==
  ASSUME NEW l, LineIsRight(l), UNCHANGED cfg
  PROVE  LineIsRight(l)'
BY DEF LineIsRight, Dup, CanReflink, SameDevice, Seen, File

LEMMA SameLines ==
  ASSUME Lines, UNCHANGED cfg, UNCHANGED report, UNCHANGED last_original,
         script'.lines = script.lines, DOMAIN script' = DOMAIN script
  PROVE  Lines'
<1>1. \E k \in Int : Written(k)'
  BY DEF Lines, Written
<1> QED
  BY <1>1, LineStays DEF Lines, LineType

LEMMA HandlersAreKnown ==
  ASSUME RemovalScriptAssumption, cfg \in Scripts
  PROVE  Handlers \in Seq(HandlerNames)
<1>1. cfg.config.key = "handler" => cfg.config.order \in Seq(HandlerNames)
  BY ConfigIsRight DEF ScriptRecord
<1>2. /\ <<"clone", "reflink", "hardlink", "symlink">> \in Seq(HandlerNames)
      /\ <<"reflink", "hardlink", "symlink">> \in Seq(HandlerNames)
      /\ <<"hardlink", "symlink">> \in Seq(HandlerNames)
      /\ <<"symlink">> \in Seq(HandlerNames) /\ <<"cmd", "remove">> \in Seq(HandlerNames)
  BY DEF HandlerNames
<1> QED
  BY <1>1, <1>2 DEF Handlers

LEMMA EmitFacts ==
  ASSUME RemovalScriptAssumption, Nodes, NEW d, NEW o, Dup(d, o), NEW h \in HandlerNames, NEW c \in Emit(h, d, o)
  PROVE  /\ c \in Commands \ {"handle_emptyfile", "handle_bad_symlink", "original_cmd"}
         /\ c = "cp_reflink" => CanReflink(d, o) /\ File(cfg, d)
         /\ c = "cp_hardlink" => SameDevice(d, o)
<1>1. c \in Commands \ {"handle_emptyfile", "handle_bad_symlink", "original_cmd"}
  <2>1. \A a \in {"clone", "cp_reflink"} : CloneHandler(a, d, o) \subseteq {"clone", "cp_reflink", "skip_reflink"}
    BY DEF CloneHandler
  <2>2. HardlinkHandler(d, o) \subseteq {"skip_hardlink", "cp_hardlink"}
    BY DEF HardlinkHandler
  <2>3. c \in {"user_command", "clone", "cp_reflink", "skip_reflink", "skip_hardlink", "cp_hardlink", "cp_symlink", "remove_cmd"}
    BY <2>1, <2>2 DEF Emit, HandlerNames
  <2> QED
    BY <2>3 DEF Commands, Handled
<1>2. ASSUME c = "cp_reflink"
      PROVE  c \in CloneHandler("cp_reflink", d, o)
  BY <1>2 DEF Emit, HandlerNames, HardlinkHandler, CloneHandler
<1>3. ASSUME c = "cp_reflink"
      PROVE  CanReflink(d, o) /\ Is(d, "file")
  BY <1>2, <1>3 DEF CloneHandler, LinkType
<1>4. Is(d, "file") => File(cfg, d)
  <2>1. IsPrefix(d, d)
    BY PathsAreNames DEF Dup, Nodes
  <2>2. ASSUME d \in Paths
        PROVE  fs.node[d] = cfg.node[d] \/ fs.node[d] = LinkTo(d, o) \/ File(cfg, o)
    BY <2>1, <2>2, DuplicateIsPlain
  <2>3. cfg.node[d].kind = cfg.node[o].kind
    BY PairEqual DEF PairHolds, Nodes
  <2> QED
    BY <2>2, <2>3 DEF Is, File, LinkTo
<1>5. c = "cp_hardlink" => SameDevice(d, o)
  BY DEF Emit, HandlerNames, HardlinkHandler, CloneHandler
<1> QED
  BY <1>1, <1>3, <1>4, <1>5

LEMMA ChosenIsRight ==
  ASSUME RemovalScriptAssumption, Nodes, NEW d, NEW o, Dup(d, o), NEW c \in Chosen(d, o)
  PROVE  Line(c, d, o) \in LineType /\ LineIsRight(Line(c, d, o))
<1>1. PICK n \in DOMAIN Handlers : c \in Emit(Handlers[n], d, o)
  BY DEF Chosen
<1>2. Handlers[n] \in HandlerNames
  BY <1>1, HandlersAreKnown DEF Nodes
<1>3. /\ c \in Commands \ {"handle_emptyfile", "handle_bad_symlink", "original_cmd"}
      /\ c = "cp_reflink" => CanReflink(d, o) /\ File(cfg, d)
      /\ c = "cp_hardlink" => SameDevice(d, o)
  BY <1>1, <1>2, EmitFacts
<1> QED
  BY <1>3 DEF Line, LineType, LineIsRight, Dup

LEMMA WriteElemAppends ==
  ASSUME RemovalScriptAssumption, Nodes, Lines, WriteElem, NEW k \in Int, Written(k)
  PROVE  /\ UNCHANGED cfg /\ Written(k + 1)' /\ k + 1 \in DOMAIN cfg.report
         /\ \E new : /\ script' = [script EXCEPT !.lines = @ \o new]
                     /\ \/ new = << >>
                        \/ \E l \in LineType : /\ new = <<l>> /\ LineIsRight(l)
                                               /\ l.cmd \in Handled => IsDuplicate(k + 1, l.dup)
<1> DEFINE R == cfg.report
<1>1. R \in Seq(Range(R)) /\ \A n \in DOMAIN R : R[n].path \in DOMAIN cfg.node /\ R[n].type \in EntryTypes
  BY ConfigIsRight DEF ScriptRecord, Nodes
<1>2. Written(k)
  OBVIOUS
<1>3. k + 1 \in 1..Len(R)
  <2>1. k \in 0..Len(R) /\ SubSeq(R, k + 1, Len(R)) # << >>
    BY <1>2 DEF Written, WriteElem
  <2> QED
    BY <1>1, <2>1, SubSeqEmpty
<1>4. Head(report) = R[k + 1] /\ Tail(report) = SubSeq(R, k + 2, Len(R))
  <2>1. report = SubSeq(R, k + 1, Len(R))
    BY <1>2 DEF Written
  <2>2. Len(R) \in k + 1..Len(R) /\ k + 1 \in 1..Len(R) /\ (k + 1) + 1 = k + 2
    BY <1>1, <1>3
  <2>3. /\ Head(SubSeq(R, k + 1, Len(R))) = R[k + 1]
        /\ Tail(SubSeq(R, k + 1, Len(R))) = SubSeq(R, (k + 1) + 1, Len(R))
    BY <1>1, <2>2, HeadTailOfSubSeq
  <2> QED
    BY <2>1, <2>2, <2>3
<1> DEFINE e == R[k + 1]
           new == CASE e.type \in {"unique", "part of directory"} -> << >>
                    [] e.type \in {"duplicate", "duplicate dir"} -> DuplicateLines(e)
                    [] OTHER -> <<Line(LintCommand(e.type), e.path, e.path)>>
<1>5. /\ UNCHANGED cfg /\ report' = SubSeq(R, k + 2, Len(R))
      /\ script' = [script EXCEPT !.lines = @ \o new]
      /\ last_original' = IF OfGroup(e) /\ e.original THEN e.path ELSE last_original
  BY <1>4 DEF WriteElem, OfGroup
<1>6. Written(k + 1)'
  <2>1. k + 1 \in 0..Len(R) /\ (k + 1) + 1 = k + 2
    BY <1>1, <1>3
  <2>2. last_original' # << >> =>
          \E m \in 1..k + 1 :
            /\ OfGroup(R[m]) /\ R[m].original /\ R[m].path = last_original'
            /\ \A j \in m + 1..k + 1 : ~(OfGroup(R[j]) /\ R[j].original)
    <3>1. CASE OfGroup(e) /\ e.original
      <4>1. k + 1 \in 1..k + 1 /\ \A j \in k + 1 + 1..k + 1 : FALSE
        BY <1>3
      <4> QED
        BY <1>5, <3>1, <4>1
    <3>2. CASE ~(OfGroup(e) /\ e.original)
      <4> SUFFICES ASSUME last_original # << >>
                   PROVE  \E m \in 1..k + 1 :
                            /\ OfGroup(R[m]) /\ R[m].original /\ R[m].path = last_original
                            /\ \A j \in m + 1..k + 1 : ~(OfGroup(R[j]) /\ R[j].original)
        BY <1>5, <3>2
      <4>1. PICK m \in 1..k :
              /\ OfGroup(R[m]) /\ R[m].original /\ R[m].path = last_original
              /\ \A j \in m + 1..k : ~(OfGroup(R[j]) /\ R[j].original)
        BY <1>2 DEF Written
      <4>2. m \in 1..k + 1 /\ \A j \in m + 1..k + 1 : j \in m + 1..k \/ j = k + 1
        BY <4>1
      <4> QED
        BY <3>2, <4>1, <4>2
    <3> QED
      BY <3>1, <3>2
  <2> QED
    BY <1>5, <2>1, <2>2 DEF Written
<1>7. k + 1 \in DOMAIN R /\ e.path \in DOMAIN cfg.node /\ e.type \in EntryTypes
  BY <1>1, <1>3
<1> DEFINE Fits(l) == LineIsRight(l) /\ (l.cmd \in Handled => IsDuplicate(k + 1, l.dup))
<1>8. new = << >> \/ \E l \in LineType : new = <<l>> /\ Fits(l)
  <2>1. ASSUME OfGroup(e) PROVE DuplicateLines(e) = << >> \/ \E l \in LineType : DuplicateLines(e) = <<l>> /\ Fits(l)
    <3>1. CASE e.original
      <4>1. Line("original_cmd", e.path, e.path) \in LineType /\ Fits(Line("original_cmd", e.path, e.path))
        BY <1>7, <2>1, <3>1 DEF Line, LineType, LineIsRight, Handled, Commands
      <4> QED
        BY <3>1, <4>1 DEF DuplicateLines
    <3>2. CASE ~e.original /\ last_original # << >> /\ Chosen(e.path, last_original) # {}
      <4>1. Dup(e.path, last_original)
        <5>1. PICK m \in 1..k :
                /\ OfGroup(R[m]) /\ R[m].original /\ R[m].path = last_original
                /\ \A j \in m + 1..k : ~(OfGroup(R[j]) /\ R[j].original)
          BY <1>2, <3>2 DEF Written
        <5>2. m \in DOMAIN R /\ k + 1 \in DOMAIN R /\ m < k + 1 /\ m + 1..k + 1 - 1 = m + 1..k
          BY <1>1, <1>3, <5>1
        <5>3. Pair(cfg, e.path, last_original)
          BY <2>1, <3>2, <5>1, <5>2 DEF Pair
        <5> QED
          BY <1>1, <5>1, <5>2, <5>3 DEF Dup
      <4> DEFINE c == CHOOSE c \in Chosen(e.path, last_original) : TRUE
      <4>2. c \in Chosen(e.path, last_original)
        BY <3>2
      <4>3. Line(c, e.path, last_original) \in LineType /\ Fits(Line(c, e.path, last_original))
        <5>1. IsDuplicate(k + 1, e.path) /\ Line(c, e.path, last_original).dup = e.path
          BY <2>1, <3>2 DEF IsDuplicate, Line
        <5> QED
          BY <4>1, <4>2, <5>1, ChosenIsRight
      <4> QED
        BY <3>2, <4>3 DEF DuplicateLines
    <3>3. CASE ~e.original /\ (last_original = << >> \/ Chosen(e.path, last_original) = {})
      BY <3>3 DEF DuplicateLines
    <3> QED
      BY <3>1, <3>2, <3>3
  <2>2. ASSUME ~OfGroup(e), e.type \notin {"unique", "part of directory"}
        PROVE  /\ Line(LintCommand(e.type), e.path, e.path) \in LineType
               /\ Fits(Line(LintCommand(e.type), e.path, e.path))
    <3>1. e.type \in {"emptydir", "emptyfile", "badlink", "nonstripped", "badids"}
      BY <1>7, <2>2 DEF OfGroup, EntryTypes
    <3>2. /\ LintCommand(e.type) \in Commands \ Handled /\ LintCommand(e.type) # "original_cmd"
          /\ LintCommand(e.type) = "handle_emptyfile" => e.type = "emptyfile"
          /\ LintCommand(e.type) = "handle_bad_symlink" => e.type = "badlink"
      BY <3>1 DEF LintCommand, Handled, Commands
    <3> QED
      BY <1>7, <3>2 DEF Line, LineType, LineIsRight, Handled
  <2> QED
    BY <2>1, <2>2 DEF OfGroup
<1> QED
  BY <1>5, <1>6, <1>7, <1>8

LEMMA LinesWriteElem ==
  ASSUME RemovalScriptAssumption, Nodes, Lines, WriteElem
  PROVE  Lines'
<1>1. PICK k \in Int : Written(k)
  BY DEF Lines
<1>2. UNCHANGED cfg /\ Written(k + 1)'
  BY <1>1, WriteElemAppends
<1>3. PICK new : /\ script' = [script EXCEPT !.lines = @ \o new]
                 /\ \/ new = << >>
                    \/ \E l \in LineType : /\ new = <<l>> /\ LineIsRight(l)
                                           /\ l.cmd \in Handled => IsDuplicate(k + 1, l.dup)
  BY <1>1, WriteElemAppends, Zenon
<1>4. /\ DOMAIN script' = {"lines", "there", "ran"}
      /\ script'.lines \in Seq(LineType)
      /\ \A n \in DOMAIN script'.lines : LineIsRight(script'.lines[n])
  <2>1. DOMAIN script' = {"lines", "there", "ran"} /\ script'.lines = script.lines \o new
    BY <1>3 DEF Lines
  <2>2. CASE new = << >>
    BY <2>1, <2>2, ConcatEmptySeq DEF Lines
  <2>3. ASSUME NEW l \in LineType, LineIsRight(l), new = <<l>>
        PROVE  /\ script.lines \o new \in Seq(LineType)
               /\ \A n \in DOMAIN (script.lines \o new) : LineIsRight((script.lines \o new)[n])
    <3>1. script.lines \in Seq(LineType) /\ \A n \in 1..Len(script.lines) : LineIsRight(script.lines[n])
      BY DEF Lines
    <3> QED
      BY <2>3, <3>1
  <2>4. new = << >> \/ \E l \in LineType : LineIsRight(l) /\ new = <<l>>
    BY <1>3
  <2> QED
    BY <2>1, <2>2, <2>3, <2>4
<1> QED
  BY <1>2, <1>3, <1>4, LineStays DEF Lines, LineType

-----------------------------------------------------------------------------
(* What the checks of the script establish *)

LEMMA CoveredIfUntouched ==
  ASSUME RemovalScriptAssumption, Nodes, Quiet, NEW d, NEW o, Dup(d, o),
         d \notin touched, o \notin touched, o \in Paths
  PROVE  Covered(d, o)
<1>1. Unaltered(d, o)
  BY DEF Quiet, Dup
<1>2. PairHolds(cfg, d, o)
  BY PairEqual DEF Nodes
<1> SUFFICES ASSUME NEW p \in Tree(d), Is(p, "file"), fs.data[fs.node[p].inode] # ""
             PROVE  \E q \in Tree(o) : Is(q, "file") /\ fs.data[fs.node[q].inode] = fs.data[fs.node[p].inode]
  BY DEF Covered
<1>3. p \in Paths /\ IsPrefix(d, p) /\ p \in DOMAIN cfg.node
  BY DEF Tree, Nodes
<1>4. fs.data[fs.node[p].inode] = Content(cfg, p)
  BY <1>1, <1>3 DEF Unaltered
<1>5. File(cfg, p)
  <2>1. \/ fs.node[p] = cfg.node[p]
        \/ p = d /\ (fs.node[p] = LinkTo(d, o) \/ File(cfg, o))
    BY <1>3, DuplicateIsPlain
  <2>2. cfg.node[d].kind = cfg.node[o].kind /\ LinkTo(d, o).kind = "link"
    BY <1>2 DEF PairHolds, LinkTo
  <2> QED
    BY <2>1, <2>2 DEF Is, File
<1>6. PICK q \in DOMAIN cfg.node : IsPrefix(o, q) /\ File(cfg, q) /\ Content(cfg, q) = Content(cfg, p)
  BY <1>2, <1>3, <1>4, <1>5 DEF PairHolds
<1>7. q \in Paths
  BY <1>1, <1>4, <1>6 DEF Unaltered, IsStrictPrefix
<1>8. fs.node[q] = cfg.node[q]
  BY <1>6, <1>7, OriginalIsPlain
<1>9. Is(q, "file")
  BY <1>6, <1>7, <1>8 DEF Is, File
<1> QED
  BY <1>1, <1>4, <1>6, <1>7, <1>9 DEF Unaltered, Tree

LEMMA OriginalIsNoLink ==
  ASSUME RemovalScriptAssumption, Nodes, NEW d, NEW o, Dup(d, o)
  PROVE  Target(o) = o
<1>1. o \in Paths => fs.node[o] = cfg.node[o]
  BY OriginalIsPlain, PathsAreNames DEF Dup, Nodes
<1>2. cfg.node[o].kind \in {"file", "dir"}
  BY PairEqual DEF PairHolds, Nodes
<1> QED
  BY <1>1, <1>2 DEF Target, Is

LEMMA CoveredIfEqual ==
  ASSUME RemovalScriptAssumption, Nodes, NEW d, NEW o, Dup(d, o), Equal(d, o)
  PROVE  Covered(d, o)
<1>1. d \in Paths /\ Target(o) = o
  BY ExistsIsPath, OriginalIsNoLink DEF Equal
<1> SUFFICES ASSUME NEW p \in Tree(d), Is(p, "file"), fs.data[fs.node[p].inode] # ""
             PROVE  \E q \in Tree(o) : Is(q, "file") /\ fs.data[fs.node[q].inode] = fs.data[fs.node[p].inode]
  BY DEF Covered
<1>2. p \in Paths /\ IsPrefix(d, p)
  BY DEF Tree
<1>3. \A q \in Paths : Is(q, "file") => Data(q) = fs.data[fs.node[q].inode]
  BY DEF Data, Inode, Target, Is
<1>4. Target(d) = d
  <2>1. Is(d, "link") => p = d
    BY <1>1, <1>2, RootOnly DEF Is
  <2> QED
    BY <2>1 DEF Is, Target
<1>5. CASE IsFile(d)
  <2>1. Is(d, "file") /\ Is(o, "file") /\ Data(d) = Data(o)
    BY <1>1, <1>4, <1>5 DEF Equal, IsFile
  <2>2. p = d
    BY <1>1, <1>2, <2>1, RootOnly DEF Is
  <2>3. o \in Tree(o) /\ o \in Paths
    BY <2>1, PathsAreNames DEF Is, Tree, Dup, Nodes
  <2> QED
    BY <1>1, <1>3, <2>1, <2>2, <2>3
<1>6. CASE ~IsFile(d)
  <2> DEFINE c == fs.data[fs.node[p].inode]
             In(r) == {q \in Tree(r) : Is(q, "file") /\ Data(q) = c}
  <2>1. Held(d) = Held(o)
    BY <1>6 DEF Equal
  <2>2. c \in Range(fs.data) \ {""}
    BY <1>2, InodeOf DEF Range
  <2>3. Held(d)[c] = Cardinality(In(d)) /\ Held(o)[c] = Cardinality(In(o))
    BY <1>1, <1>4, <2>2 DEF Held
  <2>4. p \in In(d)
    BY <1>2, <1>3
  <2>5. IsFiniteSet(In(d)) /\ IsFiniteSet(In(o))
    <3>1. IsFiniteSet(DOMAIN cfg.node)
      BY ConfigIsRight DEF ScriptRecord, Nodes
    <3>2. In(d) \subseteq DOMAIN cfg.node /\ In(o) \subseteq DOMAIN cfg.node
      BY DEF Tree, Nodes
    <3> QED
      BY <3>1, <3>2, FS_Subset
  <2>6. In(o) # {}
    <3> HIDE DEF In
    <3> QED
      BY <2>1, <2>3, <2>4, <2>5, FS_EmptySet
  <2> QED
    BY <1>3, <2>6 DEF Tree
<1> QED
  BY <1>5, <1>6

-----------------------------------------------------------------------------
(* The shell *)

LEMMA NextLineShell ==
  ASSUME Shell, ~At("off"), NextLine, UNCHANGED report
  PROVE  Shell'
<1>1. DOMAIN sh = ShellFields /\ report = << >> /\ sh.n \in Nat \ {0}
  BY DEF Shell
<1>2. sh'.pc = "line" /\ DOMAIN sh' = ShellFields /\ sh'.n = sh.n + 1
  BY <1>1 DEF NextLine, ShellFields
<1>3. /\ sh'.pc \notin Handling /\ ~At("check duplicate")' /\ \A pc : At(pc)' <=> pc = "line"
  BY <1>2 DEF At, Handling
<1>4. sh'.n \in Nat \ {0} /\ report' = << >>
  BY <1>1, <1>2
<1>5. sh'.pc \notin {"compare", "act", "rm", "link"} /\ sh'.pc \notin {"act", "rm", "copy"}
  BY <1>2
<1>6. (At("check duplicate") /\ sh.quiet => L.orig \in Paths)'
  BY <1>3, Zenon
<1> QED
  BY <1>2, <1>3, <1>4, <1>5, <1>6 DEF Shell

LEMMA OffShell ==
  ASSUME sh' = Off
  PROVE  Shell'
<1>1. At("off")' /\ sh'.pc = "off"
  BY DEF Off, At
<1> QED
  BY <1>1 DEF Shell, At, Handling

\* What a step leaves alone that changes no file.
LEMMA SameWorld ==
  ASSUME IInv, UNCHANGED <<fs, lost>>, RunUnchanged, UNCHANGED touched
  PROVE  Nodes' /\ Lines' /\ Quiet' /\ NothingIsLost'
<1>1. UNCHANGED cfg /\ UNCHANGED fs /\ UNCHANGED report /\ UNCHANGED last_original /\ UNCHANGED script /\ UNCHANGED lost
  BY DEF RunUnchanged
<1> QED
  BY <1>1, SameFiles, SameLines DEF IInv, NothingIsLost

LEMMA SameLine ==
  ASSUME UNCHANGED script, sh'.n = sh.n
  PROVE  L' = L
BY DEF L

LEMMA SameReliance ==
  ASSUME UNCHANGED script, UNCHANGED touched, sh'.n = sh.n, sh'.opt = sh.opt, sh'.quiet = sh.quiet
  PROVE  Relies' <=> Relies
BY SameLine DEF Relies, Compared

LEMMA CurrentLine ==
  ASSUME Lines, Shell, sh.pc \in Handling
  PROVE  /\ L \in LineType /\ LineIsRight(L) /\ Dup(L.dup, L.orig)
         /\ ~At("off") /\ DOMAIN sh = ShellFields /\ sh.n \in Nat \ {0}
<1>1. ~At("off")
  BY DEF At, Handling
<1>2. sh.n <= Len(script.lines) /\ L.cmd \in Handled /\ DOMAIN sh = ShellFields /\ sh.n \in Nat \ {0}
  BY <1>1 DEF Shell
<1>3. sh.n \in DOMAIN script.lines /\ script.lines \in Seq(LineType)
  BY <1>2 DEF Lines
<1>4. L \in LineType /\ LineIsRight(L)
  BY <1>3 DEF Lines, L
<1> QED
  BY <1>1, <1>2, <1>4 DEF LineIsRight

LEMMA GotoIs ==
  ASSUME DOMAIN sh = ShellFields, NEW pc, Goto(pc)
  PROVE  /\ DOMAIN sh' = ShellFields /\ sh'.pc = pc
         /\ sh'.n = sh.n /\ sh'.opt = sh.opt /\ sh'.quiet = sh.quiet /\ sh'.cmd = sh.cmd
BY DEF Goto, ShellFields

LEMMA StartStep ==
  ASSUME IInv, NEW o, Start(o)
  PROVE  IInv'
<1>1. Nodes' /\ Lines' /\ Quiet' /\ NothingIsLost'
  <2>1. UNCHANGED cfg /\ UNCHANGED fs /\ UNCHANGED report /\ UNCHANGED last_original
        /\ UNCHANGED script /\ UNCHANGED touched /\ UNCHANGED lost
    BY DEF Start
  <2> QED
    BY <2>1, SameFiles, SameLines DEF IInv, NothingIsLost
<1>2. sh'.pc = "line" /\ DOMAIN sh' = ShellFields /\ sh'.n = 1 /\ report' = << >>
  BY DEF Start, ShellFields
<1>3. /\ sh'.pc \notin Handling /\ ~At("check duplicate")' /\ \A pc : At(pc)' <=> pc = "line"
  BY <1>2 DEF At, Handling
<1>4. sh'.n \in Nat \ {0} /\ sh'.pc \notin {"compare", "act", "rm", "link"} /\ sh'.pc \notin {"act", "rm", "copy"}
  BY <1>2
<1>5. (At("check duplicate") /\ sh.quiet => L.orig \in Paths)'
  BY <1>3, Zenon
<1>6. Shell'
  BY <1>2, <1>3, <1>4, <1>5 DEF Shell
<1> QED
  BY <1>1, <1>6 DEF IInv

\* The steps after which the shell reads the next line, and no file has changed.
LEMMA NextLineStep ==
  ASSUME IInv, ~At("off"), NextLine, UNCHANGED <<fs, lost>>, RunUnchanged
  PROVE  IInv'
<1>1. UNCHANGED touched /\ UNCHANGED report
  BY DEF RunUnchanged
<1> QED
  BY <1>1, SameWorld, NextLineShell DEF IInv

LEMMA KeepStep ==
  ASSUME IInv, Keep
  PROVE  IInv'
<1>1. ~At("off")
  BY DEF Keep, OnLine, At
<1> QED
  BY <1>1, NextLineStep DEF Keep

LEMMA HandleDuplicateStep ==
  ASSUME IInv, HandleDuplicate
  PROVE  IInv'
<1>1. Nodes' /\ Lines' /\ Quiet' /\ NothingIsLost'
  BY SameWorld DEF HandleDuplicate, RunUnchanged
<1>2. sh.pc = "line" /\ ~At("off") /\ sh.n <= Len(script.lines) /\ L.cmd \in Handled
  BY DEF HandleDuplicate, OnLine, At, Handled
<1>3. DOMAIN sh = ShellFields /\ report = << >> /\ sh.n \in Nat \ {0}
  BY <1>2 DEF IInv, Shell
<1>4. /\ sh'.pc = "check original" /\ DOMAIN sh' = ShellFields /\ sh'.n = sh.n
      /\ sh'.cmd = "cp_reflink" => L.cmd = "cp_reflink"
  BY <1>3 DEF HandleDuplicate, ShellFields
<1>5. /\ sh'.pc \in Handling /\ ~At("check duplicate")' /\ \A pc : At(pc)' <=> pc = "check original"
  BY <1>4 DEF At, Handling
<1>6. L' = L /\ script' = script /\ report' = report
  BY <1>4, SameLine DEF HandleDuplicate, RunUnchanged
<1>7. (At("check duplicate") /\ sh.quiet => L.orig \in Paths)'
  BY <1>5, Zenon
<1>8. sh'.pc \notin {"compare", "act", "rm", "link"} /\ sh'.pc \notin {"act", "rm", "copy"}
  BY <1>4
<1>9. Shell'
  BY <1>2, <1>3, <1>4, <1>5, <1>6, <1>7, <1>8 DEF Shell
<1> QED
  BY <1>1, <1>9 DEF IInv

LEMMA CoveredStays ==
  ASSUME NEW d, NEW o, Covered(d, o), UNCHANGED fs
  PROVE  Covered(d, o)'
<1>1. Tree(d)' = Tree(d) /\ Tree(o)' = Tree(o)
  BY DEF Tree, Paths
<1>2. \A p : Is(p, "file")' <=> Is(p, "file")
  BY DEF Is, Paths
<1> QED
  BY <1>1, <1>2 DEF Covered

\* A step of a command to pc that changes no file.
LEMMA GotoStep ==
  ASSUME IInv, sh.pc \in Handling, NEW pc \in Handling, Goto(pc), UNCHANGED <<fs, lost>>, RunUnchanged,
         pc = "copy" => sh.cmd = "cp_reflink",
         pc = "check duplicate" /\ sh.quiet => L.orig \in Paths,
         pc \in {"compare", "act", "rm", "link"} => \A q \in DOMAIN cfg.node : IsStrictPrefix(q, L.dup) => Is(q, "dir"),
         pc \in {"act", "rm", "copy"} /\ Relies => Covered(L.dup, L.orig),
         pc = "link" => L.dup \notin Paths
  PROVE  IInv'
<1>1. UNCHANGED cfg /\ UNCHANGED fs /\ UNCHANGED report /\ UNCHANGED script /\ UNCHANGED touched
  BY DEF RunUnchanged
<1>2. Nodes' /\ Lines' /\ Quiet' /\ NothingIsLost'
  BY <1>1, SameWorld
<1>3. ~At("off") /\ DOMAIN sh = ShellFields /\ sh.n \in Nat \ {0} /\ report = << >>
      /\ sh.n <= Len(script.lines) /\ L.cmd \in Handled /\ (sh.cmd = "cp_reflink" => L.cmd = "cp_reflink")
  BY CurrentLine DEF IInv, Shell
<1>4. /\ DOMAIN sh' = ShellFields /\ sh'.pc = pc
      /\ sh'.n = sh.n /\ sh'.opt = sh.opt /\ sh'.quiet = sh.quiet /\ sh'.cmd = sh.cmd
  BY <1>3, GotoIs
<1>5. L' = L /\ (Relies' <=> Relies)
  BY <1>1, <1>4, SameLine, SameReliance
<1>6. \A x : At(x)' <=> pc = x
  BY <1>4 DEF At
<1>7. Paths' = Paths /\ (\A p, k : Is(p, k)' <=> Is(p, k)) /\ (Covered(L.dup, L.orig) => Covered(L.dup, L.orig)')
  <2>1. Paths' = Paths /\ \A p, k : Is(p, k)' <=> Is(p, k)
    BY <1>1 DEF Paths, Is
  <2> QED
    BY <1>1, <1>5, <2>1, CoveredStays
<1>8. (At("check duplicate") /\ sh.quiet => L.orig \in Paths)'
  BY <1>4, <1>5, <1>6, <1>7
<1>9. (~At("off") => DOMAIN sh = ShellFields /\ report = << >> /\ sh.n \in Nat \ {0})'
  BY <1>1, <1>3, <1>4
<1>10. (sh.pc \in {"compare", "act", "rm", "link"} => \A q \in DOMAIN cfg.node : IsStrictPrefix(q, L.dup) => Is(q, "dir"))'
  BY <1>1, <1>4, <1>5, <1>7
<1>11. (sh.pc \in {"act", "rm", "copy"} /\ Relies => Covered(L.dup, L.orig))'
  BY <1>4, <1>5, <1>7
<1>12. (At("link") => L.dup \notin Paths)'
  BY <1>5, <1>6, <1>7
<1>13. Shell'
  BY <1>1, <1>3, <1>4, <1>5, <1>6, <1>8, <1>9, <1>10, <1>11, <1>12 DEF Shell
<1> QED
  BY <1>2, <1>13 DEF IInv

LEMMA CheckOriginalStep ==
  ASSUME IInv, CheckOriginal
  PROVE  IInv'
<1>1. sh.pc = "check original" /\ sh.pc \in Handling /\ ~At("off")
  BY DEF CheckOriginal, At, Handling
<1>2. CASE OriginalThere
  <2>1. Goto("check duplicate") /\ "check duplicate" \in Handling /\ L.orig \in Paths
    BY <1>2, ExistsIsPath DEF CheckOriginal, OriginalThere, Handling
  <2> QED
    BY <1>1, <2>1, GotoStep DEF CheckOriginal
<1>3. CASE ~OriginalThere
  BY <1>1, <1>3, NextLineStep DEF CheckOriginal
<1> QED
  BY <1>2, <1>3

LEMMA CheckDuplicateStep ==
  ASSUME RemovalScriptAssumption, IInv, CheckDuplicate
  PROVE  IInv'
<1>1. At("check duplicate") /\ sh.pc \in Handling /\ ~At("off") /\ UNCHANGED <<fs, lost>> /\ RunUnchanged
  BY DEF CheckDuplicate, At, Handling
<1>2. CASE Exists(L.dup) /\ L.dup # L.orig
  <2>1. L.dup \in Paths /\ Dup(L.dup, L.orig)
    BY <1>1, <1>2, ExistsIsPath, CurrentLine DEF IInv
  <2>2. \A q \in DOMAIN cfg.node : IsStrictPrefix(q, L.dup) => Is(q, "dir")
    BY <2>1 DEF IInv, Nodes
  <2>3. CASE sh.opt.paranoid
    <3>1. Goto("compare") /\ "compare" \in Handling
      BY <1>2, <2>3 DEF CheckDuplicate, Handling
    <3> QED
      BY <1>1, <2>2, <3>1, GotoStep
  <2>4. CASE ~sh.opt.paranoid
    <3>1. Goto("act") /\ "act" \in Handling
      BY <1>2, <2>4 DEF CheckDuplicate, Handling
    <3>2. ASSUME Relies PROVE Covered(L.dup, L.orig)
      <4>1. L.dup \notin touched /\ L.orig \notin touched /\ L.orig \in Paths
        BY <1>1, <2>4, <3>2 DEF Relies, Compared, IInv, Shell
      <4> QED
        BY <2>1, <4>1, CoveredIfUntouched DEF IInv
    <3> QED
      BY <1>1, <2>2, <3>1, <3>2, GotoStep
  <2> QED
    BY <2>3, <2>4
<1>3. CASE ~(Exists(L.dup) /\ L.dup # L.orig)
  BY <1>1, <1>3, NextLineStep DEF CheckDuplicate
<1> QED
  BY <1>2, <1>3

LEMMA CompareStep ==
  ASSUME RemovalScriptAssumption, IInv, Compare
  PROVE  IInv'
<1>1. sh.pc = "compare" /\ sh.pc \in Handling /\ ~At("off") /\ UNCHANGED <<fs, lost>> /\ RunUnchanged
  BY DEF Compare, At, Handling
<1>2. CASE Equal(L.dup, L.orig)
  <2>1. Goto("act") /\ "act" \in Handling
    BY <1>2 DEF Compare, Handling
  <2>2. Covered(L.dup, L.orig)
    BY <1>1, <1>2, CoveredIfEqual, CurrentLine DEF IInv
  <2>3. \A q \in DOMAIN cfg.node : IsStrictPrefix(q, L.dup) => Is(q, "dir")
    BY <1>1 DEF IInv, Shell
  <2> QED
    BY <1>1, <2>1, <2>2, <2>3, GotoStep
<1>3. CASE ~Equal(L.dup, L.orig)
  BY <1>1, <1>3, NextLineStep DEF Compare
<1> QED
  BY <1>2, <1>3

LEMMA ActStep ==
  ASSUME IInv, Act
  PROVE  IInv'
<1>1. sh.pc = "act" /\ sh.pc \in Handling /\ ~At("off") /\ UNCHANGED <<fs, lost>> /\ RunUnchanged
  BY DEF Act, At, Handling
<1>2. CASE NextLine
  BY <1>1, <1>2, NextLineStep
<1>3. CASE Goto(IF sh.cmd = "cp_reflink" THEN "copy" ELSE "rm")
  <2>1. /\ \A q \in DOMAIN cfg.node : IsStrictPrefix(q, L.dup) => Is(q, "dir")
        /\ Relies => Covered(L.dup, L.orig)
    BY <1>1 DEF IInv, Shell
  <2>2. CASE sh.cmd = "cp_reflink"
    <3>1. Goto("copy") /\ "copy" \in Handling
      BY <1>3, <2>2 DEF Handling
    <3> QED
      BY <1>1, <2>1, <2>2, <3>1, GotoStep
  <2>3. CASE sh.cmd # "cp_reflink"
    <3>1. Goto("rm") /\ "rm" \in Handling
      BY <1>3, <2>3 DEF Handling
    <3> QED
      BY <1>1, <2>1, <3>1, GotoStep
  <2> QED
    BY <2>2, <2>3
<1> QED
  BY <1>2, <1>3 DEF Act

LEMMA CleanStep ==
  ASSUME IInv, Clean
  PROVE  IInv'
<1>1. sh.pc = "clean" /\ sh.pc \in Handling /\ ~At("off") /\ UNCHANGED <<fs, lost>> /\ RunUnchanged
  BY DEF Clean, At, Handling
<1>2. CASE NextLine
  BY <1>1, <1>2, NextLineStep
<1>3. CASE Goto("rmdir")
  BY <1>1, <1>3, GotoStep DEF Handling
<1> QED
  BY <1>2, <1>3 DEF Clean

LEMMA LeaveStep ==
  ASSUME IInv, Foot \/ Interrupt
  PROVE  IInv'
<1>1. UNCHANGED cfg /\ UNCHANGED fs /\ UNCHANGED report /\ UNCHANGED last_original /\ UNCHANGED touched
      /\ UNCHANGED lost /\ sh' = Off
  BY DEF Foot, Interrupt
<1>2. script'.lines = script.lines /\ DOMAIN script' = DOMAIN script
  BY DEF Foot, Interrupt, IInv, Lines
<1> QED
  BY <1>1, <1>2, SameFiles, SameLines, OffShell DEF IInv, NothingIsLost

-----------------------------------------------------------------------------
(* The steps that change files *)

\* A step that changes files changes neither the report nor the lines.
LEMMA ChangeKeepsLines ==
  ASSUME Lines, RunUnchanged
  PROVE  Lines' /\ UNCHANGED cfg /\ UNCHANGED report /\ UNCHANGED script /\ UNCHANGED touched
<1>1. UNCHANGED cfg /\ UNCHANGED report /\ UNCHANGED last_original /\ UNCHANGED script /\ UNCHANGED touched
  BY DEF RunUnchanged
<1> QED
  BY <1>1, SameLines

\* rm -f of what was reported as empty, or as a link that points nowhere.
LEMMA RemoveLintStep ==
  ASSUME RemovalScriptAssumption, IInv, RemoveLint
  PROVE  IInv'
<1>1. /\ sh.pc = "line" /\ ~At("off") /\ sh.n <= Len(script.lines)
      /\ L.cmd \in {"handle_emptyfile", "handle_bad_symlink"} /\ NextLine /\ RunUnchanged
  BY DEF RemoveLint, OnLine, At
<1>2. CASE UNCHANGED <<fs, lost>>
  BY <1>1, <1>2, NextLineStep
<1>3. CASE L.dup \in Paths /\ ~Is(L.dup, "dir") /\ Becomes(Without(L.dup))
  <2> DEFINE z == L.dup
  <2>1. LineIsRight(L)
    <3>1. sh.n \in Nat \ {0} /\ script.lines \in Seq(LineType)
      BY <1>1 DEF IInv, Shell, Lines
    <3>2. sh.n \in DOMAIN script.lines
      BY <1>1, <3>1
    <3> QED
      BY <3>2 DEF IInv, Lines, L
  <2>2. PICK n \in DOMAIN cfg.report : cfg.report[n].path = z
           /\ (cfg.report[n].type = "badlink" \/ (cfg.report[n].type = "emptyfile" /\ L.cmd = "handle_emptyfile"))
    BY <1>1, <2>1 DEF LineIsRight
  <2>3. fs.node[z] = cfg.node[z] /\ LintIsSo(cfg, cfg.report[n])
    BY <1>3, <2>2, LintIsPlain DEF IInv
  <2>4. z \in DOMAIN cfg.node /\ \A q \in Paths : ~IsStrictPrefix(z, q)
    BY <1>3 DEF IInv, Nodes
  <2>5. fs' = Without(z) /\ Lines' /\ UNCHANGED cfg /\ UNCHANGED report /\ UNCHANGED script /\ UNCHANGED touched
    BY <1>1, <1>3, ChangeKeepsLines DEF IInv, Becomes
  <2>6. Nodes'
    BY <2>4, <2>5, NodesWithout DEF IInv
  <2>7. ~(File(cfg, z) /\ Content(cfg, z) # "")
    BY <2>2, <2>3 DEF LintIsSo, File
  <2>8. Quiet'
    BY <2>5, <2>7, QuietWithout DEF IInv
  <2>9. ~(Relies /\ Is(z, "file") /\ fs.data[fs.node[z].inode] # "")
    <3> SUFFICES ASSUME Relies, Is(z, "file") PROVE fs.data[fs.node[z].inode] = ""
      OBVIOUS
    <3>1. cfg.report[n].type = "emptyfile"
      BY <2>2, <2>3 DEF LintIsSo, Is
    <3>2. z \notin touched
      BY <1>1 DEF Relies, Compared
    <3>3. fs.data[Seen(z)] = ""
      BY <1>3, <2>2, <3>1, <3>2 DEF IInv, Quiet
    <3> QED
      BY <2>3, <3>3 DEF Seen
  <2>10. NothingIsLost'
    BY <1>3, <2>9, LosesNothingWithout DEF IInv
  <2>11. Shell'
    BY <1>1, <2>5, NextLineShell DEF IInv
  <2> QED
    BY <2>5, <2>6, <2>8, <2>10, <2>11 DEF IInv
<1> QED
  BY <1>2, <1>3 DEF RemoveLint

\* rmdir of an empty directory.
LEMMA DirGoes ==
  ASSUME RemovalScriptAssumption, IInv, NEW p, Is(p, "dir"), Inside(p) = {}, Becomes(Without(p)), RunUnchanged
  PROVE  Nodes' /\ Lines' /\ Quiet' /\ NothingIsLost'
<1>1. fs' = Without(p) /\ Lines' /\ UNCHANGED cfg /\ UNCHANGED touched
  BY ChangeKeepsLines DEF IInv, Becomes
<1>2. \A q \in Paths : ~IsStrictPrefix(p, q)
  BY DEF Inside, Tree, IsStrictPrefix
<1>3. ~File(cfg, p)
  <2>1. Node(p)
    BY DEF IInv, Nodes, Is
  <2>2. \A o : LinkTo(p, o).kind = "link" /\ NameOf(o).kind = "file"
    BY DEF LinkTo, NameOf
  <2> QED
    BY <2>1, <2>2 DEF Node, Is, File
<1>4. NothingIsLost'
  BY LosesNothingWithout DEF IInv, Is
<1> QED
  BY <1>1, <1>2, <1>3, <1>4, NodesWithout, QuietWithout DEF IInv

LEMMA RemoveEmptyDirStep ==
  ASSUME RemovalScriptAssumption, IInv, RemoveEmptyDir
  PROVE  IInv'
<1>1. ~At("off") /\ NextLine /\ RunUnchanged /\ UNCHANGED report
  BY DEF RemoveEmptyDir, OnLine, At, RunUnchanged
<1>2. CASE UNCHANGED <<fs, lost>>
  BY <1>1, <1>2, NextLineStep
<1>3. CASE Is(L.dup, "dir") /\ Inside(L.dup) = {} /\ Becomes(Without(L.dup))
  BY <1>1, <1>3, DirGoes, NextLineShell DEF IInv
<1> QED
  BY <1>2, <1>3 DEF RemoveEmptyDir

LEMMA CleanDirStep ==
  ASSUME RemovalScriptAssumption, IInv, CleanDir
  PROVE  IInv'
<1>1. sh.pc \in Handling /\ RunUnchanged /\ UNCHANGED report /\ UNCHANGED script
  BY DEF CleanDir, At, RunUnchanged, Handling
<1>2. Nodes' /\ Lines' /\ Quiet' /\ NothingIsLost'
  <2>1. CASE UNCHANGED <<fs, lost>>
    BY <1>1, <2>1, SameWorld DEF RunUnchanged
  <2>2. CASE Is(sh.dir, "dir") /\ Inside(sh.dir) = {} /\ Becomes(Without(sh.dir))
    BY <1>1, <2>2, DirGoes
  <2> QED
    BY <2>1, <2>2 DEF CleanDir
<1>3. DOMAIN sh = ShellFields /\ sh.n \in Nat \ {0} /\ ~At("off")
  BY <1>1, CurrentLine DEF IInv
<1>4. /\ DOMAIN sh' = ShellFields /\ sh'.pc = "clean" /\ sh'.n = sh.n /\ sh'.cmd = sh.cmd
  BY <1>3 DEF CleanDir, ShellFields
<1>5. L' = L
  BY <1>1, <1>4, SameLine
<1>6. /\ sh'.pc \in Handling /\ ~At("check duplicate")' /\ \A pc : At(pc)' <=> pc = "clean"
  BY <1>4 DEF At, Handling
<1>7. (At("check duplicate") /\ sh.quiet => L.orig \in Paths)'
  BY <1>6, Zenon
<1>8. sh'.pc \notin {"compare", "act", "rm", "link"} /\ sh'.pc \notin {"act", "rm", "copy"}
  BY <1>4
<1>9. /\ report = << >> /\ sh.n <= Len(script.lines) /\ L.cmd \in Handled /\ (sh.cmd = "cp_reflink" => L.cmd = "cp_reflink")
  BY <1>1, <1>3 DEF IInv, Shell
<1>10. Shell'
  BY <1>1, <1>3, <1>4, <1>5, <1>6, <1>7, <1>8, <1>9 DEF Shell
<1> QED
  BY <1>2, <1>10 DEF IInv

\* rm -rf, one name at a time.
LEMMA RemoveTreeStep ==
  ASSUME RemovalScriptAssumption, IInv, RemoveTree
  PROVE  IInv'
<1>1. sh.pc = "rm" /\ sh.pc \in Handling /\ ~At("off") /\ RunUnchanged
  BY DEF RemoveTree, At, Handling
<1>2. /\ Dup(L.dup, L.orig) /\ DOMAIN sh = ShellFields /\ sh.n \in Nat \ {0}
      /\ report = << >> /\ sh.n <= Len(script.lines) /\ L.cmd \in Handled /\ (sh.cmd = "cp_reflink" => L.cmd = "cp_reflink")
  BY <1>1, CurrentLine DEF IInv, Shell
<1>3. CASE L.dup \in Paths
  <2> DEFINE d == L.dup
             o == L.orig
  <2>1. PICK p \in Tree(d) : Inside(p) = {} /\ Becomes(Without(p)) /\ UNCHANGED sh
    BY <1>3 DEF RemoveTree
  <2>2. fs' = Without(p) /\ Lines' /\ UNCHANGED cfg /\ UNCHANGED report /\ UNCHANGED script /\ UNCHANGED touched
    BY <1>1, <2>1, ChangeKeepsLines DEF IInv, Becomes
  <2>3. p \in Paths /\ p \in DOMAIN cfg.node /\ IsPrefix(d, p)
    BY DEF Tree, IInv, Nodes
  <2>4. \A q \in Paths : ~IsStrictPrefix(p, q)
    BY <2>1 DEF Inside, Tree, IsStrictPrefix
  <2>5. \A d2, o2 : Dup(d2, o2) => ~IsPrefix(o2, p)
    BY <1>2, <2>3, Apart DEF IInv, Nodes
  <2>6. Nodes' /\ Quiet'
    BY <2>2, <2>4, <2>5, NodesWithout, QuietWithout DEF IInv, IsStrictPrefix
  <2>7. Relies => Covered(d, o)
    BY <1>1 DEF IInv, Shell
  <2>8. NothingIsLost'
    <3>1. ASSUME Relies, Is(p, "file"), fs.data[fs.node[p].inode] # ""
          PROVE  \E q \in Paths \ {p} : Is(q, "file") /\ fs.data[fs.node[q].inode] = fs.data[fs.node[p].inode]
      <4>1. PICK q \in Tree(o) : Is(q, "file") /\ fs.data[fs.node[q].inode] = fs.data[fs.node[p].inode]
        BY <2>7, <3>1 DEF Covered
      <4>2. q \in Paths /\ q # p
        BY <1>2, <2>5 DEF Tree
      <4> QED
        BY <4>1, <4>2
    <3> QED
      BY <2>1, <3>1, LosesNothingWithout DEF IInv
  <2>9. L' = L /\ (Relies' <=> Relies)
    BY <2>1, <2>2, SameLine, SameReliance
  <2>10. /\ Paths' = Paths \ {p} /\ fs'.data = fs.data /\ \A q \in Paths' : fs'.node[q] = fs.node[q]
    BY <2>2, AfterWithout DEF IInv
  <2>11. \A q \in DOMAIN cfg.node : IsStrictPrefix(q, d) => Is(q, "dir")'
    <3> SUFFICES ASSUME NEW q \in DOMAIN cfg.node, IsStrictPrefix(q, d) PROVE Is(q, "dir")'
      OBVIOUS
    <3>1. Is(q, "dir")
      BY <1>1 DEF IInv, Shell
    <3>2. q # p
      BY <1>2, <2>3, PathsAreNames, PrefixOrder DEF IsStrictPrefix, IInv, Nodes, Dup
    <3> QED
      BY <2>10, <3>1, <3>2 DEF Is
  <2>12. ASSUME NEW a, NEW b, Covered(a, b), Dup(a, b), ~IsPrefix(b, p)
         PROVE  Covered(a, b)'
    <3>1. Tree(b)' = Tree(b) /\ Tree(a)' \subseteq Tree(a)
      BY <2>10, <2>12 DEF Tree
    <3>2. \A q \in Paths' : Is(q, "file")' <=> Is(q, "file")
      BY <2>10 DEF Is
    <3> SUFFICES ASSUME NEW q \in Tree(a)', Is(q, "file")', fs'.data[fs'.node[q].inode] # ""
                 PROVE  \E r \in Tree(b)' : /\ Is(r, "file")'
                                            /\ fs'.data[fs'.node[r].inode] = fs'.data[fs'.node[q].inode]
      BY DEF Covered
    <3>3. q \in Tree(a) /\ Is(q, "file") /\ fs'.node[q] = fs.node[q] /\ fs'.data = fs.data
      BY <2>10, <3>1, <3>2 DEF Tree
    <3>4. PICK r \in Tree(b) : Is(r, "file") /\ fs.data[fs.node[r].inode] = fs.data[fs.node[q].inode]
      BY <2>12, <3>3 DEF Covered
    <3>5. r \in Tree(b)' /\ r \in Paths'
      BY <3>1 DEF Tree
    <3> QED
      BY <2>10, <3>2, <3>3, <3>4, <3>5
  <2>13. Relies' => Covered(L.dup, L.orig)'
    BY <1>2, <2>5, <2>7, <2>9, <2>12
  <2>14. Shell'
    <3>1. \A x : At(x)' <=> x = "rm"
      BY <1>1, <2>1 DEF At
    <3>2. (At("check duplicate") /\ sh.quiet => L.orig \in Paths)'
      <4>1. ~At("check duplicate")'
        BY <3>1
      <4> QED
        BY <4>1, Zenon
    <3> QED
      BY <1>1, <1>2, <2>1, <2>2, <2>9, <2>11, <2>13, <3>1, <3>2 DEF Shell
  <2> QED
    BY <2>2, <2>6, <2>8, <2>14 DEF IInv
<1>4. CASE L.dup \notin Paths
  <2> DEFINE pc == IF sh.cmd = "remove_cmd" THEN "clean" ELSE "link"
  <2>1. sh' = [sh EXCEPT !.pc = pc, !.dir = Front(L.dup)] /\ UNCHANGED <<fs, lost>>
    BY <1>4 DEF RemoveTree
  <2>2. UNCHANGED cfg /\ UNCHANGED fs /\ UNCHANGED report /\ UNCHANGED script /\ UNCHANGED touched
    BY <1>1, <2>1 DEF RunUnchanged
  <2>3. Nodes' /\ Lines' /\ Quiet' /\ NothingIsLost'
    BY <1>1, <2>1, <2>2, SameWorld
  <2>4. DOMAIN sh' = ShellFields /\ sh'.pc \in {"clean", "link"} /\ sh'.n = sh.n /\ sh'.cmd = sh.cmd
    BY <1>2, <2>1 DEF ShellFields
  <2>5. L' = L
    BY <2>2, <2>4, SameLine
  <2>6. /\ sh'.pc \in Handling /\ ~At("check duplicate")' /\ ~At("off")' /\ ~At("copy")'
    BY <2>4 DEF At, Handling
  <2>7. (At("check duplicate") /\ sh.quiet => L.orig \in Paths)'
    BY <2>6, Zenon
  <2>8. Paths' = Paths /\ \A q, k : Is(q, k)' <=> Is(q, k)
    BY <2>2 DEF Paths, Is
  <2>9. \A q \in DOMAIN cfg.node : IsStrictPrefix(q, L.dup) => Is(q, "dir")
    BY <1>1 DEF IInv, Shell
  <2>10. sh'.pc \notin {"act", "rm", "copy"}
    BY <2>4
  <2>11. Shell'
    BY <1>2, <1>4, <2>2, <2>4, <2>5, <2>6, <2>7, <2>8, <2>9, <2>10 DEF Shell
  <2> QED
    BY <2>3, <2>11 DEF IInv
<1> QED
  BY <1>3, <1>4

\* ln and ln -s.
LEMMA LinkStep ==
  ASSUME RemovalScriptAssumption, IInv, Link
  PROVE  IInv'
<1>1. sh.pc = "link" /\ sh.pc \in Handling /\ ~At("off") /\ NextLine /\ RunUnchanged
  BY DEF Link, At, Handling
<1>2. CASE UNCHANGED <<fs, lost>>
  BY <1>1, <1>2, NextLineStep
<1> DEFINE d == L.dup
           o == L.orig
<1>3. Dup(d, o) /\ d \in DOMAIN cfg.node
  BY <1>1, CurrentLine DEF IInv, Dup
<1>4. ASSUME NEW n, n = LinkTo(d, o) \/ (n = NameOf(o) /\ File(cfg, o) /\ Is(o, "file")), Becomes(WithNode(d, n))
      PROVE  IInv'
  <2>1. fs' = WithNode(d, n) /\ Lines' /\ UNCHANGED cfg /\ UNCHANGED report /\ UNCHANGED touched
    BY <1>1, <1>4, ChangeKeepsLines DEF IInv, Becomes
  <2>2. d \notin Paths /\ \A q \in DOMAIN cfg.node : IsStrictPrefix(q, d) => Is(q, "dir")
    BY <1>1 DEF IInv, Shell, At
  <2>3. Nodes'
    BY <1>3, <1>4, <2>1, <2>2, NodesWithNode DEF IInv
  <2>4. Quiet'
    BY <1>3, <1>4, <2>1, <2>2, QuietWithNode DEF IInv
  <2>5. NothingIsLost'
    <3> DEFINE new == WithNode(d, n)
    <3>1. /\ DOMAIN new.node = Paths \cup {d} /\ new.data = fs.data
          /\ \A q \in Paths : new.node[q] = fs.node[q]
      BY <2>2 DEF WithNode, IInv, Nodes
    <3> HIDE DEF new
    <3>2. \A p \in Paths : Is(p, "file") =>
            \E q \in DOMAIN new.node : new.node[q].kind = "file" /\ new.data[new.node[q].inode] = fs.data[fs.node[p].inode]
      BY <3>1 DEF Is
    <3>3. Becomes(new)
      BY <1>4 DEF new
    <3> QED
      BY <3>2, <3>3, LosesNothing DEF IInv
  <2>6. Shell'
    BY <1>1, <2>1, NextLineShell DEF IInv
  <2> QED
    BY <2>1, <2>3, <2>4, <2>5, <2>6 DEF IInv
<1>5. CASE sh.cmd = "cp_symlink"
  BY <1>4, <1>5 DEF Link, LinkTo
<1>6. CASE sh.cmd # "cp_symlink" /\ Is(o, "file") /\ Becomes(WithNode(d, [kind |-> "file", inode |-> Inode(o)]))
  <2>1. o \in Paths /\ fs.node[o] = cfg.node[o]
    BY <1>3, <1>6, PathsAreNames, OriginalIsPlain DEF Is, IInv, Nodes, Dup
  <2>2. Inode(o) = Seen(o) /\ File(cfg, o)
    BY <1>6, <2>1 DEF Is, Inode, Target, Seen, File
  <2> QED
    BY <1>4, <1>6, <2>2 DEF NameOf
<1> QED
  BY <1>2, <1>5, <1>6 DEF Link

\* cp --reflink.
LEMMA CopyStep ==
  ASSUME RemovalScriptAssumption, IInv, Copy
  PROVE  IInv'
<1>1. sh.pc = "copy" /\ sh.pc \in Handling /\ ~At("off") /\ NextLine /\ RunUnchanged
  BY DEF Copy, At, Handling
<1>2. CASE UNCHANGED <<fs, lost>>
  BY <1>1, <1>2, NextLineStep
<1> DEFINE d == L.dup
           o == L.orig
           v == IF cfg.dev[Inode(d)] = cfg.dev[Inode(o)] /\ cfg.dev[Inode(d)] \in cfg.reflinkfs THEN Data(o) ELSE ""
<1>3. CASE IsFile(o) /\ IsFile(d) /\ Inode(d) # Inode(o) /\ Becomes(WithData(Inode(d), v))
  <2>1. Dup(d, o) /\ CanReflink(d, o) /\ File(cfg, d)
    <3>1. sh.cmd = "cp_reflink" /\ L.cmd = "cp_reflink"
      BY <1>1 DEF IInv, Shell, At
    <3> QED
      BY <1>1, <3>1, CurrentLine DEF IInv, LineIsRight
  <2>2. Overwrites(d, o)
    BY <1>3, <2>1, CopyOverwrites DEF IInv
  <2>3. WithData(Inode(d), v) = WithData(Seen(d), fs.data[Seen(o)])
    BY <2>1, <2>2 DEF Overwrites, CanReflink, SameDevice, Data
  <2>4. Becomes(WithData(Seen(d), fs.data[Seen(o)]))
    BY <1>3, <2>3
  <2>5. fs' = WithData(Seen(d), fs.data[Seen(o)]) /\ Lines' /\ UNCHANGED cfg /\ UNCHANGED report /\ UNCHANGED touched
    BY <1>1, <2>4, ChangeKeepsLines DEF IInv, Becomes
  <2>6. Seen(d) \in DOMAIN fs.data
    BY <2>1, PathsAreNames DEF IInv, Nodes, Dup
  <2>7. Nodes'
    BY <2>5, <2>6, NodesWithData DEF IInv
  <2>8. Quiet'
    BY <2>1, <2>2, <2>5, QuietCopy DEF IInv
  <2>9. NothingIsLost'
    <3>1. Relies => Covered(d, o)
      BY <1>1 DEF IInv, Shell
    <3> QED
      BY <2>1, <2>2, <2>4, <3>1, CopyLosesNothing DEF IInv
  <2>10. Shell'
    BY <1>1, <2>5, NextLineShell DEF IInv
  <2> QED
    BY <2>5, <2>7, <2>8, <2>9, <2>10 DEF IInv
<1> QED
  BY <1>2, <1>3 DEF Copy

-----------------------------------------------------------------------------
(* Users, and the theorem *)

LEMMA DisturbedShell ==
  ASSUME IInv, NEW paths, Disturb(paths),
         \A q : Is(q, "dir") => Is(q, "dir")',
         Paths' \subseteq Paths
  PROVE  Shell'
<1>1. UNCHANGED cfg /\ UNCHANGED report /\ UNCHANGED script
  BY DEF Disturb
<1>2. CASE At("off")
  <2>1. sh' = sh /\ sh.pc = "off"
    BY <1>2 DEF Disturb, At
  <2>2. At("off")' /\ sh'.pc = "off"
    BY <2>1 DEF At
  <2> QED
    BY <2>2 DEF Shell, At, Handling
<1>3. CASE ~At("off")
  <2>1. DOMAIN sh = ShellFields /\ report = << >> /\ sh.n \in Nat \ {0}
    BY <1>3 DEF IInv, Shell
  <2>2. DOMAIN sh' = ShellFields /\ sh'.pc = sh.pc /\ sh'.n = sh.n /\ sh'.cmd = sh.cmd /\ sh'.quiet = FALSE
    BY <1>3, <2>1 DEF Disturb, ShellFields
  <2>3. L' = L
    BY <1>1, <2>2, SameLine
  <2>4. ~Relies'
    BY <2>2 DEF Relies
  <2>5. \A x : At(x)' <=> At(x)
    BY <2>2 DEF At
  <2>6. (At("check duplicate") /\ sh.quiet => L.orig \in Paths)'
    BY <2>2
  <2>7. /\ sh.pc \in {"off", "line"} \cup Handling
        /\ sh.pc \in Handling => sh.n <= Len(script.lines) /\ L.cmd \in Handled /\ (sh.cmd = "cp_reflink" => L.cmd = "cp_reflink")
        /\ At("copy") => sh.cmd = "cp_reflink"
        /\ sh.pc \in {"compare", "act", "rm", "link"} => \A q \in DOMAIN cfg.node : IsStrictPrefix(q, L.dup) => Is(q, "dir")
        /\ At("link") => L.dup \notin Paths
    BY DEF IInv, Shell
  <2> QED
    BY <1>1, <2>1, <2>2, <2>3, <2>4, <2>5, <2>6, <2>7 DEF Shell
<1> QED
  BY <1>2, <1>3

LEMMA UserStep ==
  ASSUME RemovalScriptAssumption, IInv, NEW p \in Paths, Rewrite(p) \/ Unlink(p)
  PROVE  IInv'
<1>1. PICK paths : Disturb(paths)
  BY DEF Rewrite, Unlink
<1>2. UNCHANGED cfg /\ UNCHANGED report /\ UNCHANGED last_original /\ UNCHANGED script /\ UNCHANGED lost
  BY <1>1 DEF Disturb
<1>3. Lines' /\ NothingIsLost'
  BY <1>2, SameLines DEF IInv, NothingIsLost
<1>4. Is(p, "file")
  BY DEF Rewrite, Unlink
<1>5. CASE Rewrite(p)
  <2>1. fs' = WithData(Inode(p), "new") /\ Inode(p) \in DOMAIN fs.data
    BY <1>4, <1>5, InodeOf DEF Rewrite, Inode, Target, Is, IInv
  <2>2. Nodes' /\ fs'.node = fs.node /\ Paths' = Paths
    BY <1>2, <2>1, NodesWithData, AfterWithData DEF IInv
  <2>3. \A q : Is(q, "dir") => Is(q, "dir")'
    BY <2>2 DEF Is
  <2>4. Quiet'
    BY <1>5, QuietRewrite DEF IInv
  <2> QED
    BY <1>1, <1>3, <2>2, <2>3, <2>4, DisturbedShell DEF IInv
<1>6. CASE Unlink(p)
  <2>1. fs' = Without(p)
    BY <1>6 DEF Unlink
  <2>2. \A q \in Paths : ~IsStrictPrefix(p, q)
    BY <1>4 DEF IInv, Nodes, Is
  <2>3. Nodes'
    BY <1>2, <2>1, <2>2, NodesWithout DEF IInv
  <2>4. Paths' = Paths \ {p} /\ \A q \in Paths' : fs'.node[q] = fs.node[q]
    BY <2>1, AfterWithout DEF IInv
  <2>5. \A q : Is(q, "dir") => Is(q, "dir")'
    BY <1>4, <2>4 DEF Is
  <2>6. Quiet'
    BY <1>6, QuietUnlink DEF IInv
  <2> QED
    BY <1>1, <1>3, <2>3, <2>4, <2>5, <2>6, DisturbedShell DEF IInv
<1> QED
  BY <1>5, <1>6

LEMMA Initially == RemovalScriptAssumption /\ Init => IInv
<1> SUFFICES ASSUME RemovalScriptAssumption, Init PROVE IInv
  OBVIOUS
<1>1. cfg \in Scripts /\ fs = [node |-> cfg.node, data |-> cfg.data] /\ Paths = DOMAIN cfg.node
  BY DEF Init, Paths
<1>2. ScriptRecord(cfg) /\ ReportIsRight(cfg)
  BY <1>1, ConfigIsRight
<1>3. Nodes
  <2>1. \A p \in Paths : Node(p)
    BY <1>1 DEF Node
  <2>2. \A p \in Paths, q \in DOMAIN cfg.node : IsStrictPrefix(q, p) => Is(q, "dir")
    BY <1>1, <1>2 DEF ScriptRecord, Is
  <2> QED
    BY <1>1, <2>1, <2>2 DEF Nodes
<1>4. Lines
  <2>1. cfg.report \in Seq(Range(cfg.report))
    BY <1>2 DEF ScriptRecord
  <2>2. Written(0)
    <3>1. SubSeq(cfg.report, 0 + 1, Len(cfg.report)) = cfg.report
      BY <2>1, SubSeqFull
    <3>2. 0 \in 0..Len(cfg.report)
      BY <2>1
    <3> QED
      BY <3>1, <3>2 DEF Written, Init
  <2>3. script.lines = << >> /\ DOMAIN script = {"lines", "there", "ran"}
    BY DEF Init
  <2>4. << >> \in Seq(LineType) /\ \A n \in DOMAIN << >> : FALSE
    OBVIOUS
  <2> QED
    BY <2>2, <2>3, <2>4 DEF Lines
<1>5. Quiet
  <2>1. ASSUME NEW d, NEW o PROVE Unaltered(d, o)
    BY <1>1 DEF Unaltered, Is, Content
  <2>2. ASSUME NEW n \in DOMAIN cfg.report, cfg.report[n].type = "emptyfile"
        PROVE  fs.data[Seen(cfg.report[n].path)] = ""
    BY <1>1, <1>2, <2>2 DEF ReportIsRight, LintIsSo, Content, Seen
  <2> QED
    BY <2>1, <2>2 DEF Quiet
<1>6. Shell
  <2>1. At("off") /\ sh.pc = "off"
    BY DEF Init, Off, At
  <2> QED
    BY <2>1 DEF Shell, At, Handling
<1> QED
  BY <1>3, <1>4, <1>5, <1>6 DEF IInv, NothingIsLost, Init

LEMMA WriteElemStep ==
  ASSUME RemovalScriptAssumption, IInv, WriteElem
  PROVE  IInv'
<1>1. UNCHANGED cfg /\ UNCHANGED fs /\ UNCHANGED sh /\ UNCHANGED touched /\ UNCHANGED lost /\ report # << >>
  BY DEF WriteElem
<1>2. At("off")
  BY <1>1 DEF IInv, Shell
<1>3. Shell'
  <2>1. At("off")' /\ sh'.pc = "off"
    BY <1>1, <1>2 DEF At
  <2> QED
    BY <2>1 DEF Shell, At, Handling
<1> QED
  BY <1>1, <1>3, LinesWriteElem, SameFiles DEF IInv, NothingIsLost

LEMMA StutterStep ==
  ASSUME IInv, UNCHANGED vars
  PROVE  IInv'
<1>1. UNCHANGED cfg /\ UNCHANGED fs /\ UNCHANGED report /\ UNCHANGED last_original /\ UNCHANGED script
      /\ UNCHANGED sh /\ UNCHANGED touched /\ UNCHANGED lost
  BY DEF vars
<1>2. Nodes' /\ Lines' /\ Quiet' /\ NothingIsLost'
  BY <1>1, SameFiles, SameLines DEF IInv, NothingIsLost
<1>3. Paths' = Paths /\ (\A p, k : Is(p, k)' <=> Is(p, k)) /\ (\A x : At(x)' <=> At(x))
  BY <1>1 DEF Paths, Is, At
<1>4. L' = L /\ (Relies' <=> Relies)
  BY <1>1, SameLine, SameReliance
<1>5. Covered(L.dup, L.orig) => Covered(L.dup, L.orig)'
  BY <1>1, <1>4, CoveredStays
<1>6. Shell'
  BY <1>1, <1>3, <1>4, <1>5 DEF IInv, Shell
<1> QED
  BY <1>2, <1>6 DEF IInv

LEMMA Inductive == RemovalScriptAssumption /\ IInv /\ [Next]_vars => IInv'
<1> SUFFICES ASSUME RemovalScriptAssumption, IInv, [Next]_vars PROVE IInv'
  OBVIOUS
<1>1. CASE WriteElem
  BY <1>1, WriteElemStep
<1>2. CASE \E o \in cfg.options : Start(o)
  BY <1>2, StartStep
<1>3. CASE Keep \/ RemoveLint \/ RemoveEmptyDir \/ HandleDuplicate
  BY <1>3, KeepStep, RemoveLintStep, RemoveEmptyDirStep, HandleDuplicateStep
<1>4. CASE CheckOriginal \/ CheckDuplicate \/ Compare \/ Act
  BY <1>4, CheckOriginalStep, CheckDuplicateStep, CompareStep, ActStep
<1>5. CASE RemoveTree \/ Link \/ Copy
  BY <1>5, RemoveTreeStep, LinkStep, CopyStep
<1>6. CASE Clean \/ CleanDir \/ Foot \/ Interrupt
  BY <1>6, CleanStep, CleanDirStep, LeaveStep
<1>7. CASE \E p \in Paths : Rewrite(p) \/ Unlink(p)
  BY <1>7, UserStep
<1>8. CASE UNCHANGED vars
  BY <1>8, StutterStep
<1> QED
  BY <1>1, <1>2, <1>3, <1>4, <1>5, <1>6, <1>7, <1>8 DEF Next, Done

\* The script never destroys the last copy of a content, whatever the report, the handlers, the
\* options, the edits of users, the interruptions and the runs (sh.sh).
THEOREM ScriptLosesNothing ==
  ASSUME RemovalScriptAssumption
  PROVE  Spec => []NothingIsLost
<1>1. IInv => NothingIsLost
  BY DEF IInv
<1> QED
  BY <1>1, Initially, Inductive, RemovalScriptAssumption, PTL DEF Spec

-----------------------------------------------------------------------------
(* A run that nobody disturbs.  Its invariant is about the files with a     *)
(* content only: as long as such a file is there so are the directories     *)
(* that it is in, and every member of a group is or holds one.              *)

Undisturbed == budget.edits = cfg.edits /\ budget.kills = cfg.kills
Budget ==
  /\ DOMAIN budget = {"edits", "runs", "kills"}
  /\ budget.edits \in Int /\ budget.edits <= cfg.edits /\ budget.kills \in Int /\ budget.kills <= cfg.kills

\* Every line is that of a written entry, and a duplicate has one.
Handles(n) == n \in DOMAIN script.lines /\ script.lines[n].cmd \in Handled
Origins ==
  /\ \E k \in Int :
       Written(k) /\ \A n : Handles(n) => \E j \in 1..k : j \in DOMAIN cfg.report /\ IsDuplicate(j, script.lines[n].dup)
  /\ \A m, n : Handles(m) /\ Handles(n) /\ script.lines[m].dup = script.lines[n].dup => m = n

\* What the shell knows of its line.
Course ==
  /\ script.ran => report = << >>
  /\ ~At("off") => sh.opt \in cfg.options
  /\ sh.pc \in Handling => sh.cmd \in Handled /\ (sh.cmd = "remove_cmd" <=> L.cmd = "remove_cmd")
  /\ sh.pc \in {"rm", "link"} => sh.cmd # "cp_reflink"
  /\ At("link") => sh.cmd # "remove_cmd"
  /\ sh.pc \in {"clean", "rmdir"} => L.dup \notin Paths

\* A file as it was, and all that were in a tree.
FullFile(f) == f \in DOMAIN cfg.node /\ File(cfg, f) /\ Content(cfg, f) # ""
Kept(f) == f \in Paths /\ fs.node[f] = cfg.node[f]
Whole(p) == \A f : FullFile(f) /\ IsPrefix(p, f) => Kept(f)

Replaced(l) ==
  /\ l.cmd # "remove_cmd" /\ l.dup \in Paths
  /\ fs.node[l.dup] = LinkTo(l.dup, l.orig) \/ (fs.node[l.dup] = NameOf(l.orig) /\ File(cfg, l.orig))
Gone(l) == l.cmd = "remove_cmd" /\ l.dup \notin Paths
Underway(n) == sh.pc \in {"rm", "link"} /\ sh.n = n

\* A line is settled as long as its duplicate is whole, and after it did its work.
Settled(l) == Whole(l.dup) \/ Replaced(l) \/ Gone(l)

FilesAreKept == \A f : FullFile(f) /\ (\A n : Handles(n) => ~IsPrefix(script.lines[n].dup, f)) => Kept(f)
LinesAreSettled == \A n : Handles(n) /\ ~Underway(n) => Settled(script.lines[n])

\* Only files are hardlinked.
HardlinksAreFiles == sh.pc \in Handling /\ sh.cmd = "cp_hardlink" => L.cmd = "cp_hardlink" /\ File(cfg, L.dup)

NobodyAsks == \A o \in cfg.options : ~o.ask
Passed(n) == script.ran \/ (~At("off") /\ ~sh.opt.dry /\ n < sh.n)
RemovedAreGone ==
  NobodyAsks => \A n : Handles(n) /\ script.lines[n].cmd = "remove_cmd" /\ Passed(n) => script.lines[n].dup \notin Paths

SameData == \A i \in DOMAIN cfg.data : fs.data[i] = cfg.data[i]
RunKeeps == SameData /\ FilesAreKept /\ LinesAreSettled /\ HardlinksAreFiles /\ RemovedAreGone
RunInv == Budget /\ Origins /\ Course /\ (Undisturbed => RunKeeps)

LEMMA HandledLine ==
  ASSUME Lines, NEW n, Handles(n)
  PROVE  /\ n \in Nat \ {0} /\ n <= Len(script.lines) /\ script.lines[n] \in LineType
         /\ LineIsRight(script.lines[n]) /\ Dup(script.lines[n].dup, script.lines[n].orig)
<1>1. script.lines \in Seq(LineType) /\ n \in 1..Len(script.lines)
  BY DEF Lines, Handles
<1>2. LineIsRight(script.lines[n]) /\ script.lines[n].cmd \in Handled
  BY DEF Lines, Handles
<1> QED
  BY <1>1, <1>2 DEF LineIsRight

\* A member of a group is there as long as its files are.
LEMMA MemberStays ==
  ASSUME RemovalScriptAssumption, Nodes, NEW n \in DOMAIN cfg.report, OfGroup(cfg.report[n]),
         NEW p, p = cfg.report[n].path, Whole(p)
  PROVE  /\ p \in Paths /\ Is(p, cfg.node[p].kind) /\ Target(p) = p
         /\ File(cfg, p) => fs.node[p] = cfg.node[p]
<1>1. PICK x \in Range(cfg.data) \ {""} : FilesWith(cfg, p, x) # {}
  BY MemberFull DEF Nodes
<1>2. PICK f : f \in FilesWith(cfg, p, x)
  BY <1>1
<1>3. FullFile(f) /\ IsPrefix(p, f)
  BY <1>1, <1>2 DEF FilesWith, FullFile
<1>4. f \in Paths /\ fs.node[f] = cfg.node[f] /\ f \in DOMAIN cfg.node /\ cfg.node[f].kind = "file"
  BY <1>3 DEF Whole, Kept, FullFile, File
<1>5. CASE f = p
  BY <1>4, <1>5 DEF Is, Target
<1>6. CASE f # p
  <2>1. p \in DOMAIN cfg.node /\ IsStrictPrefix(p, f)
    BY <1>3, <1>6, ReportPath DEF IsStrictPrefix, Nodes
  <2>2. Is(p, "dir")
    BY <1>4, <2>1 DEF Nodes
  <2>3. cfg.node[p].kind = "dir"
    BY <1>4, <2>1, ConfigIsRight DEF ScriptRecord, Nodes
  <2> QED
    BY <2>2, <2>3 DEF Is, Target, File
<1> QED
  BY <1>5, <1>6

LEMMA OriginalWhole ==
  ASSUME RemovalScriptAssumption, Nodes, Lines, FilesAreKept,
         NEW n \in DOMAIN cfg.report, OfGroup(cfg.report[n]), cfg.report[n].original
  PROVE  Whole(cfg.report[n].path)
<1> SUFFICES ASSUME NEW f, FullFile(f), IsPrefix(cfg.report[n].path, f) PROVE Kept(f)
  BY DEF Whole
<1>1. ASSUME NEW m, Handles(m) PROVE ~IsPrefix(script.lines[m].dup, f)
  <2>1. Dup(script.lines[m].dup, script.lines[m].orig)
    BY <1>1, HandledLine
  <2>2. PICK j \in DOMAIN cfg.report : IsDuplicate(j, script.lines[m].dup)
    BY <2>1, DupEntries
  <2> QED
    BY <2>2, MemberApart DEF IsDuplicate, FullFile, Nodes
<1> QED
  BY <1>1 DEF FilesAreKept

LEMMA PairOriginal ==
  ASSUME RemovalScriptAssumption, Nodes, Lines, FilesAreKept, NEW d, NEW o, Dup(d, o)
  PROVE  /\ Whole(o) /\ o \in Paths /\ Is(o, cfg.node[o].kind) /\ Target(o) = o
         /\ File(cfg, o) => fs.node[o] = cfg.node[o]
<1>1. PICK m \in DOMAIN cfg.report, n \in DOMAIN cfg.report : IsOriginal(m, n, o)
  BY DupEntries
<1>2. Whole(o)
  BY <1>1, OriginalWhole DEF IsOriginal
<1> QED
  BY <1>1, <1>2, MemberStays DEF IsOriginal

LEMMA PairDuplicate ==
  ASSUME RemovalScriptAssumption, Nodes, NEW d, NEW o, Dup(d, o), Whole(d)
  PROVE  /\ d \in Paths /\ Is(d, cfg.node[d].kind) /\ Target(d) = d
         /\ File(cfg, d) => fs.node[d] = cfg.node[d]
<1>1. PICK m \in DOMAIN cfg.report, n \in DOMAIN cfg.report : IsDuplicate(n, d)
  BY DupEntries
<1> QED
  BY <1>1, MemberStays DEF IsDuplicate

-----------------------------------------------------------------------------
(* Steps of such a run *)

LEMMA FilesStay ==
  ASSUME UNCHANGED cfg, UNCHANGED fs, script'.lines = script.lines
  PROVE  /\ \A n : Handles(n)' <=> Handles(n)
         /\ SameData => SameData'
         /\ FilesAreKept => FilesAreKept'
         /\ \A n : Settled(script.lines[n]) => Settled(script.lines[n])'
<1>1. \A n : Handles(n)' <=> Handles(n)
  BY DEF Handles
<1>2. \A f : (FullFile(f)' <=> FullFile(f)) /\ (Kept(f)' <=> Kept(f))
  BY DEF FullFile, Kept, File, Content, Paths
<1>3. FilesAreKept => FilesAreKept'
  BY <1>1, <1>2 DEF FilesAreKept
<1>4. \A q : Whole(q) => Whole(q)'
  BY <1>2 DEF Whole
<1>5. ASSUME NEW n PROVE Settled(script.lines[n]) => Settled(script.lines[n])'
  <2>1. Replaced(script.lines[n]) => Replaced(script.lines[n])'
    BY DEF Replaced, LinkTo, NameOf, Seen, File, Paths
  <2>2. Gone(script.lines[n]) => Gone(script.lines[n])'
    BY DEF Gone, Paths
  <2>3. Whole(script.lines[n].dup) => Whole(script.lines[n].dup)'
    BY <1>2 DEF Whole
  <2> QED
    BY <2>1, <2>2, <2>3 DEF Settled
<1> QED
  BY <1>1, <1>3, <1>5 DEF SameData

\* What is removed is neither a file with a content nor a duplicate.
LEMMA HarmlessWithout ==
  ASSUME Nodes, NEW p, fs' = Without(p), UNCHANGED cfg, script'.lines = script.lines,
         \A f : FullFile(f) /\ Kept(f) => f # p,
         \A n : Handles(n) /\ Replaced(script.lines[n]) => script.lines[n].dup # p
  PROVE  /\ \A n : Handles(n)' <=> Handles(n)
         /\ SameData => SameData'
         /\ Paths' \subseteq Paths
         /\ FilesAreKept => FilesAreKept'
         /\ \A n : Handles(n) /\ Settled(script.lines[n]) => Settled(script.lines[n])'
<1>1. Paths' = Paths \ {p} /\ fs'.data = fs.data /\ \A q \in Paths' : fs'.node[q] = fs.node[q]
  BY AfterWithout
<1>2. \A n : Handles(n)' <=> Handles(n)
  BY DEF Handles
<1>3. \A f : FullFile(f)' <=> FullFile(f)
  BY DEF FullFile, File, Content
<1>4. \A f : FullFile(f) /\ Kept(f) => Kept(f)'
  BY <1>1 DEF Kept
<1>5. FilesAreKept => FilesAreKept'
  BY <1>2, <1>3, <1>4 DEF FilesAreKept
<1>6. ASSUME NEW n, Handles(n), Settled(script.lines[n]) PROVE Settled(script.lines[n])'
  <2>1. Whole(script.lines[n].dup) => Whole(script.lines[n].dup)'
    BY <1>3, <1>4 DEF Whole
  <2>2. Gone(script.lines[n]) => Gone(script.lines[n])'
    BY <1>1 DEF Gone
  <2>3. ASSUME Replaced(script.lines[n]) PROVE Replaced(script.lines[n])'
    <3>1. script.lines[n].dup \in Paths \ {p}
      BY <1>6, <2>3 DEF Replaced
    <3>2. fs'.node[script.lines[n].dup] = fs.node[script.lines[n].dup]
      BY <1>1, <3>1
    <3> QED
      BY <1>1, <2>3, <3>1, <3>2 DEF Replaced, LinkTo, NameOf, Seen, File
  <2> QED
    BY <1>6, <2>1, <2>2, <2>3 DEF Settled
<1> QED
  BY <1>1, <1>2, <1>5, <1>6 DEF SameData

LEMMA OriginsStay ==
  ASSUME Origins, UNCHANGED cfg, UNCHANGED report, UNCHANGED last_original, script'.lines = script.lines
  PROVE  Origins'
<1>1. \A n : Handles(n)' <=> Handles(n)
  BY DEF Handles
<1>2. \A k \in Int : Written(k) => Written(k)'
  BY DEF Written
<1>3. PICK k \in Int :
        Written(k) /\ \A n : Handles(n) => \E j \in 1..k : j \in DOMAIN cfg.report /\ IsDuplicate(j, script.lines[n].dup)
  BY DEF Origins
<1>4. \A n : Handles(n)' => \E j \in 1..k : j \in DOMAIN cfg.report /\ IsDuplicate(j, script.lines[n].dup)
  BY <1>1, <1>3
<1>5. (\A n : Handles(n) => \E j \in 1..k : j \in DOMAIN cfg.report /\ IsDuplicate(j, script.lines[n].dup))'
  BY <1>4 DEF IsDuplicate
<1>6. (\A m, n : Handles(m) /\ Handles(n) /\ script.lines[m].dup = script.lines[n].dup => m = n)'
  BY <1>1 DEF Origins
<1> QED
  BY <1>2, <1>3, <1>5, <1>6 DEF Origins

LEMMA BudgetStays ==
  ASSUME Budget, UNCHANGED cfg, UNCHANGED budget
  PROVE  Budget' /\ (Undisturbed' <=> Undisturbed)
BY DEF Budget, Undisturbed

\* The shell goes on with the next line.
LEMMA NextLineRun ==
  ASSUME IInv, RunInv, ~At("off"), NextLine, RunUnchanged,
         Undisturbed /\ RunKeeps =>
           /\ SameData' /\ FilesAreKept'
           /\ \A n : Handles(n) => Settled(script.lines[n])'
           /\ NobodyAsks => \A n : Handles(n) /\ script.lines[n].cmd = "remove_cmd" /\ script.lines[n].dup \notin Paths =>
                                     script.lines[n].dup \notin Paths'
           /\ NobodyAsks /\ ~sh.opt.dry /\ Handles(sh.n) /\ L.cmd = "remove_cmd" => L.dup \notin Paths'
  PROVE  RunInv'
<1>1. UNCHANGED cfg /\ UNCHANGED report /\ UNCHANGED last_original /\ UNCHANGED script /\ UNCHANGED budget
  BY DEF RunUnchanged
<1>2. DOMAIN sh = ShellFields /\ sh.n \in Nat \ {0}
  BY DEF IInv, Shell
<1>3. sh'.pc = "line" /\ sh'.n = sh.n + 1 /\ sh'.opt = sh.opt
  BY <1>2 DEF NextLine, ShellFields
<1>4. Budget' /\ (Undisturbed' <=> Undisturbed) /\ Origins'
  BY <1>1, BudgetStays, OriginsStay DEF RunInv
<1>5. Course'
  BY <1>1, <1>3 DEF Course, RunInv, At, Handling
<1>6. ASSUME Undisturbed PROVE RunKeeps'
  <2>1. \A n : Handles(n)' <=> Handles(n)
    BY <1>1 DEF Handles
  <2>2. SameData' /\ FilesAreKept'
    BY <1>1, <1>6 DEF RunInv, RunKeeps
  <2>3. LinesAreSettled'
    BY <1>6, <2>1 DEF RunInv, LinesAreSettled
  <2>4. HardlinksAreFiles'
    BY <1>3 DEF HardlinksAreFiles, Handling
  <2>5. RemovedAreGone'
    <3> SUFFICES ASSUME NobodyAsks, NEW n, Handles(n), script.lines[n].cmd = "remove_cmd", Passed(n)'
                 PROVE  script.lines[n].dup \notin Paths'
      BY <1>1, <2>1 DEF RemovedAreGone, NobodyAsks
    <3>1. n \in Nat
      BY HandledLine DEF IInv
    <3>2. Passed(n) \/ (n = sh.n /\ ~sh.opt.dry)
      BY <1>1, <1>2, <1>3, <3>1 DEF Passed
    <3>3. CASE Passed(n)
      BY <1>6, <3>3 DEF RunInv, RunKeeps, RemovedAreGone
    <3>4. CASE n = sh.n /\ ~sh.opt.dry
      BY <1>6, <3>4 DEF RunInv, L
    <3> QED
      BY <3>2, <3>3, <3>4
  <2> QED
    BY <2>2, <2>3, <2>4, <2>5 DEF RunKeeps
<1> QED
  BY <1>4, <1>5, <1>6 DEF RunInv

\* The shell goes on with its line.
LEMMA SameLineRun ==
  ASSUME IInv, RunInv, ~At("off"), ~At("off")', sh'.n = sh.n, sh'.opt = sh.opt, RunUnchanged, Course',
         Undisturbed /\ RunKeeps =>
           /\ SameData' /\ FilesAreKept' /\ HardlinksAreFiles'
           /\ \A n : Handles(n) /\ ~Underway(n)' => Settled(script.lines[n])'
           /\ NobodyAsks => \A n : Handles(n) /\ script.lines[n].cmd = "remove_cmd" /\ script.lines[n].dup \notin Paths =>
                                     script.lines[n].dup \notin Paths'
  PROVE  RunInv'
<1>1. UNCHANGED cfg /\ UNCHANGED report /\ UNCHANGED last_original /\ UNCHANGED script /\ UNCHANGED budget
  BY DEF RunUnchanged
<1>2. Budget' /\ (Undisturbed' <=> Undisturbed) /\ Origins'
  BY <1>1, BudgetStays, OriginsStay DEF RunInv
<1>3. ASSUME Undisturbed PROVE RunKeeps'
  <2>1. \A n : Handles(n)' <=> Handles(n)
    BY <1>1 DEF Handles
  <2>2. SameData' /\ FilesAreKept' /\ HardlinksAreFiles'
    BY <1>1, <1>3 DEF RunInv, RunKeeps
  <2>3. LinesAreSettled'
    BY <1>3, <2>1 DEF RunInv, LinesAreSettled
  <2>4. RemovedAreGone'
    <3> SUFFICES ASSUME NobodyAsks, NEW n, Handles(n), script.lines[n].cmd = "remove_cmd", Passed(n)'
                 PROVE  script.lines[n].dup \notin Paths'
      BY <1>1, <2>1 DEF RemovedAreGone, NobodyAsks
    <3>1. Passed(n)
      BY <1>1 DEF Passed
    <3> QED
      BY <1>3, <3>1 DEF RunInv, RunKeeps, RemovedAreGone
  <2> QED
    BY <2>2, <2>3, <2>4 DEF RunKeeps
<1> QED
  BY <1>2, <1>3 DEF RunInv

LEMMA NextLineNoChange ==
  ASSUME IInv, RunInv, ~At("off"), NextLine, RunUnchanged, UNCHANGED fs, sh.pc \notin {"rm", "link"},
         Undisturbed /\ RunKeeps /\ NobodyAsks /\ ~sh.opt.dry /\ Handles(sh.n) /\ L.cmd = "remove_cmd" => L.dup \notin Paths
  PROVE  RunInv'
<1>1. UNCHANGED cfg /\ script'.lines = script.lines /\ Paths' = Paths
  BY DEF RunUnchanged, Paths
<1>2. ASSUME Undisturbed, RunKeeps
      PROVE  /\ SameData' /\ FilesAreKept'
             /\ \A n : Handles(n) => Settled(script.lines[n])'
  <2>1. \A n : Handles(n) => Settled(script.lines[n])
    BY <1>2 DEF RunKeeps, LinesAreSettled, Underway
  <2> QED
    BY <1>1, <1>2, <2>1, FilesStay DEF RunKeeps
<1> QED
  BY <1>1, <1>2, NextLineRun

LEMMA SameLineNoChange ==
  ASSUME IInv, RunInv, ~At("off"), ~At("off")', sh'.n = sh.n, sh'.opt = sh.opt, RunUnchanged, UNCHANGED fs, Course',
         sh.pc \notin {"rm", "link"}, Undisturbed /\ RunKeeps => HardlinksAreFiles'
  PROVE  RunInv'
<1>1. UNCHANGED cfg /\ script'.lines = script.lines /\ Paths' = Paths
  BY DEF RunUnchanged, Paths
<1>2. ASSUME Undisturbed, RunKeeps
      PROVE  /\ SameData' /\ FilesAreKept'
             /\ \A n : Handles(n) => Settled(script.lines[n])'
  <2>1. \A n : Handles(n) => Settled(script.lines[n])
    BY <1>2 DEF RunKeeps, LinesAreSettled, Underway
  <2> QED
    BY <1>1, <1>2, <2>1, FilesStay DEF RunKeeps
<1> QED
  BY <1>1, <1>2, SameLineRun

LEMMA GotoRun ==
  ASSUME IInv, RunInv, sh.pc \in Handling, sh.pc \notin {"rm", "link"}, NEW pc \in Handling, Goto(pc),
         UNCHANGED fs, RunUnchanged,
         pc # "link", pc = "rm" => sh.cmd # "cp_reflink", pc \in {"clean", "rmdir"} => L.dup \notin Paths
  PROVE  RunInv'
<1>1. ~At("off") /\ DOMAIN sh = ShellFields
  BY CurrentLine DEF IInv
<1>2. sh'.pc = pc /\ sh'.n = sh.n /\ sh'.opt = sh.opt /\ sh'.cmd = sh.cmd /\ ~At("off")'
  BY <1>1, GotoIs DEF At, Handling
<1>3. UNCHANGED cfg /\ UNCHANGED script /\ UNCHANGED report /\ L' = L /\ Paths' = Paths
  BY <1>2, SameLine DEF RunUnchanged, Paths
<1>4. Course'
  BY <1>1, <1>2, <1>3 DEF RunInv, Course, At
<1>5. RunKeeps => HardlinksAreFiles'
  BY <1>2, <1>3 DEF RunKeeps, HardlinksAreFiles, File
<1> QED
  BY <1>1, <1>2, <1>4, <1>5, SameLineNoChange

\* The line of the shell, as long as nobody disturbs it.
LEMMA CurrentIsSettled ==
  ASSUME RemovalScriptAssumption, IInv, RunKeeps, sh.pc \in Handling \cup {"line"}, sh.pc \notin {"rm", "link"}, Handles(sh.n)
  PROVE  /\ Dup(L.dup, L.orig) /\ Settled(L) /\ cfg.node[L.dup].kind = cfg.node[L.orig].kind
         /\ cfg.node[L.dup].kind \in {"file", "dir"}
         /\ L.orig \in Paths /\ Is(L.orig, cfg.node[L.orig].kind) /\ Target(L.orig) = L.orig /\ L.dup # L.orig
<1>1. Dup(L.dup, L.orig)
  BY HandledLine DEF IInv, L
<1>2. Settled(L)
  BY DEF RunKeeps, LinesAreSettled, Underway, L
<1>3. PairHolds(cfg, L.dup, L.orig)
  BY <1>1, PairEqual DEF IInv, Nodes
<1>4. L.dup # L.orig
  BY <1>1, Apart, PathsAreNames DEF Dup, IInv, Nodes
<1>5. FilesAreKept
  BY DEF RunKeeps
<1> QED
  BY <1>1, <1>2, <1>3, <1>4, <1>5, PairOriginal DEF IInv, PairHolds

LEMMA StartRun ==
  ASSUME RemovalScriptAssumption, IInv, RunInv, NEW o \in cfg.options, Start(o)
  PROVE  RunInv'
<1>1. /\ UNCHANGED cfg /\ UNCHANGED report /\ UNCHANGED last_original /\ UNCHANGED script /\ UNCHANGED fs
      /\ At("off") /\ report = << >>
      /\ sh'.pc = "line" /\ sh'.n = 1 /\ sh'.opt = o
  BY DEF Start
<1>2. Budget' /\ (Undisturbed' <=> Undisturbed)
  BY <1>1 DEF Start, RunInv, Budget, Undisturbed
<1>3. Origins'
  BY <1>1, OriginsStay DEF RunInv
<1>4. Course'
  BY <1>1 DEF Course, At, Handling
<1>5. ASSUME Undisturbed PROVE RunKeeps'
  <2>1. RunKeeps /\ (\A n : Handles(n)' <=> Handles(n)) /\ Paths' = Paths
    BY <1>1, <1>5, FilesStay DEF RunInv, Paths
  <2>2. \A n : Handles(n) => Settled(script.lines[n])'
    BY <1>1, <2>1, FilesStay DEF RunKeeps, LinesAreSettled, Underway, At
  <2>3. SameData' /\ FilesAreKept' /\ LinesAreSettled'
    BY <1>1, <2>1, <2>2, FilesStay DEF RunKeeps, LinesAreSettled
  <2>4. HardlinksAreFiles'
    BY <1>1 DEF HardlinksAreFiles, Handling
  <2>5. \A n : Handles(n) /\ Passed(n)' => Passed(n)
    BY <1>1, HandledLine DEF IInv, Passed
  <2>6. RemovedAreGone'
    BY <1>1, <2>1, <2>5 DEF RunKeeps, RemovedAreGone, NobodyAsks
  <2> QED
    BY <2>3, <2>4, <2>6 DEF RunKeeps
<1> QED
  BY <1>2, <1>3, <1>4, <1>5 DEF RunInv

LEMMA KeepRun ==
  ASSUME IInv, RunInv, Keep
  PROVE  RunInv'
<1>1. sh.pc = "line" /\ ~At("off") /\ L.cmd \notin Handled /\ NextLine /\ RunUnchanged /\ UNCHANGED fs
  BY DEF Keep, OnLine, At, Handled
<1>2. ~Handles(sh.n)
  BY <1>1 DEF Handles, L
<1> QED
  BY <1>1, <1>2, NextLineNoChange

LEMMA HandleDuplicateRun ==
  ASSUME RemovalScriptAssumption, IInv, RunInv, HandleDuplicate
  PROVE  RunInv'
<1>1. /\ sh.pc = "line" /\ ~At("off") /\ sh.n <= Len(script.lines) /\ L.cmd \in Handled
      /\ RunUnchanged /\ UNCHANGED fs
  BY DEF HandleDuplicate, OnLine, At, Handled
<1>2. DOMAIN sh = ShellFields /\ sh.n \in Nat \ {0}
  BY <1>1 DEF IInv, Shell
<1>3. /\ sh'.pc = "check original" /\ sh'.n = sh.n /\ sh'.opt = sh.opt
      /\ sh'.cmd = IF IsDir(L.dup) /\ L.cmd \in {"cp_hardlink", "cp_reflink"} THEN "cp_symlink" ELSE L.cmd
  BY <1>2 DEF HandleDuplicate, ShellFields
<1>4. UNCHANGED cfg /\ UNCHANGED script /\ UNCHANGED report /\ L' = L
  BY <1>1, <1>3, SameLine DEF RunUnchanged
<1>5. Handles(sh.n)
  BY <1>1, <1>2 DEF Handles, L, IInv, Lines
<1>6. ~At("off")'
  BY <1>3 DEF At
<1>7. Course'
  <2>1. sh'.cmd \in Handled /\ (sh'.cmd = "remove_cmd" <=> L.cmd = "remove_cmd")
    BY <1>1, <1>3 DEF Handled
  <2> QED
    BY <1>1, <1>3, <1>4, <1>6, <2>1 DEF Course, RunInv, At
<1>8. ASSUME RunKeeps PROVE HardlinksAreFiles'
  <2> SUFFICES ASSUME sh'.cmd = "cp_hardlink" PROVE L.cmd = "cp_hardlink" /\ File(cfg, L.dup)
    BY <1>4 DEF HardlinksAreFiles, File
  <2>1. L.cmd = "cp_hardlink" /\ ~IsDir(L.dup)
    BY <1>3
  <2>2. /\ Dup(L.dup, L.orig) /\ Settled(L) /\ cfg.node[L.dup].kind = cfg.node[L.orig].kind
        /\ cfg.node[L.dup].kind \in {"file", "dir"} /\ Is(L.orig, cfg.node[L.orig].kind)
    BY <1>1, <1>5, <1>8, CurrentIsSettled
  <2>3. CASE Whole(L.dup)
    BY <2>1, <2>2, <2>3, PairDuplicate DEF IInv, IsDir, File
  <2>4. CASE Replaced(L)
    BY <2>1, <2>2, <2>4 DEF Replaced, LinkTo, IsDir, Target, Is, File
  <2>5. CASE Gone(L)
    BY <2>1, <2>5 DEF Gone
  <2> QED
    BY <2>1, <2>2, <2>3, <2>4, <2>5 DEF Settled
<1> QED
  BY <1>1, <1>3, <1>6, <1>7, <1>8, SameLineNoChange

LEMMA CurrentHandles ==
  ASSUME IInv, sh.pc \in Handling
  PROVE  Handles(sh.n) /\ ~At("off") /\ DOMAIN sh = ShellFields
<1>1. sh.n <= Len(script.lines) /\ L.cmd \in Handled /\ sh.n \in Nat \ {0} /\ script.lines \in Seq(LineType)
  BY CurrentLine DEF IInv, Shell, Lines
<1> QED
  BY <1>1, CurrentLine DEF Handles, L, IInv

LEMMA CheckOriginalRun ==
  ASSUME RemovalScriptAssumption, IInv, RunInv, CheckOriginal
  PROVE  RunInv'
<1>1. sh.pc = "check original" /\ sh.pc \in Handling /\ RunUnchanged /\ UNCHANGED fs
  BY DEF CheckOriginal, At, Handling
<1>2. CASE Goto("check duplicate")
  BY <1>1, <1>2, GotoRun DEF Handling
<1>3. CASE ~Exists(L.orig) /\ NextLine
  <2>1. ~RunKeeps
    BY <1>1, <1>3, CurrentHandles, CurrentIsSettled DEF Exists
  <2> QED
    BY <1>1, <1>3, <2>1, CurrentHandles, NextLineNoChange
<1> QED
  BY <1>2, <1>3 DEF CheckOriginal, OriginalThere

LEMMA CheckDuplicateRun ==
  ASSUME RemovalScriptAssumption, IInv, RunInv, CheckDuplicate
  PROVE  RunInv'
<1>1. sh.pc = "check duplicate" /\ sh.pc \in Handling /\ RunUnchanged /\ UNCHANGED fs
  BY DEF CheckDuplicate, At, Handling
<1>2. CASE \E pc \in {"compare", "act"} : Goto(pc)
  BY <1>1, <1>2, GotoRun DEF Handling
<1>3. CASE ~(Exists(L.dup) /\ L.dup # L.orig) /\ NextLine
  <2>1. ASSUME RunKeeps, L.cmd = "remove_cmd" PROVE L.dup \notin Paths
    <3>1. Dup(L.dup, L.orig) /\ Settled(L) /\ L.dup # L.orig
      BY <1>1, <2>1, CurrentHandles, CurrentIsSettled
    <3>2. ~Whole(L.dup)
      BY <1>3, <3>1, PairDuplicate DEF Exists, IInv
    <3> QED
      BY <2>1, <3>1, <3>2 DEF Settled, Replaced, Gone
  <2> QED
    BY <1>1, <1>3, <2>1, CurrentHandles, NextLineNoChange
<1> QED
  BY <1>2, <1>3 DEF CheckDuplicate

LEMMA ActRun ==
  ASSUME RemovalScriptAssumption, IInv, RunInv, Act
  PROVE  RunInv'
<1>1. sh.pc = "act" /\ sh.pc \in Handling /\ RunUnchanged /\ UNCHANGED fs
  BY DEF Act, At, Handling
<1>2. CASE Goto(IF sh.cmd = "cp_reflink" THEN "copy" ELSE "rm")
  <2>1. (IF sh.cmd = "cp_reflink" THEN "copy" ELSE "rm") \in Handling \ {"clean", "rmdir", "link"}
    BY DEF Handling
  <2> QED
    BY <1>1, <1>2, <2>1, GotoRun
<1>3. CASE (sh.opt.dry \/ sh.opt.ask) /\ NextLine
  <2>1. sh.opt \in cfg.options
    BY <1>1, CurrentHandles DEF RunInv, Course
  <2>2. ~(NobodyAsks /\ ~sh.opt.dry)
    BY <1>3, <2>1 DEF NobodyAsks
  <2> QED
    BY <1>1, <1>3, <2>2, CurrentHandles, NextLineNoChange
<1> QED
  BY <1>2, <1>3 DEF Act

\* A member that is whole reads as it did, under its own name and under one that leads to it.
LEMMA TreeFiles ==
  ASSUME RemovalScriptAssumption, Nodes, SameData, NEW n \in DOMAIN cfg.report, OfGroup(cfg.report[n]),
         NEW p, p = cfg.report[n].path, Whole(p), Is(p, "dir"), NEW c, c # ""
  PROVE  {q \in Tree(p) : Is(q, "file") /\ Data(q) = c} = FilesWith(cfg, p, c)
<1>1. \A q \in Paths : Is(q, "file") => Data(q) = fs.data[fs.node[q].inode]
  BY DEF Data, Inode, Target, Is
<1>2. ASSUME NEW q \in Tree(p), Is(q, "file"), Data(q) = c PROVE q \in FilesWith(cfg, p, c)
  <2>1. q \in Paths /\ IsPrefix(p, q) /\ q \in DOMAIN cfg.node /\ IsPrefix(q, q) /\ q # p
    BY <1>2, PathsAreNames DEF Tree, Nodes, Is
  <2>2. ASSUME NEW o, Dup(q, o) PROVE FALSE
    <3>1. PICK j \in DOMAIN cfg.report : IsDuplicate(j, q)
      BY <2>2, DupEntries
    <3> QED
      BY <2>1, <3>1, MemberApart DEF IsDuplicate, Nodes
  <2>3. fs.node[q] = cfg.node[q]
    BY <2>1, <2>2 DEF Nodes, Node
  <2>4. File(cfg, q) /\ Data(q) = fs.data[cfg.node[q].inode]
    BY <1>1, <1>2, <2>1, <2>3 DEF File, Is
  <2>5. cfg.node[q].inode \in DOMAIN cfg.data
    BY <2>1, PathsAreNames DEF Nodes, Seen
  <2>6. Content(cfg, q) = c
    BY <1>2, <2>4, <2>5 DEF Content, SameData
  <2> QED
    BY <2>1, <2>4, <2>6 DEF FilesWith
<1>3. ASSUME NEW q \in FilesWith(cfg, p, c) PROVE q \in Tree(p) /\ Is(q, "file") /\ Data(q) = c
  <2>1. q \in DOMAIN cfg.node /\ IsPrefix(p, q) /\ File(cfg, q) /\ Content(cfg, q) = c
    BY DEF FilesWith
  <2>2. q \in Paths /\ fs.node[q] = cfg.node[q]
    BY <2>1 DEF FullFile, Whole, Kept
  <2> QED
    <3>1. q \in Tree(p) /\ Is(q, "file")
      BY <2>1, <2>2 DEF Tree, Is, File
    <3>2. Data(q) = fs.data[cfg.node[q].inode]
      BY <1>1, <2>2, <3>1
    <3>3. cfg.node[q].inode \in DOMAIN cfg.data
      BY <2>1, PathsAreNames DEF Nodes, Seen
    <3> QED
      BY <2>1, <3>1, <3>2, <3>3 DEF Content, SameData
<1> QED
  BY <1>2, <1>3

Counts(p) == [c \in Range(cfg.data) \ {""} |-> Cardinality(FilesWith(cfg, p, c))]

LEMMA HeldIs ==
  ASSUME RemovalScriptAssumption, Nodes, SameData, NEW n \in DOMAIN cfg.report, OfGroup(cfg.report[n]),
         NEW p, Target(p) = cfg.report[n].path, Whole(Target(p)), Is(Target(p), "dir")
  PROVE  Held(p) = Counts(Target(p))
<1>1. \A c \in Range(fs.data) \ {""} :
        {q \in Tree(Target(p)) : Is(q, "file") /\ Data(q) = c} = FilesWith(cfg, Target(p), c)
  BY TreeFiles
<1>2. Range(fs.data) = Range(cfg.data)
  BY DEF Range, SameData, Nodes
<1> QED
  BY <1>1, <1>2 DEF Held, Counts

LEMMA PairReads ==
  ASSUME RemovalScriptAssumption, Nodes, Lines, FilesAreKept, SameData, NEW d, NEW o, Dup(d, o)
  PROVE  /\ Is(o, "dir") => \A p : Target(p) = o => Held(p) = Counts(o)
         /\ Whole(d) /\ Is(d, "dir") => Held(d) = Counts(d)
         /\ Counts(d) = Counts(o)
<1>1. PICK m \in DOMAIN cfg.report, n \in DOMAIN cfg.report : IsOriginal(m, n, o) /\ IsDuplicate(n, d)
  BY DupEntries
<1>2. Whole(o)
  BY PairOriginal
<1>3. Counts(d) = Counts(o)
  BY PairCounts DEF PairIsEqual, Counts, Nodes
<1>4. Is(o, "dir") => \A p : Target(p) = o => Held(p) = Counts(o)
  BY <1>1, <1>2, HeldIs DEF IsOriginal
<1>5. Whole(d) /\ Is(d, "dir") => Held(d) = Counts(d)
  BY <1>1, HeldIs, PairDuplicate DEF IsDuplicate
<1> QED
  BY <1>3, <1>4, <1>5

LEMMA CompareRun ==
  ASSUME RemovalScriptAssumption, IInv, RunInv, Compare
  PROVE  RunInv'
<1>1. sh.pc = "compare" /\ sh.pc \in Handling /\ RunUnchanged /\ UNCHANGED fs
  BY DEF Compare, At, Handling
<1>2. CASE Goto("act")
  BY <1>1, <1>2, GotoRun DEF Handling
<1>3. CASE ~Equal(L.dup, L.orig) /\ NextLine
  <2>1. ASSUME RunKeeps, L.cmd = "remove_cmd" PROVE L.dup \notin Paths
    <3> DEFINE d == L.dup
               o == L.orig
    <3>1. /\ Dup(d, o) /\ Settled(L) /\ cfg.node[d].kind = cfg.node[o].kind /\ cfg.node[d].kind \in {"file", "dir"}
          /\ o \in Paths /\ Is(o, cfg.node[o].kind) /\ Target(o) = o
      BY <1>1, <2>1, CurrentHandles, CurrentIsSettled
    <3>2. ASSUME Whole(d) PROVE Equal(d, o)
      <4>1. d \in Paths /\ Is(d, cfg.node[d].kind) /\ Target(d) = d
        BY <3>1, <3>2, PairDuplicate DEF IInv
      <4>2. Exists(d) /\ Exists(o)
        BY <3>1, <4>1 DEF Exists
      <4>3. CASE cfg.node[d].kind = "dir"
        <5>1. Is(d, "dir") /\ Is(o, "dir")
          BY <3>1, <4>1, <4>3
        <5>2. Held(d) = Held(o)
          BY <2>1, <3>1, <3>2, <5>1, PairReads DEF RunKeeps, IInv
        <5>3. ~IsFile(d) /\ IsDir(o)
          BY <3>1, <4>1, <5>1 DEF IsFile, IsDir, Is
        <5> QED
          BY <4>2, <5>2, <5>3 DEF Equal
      <4>4. CASE cfg.node[d].kind = "file"
        <5>1. fs.node[d] = cfg.node[d] /\ fs.node[o] = cfg.node[o] /\ File(cfg, d) /\ File(cfg, o) /\ SameData
          BY <2>1, <3>1, <3>2, <4>4, PairDuplicate, PairOriginal DEF RunKeeps, IInv, File
        <5>2. Content(cfg, d) = Content(cfg, o)
          BY <3>1, <5>1, PairEqual DEF PairHolds, IInv, Nodes
        <5>3. Data(d) = Data(o) /\ IsFile(d) /\ IsFile(o)
          BY <3>1, <4>1, <4>4, <5>1, <5>2, PathsAreNames DEF Data, Inode, IsFile, Content, SameData, Seen, Dup, IInv, Nodes
        <5> QED
          BY <4>2, <5>3 DEF Equal
      <4> QED
        BY <3>1, <4>3, <4>4
    <3> QED
      BY <1>3, <2>1, <3>1, <3>2 DEF Settled, Replaced, Gone
  <2> QED
    BY <1>1, <1>3, <2>1, CurrentHandles, NextLineNoChange
<1> QED
  BY <1>2, <1>3 DEF Compare

LEMMA CleanRun ==
  ASSUME IInv, RunInv, Clean
  PROVE  RunInv'
<1>1. sh.pc = "clean" /\ sh.pc \in Handling /\ RunUnchanged /\ UNCHANGED fs
  BY DEF Clean, At, Handling
<1>2. L.dup \notin Paths
  BY <1>1 DEF RunInv, Course
<1>3. CASE Goto("rmdir")
  BY <1>1, <1>2, <1>3, GotoRun DEF Handling
<1>4. CASE NextLine
  BY <1>1, <1>2, <1>4, CurrentHandles, NextLineNoChange
<1> QED
  BY <1>3, <1>4 DEF Clean

\* Directories and empty files go without harm.
LEMMA DirIsHarmless ==
  ASSUME RemovalScriptAssumption, Nodes, NEW p, Is(p, "dir")
  PROVE  /\ \A f : FullFile(f) /\ Kept(f) => f # p
         /\ \A l : Replaced(l) => l.dup # p
<1>1. \A d, o : LinkTo(d, o).kind = "link" /\ NameOf(o).kind = "file"
  BY DEF LinkTo, NameOf
<1>2. fs.node[p].kind = "dir"
  BY DEF Is
<1>3. \A f : FullFile(f) /\ Kept(f) => fs.node[f].kind = "file"
  BY DEF FullFile, Kept, File
<1>4. \A l : Replaced(l) => fs.node[l.dup].kind \in {"link", "file"}
  BY <1>1 DEF Replaced
<1> QED
  BY <1>2, <1>3, <1>4

LEMMA RemoveEmptyDirRun ==
  ASSUME RemovalScriptAssumption, IInv, RunInv, RemoveEmptyDir
  PROVE  RunInv'
<1>1. sh.pc = "line" /\ ~At("off") /\ L.cmd \notin Handled /\ NextLine /\ RunUnchanged
  BY DEF RemoveEmptyDir, OnLine, At, Handled
<1>2. ~Handles(sh.n)
  BY <1>1 DEF Handles, L
<1>3. CASE UNCHANGED fs
  BY <1>1, <1>2, <1>3, NextLineNoChange
<1>4. CASE Is(L.dup, "dir") /\ fs' = Without(L.dup)
  <2>1. UNCHANGED cfg /\ script'.lines = script.lines
    BY <1>1 DEF RunUnchanged
  <2>2. /\ \A f : FullFile(f) /\ Kept(f) => f # L.dup
        /\ \A n : Handles(n) /\ Replaced(script.lines[n]) => script.lines[n].dup # L.dup
    BY <1>4, DirIsHarmless DEF IInv
  <2>3. /\ (SameData => SameData') /\ Paths' \subseteq Paths
        /\ FilesAreKept => FilesAreKept'
        /\ \A n : Handles(n) /\ Settled(script.lines[n]) => Settled(script.lines[n])'
    BY <1>4, <2>1, <2>2, HarmlessWithout DEF IInv
  <2>4. RunKeeps => \A n : Handles(n) => Settled(script.lines[n])
    BY <1>1 DEF RunKeeps, LinesAreSettled, Underway
  <2> QED
    BY <1>1, <1>2, <2>3, <2>4, NextLineRun DEF RunKeeps
<1> QED
  BY <1>3, <1>4 DEF RemoveEmptyDir, Becomes

LEMMA CleanDirRun ==
  ASSUME RemovalScriptAssumption, IInv, RunInv, CleanDir
  PROVE  RunInv'
<1>1. sh.pc = "rmdir" /\ sh.pc \in Handling /\ RunUnchanged
  BY DEF CleanDir, At, Handling
<1>2. ~At("off") /\ DOMAIN sh = ShellFields /\ L.dup \notin Paths
  BY <1>1, CurrentHandles DEF RunInv, Course
<1>3. sh'.pc = "clean" /\ sh'.n = sh.n /\ sh'.opt = sh.opt /\ sh'.cmd = sh.cmd /\ ~At("off")'
  BY <1>2 DEF CleanDir, ShellFields, At
<1>4. UNCHANGED cfg /\ UNCHANGED script /\ UNCHANGED report /\ L' = L
  BY <1>1, <1>3, SameLine DEF RunUnchanged
<1>5. /\ (SameData => SameData') /\ Paths' \subseteq Paths
      /\ FilesAreKept => FilesAreKept'
      /\ \A n : Handles(n) /\ Settled(script.lines[n]) => Settled(script.lines[n])'
  <2>1. CASE UNCHANGED fs
    BY <1>4, <2>1, FilesStay DEF Paths
  <2>2. CASE Is(sh.dir, "dir") /\ fs' = Without(sh.dir)
    <3>1. /\ \A f : FullFile(f) /\ Kept(f) => f # sh.dir
          /\ \A n : Handles(n) /\ Replaced(script.lines[n]) => script.lines[n].dup # sh.dir
      BY <2>2, DirIsHarmless DEF IInv
    <3> QED
      BY <1>4, <2>2, <3>1, HarmlessWithout DEF IInv
  <2> QED
    BY <2>1, <2>2 DEF CleanDir, Becomes
<1>6. Course'
  BY <1>1, <1>2, <1>3, <1>4, <1>5 DEF RunInv, Course, At
<1>7. RunKeeps => \A n : Handles(n) => Settled(script.lines[n])
  BY <1>1 DEF RunKeeps, LinesAreSettled, Underway
<1>8. RunKeeps => HardlinksAreFiles'
  BY <1>1, <1>3, <1>4 DEF RunKeeps, HardlinksAreFiles, File
<1> QED
  BY <1>1, <1>2, <1>3, <1>5, <1>6, <1>7, <1>8, SameLineRun DEF RunKeeps

LEMMA RemoveLintRun ==
  ASSUME RemovalScriptAssumption, IInv, RunInv, RemoveLint
  PROVE  RunInv'
<1>1. /\ sh.pc = "line" /\ ~At("off") /\ sh.n <= Len(script.lines)
      /\ L.cmd \in {"handle_emptyfile", "handle_bad_symlink"} /\ NextLine /\ RunUnchanged
  BY DEF RemoveLint, OnLine, At
<1>2. ~Handles(sh.n)
  BY <1>1 DEF Handles, L, Handled
<1>3. CASE UNCHANGED fs
  BY <1>1, <1>2, <1>3, NextLineNoChange
<1>4. CASE L.dup \in Paths /\ fs' = Without(L.dup)
  <2> DEFINE z == L.dup
  <2>1. LineIsRight(L)
    <3>1. sh.n \in Nat \ {0} /\ script.lines \in Seq(LineType)
      BY <1>1 DEF IInv, Shell, Lines
    <3>2. sh.n \in DOMAIN script.lines
      BY <1>1, <3>1
    <3> QED
      BY <3>2 DEF IInv, Lines, L
  <2>2. PICK n \in DOMAIN cfg.report : cfg.report[n].path = z /\ cfg.report[n].type \in {"emptyfile", "badlink"}
    BY <1>1, <2>1 DEF LineIsRight
  <2>3. LintIsSo(cfg, cfg.report[n])
    BY <1>4, <2>2, LintIsPlain DEF IInv
  <2>4. ~(File(cfg, z) /\ Content(cfg, z) # "") /\ (cfg.node[z].kind # "file" => cfg.node[z].kind = "link")
    BY <2>2, <2>3 DEF LintIsSo, File
  <2>5. \A f : FullFile(f) /\ Kept(f) => f # z
    BY <2>4 DEF FullFile
  <2>6. ASSUME NEW m, Handles(m), Replaced(script.lines[m]) PROVE script.lines[m].dup # z
    <3>1. PairHolds(cfg, script.lines[m].dup, script.lines[m].orig)
      BY <2>6, HandledLine, PairEqual DEF IInv, Nodes
    <3> QED
      BY <2>4, <3>1 DEF PairHolds, File
  <2>7. UNCHANGED cfg /\ script'.lines = script.lines
    BY <1>1 DEF RunUnchanged
  <2>8. /\ (SameData => SameData') /\ Paths' \subseteq Paths
        /\ FilesAreKept => FilesAreKept'
        /\ \A m : Handles(m) /\ Settled(script.lines[m]) => Settled(script.lines[m])'
    BY <1>4, <2>5, <2>6, <2>7, HarmlessWithout DEF IInv
  <2>9. RunKeeps => \A m : Handles(m) => Settled(script.lines[m])
    BY <1>1 DEF RunKeeps, LinesAreSettled, Underway
  <2> QED
    BY <1>1, <1>2, <2>8, <2>9, NextLineRun DEF RunKeeps
<1> QED
  BY <1>3, <1>4 DEF RemoveLint, Becomes

\* Two duplicates are apart, and have one line each.
LEMMA OneLine ==
  ASSUME RemovalScriptAssumption, IInv, RunInv, NEW m, NEW n, Handles(m), Handles(n), NEW p \in DOMAIN cfg.node,
         IsPrefix(script.lines[m].dup, p), IsPrefix(script.lines[n].dup, p)
  PROVE  m = n
<1>1. Dup(script.lines[m].dup, script.lines[m].orig) /\ Dup(script.lines[n].dup, script.lines[n].orig)
  BY HandledLine DEF IInv
<1>2. script.lines[m].dup = script.lines[n].dup
  BY <1>1, Apart DEF IInv, Nodes
<1> QED
  BY <1>2 DEF RunInv, Origins

LEMMA RemoveTreeRun ==
  ASSUME RemovalScriptAssumption, IInv, RunInv, RemoveTree
  PROVE  RunInv'
<1>1. sh.pc = "rm" /\ sh.pc \in Handling /\ RunUnchanged
  BY DEF RemoveTree, At, Handling
<1>2. Handles(sh.n) /\ ~At("off") /\ DOMAIN sh = ShellFields
  BY <1>1, CurrentHandles
<1>3. UNCHANGED cfg /\ UNCHANGED script /\ UNCHANGED report
  BY <1>1 DEF RunUnchanged
<1>4. RunKeeps => \A n : Handles(n) /\ n # sh.n => Settled(script.lines[n])
  BY DEF RunKeeps, LinesAreSettled, Underway
<1>5. \A n : Handles(n)' <=> Handles(n)
  BY <1>3 DEF Handles
<1>6. CASE L.dup \in Paths
  <2> DEFINE d == L.dup
  <2>1. PICK p \in Tree(d) : fs' = Without(p) /\ UNCHANGED sh
    BY <1>6 DEF RemoveTree, Becomes
  <2>2. p \in Paths /\ p \in DOMAIN cfg.node /\ IsPrefix(d, p) /\ IsPrefix(p, p)
    BY PathsAreNames DEF Tree, IInv, Nodes
  <2>3. Paths' = Paths \ {p} /\ fs'.data = fs.data /\ \A q \in Paths' : fs'.node[q] = fs.node[q]
    BY <2>1, AfterWithout DEF IInv
  <2>4. ASSUME NEW n, Handles(n), n # sh.n PROVE ~IsPrefix(script.lines[n].dup, p)
    BY <1>2, <2>2, <2>4, OneLine DEF L
  <2>5. \A f : FullFile(f)' <=> FullFile(f)
    BY <1>3 DEF FullFile, File, Content
  <2>6. \A f : Kept(f) /\ f # p => Kept(f)'
    BY <1>3, <2>3 DEF Kept
  <2>7. FilesAreKept => FilesAreKept'
    BY <1>2, <1>3, <1>5, <2>2, <2>5, <2>6 DEF FilesAreKept, L
  <2>8. ASSUME NEW n, Handles(n), n # sh.n, Settled(script.lines[n]) PROVE Settled(script.lines[n])'
    <3>1. Whole(script.lines[n].dup) => Whole(script.lines[n].dup)'
      BY <1>3, <2>4, <2>5, <2>6, <2>8 DEF Whole
    <3>2. Gone(script.lines[n]) => Gone(script.lines[n])'
      BY <1>3, <2>3 DEF Gone
    <3>3. Replaced(script.lines[n]) => Replaced(script.lines[n])'
      <4>1. script.lines[n].dup # p
        BY <2>2, <2>4, <2>8
      <4> QED
        BY <1>3, <2>3, <4>1 DEF Replaced, LinkTo, NameOf, Seen, File
    <3> QED
      BY <2>8, <3>1, <3>2, <3>3 DEF Settled
  <2>9. sh' = sh /\ L' = L /\ ~At("off")' /\ \A n : Underway(n)' <=> n = sh.n
    BY <1>1, <1>2, <1>3, <2>1 DEF L, At, Underway
  <2>10. Course'
    BY <1>1, <1>3, <2>9 DEF RunInv, Course, At
  <2>11. RunKeeps => HardlinksAreFiles' /\ SameData'
    BY <1>3, <2>3, <2>9 DEF RunKeeps, HardlinksAreFiles, File, SameData
  <2> QED
    BY <1>1, <1>2, <1>4, <2>3, <2>7, <2>8, <2>9, <2>10, <2>11, SameLineRun DEF RunKeeps
<1>7. CASE L.dup \notin Paths
  <2>1. UNCHANGED fs /\ sh' = [sh EXCEPT !.pc = IF sh.cmd = "remove_cmd" THEN "clean" ELSE "link", !.dir = Front(L.dup)]
    BY <1>7 DEF RemoveTree
  <2>2. /\ sh'.pc = IF sh.cmd = "remove_cmd" THEN "clean" ELSE "link"
        /\ sh'.n = sh.n /\ sh'.opt = sh.opt /\ sh'.cmd = sh.cmd /\ ~At("off")'
    BY <1>2, <2>1 DEF ShellFields, At
  <2>3. L' = L /\ Paths' = Paths
    BY <1>3, <2>1, <2>2, SameLine DEF Paths
  <2>4. Course'
    BY <1>1, <1>2, <1>3, <1>7, <2>2, <2>3 DEF RunInv, Course, At, Handling
  <2>5. RunKeeps => HardlinksAreFiles'
    BY <1>1, <1>3, <2>2, <2>3 DEF RunKeeps, HardlinksAreFiles, File
  <2>6. ASSUME RunKeeps, NEW n, Handles(n), ~Underway(n)' PROVE Settled(script.lines[n])
    <3>1. CASE n # sh.n
      BY <1>4, <2>6, <3>1
    <3>2. CASE n = sh.n
      <4>1. L.cmd = "remove_cmd"
        BY <1>1, <2>2, <2>6, <3>2 DEF Underway, RunInv, Course
      <4> QED
        BY <1>7, <3>2, <4>1 DEF Settled, Gone, L
    <3> QED
      BY <3>1, <3>2
  <2>7. RunKeeps => SameData' /\ FilesAreKept' /\ \A n : Handles(n) /\ ~Underway(n)' => Settled(script.lines[n])'
    BY <1>3, <2>1, <2>6, FilesStay DEF RunKeeps
  <2> QED
    BY <1>1, <1>2, <2>2, <2>3, <2>4, <2>5, <2>7, SameLineRun
<1> QED
  BY <1>6, <1>7

LEMMA LinkRun ==
  ASSUME RemovalScriptAssumption, IInv, RunInv, Link
  PROVE  RunInv'
<1>1. sh.pc = "link" /\ sh.pc \in Handling /\ NextLine /\ RunUnchanged
  BY DEF Link, At, Handling
<1>2. Handles(sh.n) /\ ~At("off")
  BY <1>1, CurrentHandles
<1>3. UNCHANGED cfg /\ UNCHANGED script
  BY <1>1 DEF RunUnchanged
<1>4. L.cmd # "remove_cmd" /\ sh.cmd \in {"cp_symlink", "cp_hardlink"}
  BY <1>1 DEF RunInv, Course, At, Handled
<1> DEFINE d == L.dup
           o == L.orig
<1>5. /\ Dup(d, o) /\ LineIsRight(L) /\ d \in DOMAIN cfg.node /\ o \in DOMAIN cfg.node /\ IsPrefix(d, d)
      /\ d \notin Paths
  BY <1>1, CurrentLine, PathsAreNames DEF IInv, Nodes, Shell, At, Dup
<1>6. ASSUME NEW n, Handles(n), n # sh.n PROVE script.lines[n].dup # d
  BY <1>2, <1>5, <1>6, OneLine DEF L
<1>7. ASSUME RunKeeps
      PROVE  \E v : fs' = WithNode(d, v) /\ (v = LinkTo(d, o) \/ (v = NameOf(o) /\ File(cfg, o)))
  <2>1. CASE sh.cmd = "cp_symlink"
    BY <2>1 DEF Link, LinkTo, Becomes
  <2>2. CASE sh.cmd = "cp_hardlink"
    <3>1. L.cmd = "cp_hardlink" /\ File(cfg, d)
      BY <1>1, <1>7, <2>2 DEF RunKeeps, HardlinksAreFiles
    <3>2. File(cfg, o) /\ cfg.node[o].kind = "file"
      BY <1>5, <3>1, PairEqual DEF PairHolds, File, IInv, Nodes
    <3>3. Is(o, "file") /\ Target(o) = o /\ fs.node[o] = cfg.node[o]
      BY <1>5, <1>7, <3>2, PairOriginal DEF RunKeeps, IInv
    <3>4. Inode(o) = Seen(o) /\ cfg.dev[Inode(o)] = cfg.dev[Seen(d)]
      BY <1>5, <3>1, <3>3 DEF Inode, Seen, LineIsRight, SameDevice
    <3>5. fs' = WithNode(d, NameOf(o))
      BY <2>2, <3>3, <3>4 DEF Link, Becomes, NameOf
    <3> QED
      BY <3>2, <3>5
  <2> QED
    BY <1>4, <2>1, <2>2
<1>8. ASSUME RunKeeps
      PROVE  /\ SameData' /\ FilesAreKept'
             /\ \A n : Handles(n) => Settled(script.lines[n])'
             /\ \A n : Handles(n) /\ script.lines[n].cmd = "remove_cmd" /\ script.lines[n].dup \notin Paths =>
                         script.lines[n].dup \notin Paths'
  <2>1. PICK v : fs' = WithNode(d, v) /\ (v = LinkTo(d, o) \/ (v = NameOf(o) /\ File(cfg, o)))
    BY <1>7, <1>8
  <2>2. /\ fs'.data = fs.data /\ Paths' = Paths \cup {d} /\ fs'.node[d] = v
        /\ \A q \in Paths : fs'.node[q] = fs.node[q]
    BY <1>5, <2>1, AfterWithNode DEF IInv
  <2>3. \A f : FullFile(f)' <=> FullFile(f)
    BY <1>3 DEF FullFile, File, Content
  <2>4. \A f : Kept(f) => Kept(f)'
    BY <1>3, <2>2 DEF Kept
  <2>5. FilesAreKept'
    BY <1>3, <1>8, <2>3, <2>4 DEF RunKeeps, FilesAreKept, Handles
  <2>6. ASSUME NEW n, Handles(n), n # sh.n PROVE Settled(script.lines[n])'
    <3>1. Settled(script.lines[n])
      BY <1>8, <2>6 DEF RunKeeps, LinesAreSettled, Underway
    <3>2. Whole(script.lines[n].dup) => Whole(script.lines[n].dup)'
      BY <1>3, <2>3, <2>4 DEF Whole
    <3>3. Gone(script.lines[n]) => Gone(script.lines[n])'
      BY <1>3, <1>6, <2>2, <2>6 DEF Gone
    <3>4. Replaced(script.lines[n]) => Replaced(script.lines[n])'
      BY <1>3, <2>2 DEF Replaced, LinkTo, NameOf, Seen, File
    <3> QED
      BY <3>1, <3>2, <3>3, <3>4 DEF Settled
  <2>7. ASSUME NEW n, n = sh.n PROVE Settled(script.lines[n])'
    <3>1. script.lines[n] = L
      BY <2>7 DEF L
    <3>2. Replaced(script.lines[n])'
      BY <1>3, <1>4, <2>1, <2>2, <3>1 DEF Replaced, LinkTo, NameOf, Seen, File
    <3> QED
      BY <3>2 DEF Settled
  <2>8. \A n : Handles(n) => Settled(script.lines[n])'
    BY <2>6, <2>7
  <2>9. \A n : Handles(n) /\ script.lines[n].cmd = "remove_cmd" => script.lines[n].dup # d
    BY <1>4, <1>6 DEF L
  <2> QED
    BY <1>3, <1>8, <2>2, <2>5, <2>8, <2>9 DEF RunKeeps, SameData
<1> QED
  BY <1>1, <1>2, <1>4, <1>8, NextLineRun

LEMMA CopyRun ==
  ASSUME RemovalScriptAssumption, IInv, RunInv, Copy
  PROVE  RunInv'
<1>1. sh.pc = "copy" /\ sh.pc \in Handling /\ NextLine /\ RunUnchanged
  BY DEF Copy, At, Handling
<1>2. Handles(sh.n) /\ ~At("off") /\ L.cmd = "cp_reflink"
  BY <1>1, CurrentHandles DEF IInv, Shell, At
<1>3. UNCHANGED cfg /\ UNCHANGED script
  BY <1>1 DEF RunUnchanged
<1>4. CASE UNCHANGED fs
  BY <1>1, <1>2, <1>4, NextLineNoChange
<1> DEFINE d == L.dup
           o == L.orig
           v == IF cfg.dev[Inode(d)] = cfg.dev[Inode(o)] /\ cfg.dev[Inode(d)] \in cfg.reflinkfs THEN Data(o) ELSE ""
<1>5. CASE IsFile(o) /\ IsFile(d) /\ Inode(d) # Inode(o) /\ Becomes(WithData(Inode(d), v))
  <2>1. Dup(d, o) /\ CanReflink(d, o) /\ File(cfg, d)
    BY <1>1, <1>2, CurrentLine DEF IInv, LineIsRight
  <2>2. Overwrites(d, o)
    BY <1>5, <2>1, CopyOverwrites DEF IInv
  <2>3. WithData(Inode(d), v) = WithData(Seen(d), fs.data[Seen(o)])
    BY <2>1, <2>2 DEF Overwrites, CanReflink, SameDevice, Data
  <2>4. fs' = WithData(Seen(d), fs.data[Seen(o)])
    BY <1>5, <2>3 DEF Becomes
  <2>5. Seen(d) \in DOMAIN fs.data /\ Seen(o) \in DOMAIN cfg.data
    BY <2>1, PathsAreNames DEF IInv, Nodes, Dup
  <2>6. /\ fs'.node = fs.node /\ Paths' = Paths /\ fs'.data[Seen(d)] = fs.data[Seen(o)]
        /\ \A j \in DOMAIN fs.data \ {Seen(d)} : fs'.data[j] = fs.data[j]
    BY <2>4, <2>5, AfterWithData DEF IInv
  <2>7. cfg.data[Seen(d)] = cfg.data[Seen(o)]
    <3>1. PairHolds(cfg, d, o)
      BY <2>1, PairEqual DEF IInv, Nodes
    <3> QED
      BY <2>1, <3>1 DEF PairHolds, Content, Seen
  <2>8. SameData => SameData'
    BY <1>3, <2>5, <2>6, <2>7 DEF SameData, IInv, Nodes
  <2>9. \A f : (FullFile(f)' <=> FullFile(f)) /\ (Kept(f)' <=> Kept(f))
    BY <1>3, <2>6 DEF FullFile, Kept, File, Content
  <2>10. FilesAreKept => FilesAreKept'
    BY <1>3, <2>9 DEF FilesAreKept, Handles
  <2>11. ASSUME RunKeeps, NEW n, Handles(n) PROVE Settled(script.lines[n])'
    <3>1. Settled(script.lines[n])
      BY <1>1, <2>11 DEF RunKeeps, LinesAreSettled, Underway
    <3>2. Whole(script.lines[n].dup) => Whole(script.lines[n].dup)'
      BY <1>3, <2>9 DEF Whole
    <3>3. Gone(script.lines[n]) => Gone(script.lines[n])'
      BY <1>3, <2>6 DEF Gone
    <3>4. Replaced(script.lines[n]) => Replaced(script.lines[n])'
      BY <1>3, <2>6 DEF Replaced, LinkTo, NameOf, Seen, File
    <3> QED
      BY <3>1, <3>2, <3>3, <3>4 DEF Settled
  <2> QED
    BY <1>1, <1>2, <2>6, <2>8, <2>10, <2>11, NextLineRun DEF RunKeeps
<1> QED
  BY <1>4, <1>5 DEF Copy

LEMMA FootRun ==
  ASSUME IInv, RunInv, Foot
  PROVE  RunInv'
<1>1. /\ sh.pc = "line" /\ ~At("off") /\ sh.n > Len(script.lines) /\ sh' = Off
      /\ UNCHANGED cfg /\ UNCHANGED fs /\ UNCHANGED report /\ UNCHANGED last_original /\ UNCHANGED budget
  BY DEF Foot, At
<1>2. report = << >> /\ sh.n \in Nat /\ DOMAIN script = {"lines", "there", "ran"} /\ Len(script.lines) \in Nat
  <2>1. report = << >> /\ sh.n \in Nat
    BY <1>1 DEF IInv, Shell
  <2>2. DOMAIN script = {"lines", "there", "ran"} /\ script.lines \in Seq(LineType)
    BY DEF IInv, Lines
  <2> QED
    BY <2>1, <2>2
<1>3. script'.lines = script.lines /\ script'.ran = ~sh.opt.dry /\ sh'.pc = "off" /\ At("off")'
  BY <1>1, <1>2 DEF Foot, Off, At
<1>4. Budget' /\ (Undisturbed' <=> Undisturbed) /\ Origins'
  BY <1>1, <1>3, BudgetStays, OriginsStay DEF RunInv
<1>5. Course'
  BY <1>1, <1>2, <1>3 DEF Course, Handling, At
<1>6. ASSUME Undisturbed PROVE RunKeeps'
  <2>1. RunKeeps /\ Paths' = Paths
    BY <1>1, <1>6 DEF RunInv, Paths
  <2>2. \A n : Handles(n) => Settled(script.lines[n])
    BY <1>1, <2>1 DEF RunKeeps, LinesAreSettled, Underway
  <2>3. /\ SameData' /\ FilesAreKept' /\ \A n : Handles(n)' <=> Handles(n)
        /\ \A n : Handles(n) => Settled(script.lines[n])'
    BY <1>1, <1>3, <2>1, <2>2, FilesStay DEF RunKeeps
  <2>4. LinesAreSettled' /\ HardlinksAreFiles'
    BY <1>3, <2>3 DEF LinesAreSettled, HardlinksAreFiles, Handling
  <2>5. \A n : Handles(n) /\ Passed(n)' => Passed(n)
    <3>1. \A n : Handles(n) => n \in Nat /\ n < sh.n
      BY <1>1, <1>2, HandledLine DEF IInv
    <3> QED
      BY <1>1, <1>3, <3>1 DEF Passed
  <2>6. RemovedAreGone'
    BY <1>1, <1>3, <2>1, <2>3, <2>5 DEF RunKeeps, RemovedAreGone, NobodyAsks
  <2> QED
    BY <2>3, <2>4, <2>6 DEF RunKeeps
<1> QED
  BY <1>4, <1>5, <1>6 DEF RunInv

\* An interruption, and what users do, disturb the run.
LEMMA InterruptRun ==
  ASSUME RemovalScriptAssumption, IInv, RunInv, Interrupt
  PROVE  RunInv'
<1>1. /\ UNCHANGED cfg /\ UNCHANGED report /\ UNCHANGED last_original /\ UNCHANGED script
      /\ sh' = Off /\ ~At("off")
  BY DEF Interrupt
<1>2. sh'.pc = "off" /\ At("off")' /\ report = << >>
  BY <1>1 DEF Off, At, IInv, Shell
<1>3. Budget' /\ ~Undisturbed'
  <2>1. cfg.edits \in Nat /\ cfg.kills \in Nat
    BY ConfigIsRight DEF ScriptRecord, IInv, Nodes
  <2> QED
    BY <1>1, <2>1 DEF Interrupt, RunInv, Budget, Undisturbed
<1>4. Origins'
  BY <1>1, OriginsStay DEF RunInv
<1>5. Course'
  BY <1>1, <1>2 DEF Course, Handling, At
<1> QED
  BY <1>3, <1>4, <1>5 DEF RunInv

LEMMA UserRun ==
  ASSUME RemovalScriptAssumption, IInv, RunInv, NEW p \in Paths, Rewrite(p) \/ Unlink(p)
  PROVE  RunInv'
<1>1. PICK paths : Disturb(paths)
  BY DEF Rewrite, Unlink
<1>2. UNCHANGED cfg /\ UNCHANGED report /\ UNCHANGED last_original /\ UNCHANGED script
  BY <1>1 DEF Disturb
<1>3. Paths' \subseteq Paths
  <2>1. CASE fs' = Without(p)
    BY <2>1, AfterWithout DEF IInv
  <2>2. CASE fs' = WithData(Inode(p), "new")
    BY <2>2 DEF IInv, Nodes, WithData, Paths
  <2> QED
    BY <2>1, <2>2 DEF Rewrite, Unlink
<1>4. Budget' /\ ~Undisturbed'
  <2>1. cfg.edits \in Nat /\ cfg.kills \in Nat
    BY ConfigIsRight DEF ScriptRecord, IInv, Nodes
  <2> QED
    BY <1>1, <1>2, <2>1 DEF Disturb, RunInv, Budget, Undisturbed
<1>5. Origins'
  BY <1>2, OriginsStay DEF RunInv
<1>6. sh'.pc = sh.pc /\ (sh' = sh \/ (~At("off") /\ sh'.n = sh.n /\ sh'.opt = sh.opt /\ sh'.cmd = sh.cmd))
  <2>1. ~At("off") => DOMAIN sh = ShellFields
    BY DEF IInv, Shell
  <2> QED
    BY <1>1, <2>1 DEF Disturb, ShellFields
<1>7. Course'
  <2>1. At("off")' <=> At("off")
    BY <1>6 DEF At
  <2>2. CASE At("off")
    BY <1>2, <1>6, <2>1, <2>2 DEF Course, RunInv, At, Handling
  <2>3. CASE ~At("off")
    <3>1. L' = L /\ sh'.opt = sh.opt /\ sh'.cmd = sh.cmd
      BY <1>2, <1>6, SameLine
    <3> QED
      BY <1>2, <1>3, <1>6, <2>1, <2>3, <3>1 DEF Course, RunInv, At
  <2> QED
    BY <2>2, <2>3
<1> QED
  BY <1>4, <1>5, <1>7 DEF RunInv

LEMMA SettledStays ==
  ASSUME UNCHANGED cfg, UNCHANGED fs, NEW l, Settled(l)
  PROVE  Settled(l)'
<1>1. Whole(l.dup) => Whole(l.dup)'
  BY DEF Whole, FullFile, Kept, File, Content, Paths
<1>2. Replaced(l) => Replaced(l)'
  BY DEF Replaced, LinkTo, NameOf, Seen, File, Paths
<1>3. Gone(l) => Gone(l)'
  BY DEF Gone, Paths
<1> QED
  BY <1>1, <1>2, <1>3 DEF Settled

\* The line that is written for a duplicate is the only one near it.
LEMMA WriteElemRun ==
  ASSUME RemovalScriptAssumption, IInv, RunInv, WriteElem
  PROVE  RunInv'
<1>1. /\ UNCHANGED cfg /\ UNCHANGED fs /\ UNCHANGED sh /\ UNCHANGED budget /\ report # << >>
      /\ At("off") /\ sh.pc = "off" /\ At("off")'
  BY DEF WriteElem, IInv, Shell, At
<1>2. PICK k \in Int : Written(k) /\ \A n : Handles(n) => \E j \in 1..k : j \in DOMAIN cfg.report /\ IsDuplicate(j, script.lines[n].dup)
  BY DEF RunInv, Origins
<1>3. Written(k + 1)' /\ k + 1 \in DOMAIN cfg.report
  BY <1>2, WriteElemAppends DEF IInv
<1>4. PICK new : /\ script' = [script EXCEPT !.lines = @ \o new]
                 /\ \/ new = << >>
                    \/ \E l \in LineType : /\ new = <<l>> /\ LineIsRight(l)
                                           /\ l.cmd \in Handled => IsDuplicate(k + 1, l.dup)
  BY <1>2, WriteElemAppends, Zenon DEF IInv
<1>5. /\ script'.lines = script.lines \o new /\ script'.ran = script.ran
      /\ script.lines \in Seq(LineType) /\ new \in Seq(LineType)
  <2>1. DOMAIN script = {"lines", "there", "ran"} /\ script.lines \in Seq(LineType)
    BY DEF IInv, Lines
  <2>2. script' = [script EXCEPT !.lines = @ \o new]
    BY <1>4
  <2>3. script'.lines = script.lines \o new /\ script'.ran = script.ran
    BY <2>1, <2>2
  <2>4. ASSUME NEW l \in LineType, new = <<l>> PROVE new \in Seq(LineType)
    BY <2>4
  <2>5. << >> \in Seq(LineType)
    OBVIOUS
  <2>6. new \in Seq(LineType)
    BY <1>4, <2>4, <2>5, Zenon
  <2> QED
    BY <2>1, <2>3, <2>6
<1>6. ASSUME NEW n, Handles(n) PROVE Handles(n)' /\ script'.lines[n] = script.lines[n]
  <2>1. n \in 1..Len(script.lines)
    BY <1>5, <1>6 DEF Handles
  <2>2. n \in DOMAIN script'.lines /\ script'.lines[n] = script.lines[n]
    BY <1>5, <2>1
  <2> QED
    BY <1>6, <2>2 DEF Handles
<1>7. ASSUME NEW n, Handles(n)', ~Handles(n)
      PROVE  n = Len(script.lines) + 1 /\ IsDuplicate(k + 1, script'.lines[n].dup)
  <2>1. n \in DOMAIN script'.lines /\ script'.lines[n].cmd \in Handled
    BY <1>7 DEF Handles
  <2>2. CASE new = << >>
    BY <1>5, <1>7, <2>1, <2>2, ConcatEmptySeq DEF Handles
  <2>3. ASSUME NEW l \in LineType, new = <<l>>, l.cmd \in Handled => IsDuplicate(k + 1, l.dup)
        PROVE  n = Len(script.lines) + 1 /\ IsDuplicate(k + 1, script'.lines[n].dup)
    <3>1. n \in 1..Len(script.lines) + 1
      BY <1>5, <2>1, <2>3
    <3>2. n # Len(script.lines) + 1 => n \in DOMAIN script.lines /\ script'.lines[n] = script.lines[n]
      BY <1>5, <2>3, <3>1
    <3>3. n = Len(script.lines) + 1
      BY <1>7, <2>1, <3>2 DEF Handles
    <3>4. script'.lines[n] = l
      BY <1>5, <2>3, <3>3
    <3> QED
      BY <2>1, <2>3, <3>3, <3>4
  <2> QED
    BY <1>4, <2>2, <2>3
<1>8. ASSUME NEW n, Handles(n), NEW f \in DOMAIN cfg.node, NEW d, IsDuplicate(k + 1, d), IsPrefix(d, f)
      PROVE  ~IsPrefix(script.lines[n].dup, f)
  <2>1. PICK j \in 1..k : j \in DOMAIN cfg.report /\ IsDuplicate(j, script.lines[n].dup)
    BY <1>2, <1>8
  <2>2. j # k + 1
    BY <1>2
  <2> QED
    BY <1>3, <1>8, <2>1, <2>2, MemberApart DEF IsDuplicate, IInv, Nodes
<1>9. Origins'
  <2>1. ASSUME NEW n, Handles(n)' PROVE \E j \in 1..k + 1 : j \in DOMAIN cfg.report /\ IsDuplicate(j, script'.lines[n].dup)
    <3>1. k \in Nat
      BY <1>2 DEF Written
    <3>2. CASE Handles(n)
      BY <1>2, <1>6, <3>1, <3>2
    <3>3. CASE ~Handles(n)
      <4>1. k + 1 \in 1..k + 1
        BY <3>1
      <4> QED
        BY <1>3, <1>7, <2>1, <3>3, <4>1
    <3> QED
      BY <3>2, <3>3
  <2>2. ASSUME NEW m, NEW n, Handles(m), Handles(n)', ~Handles(n), script'.lines[m].dup = script'.lines[n].dup
        PROVE  FALSE
    <3>1. script'.lines[m] = script.lines[m] /\ Dup(script.lines[m].dup, script.lines[m].orig)
      BY <1>6, <2>2, HandledLine DEF IInv
    <3>2. script.lines[m].dup \in DOMAIN cfg.node /\ IsPrefix(script.lines[m].dup, script.lines[m].dup)
      BY <3>1, PathsAreNames DEF Dup, IInv, Nodes
    <3> QED
      BY <1>7, <1>8, <2>2, <3>1, <3>2
  <2>3. \A m, n : Handles(m)' /\ Handles(n)' /\ script'.lines[m].dup = script'.lines[n].dup => m = n
    <3> SUFFICES ASSUME NEW m, NEW n, Handles(m)', Handles(n)', script'.lines[m].dup = script'.lines[n].dup
                 PROVE  m = n
      OBVIOUS
    <3>1. CASE Handles(m) /\ Handles(n)
      BY <1>6, <3>1 DEF RunInv, Origins
    <3>2. CASE ~Handles(m) /\ ~Handles(n)
      BY <1>7, <3>2
    <3> QED
      BY <2>2, <3>1, <3>2
  <2>4. \A j, d : IsDuplicate(j, d)' <=> IsDuplicate(j, d)
    BY <1>1 DEF IsDuplicate
  <2> QED
    BY <1>1, <1>2, <1>3, <2>1, <2>3, <2>4 DEF Origins
<1>10. ~script.ran /\ ~script'.ran
  BY <1>1, <1>5 DEF RunInv, Course
<1>11. Course'
  BY <1>1, <1>10 DEF Course, At, Handling
<1>12. Budget' /\ (Undisturbed' <=> Undisturbed)
  BY <1>1, BudgetStays DEF RunInv
<1>13. ASSUME RunKeeps PROVE RunKeeps'
  <2>1. SameData'
    BY <1>1, <1>13 DEF RunKeeps, SameData
  <2>2. \A f : (FullFile(f)' <=> FullFile(f)) /\ (Kept(f)' <=> Kept(f))
    BY <1>1 DEF FullFile, Kept, File, Content, Paths
  <2>3. FilesAreKept'
    <3> SUFFICES ASSUME NEW f, FullFile(f), \A n : Handles(n)' => ~IsPrefix(script'.lines[n].dup, f)
                 PROVE  Kept(f)
      BY <2>2 DEF FilesAreKept
    <3>1. \A n : Handles(n) => ~IsPrefix(script.lines[n].dup, f)
      BY <1>6
    <3> QED
      BY <1>13, <3>1 DEF RunKeeps, FilesAreKept
  <2>4. LinesAreSettled'
    <3> SUFFICES ASSUME NEW n, Handles(n)', NEW l, l = script'.lines[n] PROVE Settled(l)'
      BY DEF LinesAreSettled
    <3>1. CASE Handles(n)
      <4>1. Settled(l)
        BY <1>1, <1>6, <1>13, <3>1 DEF RunKeeps, LinesAreSettled, Underway
      <4> QED
        BY <1>1, <4>1, SettledStays
    <3>2. CASE ~Handles(n)
      <4>1. IsDuplicate(k + 1, l.dup)
        BY <1>7, <3>2
      <4>2. ASSUME NEW f, FullFile(f), IsPrefix(l.dup, f) PROVE Kept(f)
        <5>1. \A m : Handles(m) => ~IsPrefix(script.lines[m].dup, f)
          BY <1>8, <4>1, <4>2 DEF FullFile
        <5> QED
          BY <1>13, <4>2, <5>1 DEF RunKeeps, FilesAreKept
      <4>3. Settled(l)
        BY <4>2 DEF Settled, Whole
      <4> QED
        BY <1>1, <4>3, SettledStays
    <3> QED
      BY <3>1, <3>2
  <2>5. HardlinksAreFiles'
    BY <1>1 DEF HardlinksAreFiles, Handling
  <2>6. RemovedAreGone'
    BY <1>1, <1>10 DEF RemovedAreGone, Passed
  <2> QED
    BY <2>1, <2>3, <2>4, <2>5, <2>6 DEF RunKeeps
<1> QED
  BY <1>9, <1>11, <1>12, <1>13 DEF RunInv

LEMMA StutterRun ==
  ASSUME IInv, RunInv, UNCHANGED vars
  PROVE  RunInv'
<1>1. /\ UNCHANGED cfg /\ UNCHANGED fs /\ UNCHANGED report /\ UNCHANGED last_original /\ UNCHANGED script
      /\ UNCHANGED sh /\ UNCHANGED budget
  BY DEF vars
<1>2. L' = L /\ Paths' = Paths /\ (\A pc : At(pc)' <=> At(pc))
  BY <1>1, SameLine DEF Paths, At
<1>3. Budget' /\ (Undisturbed' <=> Undisturbed) /\ Origins'
  BY <1>1, BudgetStays, OriginsStay DEF RunInv
<1>4. Course'
  BY <1>1, <1>2 DEF RunInv, Course
<1>5. ASSUME RunKeeps PROVE RunKeeps'
  <2>1. /\ \A n : Handles(n)' <=> Handles(n)
        /\ SameData' /\ FilesAreKept'
        /\ \A n : Settled(script.lines[n]) => Settled(script.lines[n])'
    BY <1>1, <1>5, FilesStay DEF RunKeeps
  <2>2. LinesAreSettled'
    BY <1>1, <1>5, <2>1 DEF RunKeeps, LinesAreSettled, Underway
  <2>3. HardlinksAreFiles'
    BY <1>1, <1>2, <1>5 DEF RunKeeps, HardlinksAreFiles, File
  <2>4. RemovedAreGone'
    BY <1>1, <1>2, <1>5, <2>1 DEF RunKeeps, RemovedAreGone, NobodyAsks, Passed
  <2> QED
    BY <2>1, <2>2, <2>3, <2>4 DEF RunKeeps
<1> QED
  BY <1>3, <1>4, <1>5 DEF RunInv

LEMMA RunInitially == RemovalScriptAssumption /\ Init => RunInv
<1> SUFFICES ASSUME RemovalScriptAssumption, Init PROVE RunInv
  OBVIOUS
<1>1. /\ IInv /\ cfg \in Scripts /\ fs = [node |-> cfg.node, data |-> cfg.data] /\ Paths = DOMAIN cfg.node
      /\ script.lines = << >> /\ script.ran = FALSE /\ sh.pc = "off" /\ At("off")
  BY Initially DEF Init, Paths, Off, At
<1>2. \A n : ~Handles(n)
  <2>1. \A n : n \notin DOMAIN << >>
    OBVIOUS
  <2> QED
    BY <1>1, <2>1 DEF Handles
<1>3. Budget
  <2>1. cfg.edits \in Nat /\ cfg.kills \in Nat
    BY <1>1, ConfigIsRight DEF ScriptRecord
  <2> QED
    BY <2>1 DEF Init, Budget
<1>4. Origins
  BY <1>1, <1>2 DEF Origins, IInv, Lines
<1>5. Course
  BY <1>1 DEF Course, Handling, At
<1>6. RunKeeps
  BY <1>1, <1>2 DEF RunKeeps, SameData, FilesAreKept, Kept, FullFile, LinesAreSettled, HardlinksAreFiles, Handling, RemovedAreGone
<1> QED
  BY <1>3, <1>4, <1>5, <1>6 DEF RunInv

LEMMA RunInductive == RemovalScriptAssumption /\ IInv /\ RunInv /\ [Next]_vars => RunInv'
<1> SUFFICES ASSUME RemovalScriptAssumption, IInv, RunInv, [Next]_vars PROVE RunInv'
  OBVIOUS
<1>1. CASE WriteElem
  BY <1>1, WriteElemRun
<1>2. CASE \E o \in cfg.options : Start(o)
  BY <1>2, StartRun
<1>3. CASE Keep \/ RemoveLint \/ RemoveEmptyDir \/ HandleDuplicate
  BY <1>3, KeepRun, RemoveLintRun, RemoveEmptyDirRun, HandleDuplicateRun
<1>4. CASE CheckOriginal \/ CheckDuplicate \/ Compare \/ Act
  BY <1>4, CheckOriginalRun, CheckDuplicateRun, CompareRun, ActRun
<1>5. CASE RemoveTree \/ Link \/ Copy
  BY <1>5, RemoveTreeRun, LinkRun, CopyRun
<1>6. CASE Clean \/ CleanDir \/ Foot \/ Interrupt
  BY <1>6, CleanRun, CleanDirRun, FootRun, InterruptRun
<1>7. CASE \E p \in Paths : Rewrite(p) \/ Unlink(p)
  BY <1>7, UserRun
<1>8. CASE UNCHANGED vars
  BY <1>8, StutterRun
<1> QED
  BY <1>1, <1>2, <1>3, <1>4, <1>5, <1>6, <1>7, <1>8 DEF Next, Done

-----------------------------------------------------------------------------
(* What the invariant says of a script that has run. *)

\* What a path is to hold, in the words of the invariant.
LEMMA BeforeIs ==
  ASSUME Nodes, SameData, NEW p
  PROVE  Before(p) = IF cfg.node[p].kind = "dir" THEN Counts(p) ELSE [c \in {Content(cfg, p)} |-> 1]
<1>1. Range(fs.data) = Range(cfg.data)
  BY DEF Range, SameData, Nodes
<1> QED
  BY <1>1 DEF Before, Counts, Content

LEMMA KeptReads ==
  ASSUME RemovalScriptAssumption, Nodes, SameData, NEW p, FullFile(p), Kept(p)
  PROVE  Exists(p) /\ Reads(p) = Before(p)
<1>1. p \in Paths /\ fs.node[p] = cfg.node[p] /\ cfg.node[p].kind = "file" /\ p \in DOMAIN cfg.node
  BY DEF FullFile, Kept, File
<1>2. Target(p) = p /\ ~IsDir(p) /\ Exists(p)
  BY <1>1 DEF Target, IsDir, Exists, Is
<1>3. Data(p) = Content(cfg, p)
  BY <1>1, <1>2, PathsAreNames DEF Data, Inode, Content, Seen, SameData, Nodes
<1> QED
  BY <1>1, <1>2, <1>3, BeforeIs DEF Reads

LEMMA MemberReads ==
  ASSUME RemovalScriptAssumption, Nodes, SameData, NEW n \in DOMAIN cfg.report, OfGroup(cfg.report[n]),
         NEW p, p = cfg.report[n].path, Whole(p)
  PROVE  Exists(p) /\ Reads(p) = Before(p)
<1>1. /\ p \in Paths /\ Is(p, cfg.node[p].kind) /\ Target(p) = p
      /\ File(cfg, p) => fs.node[p] = cfg.node[p]
  BY MemberStays
<1>2. p \in DOMAIN cfg.node /\ cfg.node[p].kind \in {"file", "dir"}
  BY MemberFull, ReportPath DEF Nodes
<1>3. CASE cfg.node[p].kind = "dir"
  <2>1. Held(p) = Counts(p)
    BY <1>1, <1>3, HeldIs
  <2> QED
    BY <1>1, <1>3, <2>1, BeforeIs DEF Reads, IsDir, Exists
<1>4. CASE cfg.node[p].kind = "file"
  <2>1. Data(p) = Content(cfg, p) /\ ~IsDir(p)
    BY <1>1, <1>2, <1>4, PathsAreNames DEF Data, Inode, Content, Seen, SameData, IsDir, Is, File, Nodes
  <2> QED
    BY <1>1, <1>4, <2>1, BeforeIs DEF Reads, Exists
<1> QED
  BY <1>2, <1>3, <1>4

LEMMA ReplacedReads ==
  ASSUME RemovalScriptAssumption, Nodes, Lines, FilesAreKept, SameData, NEW l, Dup(l.dup, l.orig), Replaced(l)
  PROVE  Exists(l.dup) /\ Reads(l.dup) = Before(l.dup)
<1> DEFINE d == l.dup
           o == l.orig
<1>1. /\ o \in Paths /\ Is(o, cfg.node[o].kind) /\ Target(o) = o
      /\ File(cfg, o) => fs.node[o] = cfg.node[o]
  BY PairOriginal
<1>2. /\ cfg.node[d].kind = cfg.node[o].kind /\ cfg.node[d].kind \in {"file", "dir"}
      /\ File(cfg, d) => Content(cfg, d) = Content(cfg, o)
      /\ d \in DOMAIN cfg.node /\ o \in DOMAIN cfg.node
  <2>1. PairHolds(cfg, d, o)
    BY PairEqual DEF Nodes
  <2> QED
    BY <2>1 DEF PairHolds, Dup
<1>3. d \in Paths /\ (fs.node[d] = LinkTo(d, o) \/ (fs.node[d] = NameOf(o) /\ File(cfg, o)))
  BY DEF Replaced
<1>4. fs.data[Seen(o)] = Content(cfg, o)
  BY <1>2, PathsAreNames DEF SameData, Content, Seen, Nodes
<1>5. CASE fs.node[d] = LinkTo(d, o)
  <2>1. Target(d) = o /\ Exists(d)
    BY <1>1, <1>3, <1>5 DEF LinkTo, Target, Is, Exists
  <2>2. CASE cfg.node[d].kind = "dir"
    <3>1. Held(d) = Counts(d) /\ IsDir(d)
      BY <1>1, <1>2, <2>1, <2>2, PairReads DEF IsDir
    <3> QED
      BY <2>1, <2>2, <3>1, BeforeIs DEF Reads
  <2>3. CASE cfg.node[d].kind = "file"
    <3>1. Data(d) = Content(cfg, d) /\ ~IsDir(d)
      BY <1>1, <1>2, <1>4, <2>1, <2>3 DEF Data, Inode, Seen, IsDir, Is, File
    <3> QED
      BY <2>1, <2>3, <3>1, BeforeIs DEF Reads
  <2> QED
    BY <1>2, <2>2, <2>3
<1>6. CASE fs.node[d] = NameOf(o) /\ File(cfg, o)
  <2>1. Target(d) = d /\ Exists(d) /\ ~IsDir(d) /\ Inode(d) = Seen(o)
    BY <1>3, <1>6 DEF NameOf, Target, Is, Exists, IsDir, Inode
  <2>2. Data(d) = Content(cfg, d) /\ cfg.node[d].kind = "file"
    BY <1>2, <1>4, <1>6, <2>1 DEF Data, File
  <2> QED
    BY <2>1, <2>2, BeforeIs DEF Reads
<1> QED
  BY <1>3, <1>5, <1>6

LEMMA RanAsItSays ==
  ASSUME RemovalScriptAssumption, IInv, RunInv
  PROVE  RunDoesWhatItSays
<1> SUFFICES ASSUME Calm
             PROVE  /\ \A p \in Linked \cup Others : Exists(p) /\ Reads(p) = Before(p)
                    /\ \A p \in Removed : p \notin Paths \/ \E o \in cfg.options : o.ask
  BY DEF RunDoesWhatItSays
<1>1. script.ran /\ RunKeeps /\ sh.pc = "off"
  BY DEF Calm, At, RunInv, Undisturbed
<1>2. Nodes /\ Lines /\ SameData /\ FilesAreKept
  BY <1>1 DEF IInv, RunKeeps
<1>3. \A n : Handles(n) => Settled(script.lines[n])
  BY <1>1 DEF RunKeeps, LinesAreSettled, Underway
<1>4. ASSUME NEW p \in Linked PROVE Exists(p) /\ Reads(p) = Before(p)
  <2>1. PICK n \in DOMAIN script.lines : /\ p = script.lines[n].dup
                                         /\ script.lines[n].cmd \in {"cp_symlink", "cp_hardlink", "cp_reflink", "original_cmd"}
    BY DEF Linked, Acted
  <2> DEFINE l == script.lines[n]
  <2>2. CASE l.cmd = "original_cmd"
    <3>1. PICK m \in DOMAIN cfg.report : OfGroup(cfg.report[m]) /\ cfg.report[m].original /\ p = cfg.report[m].path
      BY <1>2, <2>1, <2>2 DEF Lines, LineIsRight
    <3>2. Whole(p)
      BY <1>2, <3>1, OriginalWhole
    <3> QED
      BY <1>2, <3>1, <3>2, MemberReads
  <2>3. CASE l.cmd # "original_cmd"
    <3>1. Handles(n) /\ l.cmd # "remove_cmd"
      BY <2>1, <2>3 DEF Handles, Handled
    <3>2. Dup(p, l.orig) /\ Settled(l)
      BY <1>2, <1>3, <2>1, <3>1, HandledLine
    <3>3. CASE Whole(p)
      <4>1. PICK m \in DOMAIN cfg.report : IsDuplicate(m, p)
        BY <3>2, DupEntries
      <4> QED
        BY <1>2, <3>3, <4>1, MemberReads DEF IsDuplicate
    <3>4. CASE Replaced(l)
      BY <1>2, <2>1, <3>2, <3>4, ReplacedReads
    <3> QED
      BY <2>1, <3>1, <3>2, <3>3, <3>4 DEF Settled, Gone
  <2> QED
    BY <2>2, <2>3
<1>5. ASSUME NEW p \in Others PROVE Exists(p) /\ Reads(p) = Before(p)
  <2>1. /\ p \in DOMAIN cfg.node /\ FullFile(p) /\ p \notin Removed
        /\ Above(p) \cap (Linked \cup Removed) = {}
    BY DEF Others, FullFile, File, Content, Seen
  <2>2. CASE p \in Linked
    BY <1>4, <2>2
  <2>3. CASE p \notin Linked
    <3>1. ASSUME NEW n, Handles(n) PROVE ~IsPrefix(script.lines[n].dup, p)
      <4> DEFINE d == script.lines[n].dup
      <4>1. d \in Linked \cup Removed
        BY <3>1 DEF Handles, Handled, Linked, Removed, Acted
      <4>2. d \in DOMAIN cfg.node
        BY <1>2, <3>1, HandledLine DEF Dup
      <4>3. d \in Seq(STRING) /\ p \in Seq(STRING) /\ Len(d) > 0
        BY <1>2, <2>1, <4>2, PathsAreNames DEF Nodes
      <4>4. d # p /\ d \notin Above(p)
        BY <2>1, <2>3, <4>1
      <4> QED
        BY <4>3, <4>4, PrefixOrder DEF IsStrictPrefix
    <3>2. Kept(p)
      BY <1>2, <2>1, <3>1 DEF FilesAreKept
    <3> QED
      BY <1>2, <2>1, <3>2, KeptReads
  <2> QED
    BY <2>2, <2>3
<1>6. ASSUME NEW p \in Removed PROVE p \notin Paths \/ \E o \in cfg.options : o.ask
  <2>1. PICK n \in DOMAIN script.lines : p = script.lines[n].dup /\ script.lines[n].cmd = "remove_cmd"
    BY DEF Removed, Acted
  <2>2. Handles(n) /\ Passed(n)
    BY <1>1, <2>1 DEF Handles, Handled, Passed
  <2> QED
    BY <1>1, <2>1, <2>2 DEF RunKeeps, RemovedAreGone, NobodyAsks
<1> QED
  BY <1>4, <1>5, <1>6

\* A run that nobody disturbs has done what its lines say and nothing else: what was linked reads as
\* before, what was to be removed is gone, and every other file holds what it held (sh.sh).
THEOREM ScriptDoesWhatItSays ==
  ASSUME RemovalScriptAssumption
  PROVE  Spec => []RunDoesWhatItSays
<1>1. Init => IInv /\ RunInv
  BY Initially, RunInitially, RemovalScriptAssumption
<1>2. IInv /\ RunInv /\ [Next]_vars => (IInv /\ RunInv)'
  BY Inductive, RunInductive, RemovalScriptAssumption
<1>3. IInv /\ RunInv => RunDoesWhatItSays
  BY RanAsItSays, RemovalScriptAssumption
<1> QED
  BY <1>1, <1>2, <1>3, PTL DEF Spec
=============================================================================
