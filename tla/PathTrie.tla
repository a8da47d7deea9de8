------------------------------ MODULE PathTrie ------------------------------
(***************************************************************************)
(* lib/pathtricia.c, the trie in which rmlint keeps the paths of files and *)
(* directories.  Each operation holds the lock of the trie, so that a trie *)
(* is the function from the paths that were inserted to their last value;  *)
(* the nodes of the trie are the prefixes of those paths.                  *)
(***************************************************************************)
EXTENDS Sequences, SequencesExt

\* rm_trie_init.
EmptyTrie == << >>

\* rm_trie_insert: inner nodes are made on the way, an older value is replaced.
Insert(trie, path, value) ==
  [p \in DOMAIN trie \cup {path} |-> IF p = path THEN value ELSE trie[p]]

\* rm_trie_search_node: there may be a node where there is no value.
HasNode(trie, path) == path = <<>> \/ \E p \in DOMAIN trie : IsPrefix(path, p)

\* rm_trie_search; a node that was only passed holds NULL.
Search(trie, path, null) == IF path \in DOMAIN trie THEN trie[path] ELSE null

\* rm_trie_iter over the nodes with a value, from what rm_trie_search_node found:
\* from the root of the whole trie if it found nothing.
VisitedFrom(trie, path) ==
  IF HasNode(trie, path) THEN {p \in DOMAIN trie : IsPrefix(path, p)} ELSE DOMAIN trie
=============================================================================
