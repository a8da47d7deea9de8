----------------------------- MODULE MCTraverse -----------------------------
(* The file systems that MCStages gives to Traverse. *)
EXTENDS Integers, Sequences, TLC

SiteNode(kind) == [kind |-> kind, target |-> << >>, dev |-> 1, quality |-> "plain"]
SiteFile(quality) == [SiteNode("file") EXCEPT !.quality = quality]
SiteLink(target) == [SiteNode("link") EXCEPT !.target = target]

SiteRoot == << >> :> SiteNode("dir")

\* a holds empty directories and files, b hidden ones, c what is out of bounds.
Plain ==
  SiteRoot @@ <<"a">> :> SiteNode("dir") @@ <<"a", "d">> :> SiteNode("dir")
  @@ <<"a", "d", "e">> :> SiteNode("dir") @@ <<"a", "d", "e", "c">> :> SiteFile("plain")
  @@ <<"a", "e">> :> SiteNode("dir") @@ <<"a", "e", "d">> :> SiteNode("dir")
  @@ <<"b">> :> SiteNode("dir") @@ <<"b", ".h">> :> SiteFile("plain")
  @@ <<"b", "d">> :> SiteNode("dir") @@ <<"b", ".i">> :> SiteNode("dir")
  @@ <<"b", ".i", "f">> :> SiteFile("plain")

Odd ==
  SiteRoot @@ <<"c">> :> SiteNode("dir") @@ <<"c", "d">> :> [SiteNode("dir") EXCEPT !.dev = 2]
  @@ <<"c", "d", "f">> :> SiteFile("plain") @@ <<"c", "e">> :> SiteNode("unreadable")
  @@ <<"c", "f">> :> SiteNode("fifo") @@ <<"c", "a">> :> SiteNode("dir")
  @@ <<"c", "a", "b">> :> SiteNode("gone") @@ <<"b">> :> SiteNode("dir") @@ <<"b", "a">> :> SiteFile("empty")
  @@ <<"b", "b">> :> SiteFile("denied") @@ <<"b", "c">> :> SiteFile("badid")
  @@ <<"b", "d">> :> SiteFile("nonstripped") @@ <<"b", "e">> :> SiteFile("outsize")
  @@ <<"b", "f">> :> SiteFile("evil")

\* A link to a file.
Linked ==
  SiteRoot @@ <<"a">> :> SiteNode("dir") @@ <<"a", "a">> :> SiteLink(<<"b", "c">>)
  @@ <<"a", "c">> :> SiteFile("plain") @@ <<"b">> :> SiteNode("dir") @@ <<"b", "c">> :> SiteFile("plain")
  @@ <<"b", "d">> :> SiteNode("dir")

\* Links to a directory, and to one that the walk is in.
LinkedDirs ==
  Linked @@ <<"a", "b">> :> SiteLink(<<"b">>) @@ <<"b", "d", "a">> :> SiteLink(<<"b">>)

SiteNames == <<".h", ".i", "a", "b", "c", "d", "e", "f">>
Forwards  == [n \in {SiteNames[k] : k \in 1..8} |-> CHOOSE k \in 1..8 : SiteNames[k] = n]
Backwards == [n \in DOMAIN Forwards |-> 9 - Forwards[n]]

WalkPlain == [findEmptydirs |-> TRUE, findEmptyfiles |-> TRUE, findBadids |-> TRUE,
              findNonstripped |-> TRUE, findBadlinks |-> TRUE, permissions |-> FALSE, limits |-> FALSE,
              ignoreHidden |-> FALSE, partialHidden |-> TRUE, followSymlinks |-> FALSE,
              seeSymlinks |-> TRUE, crossdev |-> TRUE, depth |-> 0, mayAbort |-> FALSE]
WalkOptions == {WalkPlain, [WalkPlain EXCEPT !.ignoreHidden = TRUE, !.partialHidden = FALSE],
                [WalkPlain EXCEPT !.crossdev = FALSE, !.permissions = TRUE, !.limits = TRUE],
                [WalkPlain EXCEPT !.depth = 1, !.seeSymlinks = FALSE], [WalkPlain EXCEPT !.depth = 2, !.mayAbort = TRUE]}

Site(nodes, paths, order, threads, options) ==
  [nodes |-> nodes, given |-> paths, readdir |-> order, threads |-> threads, dotted |-> {".h", ".i"},
   options |-> options]

WalkSites ==
  {Site(Plain, paths, order, threads, WalkOptions) : order \in {Forwards, Backwards}, threads \in {1, 2},
     paths \in {<< <<"a">>, <<"b">> >>, << <<"b">>, <<"a">>, <<"a", "d">> >>}}
  \cup {Site(Odd, paths, order, 2, WalkOptions) : order \in {Forwards, Backwards},
     paths \in {<< <<"c">> >>, << <<"b", "d">>, <<"b">> >>, << <<"c">>, <<"b">> >>, << <<>> >>}}
  \cup {Site(Linked @@ <<"b", "d", "e">> :> SiteLink(<<"x">>), << <<"a">>, <<"b", "d", "e">>, <<"b">> >>, order, 2,
             WalkOptions) : order \in {Forwards, Backwards}}
  \cup {Site(Linked, << <<"a">>, <<"b">> >>, order, 2, {[WalkPlain EXCEPT !.followSymlinks = TRUE]}) :
          order \in {Forwards, Backwards}}

\* A link to a directory is followed.
LinkSites == {Site(LinkedDirs, << <<"a">> >>, Forwards, 1, {[WalkPlain EXCEPT !.followSymlinks = TRUE]})}
=============================================================================
