------------------------------- MODULE MCDedupe -------------------------------
(* The files and searches that MCStages gives to Dedupe. *)
EXTENDS Integers, Sequences

CacheSearch == [read |-> TRUE, write |-> TRUE, clear |-> FALSE, writeUnfinished |-> FALSE, clamp |-> FALSE,
                algorithm |-> "blake2b"]
CacheWrite == [CacheSearch EXCEPT !.read = FALSE]
CacheSearches == {CacheSearch, CacheWrite, [CacheSearch EXCEPT !.write = FALSE],
                  [CacheSearch EXCEPT !.clear = TRUE, !.writeUnfinished = TRUE],
                  [CacheSearch EXCEPT !.clamp = TRUE], [CacheSearch EXCEPT !.algorithm = "sha1"]}

CacheBase == [data |-> <<"a", "b">>, source |-> <<"a", "b">>, tick |-> 2, algorithms |-> {"blake2b"},
          searches |-> {CacheSearch, CacheWrite}, edits |-> 2, runs |-> 2, dedupes |-> 0, checkXattr |-> TRUE,
          readonly |-> FALSE]

DedupeCaches ==
  {[CacheBase EXCEPT !.algorithms = {"blake2b", "sha1"}, !.searches = CacheSearches],
   [CacheBase EXCEPT !.tick = 1, !.runs = 3, !.data = <<"a">>, !.source = << >>],
   [CacheBase EXCEPT !.dedupes = 2, !.searches = {CacheWrite}],
   [CacheBase EXCEPT !.dedupes = 1, !.runs = 0, !.readonly = TRUE],
   [CacheBase EXCEPT !.dedupes = 2, !.runs = 0, !.checkXattr = FALSE, !.data = <<"a", "b", "a">>, !.source = <<"a", "b", "b">>],
   [CacheBase EXCEPT !.dedupes = 1, !.runs = 0, !.data = <<"a">>],
   [CacheBase EXCEPT !.dedupes = 1, !.runs = 0, !.source = <<"a">>]}
===============================================================================
