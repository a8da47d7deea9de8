-------------------------- MODULE MCParanoidDigest --------------------------
(* The files that MCStages gives to ParanoidDigest. *)
EXTENDS Integers, Sequences

DigestFiles == {"f1", "f2", "f3", "f4"}

\* Two files alike, one that differs at the end, one at the start.
DigestContent == [f \in DigestFiles |-> CASE f \in {"f1", "f2"} -> <<"a", "b", "c">>
                                  [] f = "f3" -> <<"a", "b", "d">>
                                  [] f = "f4" -> <<"e", "b", "c">>]
\* The shadow hashes of files that differ at the end collide.
DigestShadow == [f \in DigestFiles |-> IF f = "f4" THEN 1 ELSE 0]
=============================================================================
