----------------------------- MODULE MCShredder -----------------------------
(***************************************************************************)
(* Instances of Shredder for TLC: four clusters on one or two      *)
(* disks, with contents that match to different depths.                    *)
(***************************************************************************)
EXTENDS Shredder, TLC

Meta0 == [files |-> 1, pref |-> 0, npref |-> 1, new |-> 0, inodes |-> 1,
          ext |-> FALSE, names |-> {"n"}]
Linked == [Meta0 EXCEPT !.files = 2]
Tagged == [Meta0 EXCEPT !.pref = 1, !.npref = 0]

Plain == [needsPref |-> FALSE, needsNPref |-> FALSE, needsNew |-> FALSE,
          unmatchedBasenames |-> FALSE, mergeDirectories |-> FALSE]

MCBlocks == {"x", "y"}

\* Two twins and one that leaves them at the third increment (deep enough for a
\* group to be orphaned while its own children are still being filled), one of them
\* tagged; a pair of hardlinks that is hashed all by itself, because directories
\* are merged.  A tagged file must be among the matches.  (Clusters of checksum twins,
\* which need no hashing, are left to the proofs.)
MCFiles == {"a", "b", "c", "h"}
MCContent == "a" :> <<"x", "x", "x">> @@ "b" :> <<"x", "x", "x">> @@
             "c" :> <<"x", "x", "y">> @@ "h" :> <<"x">>
MCMeta == "a" :> Tagged @@ "b" :> Tagged @@ "c" :> Meta0 @@
          "h" :> [Linked EXCEPT !.pref = 1]
Options == [Plain EXCEPT !.needsPref = TRUE, !.mergeDirectories = TRUE]
MCDevices == {"hdd", "ssd"}
MCDisk == [f \in MCFiles |-> IF f \in {"a", "c"} THEN "hdd" ELSE "ssd"]

=============================================================================
