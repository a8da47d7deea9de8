---------------------------- MODULE MCPreprocess ----------------------------
(* The files and options that MCStages gives to Preprocess. *)
EXTENDS Integers, Sequences, TLC

\* Two names for one directory, another one, and two that cannot be read.
ParentA == <<2, 10>>
ParentB == <<2, 11>>
ParentC == <<2, 12>>
ParentD == <<2, 13>>
ParentE == <<2, 14>>
ParentInodes == (ParentA :> 1) @@ (ParentB :> 1) @@ (ParentC :> 2) @@ (ParentD :> 0) @@ (ParentE :> 0)
                @@ (ParentA \o <<2, 20>> :> 3)

NameX == [stem |-> <<20>>, ext |-> << <<30>> >>]
NameY == [stem |-> <<20>>, ext |-> << <<31>> >>]
NameZ == [stem |-> <<21, 22>>, ext |-> << <<30>> >>]
NameD == [stem |-> <<20>>, ext |-> << >>]

PreFile(inode, parent, name, mtime) ==
  [size |-> 1, symlink |-> FALSE, inode |-> inode, parent |-> parent, name |-> name,
   prefd |-> FALSE, lint |-> "dupe", regex |-> FALSE,
   order |-> [mtime |-> mtime, depth |-> 1, links |-> 1, outer |-> 0, path |-> 0]]

PreBase == [basename |-> FALSE, withExtension |-> FALSE, withoutExtension |-> FALSE, window |-> -1,
            minMtime |-> 0, keepTagged |-> FALSE, keepUntagged |-> FALSE, equalMode |-> FALSE,
            hardlinked |-> TRUE, criteria |-> << >>]

By(key, sign) == [key |-> key, sign |-> sign]

\* One inode has three names, two of which are one path, and one has another.
Links == <<PreFile(1, ParentA, NameX, 1), PreFile(1, ParentB, NameX, 1),
           PreFile(1, ParentC, NameX, 1), PreFile(2, ParentA, NameY, 1)>>
\* Two directories cannot be read; a symbolic link is as large as a file.
Unread == <<PreFile(1, ParentD, NameX, 1), PreFile(1, ParentE, NameX, 1),
            PreFile(1, ParentA, NameX, 1), [PreFile(2, ParentC, NameX, 1) EXCEPT !.symlink = TRUE]>>
\* A chain of mtimes, one size apart.
Times == <<PreFile(1, ParentA, NameX, 1), PreFile(2, ParentC, NameX, 2),
           PreFile(3, ParentC, NameY, 3), [PreFile(4, ParentC, NameZ, 5) EXCEPT !.size = 2]>>
\* Empty directories within each other and other lint among the candidates.
PreLint == <<[PreFile(1, ParentA, NameD, 1) EXCEPT !.lint = "emptydir"],
          [PreFile(2, ParentA \o <<2, 20>>, NameD, 2) EXCEPT !.lint = "emptydir", !.prefd = TRUE],
          [PreFile(3, ParentA, NameX, 2) EXCEPT !.lint = "badugid"],
          PreFile(4, ParentC, NameX, 2)>>

PreTag(files, tagged) == [f \in DOMAIN files |-> [files[f] EXCEPT !.prefd = f \in tagged]]
PreMatch(files, matching) == [f \in DOMAIN files |-> [files[f] EXCEPT !.regex = f \in matching]]

PreOptions ==
  {[PreBase EXCEPT !.hardlinked = h, !.equalMode = e] : h \in BOOLEAN, e \in BOOLEAN}
  \cup {[PreBase EXCEPT !.window = 1], [PreBase EXCEPT !.window = 1, !.basename = TRUE],
        [PreBase EXCEPT !.basename = TRUE], [PreBase EXCEPT !.withExtension = TRUE],
        [PreBase EXCEPT !.withoutExtension = TRUE],
        [PreBase EXCEPT !.minMtime = 2], [PreBase EXCEPT !.keepTagged = TRUE],
        [PreBase EXCEPT !.keepUntagged = TRUE],
        [PreBase EXCEPT !.criteria = <<By("regex", 1), By("mtime", -1), By("text", 1)>>],
        [PreBase EXCEPT !.criteria = <<By("length", 1), By("depth", 1), By("path", -1)>>]}

\* rm_file_cmp_without_extension is no order among names some of which have no
\* extension, so that the result of the sort is then up to the library.
PreScenarios ==
  {[files |-> files, parentInode |-> ParentInodes, option |-> o] :
     files \in {Links, Unread, Times, PreMatch(PreTag(Links, {3}), {2, 4}), PreTag(Times, {2}),
                PreTag(Unread, {2})}, o \in PreOptions}
  \cup {[files |-> PreLint, parentInode |-> ParentInodes, option |-> o] :
          o \in {p \in PreOptions : ~p.withoutExtension}}
=============================================================================
