------------------------------- MODULE Sieve -------------------------------
(***************************************************************************)
(* What the duplicate finder of rmlint promises, seen from outside: every  *)
(* file that enters it is given exactly one verdict.                       *)
(*                                                                         *)
(*   ignored  it could not be read, or the run was aborted before it was;  *)
(*   dup      it is reported together with a set of twins;                 *)
(*   unique   it is dropped because its set of twins does not qualify.     *)
(*                                                                         *)
(* A set of files is published as a whole, holds files of equal content    *)
(* only when it is a set of duplicates, and leaves no candidate twin       *)
(* behind: whoever has the same content is in the set or was ignored.      *)
(* Shredder implements this specification.                                 *)
(***************************************************************************)
CONSTANTS
  Files,            \* files handed to the duplicate finder
  Same(_, _),       \* two files have the same size and the same bytes
  Qualifies(_)      \* a set of files may be reported as duplicates

VARIABLE verdict    \* verdict[f]: the kind of verdict, and the published set

Undecided == [kind |-> "none", twins |-> {}]
Ignored   == [kind |-> "ignored", twins |-> {}]

TypeOK ==
  verdict \in [Files -> [kind : {"none", "ignored", "dup", "unique"},
                         twins : SUBSET Files]]

Init == verdict = [f \in Files |-> Undecided]

Open == {f \in Files : verdict[f] = Undecided}

\* A read fails, or the file is taken from its queue after an abort.
Ignore(f) ==
  /\ f \in Open
  /\ verdict' = [verdict EXCEPT ![f] = Ignored]

\* S leaves no twin of one of its members undecided or decided elsewhere.
Closed(S) ==
  \A f \in S, h \in Files \ S : Same(f, h) => verdict[h] = Ignored

Publish(S, kind) ==
  verdict' = [f \in Files |->
                IF f \in S THEN [kind |-> kind, twins |-> S] ELSE verdict[f]]

Report(S) ==
  /\ S # {} /\ S \subseteq Open
  /\ \A f, h \in S : Same(f, h)
  /\ Closed(S)
  /\ Qualifies(S)
  /\ Publish(S, "dup")

Dismiss(S) ==
  /\ S # {} /\ S \subseteq Open
  /\ Closed(S)
  /\ ~Qualifies(S)
  /\ Publish(S, "unique")

Next ==
  \/ \E f \in Files : Ignore(f)
  \/ \E S \in SUBSET Files : Report(S) \/ Dismiss(S)

Spec == Init /\ [][Next]_verdict
=============================================================================
