------------------------------ MODULE MCOptions ------------------------------
(* The command lines that MCStages gives to Options. *)
EXTENDS Integers, Sequences, FiniteSets, SequencesExt

OptionArg(name, n, on) == [name |-> name, n |-> n, on |-> on]
Option(name, args)     == [name |-> name, args |-> args]
OptionAlone(name)      == Option(name, <<>>)

OptionTerm(name)  == OptionArg(name, 0, TRUE)
OptionMinus(name) == OptionArg(name, 0, FALSE)

OptionReplay == Option("replay", <<OptionTerm("rmlint.json")>>)
OptionOutput(o, opens) == Option(o, <<OptionArg("csv", 0, opens), OptionTerm("stdout")>>)

\* What acts on the same fields, or on the formatters.
OptionsThatMeet ==
  {OptionAlone(o) : o \in {"merge_directories", "see_symlinks", "follow_symlinks", "no_follow_symlinks",
                           "partial_hidden", "hidden", "no_hidden", "no_partial_hidden", "sortby",
                           "keep_all_tagged", "must_match_tagged", "must_match_untagged",
                           "equal", "progress", "no_progress"}}
  \cup {Option("types", a) : a \in {<<OptionTerm("find_duplicates")>>, <<OptionTerm("all"), OptionMinus("merge_directories")>>,
                                     <<OptionTerm("none"), OptionTerm("minimaldirs")>>,
                                     <<OptionTerm("defaults"), OptionMinus("find_badlinks"), OptionTerm("minimal")>>}}
  \cup {OptionReplay, OptionOutput("output", TRUE), OptionOutput("add_output", TRUE)}

\* What has fields of its own.
OptionsApart ==
  {OptionAlone(o) : o \in {"keep_all_untagged", "match_basename", "unmatched_basenames", "no_hardlinked",
                           "honour_dir_layout", "xattr", "dedupe", "paranoid", "less_paranoid", "perms"}}
  \cup {Option("size", <<OptionArg("min", 1, TRUE), OptionArg("max", n, TRUE)>>) : n \in {0, 9}}
  \cup {Option(o, <<OptionArg("value", n, share)>>) :
           o \in {"clamp_low", "clamp_top"}, n \in {20, 50, 200}, share \in BOOLEAN}
  \cup {Option("timestamp", <<OptionArg("at", n, TRUE)>>) : n \in {0, 5}}
  \cup {Option("perms", <<OptionTerm(p)>>) : p \in {"x", "a"}}
  \cup {Option("algorithm", <<OptionArg("sha1", 0, b)>>) : b \in BOOLEAN}
  \cup {OptionOutput("output", FALSE), OptionAlone("keep_all_tagged"), OptionReplay}

OptionSeqs(S, n) == UNION {[1..k -> S] : k \in 0..n}

OptionLine(options, given, stdin) ==
  [options |-> options, paths |-> given, stdin |-> stdin,
   files |-> {"a", "b", "c", "rmlint.json"}, json |-> {"rmlint.json"}]

CommandLinesShort ==
  {OptionLine(o, <<"a">>, <<>>) : o \in OptionSeqs(OptionsThatMeet, 3) \cup OptionSeqs(OptionsApart, 2)}
  \cup {OptionLine([k \in 1..n |-> OptionAlone(p)], <<"a">>, <<>>) : n \in 3..4, p \in {"paranoid", "less_paranoid"}}
  \cup {OptionLine(o, g, <<"c", "missing">>) :
           o \in {<<>>, <<OptionAlone("read_stdin0")>>, <<OptionReplay>>},
           g \in OptionSeqs({"a", "b", "missing", "rmlint.json", "//", "-"}, 3)}
  \cup {OptionLine(<<>>, g, <<"c", "a">>) : g \in {<<"a", "//", "-">>, <<"-", "//", "b", "//", "-">>}}
=============================================================================
