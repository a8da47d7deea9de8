------------------------------- MODULE Options -------------------------------
(***************************************************************************)
(* The command line (lib/cmdline.c): options act one after the other on    *)
(* the configuration and on the table of formatters, several on the same   *)
(* fields; then come the paths, and what is left is fixed or refused.      *)
(*                                                                         *)
(* An option is a name and a sequence of arguments, each with a name, a    *)
(* number and whether it is switched on.                                   *)
(***************************************************************************)
EXTENDS Integers, Sequences, FiniteSets, SequencesExt, FiniteSetsExt

CONSTANT CommandLines   \* what to choose from, see OptionsAssumption

VARIABLES
  cmdline,      \* the choice
  argv,         \* the options that were not yet looked at
  on,           \* the fields of RmCfg and flags of rm_cmd_set_paths that are true
  limits,       \* its other fields
  formats,      \* the formatters in their order, with their files
  counts,       \* paranoia_count, output_cnt
  paths,        \* cfg->paths, the last first, with is_prefd and idx
  json_paths,
  error,        \* error != NULL
  phase

vars == <<cmdline, argv, on, limits, formats, counts, paths, json_paths, error, phase>>

LintTypes == {"find_badids", "find_badlinks", "find_emptydirs", "find_emptyfiles",
              "find_nonstripped", "find_duplicates", "merge_directories"}

IsSequence(s) == s \in Seq(ToSet(s))

\* paths and stdin are what was given, files those that can be read, json those named so.  A
\* document that is replayed is not the output of another replay, which is written anew.
OptionsAssumption ==
  \A c \in CommandLines :
    /\ IsSequence(c.options) /\ IsSequence(c.paths) /\ IsSequence(c.stdin)
    /\ \A k \in DOMAIN c.options :
         /\ IsSequence(c.options[k].args)
         /\ \A i \in DOMAIN c.options[k].args :
              c.options[k].args[i].n \in Nat /\ c.options[k].args[i].on \in BOOLEAN
    /\ "//" \notin c.files /\ "-" \notin c.files /\ ToSet(c.stdin) \cap {"//", "-"} = {}
    /\ c.json \cap {"stdout", "rmlint.replay.sh", "rmlint.replay.json"} = {}

-----------------------------------------------------------------------------
\* rm_cfg_set_default; rm_session_init
Init ==
  /\ cmdline \in CommandLines /\ argv = cmdline.options
  /\ on = (LintTypes \ {"find_nonstripped", "merge_directories"})
            \cup {"ignore_hidden", "find_hardlinked_dupes", "see_symlinks"}
  /\ limits = [minsize |-> 1, maxsize |-> {}, start |-> 0, end |-> 100, low |-> 0, top |-> 0,
               min_mtime |-> 0, permissions |-> {}, checksum_type |-> "default"]
  /\ formats = <<>>
  /\ counts = [paranoia |-> 0, small |-> -1, large |-> -1]
  /\ paths = <<>> /\ json_paths = {} /\ error = FALSE /\ phase = "options"

Given(o) == phase = "options" /\ argv # <<>> /\ Head(argv).name = o

Args == Head(argv).args

Shift == argv' = Tail(argv)

-----------------------------------------------------------------------------
(* The fields that are true. *)

PartialHidden(s) == (s \ {"ignore_hidden"}) \cup {"partial_hidden"}

MergeDirectories(s) ==
  (PartialHidden(s) \ {"follow_symlinks"})
    \cup {"merge_directories", "see_symlinks", "find_hardlinked_dupes", "cache_file_structs"}

\* The option table of rm_cmd_parse_lint_types.
Enables(name) ==
  CASE name = "all"         -> LintTypes
    [] name = "minimal"     -> {"find_badids", "find_badlinks", "find_duplicates"}
    [] name = "minimaldirs" -> {"find_badids", "find_badlinks", "merge_directories"}
    [] name = "defaults"    -> LintTypes \ {"find_nonstripped", "merge_directories"}
    [] name \in LintTypes   -> {name}
    [] OTHER                -> {}   \* none, and what is not recognised

\* One by one the terms add their types, or take them back.
OneByOne(s, args) ==
  FoldLeft(LAMBDA a, x : IF x.on THEN a \cup Enables(x.name) ELSE a \ Enables(x.name), s, args)

\* Mutant: the types that were on stay on.
LintTypesAdded(s, args) ==
  LET named == OneByOne(s, args)
  IN  IF "merge_directories" \in named THEN MergeDirectories(named) ELSE named

\* rm_cmd_parse_lint_types: all are off before the terms are read.
ParseLintTypes(s, args) ==
  LET named == OneByOne(s \ LintTypes, args)
  IN  IF "merge_directories" \in named THEN MergeDirectories(named) ELSE named

EqualTypes == <<[name |-> "find_duplicates", n |-> 0, on |-> TRUE],
                [name |-> "merge_directories", n |-> 0, on |-> TRUE]>>

\* Options without a function of their own set or clear one field.
Sets == {"keep_all_tagged", "keep_all_untagged", "must_match_tagged", "must_match_untagged",
         "match_basename", "unmatched_basenames", "write_unfinished", "cache_file_structs",
         "read_stdin0", "dedupe", "is_reflink", "find_hardlinked_dupes"}

Clears == {"no_hardlinked"}

Switched(s, name, args) ==
  CASE name \in Sets               -> s \cup {name}
    [] name = "no_hardlinked"      -> s \ {"find_hardlinked_dupes"}
    [] name = "merge_directories"  -> MergeDirectories(s)
    [] name = "types"              -> ParseLintTypes(s, args)
    [] name = "see_symlinks"       -> (s \ {"follow_symlinks"}) \cup {"see_symlinks"}
    [] name = "follow_symlinks"    -> (s \ {"see_symlinks"}) \cup {"follow_symlinks"}
    [] name = "no_follow_symlinks" -> s \ {"see_symlinks", "follow_symlinks"}
    [] name = "partial_hidden"     -> PartialHidden(s)
    [] name = "hidden"             -> s \ {"ignore_hidden", "partial_hidden"}
    [] name = "no_hidden"          -> (s \ {"partial_hidden"}) \cup {"ignore_hidden"}
    [] name = "no_partial_hidden"  -> (s \ {"partial_hidden"}) \cup {"ignore_hidden"}
    [] name = "honour_dir_layout"  -> s \cup {"honour_dir_layout"}
    [] name = "xattr"              -> (s \ {"clear_xattr_fields"})
                                        \cup {"write_cksum_to_xattr", "read_cksum_from_xattr",
                                              "write_unfinished"}
    [] name = "sortby"             -> s \cup {"rank_criteria", "cache_file_structs"}

Switches ==
  Sets \cup Clears \cup
  {"merge_directories", "types", "see_symlinks", "follow_symlinks", "no_follow_symlinks",
   "partial_hidden", "hidden", "no_hidden", "no_partial_hidden", "honour_dir_layout", "xattr",
   "sortby"}

Switch ==
  \E name \in Switches :
    /\ Given(name)
    /\ on' = Switched(on, name, Args)
    /\ Shift
    /\ UNCHANGED <<cmdline, limits, formats, counts, paths, json_paths, error, phase>>

-----------------------------------------------------------------------------
(* The other fields. *)

\* A callback that returns false ends the parsing.
Refuse ==
  /\ error' = TRUE /\ phase' = "done" /\ Shift
  /\ UNCHANGED <<cmdline, on, limits, formats, counts, paths, json_paths>>

\* rm_cmd_parse_limit_sizes: minimum and maximum.
ParseSizes ==
  /\ Given("size")
  /\ IF Args[2].n < Args[1].n
     THEN Refuse
     ELSE /\ limits' = [limits EXCEPT !.minsize = Args[1].n, !.maxsize = {Args[2].n}]
          /\ Shift
          /\ UNCHANGED <<cmdline, on, formats, counts, paths, json_paths, error, phase>>

\* rm_cmd_parse_clamp_option: a share in percent or, if on is false, an offset.
ParseClamp ==
  \E which \in {"clamp_low", "clamp_top"} :
    /\ Given(which)
    /\ LET low   == which = "clamp_low"
           share == Args[1].on
           field == IF low THEN (IF share THEN "start" ELSE "low")
                    ELSE (IF share THEN "end" ELSE "top")
           flag  == IF low THEN "use_absolute_start_offset" ELSE "use_absolute_end_offset"
       IN  IF error \/ (share /\ Args[1].n > 100)
           THEN Refuse
           ELSE /\ limits' = [limits EXCEPT ![field] = Args[1].n]
                /\ on' = (IF share THEN on \ {flag} ELSE on \cup {flag}) \cup {"clamp_is_used"}
                /\ Shift
                /\ UNCHANGED <<cmdline, formats, counts, paths, json_paths, error, phase>>

\* rm_cmd_parse_timestamp
ParseTimestamp ==
  /\ Given("timestamp")
  /\ IF Args[1].n = 0
     THEN Refuse
     ELSE /\ limits' = [limits EXCEPT !.min_mtime = Args[1].n]
          /\ on' = on \cup {"filter_mtime"}
          /\ Shift
          /\ UNCHANGED <<cmdline, formats, counts, paths, json_paths, error, phase>>

\* rm_cmd_parse_permissions: letters add up, no argument means rw.
ParsePermissions ==
  /\ Given("perms")
  /\ LET letters == {Args[i].name : i \in DOMAIN Args}
     IN  IF letters \ {"r", "w", "x"} # {}
         THEN Refuse
         ELSE /\ limits' = [limits EXCEPT !.permissions = IF Args = <<>> THEN {"r", "w"}
                                                          ELSE @ \cup letters]
              /\ Shift
              /\ UNCHANGED <<cmdline, on, formats, counts, paths, json_paths, error, phase>>

Levels == -3..2

Level(n) == CASE n = -3 -> "metro"      [] n = -2 -> "metro256" [] n = -1 -> "highway256"
              [] n = 0  -> "default"    [] n > 0  -> "paranoid"

\* rm_cmd_set_paranoia_from_cnt: the error does not end the parsing.
ParseParanoia ==
  \E o \in {"paranoid", "less_paranoid"} :
    /\ Given(o)
    /\ LET n == counts.paranoia + (IF o = "paranoid" THEN 1 ELSE -1)
       IN  /\ counts' = [counts EXCEPT !.paranoia = n]
           /\ limits' = IF n \in Levels THEN [limits EXCEPT !.checksum_type = Level(n)] ELSE limits
           /\ error' = (error \/ n \notin Levels)
    /\ Shift
    /\ UNCHANGED <<cmdline, on, formats, paths, json_paths, phase>>

ParseAlgorithm ==
  /\ Given("algorithm")
  /\ IF Args[1].on
     THEN /\ limits' = [limits EXCEPT !.checksum_type = Args[1].name]
          /\ Shift
          /\ UNCHANGED <<cmdline, on, formats, counts, paths, json_paths, error, phase>>
     ELSE Refuse

-----------------------------------------------------------------------------
(* The formatters. *)

Formatter(name, file) == [name |-> name, file |-> file]

\* rm_fmt_add opens the file for writing, which empties it.
Added(fs, name, file) == Append(fs, Formatter(name, file))

Has(fs, name) == \E k \in DOMAIN fs : fs[k].name = name

\* rm_fmt_remove_by_name frees the formatters but deletes the links of its own list, not
\* those of handler_order: what was freed keeps its place.
RemovedByName(fs, name) ==
  [k \in DOMAIN fs |-> IF fs[k].name = name THEN Formatter("freed", "freed") ELSE fs[k]]

\* rm_cmd_set_default_outputs
WithDefaults(fs) ==
  fs \o <<Formatter("pretty", "stdout"), Formatter("summary", "stdout")>>
     \o (IF "replay" \in on
         THEN <<Formatter("sh", "rmlint.replay.sh"), Formatter("json", "rmlint.replay.json")>>
         ELSE <<Formatter("sh", "rmlint.sh"), Formatter("json", "rmlint.json")>>)

\* -o and -O: an output that cannot be opened is an error, which does not end the parsing.
ParseOutput ==
  \E o \in {"output", "add_output"} :
    /\ Given(o)
    /\ LET opened == IF Args[1].on THEN 1 ELSE 0
           field  == IF o = "output" THEN "small" ELSE "large"
       IN  /\ counts' = [counts EXCEPT ![field] = (IF @ < 0 THEN 0 ELSE @) + opened]
           /\ formats' = IF Args[1].on THEN Added(formats, Args[1].name, Args[2].name) ELSE formats
           /\ error' = (error \/ ~Args[1].on)
    /\ Shift
    /\ UNCHANGED <<cmdline, on, limits, paths, json_paths, phase>>

ParseProgress ==
  /\ Given("progress")
  /\ formats' = RemovedByName(formats, "pretty")
                  \o <<Formatter("progressbar", "stdout"), Formatter("summary", "stdout")>>
  /\ on' = on \cup {"progress_enabled"}
  /\ Shift
  /\ UNCHANGED <<cmdline, limits, counts, paths, json_paths, error, phase>>

\* rm_fmt_clear, and the defaults at once.
ParseNoProgress ==
  /\ Given("no_progress")
  /\ formats' = WithDefaults(<<>>)
  /\ Shift
  /\ UNCHANGED <<cmdline, on, limits, counts, paths, json_paths, error, phase>>

ParseEqual ==
  /\ Given("equal")
  /\ on' = (ParseLintTypes(MergeDirectories(on), EqualTypes) \ {"partial_hidden", "ignore_hidden"})
             \cup {"run_equal_mode"}
  /\ limits' = [limits EXCEPT !.minsize = 0]
  /\ formats' = <<Formatter("_equal", "stdout")>>   \* rm_fmt_clear before
  /\ Shift
  /\ UNCHANGED <<cmdline, counts, paths, json_paths, error, phase>>

-----------------------------------------------------------------------------
(* The paths. *)

Usable(p) == p \in cmdline.files

\* rm_cfg_add_path with is_prefd; documents are put aside if there is a replay.
AddPath(p, prefd, replay) ==
  LET document == replay /\ p \in cmdline.json
  IN  /\ json_paths' = IF Usable(p) /\ document THEN json_paths \cup {p} ELSE json_paths
      /\ paths' = IF Usable(p) /\ ~document
                  THEN <<[path |-> p, is_prefd |-> prefd, idx |-> Len(paths)]>> \o paths
                  ELSE paths

Valid(p) == IF Usable(p) THEN on ELSE on \ {"all_paths_valid"}

\* A path that cannot be read is ignored here.
ParseReplay ==
  /\ Given("replay")
  /\ on' = on \cup {"replay", "cache_file_structs"}
  /\ AddPath(Args[1].name, FALSE, TRUE)
  /\ Shift
  /\ UNCHANGED <<cmdline, limits, formats, counts, error, phase>>

OptionsDone ==
  /\ phase = "options" /\ argv = <<>>
  /\ phase' = "paths" /\ argv' = cmdline.paths /\ on' = on \cup {"all_paths_valid"}
  /\ UNCHANGED <<cmdline, limits, formats, counts, paths, json_paths, error>>

\* The separators before the token that is looked at.
Separators == Len(SelectSeq(SubSeq(cmdline.paths, 1, Len(cmdline.paths) - Len(argv)),
                            LAMBDA t : t = "//"))

IsPrefd == Separators % 2 = 1

TakePath ==
  /\ phase = "paths" /\ argv # <<>>
  /\ CASE Head(argv) = "-" ->
            /\ on' = (on \ {"stdin_paths_preferred"}) \cup {"read_stdin"}
                       \cup (IF IsPrefd THEN {"stdin_paths_preferred"} ELSE {})
            /\ UNCHANGED <<paths, json_paths>>
       [] Head(argv) = "//" ->
            UNCHANGED <<on, paths, json_paths>>
       [] OTHER ->
            AddPath(Head(argv), IsPrefd, "replay" \in on) /\ on' = Valid(Head(argv))
  /\ Shift
  /\ UNCHANGED <<cmdline, limits, formats, counts, error, phase>>

PathsDone ==
  /\ phase = "paths" /\ argv = <<>>
  /\ IF on \cap {"read_stdin", "read_stdin0"} # {}
     THEN phase' = "stdin" /\ argv' = cmdline.stdin /\ UNCHANGED paths
     ELSE /\ phase' = "fix"
          /\ paths' = IF paths = <<>> /\ "all_paths_valid" \in on   \* the working directory
                      THEN <<[path |-> "cwd", is_prefd |-> IsPrefd, idx |-> 0]>>
                      ELSE paths
          /\ UNCHANGED argv
  /\ UNCHANGED <<cmdline, on, limits, formats, counts, json_paths, error>>

ReadStdin ==
  /\ phase = "stdin"
  /\ IF argv = <<>>
     THEN phase' = "fix" /\ UNCHANGED <<argv, on, paths, json_paths>>
     ELSE /\ AddPath(Head(argv), "stdin_paths_preferred" \in on, "replay" \in on)
          /\ on' = Valid(Head(argv))
          /\ Shift
          /\ UNCHANGED phase
  /\ UNCHANGED <<cmdline, limits, formats, counts, error>>

-----------------------------------------------------------------------------
(* The rest of rm_cmd_parse_args. *)

Special == on \cap {"dedupe", "is_reflink"} # {}

\* Invalid paths and a replay of what is no search are refused; --dedupe and --is-reflink
\* need nothing else.
GiveUp ==
  /\ phase = "fix" /\ (Special \/ "all_paths_valid" \notin on)
  /\ error' = (error \/ "all_paths_valid" \notin on \/ "replay" \in on)
  /\ phase' = "done"
  /\ UNCHANGED <<cmdline, argv, on, limits, formats, counts, paths, json_paths>>

\* Without -D partly hidden means hidden, and -g brings its files.
Fix ==
  /\ phase = "fix" /\ ~Special /\ "all_paths_valid" \in on
  /\ on' = IF "partial_hidden" \in on /\ "merge_directories" \notin on
           THEN (on \ {"partial_hidden"}) \cup {"ignore_hidden"}
           ELSE on
  /\ LET scripted == IF Has(formats, "sh") THEN formats
                     ELSE Added(formats, "sh", "rmlint.sh")
         listed   == IF Has(scripted, "json") THEN scripted
                     ELSE Added(scripted, "json", "rmlint.json")
     IN  formats' = IF "progress_enabled" \in on THEN listed ELSE formats
  /\ phase' = "exclude"
  /\ UNCHANGED <<cmdline, argv, limits, counts, paths, json_paths, error>>

Both(a, b) == {a, b} \subseteq on

\* rm_cmd_set_outputs
BothOutputs ==
  "run_equal_mode" \notin on /\ counts.small >= 0 /\ counts.large >= 0

NeedsDefaults ==
  "run_equal_mode" \notin on /\ counts.small < 0 /\ "progress_enabled" \notin on

Exclude ==
  /\ phase = "exclude"
  /\ LET early == Both("keep_all_tagged", "keep_all_untagged") \/ limits.start >= limits.end
         late  == \/ BothOutputs
                  \/ Both("keep_all_tagged", "must_match_untagged")
                  \/ Both("keep_all_untagged", "must_match_tagged")
     IN  /\ error' = (error \/ early \/ late)
         /\ formats' = IF ~early /\ ~BothOutputs /\ NeedsDefaults
                       THEN WithDefaults(formats) ELSE formats
  /\ phase' = "done"
  /\ UNCHANGED <<cmdline, argv, on, limits, counts, paths, json_paths>>

Done == phase = "done" /\ UNCHANGED vars

Next ==
  \/ Switch \/ ParseSizes \/ ParseClamp \/ ParseTimestamp \/ ParsePermissions
  \/ ParseParanoia \/ ParseAlgorithm \/ ParseOutput \/ ParseProgress \/ ParseNoProgress
  \/ ParseEqual \/ ParseReplay \/ OptionsDone \/ TakePath \/ PathsDone \/ ReadStdin
  \/ GiveUp \/ Fix \/ Exclude \/ Done

Spec == Init /\ [][Next]_vars

-----------------------------------------------------------------------------
Names == {cmdline.options[k].name : k \in DOMAIN cmdline.options}

Searches == phase = "done" /\ ~error /\ ~Special

\* However the options follow each other, what is asserted when they are parsed and when the
\* search starts holds, a hidden file is treated in one of three ways, and the protection of
\* one side does not meet the demand that the other has a twin.
OptionsAreConsistent ==
  Searches =>
    /\ ~Both("follow_symlinks", "see_symlinks")
    /\ "merge_directories" \in on => "cache_file_structs" \in on
    /\ ~Both("partial_hidden", "ignore_hidden")
    /\ "partial_hidden" \in on => "merge_directories" \in on
    /\ ~Both("keep_all_tagged", "must_match_untagged")
    /\ ~Both("keep_all_untagged", "must_match_tagged")

LastTypes == Max({0} \cup {k \in DOMAIN cmdline.options :
                             cmdline.options[k].name \in {"types", "equal"}})

Named(k) == IF cmdline.options[k].name = "equal" THEN EqualTypes ELSE cmdline.options[k].args

Wanted(type) ==
  LET naming == {i \in DOMAIN Named(LastTypes) : type \in Enables(Named(LastTypes)[i].name)}
  IN  \/ IF LastTypes = 0 THEN type \in Enables("defaults")
                          ELSE naming # {} /\ Named(LastTypes)[Max(naming)].on
      \/ type = "merge_directories"
           /\ \E k \in DOMAIN cmdline.options :
                k > LastTypes /\ cmdline.options[k].name = "merge_directories"

\* The lint types that are searched for are those that the last -T names, as its last term
\* about them says, and duplicate directories if -D comes after it.
LintTypesAreThoseNamedLast ==
  Searches => \A type \in LintTypes : type \in on <=> Wanted(type)

Files == {formats[k].file : k \in DOMAIN formats}

\* Unless outputs are asked for, --equal writes no files wherever it stands
\* (docs/rmlint.1.rst:794 "no other formatters").
EqualStandsAlone ==
  Searches /\ "equal" \in Names
    /\ Names \cap {"output", "add_output", "progress", "no_progress"} = {} =>
       formats = <<Formatter("_equal", "stdout")>>

\* The default outputs of a replay do not overwrite what is replayed (docs/rmlint.1.rst:517 "in
\* order to avoid overwriting rmlint.json").  The outputs that -g and -G bring may do.
ReplaySparesItsDocuments ==
  "replay" \in Names /\ Names \cap {"output", "add_output", "progress", "no_progress"} = {} =>
    Files \cap json_paths = {}
=============================================================================
