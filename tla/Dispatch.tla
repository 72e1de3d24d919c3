------------------------------ MODULE Dispatch ------------------------------
(***************************************************************************)
(* One run of AgentCli::dispatch: an argv goes through the stages of the   *)
(* code, each an action, until the framework answers it or one handler     *)
(* receives it. A raw command may claim the argv before it is parsed, when *)
(* the parse fails, or after it.                                           *)
(***************************************************************************)
EXTENDS Invocation, FiniteSets

CONSTANTS
  Inputs,     \* records [cli, args]: a CLI [tree, reserved] and an argv after the program
              \* name; reserved is FALSE under without_reserved_flags()
  Framework,  \* --help, -h, --version, -V
  Reserved,   \* the reserved agent flags
  Select,     \* the one of them that takes a value
  DryRun, Json

ASSUME FlagsAssumption ==
  /\ Select \in Reserved /\ DryRun \in Reserved \ {Select} /\ Json \in Reserved \ {DryRun}
  /\ Framework \cap Reserved = {}
  /\ "--dry-run" \in DOMAIN Shape => Shape["--dry-run"] = [kind |-> "flag", name |-> DryRun]

(* parse_bool reads the value of a bare flag as on.                        *)
ASSUME SpellingAssumption == "true" \in DOMAIN Spelled /\ Spelled["true"]

(* A CLI is a tree of commands, and an argv is made of texts of Shape.     *)
ASSUME InputsAssumption ==
  \A given \in Inputs :
    IsTree(given.cli.tree) /\ given.cli.reserved \in BOOLEAN /\ given.args \in Seq(DOMAIN Shape)

VARIABLES
  cli, args,
  sound,   \* the environment: is SOURCE_DATE_EPOCH sound, argv UTF-8?
  stage,   \* the next step of dispatch
  line,    \* the parsed line, or the parsed prefix of a raw command
  claim,   \* the raw command that claimed argv, and where its own tokens start
  answer,  \* the answer: its code, and whether it is an NDJSON line
  ran      \* the handler that ran and what it received

input == <<cli, args, sound>>
vars == <<cli, args, sound, stage, line, claim, answer, ran>>

Stages == {"clock", "lead", "parse", "bools", "route", "resolve", "flags", "extra",
           "dry", "undeclared", "declared", "undelivered", "handler", "raw", "answered"}
Codes == {None, "INVALID_ENV", "PARSE_ERROR", "INVALID_FLAG", "UNKNOWN_FLAG",
          "UNKNOWN_COMMAND", "UNKNOWN_SUBCOMMAND", "EXTRA_ARG", "DRY_RUN_UNSUPPORTED",
          "MISSING_HANDLER", "root", "tree", "version", "skill", "handled", "exited"}
NoClaim == [start |-> 0, path |-> <<>>]
NotAnswered == [code |-> None, ndjson |-> FALSE]
NothingRan == [handler |-> None, path |-> <<>>, rest |-> <<>>]

TypeOK ==
  /\ sound \in [clock : BOOLEAN, utf8 : BOOLEAN]
  /\ stage \in Stages
  /\ answer \in [code : Codes, ndjson : BOOLEAN]
  /\ answer.code = None <=> stage # "answered"

(* dispatch is called on an input. *)
Called(given) ==
  /\ cli = given.cli /\ args = given.args
  /\ sound \in [clock : BOOLEAN, utf8 : BOOLEAN]
  /\ stage = "clock"
  /\ line = NewParser(<<>>) /\ claim = NoClaim
  /\ answer = NotAnswered /\ ran = NothingRan

Init == \E given \in Inputs : Called(given)
-----------------------------------------------------------------------------
tree == cli.tree

Reaches(next) ==
  /\ stage' = next
  /\ UNCHANGED <<input, answer, ran>>

AnswerAs(code, ndjson) ==
  /\ stage' = "answered"
  /\ answer' = [code |-> code, ndjson |-> ndjson]
  /\ UNCHANGED <<input, line, claim, ran>>

Answer(code) == AnswerAs(code, FALSE)

(* The tree the line's positionals name. *)
Path == Resolve(tree, line.positionals)
Remaining == SubSeq(line.positionals, Len(Path) + 1, Len(line.positionals))
Leaf == tree[Path]
Streams == Path # <<>> /\ Leaf.handler = "stream"

(* parses_as_bool over the booleans declared along a path. *)
PathBools(path) ==
  (UNION {command.bools : command \in Along(tree, path)})
    \cup Framework \cup (IF cli.reserved THEN Reserved \ {Select} ELSE {})

(* global_bool_flag_set, as the preliminary parse reads it. *)
UnionBools ==
  (UNION {tree[path].bools : path \in DOMAIN tree})
    \cup Framework \cup (IF cli.reserved THEN Reserved \ {Select} ELSE {})

PreliminaryPath ==
  LET guess == Parse(tree, UnionBools, args) IN
  IF guess.error # None THEN <<>> ELSE Resolve(tree, guess.positionals)

BugLineBoolsAreUnion == UnionBools

LineBools == PathBools(PreliminaryPath)
-----------------------------------------------------------------------------
(* Raw commands. *)

(* resolve_raw_command: the first raw command named by the words from      *)
(* start on, and where its own tokens start.                               *)
RawFrom(start) ==
  LET named == {n \in start..Len(args) :
                  /\ SubSeq(args, start, n) \in DOMAIN tree
                  /\ IsRaw(tree[SubSeq(args, start, n)])} IN
  IF named = {} THEN NoClaim
  ELSE [start |-> First(named) + 1, path |-> SubSeq(args, start, First(named))]

(* find_raw_command: the raw command named at the first offset that names one. *)
FindRaw ==
  LET starts == {n \in DOMAIN args : RawFrom(n) # NoClaim} IN
  IF starts = {} THEN NoClaim ELSE RawFrom(First(starts))

BugRawLeafOnly(parsed) ==
  LET path == Resolve(tree, parsed.positionals) IN
  IF path # <<>> /\ IsRaw(tree[path])
  THEN [start |-> parsed.indices[Len(path)] + 1, path |-> path] ELSE NoClaim

(* The first raw command on the walk of a parsed line. *)
RawOnPath(parsed) ==
  LET path == Resolve(tree, parsed.positionals)
      depths == {d \in DOMAIN path : IsRaw(tree[SubSeq(path, 1, d)])} IN
  IF depths = {} THEN NoClaim
  ELSE [start |-> parsed.indices[First(depths)] + 1, path |-> SubSeq(path, 1, First(depths))]

(* The tokens up to the command's name are the framework's: parse them. *)
RawClaim(found) ==
  LET prefix == Parse(tree, LineBools, SubSeq(args, 1, found.start - 1)) IN
  IF prefix.error # None THEN Answer("PARSE_ERROR")
  ELSE /\ line' = prefix /\ claim' = found
       /\ Reaches("bools")
-----------------------------------------------------------------------------
(* Until the line is parsed. *)

BadClock == stage = "clock" /\ ~sound.clock /\ Answer("INVALID_ENV")

NonUtf8Argument ==
  stage = "clock" /\ sound.clock /\ ~sound.utf8 /\ Answer("PARSE_ERROR")

GoodClock ==
  /\ stage = "clock" /\ sound.clock /\ sound.utf8
  /\ Reaches("lead") /\ UNCHANGED <<line, claim>>

(* Pass 0: nothing but the tree is read. *)
ClaimLead ==
  /\ stage = "lead" /\ RawFrom(1) # NoClaim
  /\ claim' = RawFrom(1) /\ UNCHANGED line
  /\ Reaches("raw")

NoLead ==
  /\ stage = "lead" /\ RawFrom(1) = NoClaim
  /\ Reaches("parse") /\ UNCHANGED <<line, claim>>

ParseLine ==
  LET parsed == Parse(tree, LineBools, args) IN
  /\ stage = "parse"
  /\ \/ /\ parsed.error # None /\ FindRaw # NoClaim
        /\ RawClaim(FindRaw)
     \/ /\ parsed.error # None /\ FindRaw = NoClaim
        /\ Answer("PARSE_ERROR")
     \/ /\ parsed.error = None /\ RawOnPath(parsed) # NoClaim
        /\ RawClaim(RawOnPath(parsed))
     \/ /\ parsed.error = None /\ RawOnPath(parsed) = NoClaim
        /\ line' = parsed /\ UNCHANGED claim
        /\ Reaches("bools")
-----------------------------------------------------------------------------
(* The gates. *)

Gate(at, refused, code, ndjson, next) ==
  /\ stage = at
  /\ \/ refused /\ AnswerAs(code, ndjson)
     \/ ~refused /\ Reaches(next) /\ UNCHANGED <<line, claim>>

Booleans == Framework \cup (IF cli.reserved THEN Reserved \ {Select} ELSE {})

CheckBools ==
  Gate("bools", \E flag \in Booleans : NotABoolean(line, flag),
       "INVALID_FLAG", Streams, "route")

(* unknown_flag_error: flags that are nobody's. *)
UnknownFlags(declared) ==
  cli.reserved /\ DOMAIN line.flags \ (declared \cup Framework \cup Reserved) # {}

Declared(path) == UNION {command.bools \cup command.values : command \in Along(tree, path)}

(* declared_flags is Some: flags are checked against a schema. *)
SchemaChecked(path) ==
  /\ tree[path].usage \/ tree[path].handler = None
  /\ \A command \in Along(tree, path) : ~command.unknown

UndeclaredFlags(path) == SchemaChecked(path) /\ UnknownFlags(Declared(path))

RootCode == IF UnknownFlags({}) THEN "UNKNOWN_FLAG" ELSE "root"

TreeCode(path) == IF UndeclaredFlags(path) THEN "UNKNOWN_FLAG" ELSE "tree"

(* help_execution. *)
HelpCode(targets) ==
  LET path == Resolve(tree, targets) IN
  CASE targets = <<>> -> RootCode
    [] targets # <<>> /\ path = <<>> -> "UNKNOWN_COMMAND"
    [] path # <<>> /\ path # targets /\ HasChildren(tree, path) -> "UNKNOWN_SUBCOMMAND"
    [] path # <<>> /\ ~(path # targets /\ HasChildren(tree, path)) -> TreeCode(path)

(* version_flag_execution. *)
VersionCode ==
  CASE line.positionals = <<>> -> IF UnknownFlags({}) THEN "UNKNOWN_FLAG" ELSE "version"
    [] line.positionals # <<>> /\ Path = <<>> -> "UNKNOWN_COMMAND"
    [] Path # <<>> -> IF UndeclaredFlags(Path) THEN "UNKNOWN_FLAG" ELSE "version"

(* version_alias_execution. *)
VersionAliasCode ==
  CASE Len(line.positionals) > 1 -> "EXTRA_ARG"
    [] OTHER -> IF UnknownFlags({}) THEN "UNKNOWN_FLAG" ELSE "version"

HelpWanted == line.help \/ On(line, "help") \/ On(line, "h")

VersionWanted == On(line, "version") \/ On(line, "V")

(* The first positional is word, and the CLI has no command of that name. *)
Alias(word) ==
  line.positionals # <<>> /\ line.positionals[1] = word /\ <<word>> \notin DOMAIN tree

FrameworkRoute ==
  /\ stage = "route"
  /\ \/ HelpWanted /\ Answer(HelpCode(line.positionals))
     \/ /\ ~HelpWanted /\ Alias("help")
        /\ Answer(HelpCode(Tail(line.positionals)))
     \/ /\ ~HelpWanted /\ ~Alias("help") /\ VersionWanted
        /\ Answer(VersionCode)
     \/ /\ ~HelpWanted /\ ~Alias("help") /\ ~VersionWanted /\ Alias("version")
        /\ Answer(VersionAliasCode)
     \/ /\ ~HelpWanted /\ ~Alias("help") /\ ~VersionWanted /\ ~Alias("version")
        /\ Reaches(IF claim = NoClaim THEN "resolve" ELSE "undeclared")
        /\ UNCHANGED <<line, claim>>

ResolveCommand ==
  /\ stage = "resolve"
  /\ \/ line.positionals = <<>> /\ Answer(RootCode)
     \/ line.positionals # <<>> /\ Path = <<>> /\ Answer("UNKNOWN_COMMAND")
     \/ /\ Path # <<>> /\ Leaf.handler = None /\ HasChildren(tree, Path)
        /\ Answer(IF Remaining = <<>> THEN TreeCode(Path) ELSE "UNKNOWN_SUBCOMMAND")
     \/ /\ Path # <<>> /\ ~(Leaf.handler = None /\ HasChildren(tree, Path))
        /\ Reaches("flags") /\ UNCHANGED <<line, claim>>

RejectUnknownFlags ==
  Gate("flags", UndeclaredFlags(Path), "UNKNOWN_FLAG", Streams, "extra")

(* positional_bound, at the end of path. *)
Bounded(path) ==
  /\ cli.reserved /\ tree[path].usage /\ ~tree[path].variadic /\ ~IsRaw(tree[path])
  /\ \A command \in Along(tree, path) : ~command.extra

BugRejectExtraArgsPlain ==
  Gate("extra", Bounded(Path) /\ Len(Remaining) > Leaf.arity, "EXTRA_ARG", FALSE, "dry")

RejectExtraArgs ==
  Gate("extra", Bounded(Path) /\ Len(Remaining) > Leaf.arity, "EXTRA_ARG", Streams, "dry")

BugRejectDryRunIfSet ==
  Gate("dry", /\ cli.reserved /\ DryRun \notin line.bare /\ On(line, DryRun)
              /\ \A command \in Along(tree, Path) : ~command.dry,
       "DRY_RUN_UNSUPPORTED", Streams, "handler")

RejectDryRun ==
  Gate("dry", /\ cli.reserved /\ On(line, DryRun)
              /\ \A command \in Along(tree, Path) : ~command.dry,
       "DRY_RUN_UNSUPPORTED", Streams, "handler")

(* The gates of a raw command's prefix. raw_declared_flags: the command's own. *)
OwnFlags == IF Path = <<>> THEN {} ELSE Leaf.bools \cup Leaf.values

RejectPrefixUnknown ==
  Gate("undeclared", UnknownFlags(OwnFlags), "UNKNOWN_FLAG", FALSE, "declared")

RejectPrefixDeclared ==
  Gate("declared",
       cli.reserved /\ DOMAIN line.flags \cap (OwnFlags \ Reserved) # {},
       "INVALID_FLAG", FALSE, "undelivered")

BugRejectPrefixUndelivered ==  \* a --dry-run is let through as --json is
  /\ stage = "undelivered"
  /\ LET held == IF cli.reserved /\ Path # <<>> THEN DOMAIN line.flags \cap Reserved ELSE {} IN
     \/ /\ held \ {Json, DryRun} # {}
        /\ Answer("INVALID_FLAG")
     \/ /\ held \ {Json, DryRun} = {}
        /\ Reaches("raw") /\ UNCHANGED <<line, claim>>

RejectPrefixReserved ==
  /\ stage = "undelivered"
  /\ LET held == IF cli.reserved /\ Path # <<>> THEN DOMAIN line.flags \cap Reserved ELSE {} IN
     \/ /\ held # {} /\ On(line, DryRun)
        /\ Answer("DRY_RUN_UNSUPPORTED")
     \/ /\ held \ {Json} # {} /\ ~On(line, DryRun)
        /\ Answer("INVALID_FLAG")
     \/ /\ held \ {Json} = {}
        /\ Reaches("raw") /\ UNCHANGED <<line, claim>>
-----------------------------------------------------------------------------
(* What runs. *)

(* The built-in skill command, or a command with no handler. *)
AnswerItself ==
  /\ stage = "handler" /\ Leaf.handler \in {"skill", None}
  /\ Answer(IF Leaf.handler = "skill" THEN "skill" ELSE "MISSING_HANDLER")

RunHandler ==
  /\ stage = "handler" /\ Leaf.handler \notin {"skill", None}
  /\ ran' = [handler |-> Leaf.handler, path |-> Path, rest |-> Remaining]
  /\ answer' = [code |-> "handled", ndjson |-> Streams]
  /\ stage' = "answered"
  /\ UNCHANGED <<input, line, claim>>

RunRaw ==
  /\ stage = "raw"
  /\ ran' = [handler |-> "raw", path |-> claim.path,
             rest |-> SubSeq(args, claim.start, Len(args))]
  /\ answer' = [code |-> "exited", ndjson |-> FALSE]
  /\ stage' = "answered"
  /\ UNCHANGED <<input, line, claim>>

Done == stage = "answered" /\ UNCHANGED vars

Next ==
  \/ BadClock \/ NonUtf8Argument \/ GoodClock \/ ClaimLead \/ NoLead \/ ParseLine
  \/ CheckBools \/ FrameworkRoute \/ ResolveCommand
  \/ RejectUnknownFlags \/ RejectExtraArgs \/ RejectDryRun
  \/ RejectPrefixUnknown \/ RejectPrefixDeclared \/ RejectPrefixReserved
  \/ AnswerItself \/ RunHandler \/ RunRaw \/ Done

Spec == Init /\ [][Next]_vars
-----------------------------------------------------------------------------
(* Properties. They read the tokens of argv, not what the parser made of   *)
(* them.                                                                   *)

(* The tokens the framework reads as flags: those before a --, and before  *)
(* the tokens a raw command claimed.                                       *)
FrameworkTokens ==
  {i \in DOMAIN args :
     /\ claim = NoClaim \/ i < claim.start
     /\ \A j \in 1..(i - 1) : Shape[args[j]].kind # "dashes"}

Handled == ran.handler \in {"envelope", "stream"}

(* A handler receives every token of its line: each word in its path, in   *)
(* its arguments, in order, or as the value of the flag right before it,   *)
(* and each flag. Nothing is dropped on the way (README, "How argv is      *)
(* parsed").                                                               *)
TokensDelivered ==
  Handled =>
    LET given == ran.path \o ran.rest
        words == {i \in DOMAIN args :
                    IF i \in FrameworkTokens THEN Shape[args[i]].kind = "word" ELSE TRUE}
        values == {i \in words \cap FrameworkTokens :
                     /\ i > 1 /\ Shape[args[i - 1]].kind = "flag"
                     /\ Shape[args[i - 1]].name \notin line.bare
                     /\ line.flags[Shape[args[i - 1]].name] = args[i]}
    IN /\ Len(given) = Cardinality(words \ values)
       /\ \A i \in words \ values :
            given[Cardinality({j \in words \ values : j <= i})] = args[i]
       /\ UNION {Names(args[i]) : i \in FrameworkTokens} = DOMAIN line.flags

(* A line that asks for help runs nothing, wherever --help is on it unless *)
(* it is behind a -- or belongs to a raw command; nor does one that gives  *)
(* a flag twice, in any spelling: the parser never picks a winner.         *)
HelpAndRepeatsRunNothing ==
  ran # NothingRan => \A i, j \in FrameworkTokens :
    /\ Shape[args[i]].kind # "help"
    /\ i # j => Names(args[i]) \cap Names(args[j]) = {}

(* Under a --dry-run of the framework's, wherever it is, a command's       *)
(* handler runs only if some command on its path declared it previews, and *)
(* a raw handler, which cannot be told, runs only on a line that does not  *)
(* parse as a whole: find_raw_command then claims a later word, and the    *)
(* --dry-run before it is dropped (PrefixFlagNeverDropped).                *)
DryRunHonored ==
  cli.reserved /\ (\E i \in FrameworkTokens : args[i] = "--dry-run") =>
    /\ Handled => \E command \in Along(tree, ran.path) : command.dry
    /\ ran.handler = "raw" => Parse(tree, LineBools, args).error # None

(* A raw handler receives exactly the tokens after its name, whatever they *)
(* are; no handler under its name ever runs (run_handler: unreachable!);   *)
(* a line that starts with a raw command's path always reaches it; and the *)
(* prefix that is left of a line parses and names that command             *)
(* (parse_argv: "They parse whenever the whole line did").                 *)
RawOwnsItsTail ==
  /\ stage = "handler" => ~IsRaw(Leaf)
  /\ Handled => \A command \in Along(tree, ran.path) : ~IsRaw(command)
  /\ ran.handler = "raw" =>
       /\ IsRaw(tree[ran.path])
       /\ LET named == Len(args) - Len(ran.rest) IN
            /\ named \in DOMAIN args /\ args[named] = ran.path[Len(ran.path)]
            /\ ran.rest = SubSeq(args, named + 1, Len(args))
  /\ stage = "answered" /\ sound.clock /\ sound.utf8 =>
       \A n \in DOMAIN args :
         /\ SubSeq(args, 1, n) \in DOMAIN tree /\ IsRaw(tree[SubSeq(args, 1, n)])
         /\ \A k \in 1..(n - 1) : ~IsRaw(tree[SubSeq(args, 1, k)])
         => ran = [handler |-> "raw", path |-> SubSeq(args, 1, n),
                   rest |-> SubSeq(args, n + 1, Len(args))]
  /\ stage = "bools" /\ claim # NoClaim /\ Parse(tree, LineBools, args).error = None
       => Path = claim.path

(* A line is split by the schema of the command that runs, not by the      *)
(* union over the tree, when every bare flag before the end of its path is *)
(* a boolean of the framework's or of no command at all: one that takes a  *)
(* value, or that nobody declares. A boolean some command declares there,  *)
(* the one that runs included, can send the guess elsewhere                *)
(* (BooleansTakeNoValue).                                                  *)
ParsedByOwnSchema ==
  Handled /\ (\A i \in 1..(line.indices[Len(ran.path)]) :
                \/ Shape[args[i]].kind \in {"word", "valued"}
                \/ /\ Shape[args[i]].kind = "flag"
                   /\ Shape[args[i]].name \in Booleans \/ Shape[args[i]].name \notin UnionBools)
    => line = Parse(tree, PathBools(ran.path), args)

(* The usage string decides which flags take no value: a declared boolean  *)
(* never takes the next token (README, "The usage string is the schema").  *)
BooleansTakeNoValue ==
  Handled =>
    \A i \in FrameworkTokens :
      Shape[args[i]].kind = "flag" /\ Shape[args[i]].name \in PathBools(ran.path)
        => line.flags[Shape[args[i]].name] = "true"

(* A reserved flag before a raw command's name is refused instead of       *)
(* dropped; nothing runs (README, raw commands).                           *)
PrefixFlagNeverDropped ==
  ran.handler = "raw" /\ cli.reserved =>
    \A i \in FrameworkTokens : Names(args[i]) \cap (Reserved \ {Json}) = {}

(* What dispatch decides of a line it decides on the way to the handler,   *)
(* before anything runs: a handler that ran was given the path and the     *)
(* arguments every gate judged, help and version did not want the line,    *)
(* and no flag, argument or dry run of it is one the gates refuse.         *)
EveryGateHeld ==
  Handled =>
    /\ claim = NoClaim /\ ran.path = Path /\ ran.rest = Remaining
    /\ ~HelpWanted /\ ~VersionWanted /\ ~Alias("help") /\ ~Alias("version")
    /\ \A flag \in Booleans : ~NotABoolean(line, flag)
    /\ ~UndeclaredFlags(Path)
    /\ ~(Bounded(Path) /\ Len(Remaining) > Leaf.arity)
    /\ cli.reserved /\ On(line, DryRun) => \E command \in Along(tree, Path) : command.dry

(* Every refusal of a line that names a streaming command is an NDJSON     *)
(* line, as its answer is: a stream consumer never meets a line without a  *)
(* type (dispatch: "A streaming command answers in NDJSON").               *)
StreamRefusalsAreNdjson ==
  /\ /\ answer.code \in {"INVALID_FLAG", "UNKNOWN_FLAG", "EXTRA_ARG",
                         "DRY_RUN_UNSUPPORTED", "handled"}
     /\ claim = NoClaim /\ Streams
     /\ ~HelpWanted /\ ~VersionWanted /\ ~Alias("help") /\ ~Alias("version")
     => answer.ndjson
  /\ answer.ndjson => Streams
=============================================================================
