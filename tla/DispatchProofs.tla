--------------------------- MODULE DispatchProofs ---------------------------
(***************************************************************************)
(* What Dispatch promises of any tree of commands, any flags and any argv. *)
(* The gates are shown of any line at all (Inv); the rest needs that the   *)
(* line is what the parse makes of argv at each stage (LineInv), and what  *)
(* a parse is, from InvocationProofs.                                      *)
(***************************************************************************)
EXTENDS Dispatch, InvocationProofs

(* The gates a line has passed when it reaches a stage.                    *)
Unrouted == {"route", "resolve", "flags", "extra", "dry", "handler"}
Routed == Unrouted \ {"route"}

FlagsSpelled == \A flag \in Booleans : ~NotABoolean(line, flag)
NotTheFrameworks == ~HelpWanted /\ ~VersionWanted /\ ~Alias("help") /\ ~Alias("version")
ArgumentsFit == ~(Bounded(Path) /\ Len(Remaining) > Leaf.arity)
DryRunKept == cli.reserved /\ On(line, DryRun) => \E command \in Along(tree, Path) : command.dry

Passed ==
  /\ stage \in Unrouted => FlagsSpelled
  /\ stage \in Routed => claim = NoClaim /\ NotTheFrameworks
  /\ stage \in {"extra", "dry", "handler"} => ~UndeclaredFlags(Path)
  /\ stage \in {"dry", "handler"} => ArgumentsFit
  /\ stage = "handler" => DryRunKept
  /\ stage \in {"undeclared", "declared", "undelivered"} => claim # NoClaim

(* Nothing ran, and nothing was answered, before the line is answered.     *)
Fresh == stage # "answered" => ran = NothingRan /\ answer = NotAnswered

Inv == TypeOK /\ Fresh /\ Passed /\ EveryGateHeld /\ StreamRefusalsAreNdjson

LEMMA InitInv == Init => Inv
BY DEF Init, Called, Inv, TypeOK, Fresh, Passed, EveryGateHeld, StreamRefusalsAreNdjson, Stages,
       Codes, NotAnswered, NothingRan, Handled, Unrouted, Routed, None

(* What is read of the line is the same until the line is parsed again.    *)
LEMMA SameLine ==
  ASSUME UNCHANGED <<input, line, claim>>
  PROVE  /\ Path' = Path /\ Remaining' = Remaining /\ Streams' = Streams
         /\ FlagsSpelled' = FlagsSpelled /\ NotTheFrameworks' = NotTheFrameworks
         /\ UndeclaredFlags(Path)' = UndeclaredFlags(Path) /\ ArgumentsFit' = ArgumentsFit
         /\ DryRunKept' = DryRunKept /\ (claim = NoClaim)' = (claim = NoClaim)
<1> USE DEF input, tree, Path, Leaf
<1>1. Path' = Path /\ Remaining' = Remaining /\ Streams' = Streams
  BY DEF Remaining, Streams
<1>2. FlagsSpelled' = FlagsSpelled
  BY DEF FlagsSpelled, Booleans
<1>3. NotTheFrameworks' = NotTheFrameworks
  BY DEF NotTheFrameworks, HelpWanted, VersionWanted, Alias
<1>4. UndeclaredFlags(Path)' = UndeclaredFlags(Path)
  BY DEF UndeclaredFlags, SchemaChecked, UnknownFlags, Declared
<1>5. ArgumentsFit' = ArgumentsFit
  BY DEF ArgumentsFit, Bounded, Remaining
<1>6. DryRunKept' = DryRunKept
  BY DEF DryRunKept
<1> QED BY <1>1, <1>2, <1>3, <1>4, <1>5, <1>6

(* A step that answers without a handler.                                  *)
LEMMA Answers ==
  ASSUME Inv, stage # "answered", NEW code \in Codes \ {None}, NEW ndjson \in BOOLEAN,
         AnswerAs(code, ndjson), ndjson => Streams,
         /\ code \in {"INVALID_FLAG", "UNKNOWN_FLAG", "EXTRA_ARG", "DRY_RUN_UNSUPPORTED", "handled"}
         /\ claim = NoClaim /\ NotTheFrameworks /\ Streams
         => ndjson
  PROVE  Inv'
<1>1. UNCHANGED <<input, line, claim, ran>> /\ stage' = "answered"
      /\ answer' = [code |-> code, ndjson |-> ndjson]
  BY DEF AnswerAs
<1>2. Streams' = Streams /\ NotTheFrameworks' = NotTheFrameworks
  BY <1>1, SameLine
<1>3. TypeOK' /\ Fresh' /\ Passed'
  BY <1>1 DEF Inv, TypeOK, Fresh, Passed, Stages, Unrouted, Routed, input
<1>4. EveryGateHeld'
  BY <1>1 DEF Inv, Fresh, EveryGateHeld, Handled, NothingRan, None
<1>5. StreamRefusalsAreNdjson'
  BY <1>1, <1>2 DEF StreamRefusalsAreNdjson, NotTheFrameworks
<1> QED BY <1>3, <1>4, <1>5 DEF Inv

(* A step to another stage, which passes what that stage asks.             *)
LEMMA Passes ==
  ASSUME Inv, stage # "answered", NEW next \in Stages \ {"answered"}, Reaches(next), Passed'
  PROVE  Inv'
<1>1. stage' = next /\ UNCHANGED <<input, answer, ran>>
  BY DEF Reaches
<1>2. TypeOK' /\ Fresh'
  BY <1>1 DEF Inv, TypeOK, Fresh, NotAnswered, input
<1>3. ran' = NothingRan /\ answer' = NotAnswered
  BY <1>1 DEF Inv, Fresh
<1> QED BY <1>2, <1>3 DEF Inv, EveryGateHeld, StreamRefusalsAreNdjson, Handled, NothingRan,
           NotAnswered, None

(* Streams is a condition: the form of an answer. *)
LEMMA StreamsBoolean == Streams \in BOOLEAN
BY DEF Streams

(* A gate that refuses.                                                    *)
LEMMA Refuses ==
  ASSUME Inv, stage # "answered",
         NEW code \in {"INVALID_FLAG", "UNKNOWN_FLAG", "EXTRA_ARG", "DRY_RUN_UNSUPPORTED"},
         AnswerAs(code, Streams)
  PROVE  Inv'
BY Answers, StreamsBoolean DEF Codes, None

LEMMA ClaimsPass ==
  ASSUME Inv, stage = "parse", NEW found, found # NoClaim, RawClaim(found)
  PROVE  Inv'
<1>2. CASE Answer("PARSE_ERROR")
  BY <1>2, Answers DEF Answer, Codes, None
<1>3. CASE claim' = found /\ Reaches("bools")
  <2>1. Passed'
    BY <1>3 DEF Reaches, Passed, Unrouted, Routed
  <2> QED BY <1>3, <2>1, Passes DEF Stages
<1> QED BY <1>2, <1>3 DEF RawClaim

LEMMA EarlyStages ==
  ASSUME Inv, BadClock \/ NonUtf8Argument \/ GoodClock \/ ClaimLead \/ NoLead \/ ParseLine
  PROVE  Inv'
<1>1. CASE BadClock
  BY <1>1, Answers DEF BadClock, Answer, Codes, None
<1>2. CASE NonUtf8Argument
  BY <1>2, Answers DEF NonUtf8Argument, Answer, Codes, None
<1>3. ASSUME NEW next \in {"lead", "parse", "raw", "bools"}, stage # "answered", Reaches(next)
      PROVE  Inv'
  <2>1. Passed'
    BY <1>3 DEF Reaches, Passed, Unrouted, Routed
  <2> QED BY <1>3, <2>1, Passes DEF Stages
<1>4. CASE GoodClock \/ ClaimLead \/ NoLead
  BY <1>3, <1>4 DEF GoodClock, ClaimLead, NoLead
<1>5. CASE ParseLine
  <2>1. CASE FindRaw # NoClaim /\ RawClaim(FindRaw)
    BY <1>5, <2>1, ClaimsPass DEF ParseLine
  <2>2. CASE Answer("PARSE_ERROR")
    BY <1>5, <2>2, Answers DEF ParseLine, Answer, Codes, None
  <2>3. ASSUME NEW parsed, RawOnPath(parsed) # NoClaim, RawClaim(RawOnPath(parsed)) PROVE Inv'
    BY <1>5, <2>3, ClaimsPass DEF ParseLine
  <2>4. CASE Reaches("bools")
    BY <1>3, <1>5, <2>4 DEF ParseLine
  <2> QED BY <1>5, <2>1, <2>2, <2>3, <2>4 DEF ParseLine
<1> QED BY <1>1, <1>2, <1>4, <1>5

LEMMA RouteCodes ==
  ASSUME NEW words
  PROVE  /\ RootCode \in Codes \ {None}
         /\ TreeCode(words) \in Codes \ {None}
         /\ HelpCode(words) \in Codes \ {None}
BY DEF RootCode, TreeCode, HelpCode, Codes, None

LEMMA VersionCodes == VersionCode \in Codes \ {None} /\ VersionAliasCode \in Codes \ {None}
BY DEF VersionCode, VersionAliasCode, Codes, None

LEMMA RouteInv ==
  ASSUME Inv, FrameworkRoute
  PROVE  Inv'
<1>1. stage = "route"
  BY DEF FrameworkRoute
<1>2. ASSUME NEW code \in Codes \ {None}, Answer(code), ~NotTheFrameworks PROVE Inv'
  BY <1>1, <1>2, Answers DEF Answer
<1>3. CASE HelpWanted /\ Answer(HelpCode(line.positionals))
  BY <1>2, <1>3, RouteCodes DEF NotTheFrameworks
<1>4. CASE Alias("help") /\ Answer(HelpCode(Tail(line.positionals)))
  BY <1>2, <1>4, RouteCodes DEF NotTheFrameworks
<1>5. CASE VersionWanted /\ Answer(VersionCode)
  BY <1>2, <1>5, VersionCodes DEF NotTheFrameworks
<1>6. CASE Alias("version") /\ Answer(VersionAliasCode)
  BY <1>2, <1>6, VersionCodes DEF NotTheFrameworks
<1>7. CASE NotTheFrameworks /\ Reaches(IF claim = NoClaim THEN "resolve" ELSE "undeclared")
           /\ UNCHANGED <<line, claim>>
  <2>1. UNCHANGED <<input, line, claim>>
    BY <1>7 DEF Reaches
  <2>2. FlagsSpelled' /\ NotTheFrameworks'
    BY <1>1, <1>7, <2>1, SameLine DEF Inv, Passed, Unrouted
  <2>3. Passed'
    BY <1>7, <2>1, <2>2 DEF Reaches, Passed, Unrouted, Routed
  <2> QED BY <1>1, <1>7, <2>3, Passes DEF Stages
<1> QED BY <1>3, <1>4, <1>5, <1>6, <1>7 DEF FrameworkRoute, NotTheFrameworks

LEMMA EmptyPath == line.positionals = <<>> => Path = <<>>
<1> SUFFICES ASSUME line.positionals = <<>> PROVE Path = <<>>
  OBVIOUS
<1>1. {n \in 0..Len(<<>>) : n = 0 \/ SubSeq(<<>>, 1, n) \in DOMAIN tree} = {0}
  OBVIOUS
<1>2. Longest({0}) = 0
  BY DEF Longest
<1> QED BY <1>1, <1>2 DEF Path, Resolve

LEMMA ResolveInv ==
  ASSUME Inv, ResolveCommand
  PROVE  Inv'
<1>1. stage = "resolve"
  BY DEF ResolveCommand
<1>2. ASSUME NEW code \in Codes \ {None}, Answer(code), ~Streams \/ code = "UNKNOWN_COMMAND"
      PROVE  Inv'
  BY <1>1, <1>2, Answers DEF Answer
<1>3. CASE line.positionals = <<>> /\ Answer(RootCode)
  BY <1>2, <1>3, EmptyPath, RouteCodes DEF Streams
<1>4. CASE Answer("UNKNOWN_COMMAND")
  BY <1>2, <1>4 DEF Codes, None
<1>5. CASE /\ Leaf.handler = None
           /\ Answer(IF Remaining = <<>> THEN TreeCode(Path) ELSE "UNKNOWN_SUBCOMMAND")
  BY <1>2, <1>5, RouteCodes DEF Streams, None, Codes
<1>6. CASE Reaches("flags") /\ UNCHANGED <<line, claim>>
  <2>1. UNCHANGED <<input, line, claim>>
    BY <1>6 DEF Reaches
  <2>2. FlagsSpelled' /\ NotTheFrameworks' /\ (claim = NoClaim)'
    BY <1>1, <2>1, SameLine DEF Inv, Passed, Unrouted, Routed
  <2>3. Passed'
    BY <1>6, <2>2 DEF Reaches, Passed, Unrouted, Routed
  <2> QED BY <1>1, <1>6, <2>3, Passes DEF Stages
<1> QED BY <1>3, <1>4, <1>5, <1>6 DEF ResolveCommand

LEMMA GatesInv ==
  ASSUME Inv, CheckBools \/ RejectUnknownFlags \/ RejectExtraArgs \/ RejectDryRun
  PROVE  Inv'
<1>1. ASSUME UNCHANGED <<input, line, claim>>
      PROVE  /\ FlagsSpelled' = FlagsSpelled /\ NotTheFrameworks' = NotTheFrameworks
             /\ UndeclaredFlags(Path)' = UndeclaredFlags(Path) /\ ArgumentsFit' = ArgumentsFit
             /\ DryRunKept' = DryRunKept /\ (claim = NoClaim)' = (claim = NoClaim)
  BY <1>1, SameLine
<1>2. CASE CheckBools
  <2>1. stage = "bools"
    BY <1>2 DEF CheckBools, Gate
  <2>2. CASE AnswerAs("INVALID_FLAG", Streams)
    BY <2>1, <2>2, Refuses
  <2>3. CASE /\ ~(\E flag \in Booleans : NotABoolean(line, flag))
             /\ Reaches("route") /\ UNCHANGED <<line, claim>>
    <3>1. UNCHANGED <<input, line, claim>>
      BY <2>3 DEF Reaches
    <3>2. Passed'
      BY <1>1, <2>1, <2>3, <3>1 DEF Inv, Reaches, Passed, FlagsSpelled, Unrouted, Routed
    <3> QED BY <2>1, <2>3, <3>2, Passes DEF Stages
  <2> QED BY <1>2, <2>2, <2>3 DEF CheckBools, Gate
<1>3. CASE RejectUnknownFlags
  <2>1. stage = "flags"
    BY <1>3 DEF RejectUnknownFlags, Gate
  <2>2. CASE AnswerAs("UNKNOWN_FLAG", Streams)
    BY <2>1, <2>2, Refuses
  <2>3. CASE ~(UndeclaredFlags(Path)) /\ Reaches("extra") /\ UNCHANGED <<line, claim>>
    <3>1. UNCHANGED <<input, line, claim>>
      BY <2>3 DEF Reaches
    <3>2. Passed'
      BY <1>1, <2>1, <2>3, <3>1 DEF Inv, Reaches, Passed, Unrouted, Routed
    <3> QED BY <2>1, <2>3, <3>2, Passes DEF Stages
  <2> QED BY <1>3, <2>2, <2>3 DEF RejectUnknownFlags, Gate
<1>4. CASE RejectExtraArgs
  <2>1. stage = "extra"
    BY <1>4 DEF RejectExtraArgs, Gate
  <2>2. CASE AnswerAs("EXTRA_ARG", Streams)
    BY <2>1, <2>2, Refuses
  <2>3. CASE /\ ~(Bounded(Path) /\ Len(Remaining) > Leaf.arity)
             /\ Reaches("dry") /\ UNCHANGED <<line, claim>>
    <3>1. UNCHANGED <<input, line, claim>>
      BY <2>3 DEF Reaches
    <3>2. Passed'
      BY <1>1, <2>1, <2>3, <3>1 DEF Inv, Reaches, Passed, ArgumentsFit, Unrouted, Routed
    <3> QED BY <2>1, <2>3, <3>2, Passes DEF Stages
  <2> QED BY <1>4, <2>2, <2>3 DEF RejectExtraArgs, Gate
<1>5. CASE RejectDryRun
  <2>1. stage = "dry"
    BY <1>5 DEF RejectDryRun, Gate
  <2>2. CASE AnswerAs("DRY_RUN_UNSUPPORTED", Streams)
    BY <2>1, <2>2, Refuses
  <2>3. CASE /\ ~(/\ cli.reserved /\ On(line, DryRun)
                   /\ \A command \in Along(tree, Path) : ~command.dry)
             /\ Reaches("handler") /\ UNCHANGED <<line, claim>>
    <3>1. UNCHANGED <<input, line, claim>>
      BY <2>3 DEF Reaches
    <3>2. Passed'
      BY <1>1, <2>1, <2>3, <3>1 DEF Inv, Reaches, Passed, DryRunKept, Unrouted, Routed
    <3> QED BY <2>1, <2>3, <3>2, Passes DEF Stages
  <2> QED BY <1>5, <2>2, <2>3 DEF RejectDryRun, Gate
<1> QED BY <1>2, <1>3, <1>4, <1>5

LEMMA PrefixInv ==
  ASSUME Inv, RejectPrefixUnknown \/ RejectPrefixDeclared \/ RejectPrefixReserved
  PROVE  Inv'
<1>1. stage \in {"undeclared", "declared", "undelivered"} /\ claim # NoClaim
  BY DEF RejectPrefixUnknown, RejectPrefixDeclared, RejectPrefixReserved, Gate, Inv, Passed
<1>2. ASSUME NEW next \in {"declared", "undelivered", "raw"}, Reaches(next),
             UNCHANGED <<line, claim>>
      PROVE  Inv'
  <2>1. Passed'
    BY <1>1, <1>2 DEF Reaches, Passed, Unrouted, Routed
  <2> QED BY <1>1, <1>2, <2>1, Passes DEF Stages
<1>3. ASSUME NEW code \in Codes \ {None}, AnswerAs(code, FALSE) PROVE Inv'
  BY <1>1, <1>3, Answers
<1>4. \/ \E code \in Codes \ {None} : AnswerAs(code, FALSE)
      \/ \E next \in {"declared", "undelivered", "raw"} : Reaches(next) /\ UNCHANGED <<line, claim>>
  BY DEF RejectPrefixUnknown, RejectPrefixDeclared, RejectPrefixReserved, Gate, Answer, Codes, None
<1> QED BY <1>2, <1>3, <1>4

LEMMA LastInv ==
  ASSUME Inv, AnswerItself \/ RunHandler \/ RunRaw
  PROVE  Inv'
<1>1. CASE AnswerItself
  <2>1. ~Streams /\ stage = "handler"
    BY <1>1 DEF AnswerItself, Streams, None
  <2> QED BY <1>1, <2>1, Answers DEF AnswerItself, Answer, Codes, None
<1>2. ASSUME NEW code \in {"handled", "exited"}, NEW ndjson \in BOOLEAN,
             answer' = [code |-> code, ndjson |-> ndjson], stage' = "answered",
             UNCHANGED <<input, line, claim>>
      PROVE  TypeOK' /\ Fresh' /\ Passed'
  BY <1>2 DEF Inv, TypeOK, Fresh, Passed, Stages, Codes, None, Unrouted, Routed, input
<1>3. CASE RunHandler
  <2>1. stage = "handler" /\ UNCHANGED <<input, line, claim>>
    BY <1>3 DEF RunHandler
  <2>2. TypeOK' /\ Fresh' /\ Passed'
    BY <1>2, <1>3, StreamsBoolean DEF RunHandler
  <2>3. /\ claim = NoClaim /\ NotTheFrameworks /\ FlagsSpelled /\ ~UndeclaredFlags(Path)
        /\ ArgumentsFit /\ DryRunKept
    BY <2>1 DEF Inv, Passed, Unrouted, Routed
  <2>4. /\ claim' = NoClaim /\ NotTheFrameworks' /\ FlagsSpelled' /\ ~UndeclaredFlags(Path)'
        /\ ArgumentsFit' /\ DryRunKept' /\ Path' = Path /\ Remaining' = Remaining
        /\ Streams' = Streams
    BY <2>1, <2>3, SameLine
  <2>5. ran'.path = Path' /\ ran'.rest = Remaining'
    BY <1>3, <2>4 DEF RunHandler
  <2>6. EveryGateHeld'
    BY <2>4, <2>5 DEF EveryGateHeld, NotTheFrameworks, FlagsSpelled, ArgumentsFit, DryRunKept
  <2>7. StreamRefusalsAreNdjson'
    BY <1>3, <2>4 DEF RunHandler, StreamRefusalsAreNdjson
  <2> QED BY <2>2, <2>6, <2>7 DEF Inv
<1>4. CASE RunRaw
  <2>1. TypeOK' /\ Fresh' /\ Passed'
    BY <1>2, <1>4 DEF RunRaw
  <2>2. EveryGateHeld' /\ StreamRefusalsAreNdjson'
    BY <1>4 DEF RunRaw, EveryGateHeld, StreamRefusalsAreNdjson, Handled
  <2> QED BY <2>1, <2>2 DEF Inv
<1> QED BY <1>1, <1>3, <1>4

LEMMA Stutters ==
  ASSUME Inv, UNCHANGED vars
  PROVE  Inv'
<1>1. UNCHANGED <<input, line, claim, stage, answer, ran>>
  BY DEF vars, input
<1>2. /\ Path' = Path /\ Remaining' = Remaining /\ Streams' = Streams
      /\ FlagsSpelled' = FlagsSpelled /\ NotTheFrameworks' = NotTheFrameworks
      /\ UndeclaredFlags(Path)' = UndeclaredFlags(Path) /\ ArgumentsFit' = ArgumentsFit
      /\ DryRunKept' = DryRunKept /\ (claim = NoClaim)' = (claim = NoClaim)
  BY <1>1, SameLine
<1>3. TypeOK' /\ Fresh' /\ Passed'
  BY <1>1, <1>2 DEF Inv, TypeOK, Fresh, Passed, input
<1>4. StreamRefusalsAreNdjson'
  BY <1>1, <1>2 DEF Inv, StreamRefusalsAreNdjson, NotTheFrameworks
<1>5. EveryGateHeld'
  BY <1>1, <1>2 DEF Inv, EveryGateHeld, Handled, NotTheFrameworks, FlagsSpelled, ArgumentsFit,
       DryRunKept
<1> QED BY <1>3, <1>4, <1>5 DEF Inv

LEMMA Invariant == Spec => []Inv
<1>1. Inv /\ [Next]_vars => Inv'
  BY EarlyStages, RouteInv, ResolveInv, GatesInv, PrefixInv, LastInv, Stutters DEF Next, Done
<1> QED BY InitInv, <1>1, PTL DEF Spec

(* Every state of every run of dispatch is well typed: one answer, given   *)
(* when the line is answered and not before.                               *)
THEOREM TypeCorrect == Spec => []TypeOK
<1> QED BY Invariant, PTL DEF Inv

(* No line slips past a gate: a handler that ran was given the path and    *)
(* the arguments all gates judged, and every one of them let it pass       *)
(* (AgentCli::dispatch, from the parse to run_handler).                    *)
THEOREM NoGateIsSkipped == Spec => []EveryGateHeld
<1> QED BY Invariant, PTL DEF Inv

(* A line that names a streaming command, and asks for no help and no      *)
(* version, is refused in NDJSON at every gate, and nothing else is        *)
(* (dispatch: "A streaming command answers in NDJSON").                    *)
THEOREM StreamsRefuseInNdjson == Spec => []StreamRefusalsAreNdjson
<1> QED BY Invariant, PTL DEF Inv
-----------------------------------------------------------------------------
(* What has been read of argv when a line reaches a stage.                 *)
Beheaded == {"undeclared", "declared", "undelivered"}
Walked == {"flags", "extra", "dry", "handler"}
Gates == {"bools"} \cup Unrouted \cup Beheaded

InputsHold == IsTree(tree) /\ cli.reserved \in BOOLEAN /\ args \in Seq(DOMAIN Shape)

Whole == Parse(tree, LineBools, args)

WholeRead == line = Whole /\ line.error = None /\ RawOnPath(line) = NoClaim

(* The raw command that claims a line no raw command leads.                *)
RawFound == IF Whole.error # None THEN FindRaw ELSE RawOnPath(Whole)

PrefixRead ==
  /\ claim = RawFound /\ line.error = None
  /\ line = Parse(tree, LineBools, SubSeq(args, 1, claim.start - 1))

(* No reserved flag but --json is left in a prefix that names a command.   *)
PrefixHeld ==
  cli.reserved /\ Path # <<>> => DOMAIN line.flags \cap Reserved \subseteq {Json}

RawReady ==
  /\ claim # NoClaim
  /\ \/ claim = RawFrom(1)
     \/ RawFrom(1) = NoClaim /\ PrefixRead /\ NotTheFrameworks /\ PrefixHeld

RawRun == [handler |-> "raw", path |-> claim.path, rest |-> SubSeq(args, claim.start, Len(args))]
OwnRun == [handler |-> Leaf.handler, path |-> Path, rest |-> Remaining]

LeadRan == RawFrom(1) # NoClaim => ran = RawRun /\ claim = RawFrom(1)

RightRan ==
  \/ ran = NothingRan
  \/ claim = NoClaim /\ WholeRead /\ NotTheFrameworks /\ Path # <<>> /\ ran = OwnRun
  \/ ran = RawRun /\ RawReady

LineInv ==
  /\ InputsHold
  /\ stage \in {"clock", "lead", "parse"} => claim = NoClaim
  /\ stage \in Gates \cup {"parse"} => RawFrom(1) = NoClaim
  /\ stage \in Gates => (claim = NoClaim /\ WholeRead) \/ (claim # NoClaim /\ PrefixRead)
  /\ stage \in Beheaded => NotTheFrameworks
  /\ stage \in Walked => Path # <<>>
  /\ stage = "raw" => RawReady
  /\ stage = "answered" /\ sound.clock /\ sound.utf8 => LeadRan
  /\ RightRan

LEMMA InitLine == Init => LineInv
BY InputsAssumption DEF Init, Called, LineInv, InputsHold, tree, Gates, Unrouted, Beheaded, Walked,
   RightRan

LEMMA SameArgv ==
  ASSUME UNCHANGED input
  PROVE  /\ InputsHold' = InputsHold /\ RawFrom(1)' = RawFrom(1) /\ LineBools' = LineBools
         /\ Whole' = Whole /\ RawFound' = RawFound
<1> USE DEF input, tree
<1>1. InputsHold' = InputsHold /\ RawFrom(1)' = RawFrom(1)
  BY DEF InputsHold, RawFrom
<1>2. LineBools' = LineBools
  BY DEF LineBools, PathBools, PreliminaryPath, UnionBools
<1>3. Whole' = Whole
  BY <1>2 DEF Whole
<1>4. FindRaw' = FindRaw /\ RawOnPath(Whole)' = RawOnPath(Whole)
  BY <1>3 DEF FindRaw, RawFrom, RawOnPath
<1> QED BY <1>1, <1>2, <1>3, <1>4 DEF RawFound

(* What was read of argv stays so until it is read again.                  *)
LEMMA SameRead ==
  ASSUME UNCHANGED <<input, line, claim>>
  PROVE  /\ InputsHold' = InputsHold /\ RawFrom(1)' = RawFrom(1)
         /\ WholeRead' = WholeRead /\ PrefixRead' = PrefixRead /\ RawReady' = RawReady
         /\ RawRun' = RawRun /\ OwnRun' = OwnRun
<1>1. /\ InputsHold' = InputsHold /\ RawFrom(1)' = RawFrom(1) /\ LineBools' = LineBools
      /\ Whole' = Whole /\ RawFound' = RawFound /\ UNCHANGED <<cli, args>>
  BY SameArgv DEF input
<1>2. Path' = Path /\ Remaining' = Remaining /\ NotTheFrameworks' = NotTheFrameworks
  BY SameLine
<1>3. WholeRead' = WholeRead
  BY <1>1 DEF WholeRead, RawOnPath, tree
<1>4. PrefixRead' = PrefixRead
  BY <1>1 DEF PrefixRead, tree
<1>5. RawReady' = RawReady
  BY <1>1, <1>2, <1>4 DEF RawReady, PrefixHeld
<1>6. RawRun' = RawRun /\ OwnRun' = OwnRun
  BY <1>1, <1>2 DEF RawRun, OwnRun, Leaf, tree
<1> QED BY <1>1, <1>3, <1>4, <1>5, <1>6

(* A refusal: nothing ran.                                                 *)
LEMMA RefusalsKeepLine ==
  ASSUME Inv, LineInv, stage # "answered", UNCHANGED <<input, line, claim, ran>>, stage' = "answered",
         RawFrom(1) = NoClaim \/ ~sound.clock \/ ~sound.utf8
  PROVE  LineInv'
<1>1. InputsHold' /\ RawFrom(1)' = RawFrom(1)
  BY SameRead DEF LineInv
<1>2. ran' = NothingRan
  BY DEF Inv, Fresh
<1>3. (stage = "answered" /\ sound.clock /\ sound.utf8 => LeadRan)'
  BY <1>1 DEF LeadRan, input
<1>4. RightRan'
  BY <1>2 DEF RightRan
<1> QED BY <1>1, <1>3, <1>4 DEF LineInv, Gates, Unrouted, Beheaded, Walked

(* A line that is let through a gate.                                      *)
LEMMA PassesKeepLine ==
  ASSUME Inv, LineInv, stage \in Gates, UNCHANGED <<input, line, claim, ran>>,
         NEW next \in Gates \cup {"raw"}, stage' = next,
         next \in Beheaded \cup {"raw"} => claim # NoClaim /\ NotTheFrameworks,
         next = "raw" => PrefixHeld,
         next \in Walked => Path # <<>>
  PROVE  LineInv'
<1>1. /\ InputsHold' /\ RawFrom(1)' = RawFrom(1) /\ WholeRead' = WholeRead
      /\ PrefixRead' = PrefixRead /\ RawReady' = RawReady
  BY SameRead DEF LineInv
<1>2. Path' = Path /\ NotTheFrameworks' = NotTheFrameworks
  BY SameLine
<1>3. RawFrom(1) = NoClaim
  BY DEF LineInv
<1>4. (claim = NoClaim /\ WholeRead) \/ (claim # NoClaim /\ PrefixRead)
  BY DEF LineInv
<1>5. stage # "answered"
  BY DEF Gates, Unrouted, Beheaded
<1>6. RightRan'
  BY <1>5 DEF Inv, Fresh, RightRan
<1>7. (stage = "raw" => RawReady)'
  BY <1>1, <1>3, <1>4 DEF RawReady
<1>8. (stage \in Gates => (claim = NoClaim /\ WholeRead) \/ (claim # NoClaim /\ PrefixRead))'
  BY <1>1, <1>4
<1>9. (stage \in Beheaded => NotTheFrameworks)' /\ (stage \in Walked => Path # <<>>)'
  BY <1>2
<1>10. (stage \in Gates \cup {"parse"} => RawFrom(1) = NoClaim)' /\ stage' # "answered"
      /\ stage' \notin {"clock", "lead", "parse"}
  BY <1>1, <1>3 DEF Gates, Unrouted, Beheaded
<1> QED BY <1>1, <1>6, <1>7, <1>8, <1>9, <1>10 DEF LineInv

LEMMA GateKeepsLine ==
  ASSUME Inv, LineInv, NEW at \in Gates, NEW refused, NEW code, NEW ndjson,
         NEW next \in Gates, Gate(at, refused, code, ndjson, next),
         next \in Beheaded => claim # NoClaim /\ NotTheFrameworks,
         next \in Walked => Path # <<>>
  PROVE  LineInv'
<1>1. stage \in Gates /\ stage # "answered"
  BY DEF Gate, Gates, Unrouted, Beheaded
<1>2. RawFrom(1) = NoClaim
  BY <1>1 DEF LineInv
<1>3. CASE AnswerAs(code, ndjson)
  BY <1>1, <1>2, <1>3, RefusalsKeepLine DEF AnswerAs
<1>4. CASE Reaches(next) /\ UNCHANGED <<line, claim>>
  <2>1. next # "raw" /\ next \in Gates \cup {"raw"}
    BY DEF Gates, Unrouted, Beheaded
  <2>2. next \in Beheaded \cup {"raw"} => claim # NoClaim /\ NotTheFrameworks
    BY <2>1
  <2>3. UNCHANGED <<input, line, claim, ran>> /\ stage' = next
    BY <1>4 DEF Reaches
  <2> QED BY <1>1, <2>1, <2>2, <2>3, PassesKeepLine
<1> QED BY <1>3, <1>4 DEF Gate

LEMMA GatesKeepLine ==
  ASSUME Inv, LineInv,
         \/ CheckBools \/ RejectUnknownFlags \/ RejectExtraArgs \/ RejectDryRun
         \/ RejectPrefixUnknown \/ RejectPrefixDeclared
  PROVE  LineInv'
<1> USE DEF Gates, Unrouted, Beheaded, Walked
<1>1. CASE CheckBools
  BY <1>1, GateKeepsLine DEF CheckBools
<1>2. ASSUME stage \in Walked PROVE Path # <<>>
  BY <1>2 DEF LineInv
<1>3. CASE RejectUnknownFlags
  BY <1>2, <1>3, GateKeepsLine DEF RejectUnknownFlags, Gate
<1>4. CASE RejectExtraArgs
  BY <1>2, <1>4, GateKeepsLine DEF RejectExtraArgs, Gate
<1>5. CASE RejectDryRun
  BY <1>2, <1>5, GateKeepsLine DEF RejectDryRun, Gate
<1>6. ASSUME stage \in Beheaded PROVE claim # NoClaim /\ NotTheFrameworks
  BY <1>6 DEF Inv, Passed, LineInv
<1>7. CASE RejectPrefixUnknown
  <2>1. stage = "undeclared"
    BY <1>7 DEF RejectPrefixUnknown, Gate
  <2>2. claim # NoClaim /\ NotTheFrameworks
    BY <1>6, <2>1
  <2>3. "undeclared" \in Gates /\ "declared" \in Gates /\ "declared" \notin Walked
    OBVIOUS
  <2> HIDE DEF Gates, Unrouted, Beheaded, Walked
  <2> QED BY <1>7, <2>2, <2>3, GateKeepsLine DEF RejectPrefixUnknown
<1>8. CASE RejectPrefixDeclared
  <2>1. stage = "declared"
    BY <1>8 DEF RejectPrefixDeclared, Gate
  <2>2. claim # NoClaim /\ NotTheFrameworks
    BY <1>6, <2>1
  <2>3. "declared" \in Gates /\ "undelivered" \in Gates /\ "undelivered" \notin Walked
    OBVIOUS
  <2> HIDE DEF Gates, Unrouted, Beheaded, Walked
  <2> QED BY <1>8, <2>2, <2>3, GateKeepsLine DEF RejectPrefixDeclared
<1> QED BY <1>1, <1>3, <1>4, <1>5, <1>7, <1>8

LEMMA RoutesKeepLine ==
  ASSUME Inv, LineInv, FrameworkRoute \/ ResolveCommand \/ RejectPrefixReserved \/ AnswerItself
  PROVE  LineInv'
<1>1. stage \in Gates /\ stage # "answered" /\ RawFrom(1) = NoClaim
  BY DEF FrameworkRoute, ResolveCommand, RejectPrefixReserved, AnswerItself, LineInv, Gates,
         Unrouted, Beheaded
<1>2. ASSUME NEW code, Answer(code) PROVE LineInv'
  BY <1>1, <1>2, RefusalsKeepLine DEF Answer, AnswerAs
<1>3. CASE FrameworkRoute
  <2>1. CASE /\ NotTheFrameworks /\ Reaches(IF claim = NoClaim THEN "resolve" ELSE "undeclared")
             /\ UNCHANGED <<line, claim>>
    BY <1>1, <2>1, PassesKeepLine DEF Reaches, Gates, Unrouted, Beheaded, Walked
  <2>2. (\E code : Answer(code)) \/ NotTheFrameworks
    BY <1>3 DEF FrameworkRoute, NotTheFrameworks
  <2> QED BY <1>2, <1>3, <2>1, <2>2 DEF FrameworkRoute, NotTheFrameworks
<1>4. CASE ResolveCommand
  <2>1. CASE Path # <<>> /\ Reaches("flags") /\ UNCHANGED <<line, claim>>
    BY <1>1, <2>1, PassesKeepLine DEF Reaches, Gates, Unrouted, Beheaded, Walked
  <2> QED BY <1>2, <1>4, <2>1 DEF ResolveCommand
<1>5. CASE RejectPrefixReserved
  <2>1. stage \in Beheaded /\ claim # NoClaim /\ NotTheFrameworks
    BY <1>5 DEF RejectPrefixReserved, Beheaded, Inv, Passed, LineInv
  <2>2. CASE PrefixHeld /\ Reaches("raw") /\ UNCHANGED <<line, claim>>
    BY <1>1, <2>1, <2>2, PassesKeepLine DEF Reaches, Walked
  <2>3. (\E code : Answer(code)) \/ (PrefixHeld /\ Reaches("raw") /\ UNCHANGED <<line, claim>>)
    BY <1>5 DEF RejectPrefixReserved, PrefixHeld
  <2> QED BY <1>2, <2>2, <2>3
<1>6. CASE AnswerItself
  BY <1>2, <1>6 DEF AnswerItself
<1> QED BY <1>3, <1>4, <1>5, <1>6

LEMMA EarlyKeepLine ==
  ASSUME Inv, LineInv, BadClock \/ NonUtf8Argument \/ GoodClock \/ ClaimLead \/ NoLead
  PROVE  LineInv'
<1>1. CASE BadClock
  BY <1>1, RefusalsKeepLine DEF BadClock, Answer, AnswerAs
<1>2. CASE NonUtf8Argument
  BY <1>2, RefusalsKeepLine DEF NonUtf8Argument, Answer, AnswerAs
<1>3. CASE GoodClock \/ ClaimLead \/ NoLead
  <2>1. UNCHANGED input /\ ran' = NothingRan
    BY <1>3 DEF GoodClock, ClaimLead, NoLead, Reaches, Inv, Fresh
  <2>2. InputsHold' /\ RawFrom(1)' = RawFrom(1)
    BY <2>1, SameArgv DEF LineInv
  <2>3. RightRan'
    BY <2>1 DEF RightRan
  <2>4. CASE stage' = "lead" /\ claim' = NoClaim
    BY <2>2, <2>3, <2>4 DEF LineInv, Gates, Unrouted, Beheaded, Walked
  <2>5. CASE stage' = "parse" /\ RawFrom(1) = NoClaim /\ claim' = NoClaim
    BY <2>2, <2>3, <2>5 DEF LineInv, Gates, Unrouted, Beheaded, Walked
  <2>6. CASE stage' = "raw" /\ RawFrom(1) # NoClaim /\ claim' = RawFrom(1)
    <3>1. RawReady'
      BY <2>2, <2>6 DEF RawReady, NoClaim
    <3> QED BY <2>2, <2>3, <2>6, <3>1 DEF LineInv, Gates, Unrouted, Beheaded, Walked
  <2>7. claim = NoClaim
    BY <1>3 DEF GoodClock, ClaimLead, NoLead, LineInv
  <2> QED BY <1>3, <2>4, <2>5, <2>6, <2>7 DEF GoodClock, ClaimLead, NoLead, Reaches
<1> QED BY <1>1, <1>2, <1>3

LEMMA ParseKeepsLine ==
  ASSUME Inv, LineInv, ParseLine
  PROVE  LineInv'
<1>1. stage = "parse" /\ RawFrom(1) = NoClaim
  BY DEF ParseLine, LineInv
<1>2. CASE Answer("PARSE_ERROR")
  BY <1>1, <1>2, RefusalsKeepLine DEF Answer, AnswerAs
<1>3. ASSUME Reaches("bools"),
             ((claim = NoClaim /\ WholeRead) \/ (claim # NoClaim /\ PrefixRead))'
      PROVE  LineInv'
  <2>1. UNCHANGED input /\ ran' = NothingRan /\ stage' = "bools"
    BY <1>1, <1>3 DEF Reaches, Inv, Fresh
  <2>2. InputsHold' /\ RawFrom(1)' = NoClaim
    BY <1>1, <2>1, SameArgv DEF LineInv
  <2>3. RightRan'
    BY <2>1 DEF RightRan
  <2> QED BY <1>3, <2>1, <2>2, <2>3 DEF LineInv, Beheaded, Walked
<1>4. ASSUME NEW found, found = RawFound, found # NoClaim, RawClaim(found) PROVE LineInv'
  <2>1. CASE /\ Parse(tree, LineBools, SubSeq(args, 1, found.start - 1)).error = None
             /\ line' = Parse(tree, LineBools, SubSeq(args, 1, found.start - 1))
             /\ claim' = found /\ Reaches("bools")
    <3>1. UNCHANGED input
      BY <2>1 DEF Reaches
    <3>2. RawFound' = RawFound /\ LineBools' = LineBools /\ tree' = tree /\ args' = args
      BY <3>1, SameArgv DEF input, tree
    <3>3. PrefixRead' /\ claim' # NoClaim
      BY <1>4, <2>1, <3>2 DEF PrefixRead
    <3> QED BY <1>3, <2>1, <3>3 DEF NoClaim
  <2> QED BY <1>2, <1>4, <2>1 DEF RawClaim
<1>5. CASE /\ Whole.error = None /\ RawOnPath(Whole) = NoClaim /\ line' = Whole
           /\ UNCHANGED claim /\ Reaches("bools")
  <2>1. UNCHANGED input
    BY <1>5 DEF Reaches
  <2>2. Whole' = Whole /\ tree' = tree
    BY <2>1, SameArgv DEF input, tree
  <2>3. WholeRead'
    BY <1>5, <2>2 DEF WholeRead, RawOnPath
  <2>4. claim = NoClaim
    BY <1>1 DEF LineInv
  <2> QED BY <1>3, <1>5, <2>3, <2>4
<1>6. CASE Whole.error # None /\ FindRaw # NoClaim /\ RawClaim(FindRaw)
  BY <1>4, <1>6 DEF RawFound
<1>7. CASE Whole.error = None /\ RawOnPath(Whole) # NoClaim /\ RawClaim(RawOnPath(Whole))
  BY <1>4, <1>7 DEF RawFound
<1> QED BY <1>2, <1>5, <1>6, <1>7 DEF ParseLine, Whole

LEMMA RunsKeepLine ==
  ASSUME Inv, LineInv, RunHandler \/ RunRaw
  PROVE  LineInv'
<1>1. UNCHANGED <<input, line, claim>> /\ stage' = "answered"
  BY DEF RunHandler, RunRaw
<1>2. /\ InputsHold' /\ RawFrom(1)' = RawFrom(1) /\ WholeRead' = WholeRead
      /\ RawReady' = RawReady /\ RawRun' = RawRun /\ OwnRun' = OwnRun
      /\ Path' = Path /\ NotTheFrameworks' = NotTheFrameworks
  BY <1>1, SameRead, SameLine DEF LineInv
<1>3. CASE RunHandler
  <2>1. stage = "handler" /\ ran' = OwnRun
    BY <1>3 DEF RunHandler, OwnRun
  <2>2. /\ claim = NoClaim /\ NotTheFrameworks /\ WholeRead /\ Path # <<>>
        /\ RawFrom(1) = NoClaim
    BY <2>1 DEF Inv, Passed, LineInv, Gates, Unrouted, Routed, Walked
  <2>3. RightRan' /\ LeadRan'
    BY <1>1, <1>2, <2>1, <2>2 DEF RightRan, LeadRan
  <2> QED BY <1>1, <1>2, <2>3 DEF LineInv, Gates, Unrouted, Beheaded, Walked
<1>4. CASE RunRaw
  <2>1. stage = "raw" /\ ran' = RawRun /\ RawReady
    BY <1>4 DEF RunRaw, RawRun, LineInv
  <2>2. RightRan'
    BY <1>2, <2>1 DEF RightRan
  <2>3. LeadRan'
    BY <1>1, <1>2, <2>1 DEF LeadRan, RawReady
  <2> QED BY <1>1, <1>2, <2>2, <2>3 DEF LineInv, Gates, Unrouted, Beheaded, Walked
<1> QED BY <1>3, <1>4

LEMMA StuttersKeepLine ==
  ASSUME LineInv, UNCHANGED vars
  PROVE  LineInv'
<1>1. UNCHANGED <<input, line, claim, stage, ran, sound>>
  BY DEF vars, input
<1>2. /\ InputsHold' = InputsHold /\ RawFrom(1)' = RawFrom(1) /\ WholeRead' = WholeRead
      /\ PrefixRead' = PrefixRead /\ RawReady' = RawReady /\ RawRun' = RawRun
      /\ OwnRun' = OwnRun /\ Path' = Path /\ NotTheFrameworks' = NotTheFrameworks
  BY <1>1, SameRead, SameLine
<1>3. RightRan' = RightRan /\ LeadRan' = LeadRan
  BY <1>1, <1>2 DEF RightRan, LeadRan
<1> QED BY <1>1, <1>2, <1>3 DEF LineInv

(* What was read of argv, at every stage.                                  *)
LEMMA LineInvariant == Spec => [](Inv /\ LineInv)
<1>1. Inv /\ LineInv /\ [Next]_vars => LineInv'
  BY EarlyKeepLine, ParseKeepsLine, GatesKeepLine, RoutesKeepLine, RunsKeepLine, StuttersKeepLine
     DEF Next, Done
<1>2. Inv /\ [Next]_vars => Inv'
  BY EarlyStages, RouteInv, ResolveInv, GatesInv, PrefixInv, LastInv, Stutters DEF Next, Done
<1> QED BY InitInv, InitLine, <1>1, <1>2, PTL DEF Spec
-----------------------------------------------------------------------------
(* A handler that ran was given the line, read whole.                      *)
LEMMA OwnLine ==
  ASSUME LineInv, ran # NothingRan, ran.handler # "raw" \/ claim = NoClaim
  PROVE  /\ ran = OwnRun /\ claim = NoClaim /\ WholeRead /\ NotTheFrameworks /\ Path # <<>>
         /\ Reading(line, LineBools, args, Len(args)) /\ HasRead(line, LineBools, args, Len(args))
         /\ Clean(args, Len(args)) /\ line.pending = None
         /\ FrameworkTokens = Tokens(args, Len(args))
<1>1. ran = OwnRun /\ claim = NoClaim /\ WholeRead /\ NotTheFrameworks /\ Path # <<>>
  BY DEF LineInv, RightRan, RawRun, RawReady
<1>2. line = Parse(tree, LineBools, args) /\ line.error = None /\ args \in Seq(DOMAIN Shape)
  BY <1>1 DEF WholeRead, Whole, LineInv, InputsHold
<1>3. Reading(line, LineBools, args, Len(args)) /\ line.pending = None
  BY <1>2, ParseRead
<1>4. FrameworkTokens = Tokens(args, Len(args))
  BY <1>1, <1>2 DEF FrameworkTokens, Tokens
<1> QED BY <1>1, <1>2, <1>3, <1>4 DEF Reading

(* A raw command named by the words from a token on.                       *)
LEMMA RawFromIs ==
  ASSUME args \in Seq(DOMAIN Shape), NEW n \in 1..Len(args), RawFrom(n) # NoClaim
  PROVE  LET k == RawFrom(n).start - 1 IN
         /\ k \in n..Len(args) /\ RawFrom(n).start = k + 1
         /\ RawFrom(n).path = SubSeq(args, n, k)
         /\ SubSeq(args, n, k) \in DOMAIN tree /\ IsRaw(tree[SubSeq(args, n, k)])
         /\ \A j \in n..(k - 1) :
              ~(SubSeq(args, n, j) \in DOMAIN tree /\ IsRaw(tree[SubSeq(args, n, j)]))
<1> DEFINE named == {j \in n..Len(args) :
                       /\ SubSeq(args, n, j) \in DOMAIN tree
                       /\ IsRaw(tree[SubSeq(args, n, j)])}
           k == First(named)
<1>1. named # {} /\ RawFrom(n) = [start |-> k + 1, path |-> SubSeq(args, n, k)]
  BY DEF RawFrom
<1>2. named \in SUBSET Nat /\ Len(args) \in Nat
  OBVIOUS
<1>3. k \in named /\ \A j \in named : k <= j
  <2> HIDE DEF named
  <2> QED BY <1>1, <1>2, FirstIs
<1>4. /\ k \in n..Len(args) /\ SubSeq(args, n, k) \in DOMAIN tree
      /\ IsRaw(tree[SubSeq(args, n, k)])
  BY <1>3
<1>5. ASSUME NEW j \in n..(k - 1), SubSeq(args, n, j) \in DOMAIN tree,
             IsRaw(tree[SubSeq(args, n, j)])
      PROVE  FALSE
  <2>1. j \in n..Len(args) /\ j < k
    BY <1>2, <1>4
  <2>2. j \in named
    BY <1>5, <2>1
  <2>3. k <= j
    BY <1>3, <2>2
  <2> HIDE DEF k
  <2> QED BY <1>4, <2>1, <2>3
<1> HIDE DEF k, named
<1>6. RawFrom(n).start - 1 = k /\ RawFrom(n).start = k + 1
  BY <1>1, <1>4
<1> QED BY <1>1, <1>4, <1>5, <1>6

(* The lead of a line is a path of the tree: words.                        *)
LEMMA LeadIsWords ==
  ASSUME InputsHold, NEW k \in DOMAIN args, SubSeq(args, 1, k) \in DOMAIN tree
  PROVE  \A i \in 1..k : Shape[args[i]].kind = "word" /\ Names(args[i]) = {}
<1> SUFFICES ASSUME NEW i \in 1..k PROVE Shape[args[i]].kind = "word" /\ Names(args[i]) = {}
  OBVIOUS
<1>1. args \in Seq(DOMAIN Shape) /\ IsTree(tree)
  BY DEF InputsHold
<1>2. DOMAIN SubSeq(args, 1, k) = 1..k /\ SubSeq(args, 1, k)[i] = args[i]
  BY <1>1
<1>3. Shape[SubSeq(args, 1, k)[i]].kind = "word"
  BY <1>1, <1>2 DEF IsTree
<1>4. Shape[args[i]].kind = "word"
  BY <1>2, <1>3
<1> QED BY <1>4 DEF Names

(* The booleans of the framework are booleans on every path.               *)
LEMMA BooleansAlways == Booleans \subseteq LineBools /\ Booleans \subseteq UnionBools
<1> DEFINE F == IF cli.reserved THEN Reserved \ {Select} ELSE {}
           A == UNION {command.bools : command \in Along(tree, PreliminaryPath)}
           B == UNION {tree[path].bools : path \in DOMAIN tree}
<1>1. Booleans = Framework \cup F
  BY DEF Booleans
<1>2. LineBools = A \cup Framework \cup F
  BY DEF LineBools, PathBools
<1>3. UnionBools = B \cup Framework \cup F
  BY DEF UnionBools
<1> HIDE DEF F, A, B
<1> QED BY <1>1, <1>2, <1>3

LEMMA TokensOfPrefix ==
  ASSUME args \in Seq(DOMAIN Shape), NEW m \in 0..Len(args), claim.start = m + 1, claim # NoClaim
  PROVE  /\ Len(SubSeq(args, 1, m)) = m /\ SubSeq(args, 1, m) \in Seq(DOMAIN Shape)
         /\ \A i \in 1..m : SubSeq(args, 1, m)[i] = args[i]
         /\ FrameworkTokens = Tokens(SubSeq(args, 1, m), m)
         /\ FrameworkTokens \subseteq 1..m
<1>1. m \in Nat /\ Len(args) \in Nat
  OBVIOUS
<1>2. /\ Len(SubSeq(args, 1, m)) = m /\ SubSeq(args, 1, m) \in Seq(DOMAIN Shape)
      /\ \A i \in 1..m : SubSeq(args, 1, m)[i] = args[i]
  BY <1>1
<1>3. \A i \in DOMAIN args : i < claim.start <=> i \in 1..m
  BY <1>1
<1>4. \A i \in 1..m : i \in DOMAIN args
  BY <1>1
<1>5. FrameworkTokens = {i \in 1..m : \A j \in 1..(i - 1) : Shape[args[j]].kind # "dashes"}
  BY <1>3, <1>4 DEF FrameworkTokens
<1>6. \A i \in 1..m : \A j \in 1..(i - 1) : j \in 1..m
  BY <1>1
<1> DEFINE q == SubSeq(args, 1, m)
<1> HIDE DEF q
<1>7. \A i \in 1..m : q[i] = args[i]
  BY <1>2 DEF q
<1>8. FrameworkTokens = Tokens(q, m)
  BY <1>5, <1>6, <1>7 DEF Tokens
<1> QED BY <1>2, <1>5, <1>8 DEF q
-----------------------------------------------------------------------------
(* The claim of a raw command.                                             *)

(* A claim: a raw command whose name is the token before its own.          *)
IsClaim(found) ==
  \E m \in 1..Len(args) :
    /\ found.start = m + 1
    /\ found.path \in DOMAIN tree /\ IsRaw(tree[found.path])
    /\ found.path # <<>> /\ found.path[Len(found.path)] = args[m]

LEMMA SubSeqEnd ==
  ASSUME NEW R, NEW s \in Seq(R), NEW n \in 1..Len(s), NEW k \in n..Len(s)
  PROVE  SubSeq(s, n, k) # <<>> /\ SubSeq(s, n, k)[Len(SubSeq(s, n, k))] = s[k]
<1>1. Len(SubSeq(s, n, k)) = k - n + 1
  OBVIOUS
<1>2. \A i \in 1..(k - n + 1) : SubSeq(s, n, k)[i] = s[n + i - 1]
  OBVIOUS
<1>3. k - n + 1 \in 1..(k - n + 1) /\ n + (k - n + 1) - 1 = k
  OBVIOUS
<1>4. SubSeq(s, n, k)[k - n + 1] = s[k]
  BY <1>2, <1>3
<1>5. SubSeq(s, n, k) # <<>>
  BY <1>1
<1> QED BY <1>1, <1>4, <1>5

LEMMA RawFromClaims ==
  ASSUME InputsHold, NEW n \in 1..Len(args), RawFrom(n) # NoClaim
  PROVE  IsClaim(RawFrom(n))
<1> DEFINE k == RawFrom(n).start - 1
<1>1. args \in Seq(DOMAIN Shape) /\ Len(args) \in Nat
  BY DEF InputsHold
<1>2. /\ k \in n..Len(args) /\ RawFrom(n).start = k + 1
      /\ RawFrom(n).path = SubSeq(args, n, k)
      /\ SubSeq(args, n, k) \in DOMAIN tree /\ IsRaw(tree[SubSeq(args, n, k)])
  BY <1>1, RawFromIs
<1> HIDE DEF k
<1>3. k \in 1..Len(args)
  BY <1>1, <1>2
<1>4. /\ SubSeq(args, n, k) # <<>>
      /\ SubSeq(args, n, k)[Len(SubSeq(args, n, k))] = args[k]
  BY <1>1, <1>2, SubSeqEnd
<1> QED BY <1>2, <1>3, <1>4 DEF IsClaim

(* The first raw command on the walk of a line.                            *)
LEMMA RawOnPathIs ==
  ASSUME InputsHold, NEW parsed, WordsRead(parsed, args, Len(args)), RawOnPath(parsed) # NoClaim
  PROVE  \E d \in 1..Len(parsed.indices) :
           /\ RawOnPath(parsed).start = parsed.indices[d] + 1
           /\ d <= Len(Resolve(tree, parsed.positionals))
           /\ RawOnPath(parsed).path = SubSeq(parsed.positionals, 1, d)
           /\ SubSeq(parsed.positionals, 1, d) \in DOMAIN tree
           /\ IsRaw(tree[SubSeq(parsed.positionals, 1, d)])
<1> DEFINE path == Resolve(tree, parsed.positionals)
           depths == {d \in DOMAIN path : IsRaw(tree[SubSeq(path, 1, d)])}
           d == First(depths)
<1>1. IsTree(tree) /\ parsed.positionals \in Seq(DOMAIN Shape)
      /\ Len(parsed.positionals) = Len(parsed.indices)
  BY DEF InputsHold, WordsRead
<1>2. /\ path \in Seq(DOMAIN Shape) /\ Len(path) \in 0..Len(parsed.positionals)
      /\ path = SubSeq(parsed.positionals, 1, Len(path))
      /\ \A k \in 1..Len(parsed.positionals) :
           SubSeq(parsed.positionals, 1, k) \in DOMAIN tree <=> k <= Len(path)
  BY <1>1, ResolveIs
<1>3. depths # {} /\ RawOnPath(parsed) = [start |-> parsed.indices[d] + 1, path |-> SubSeq(path, 1, d)]
  BY DEF RawOnPath
<1> HIDE DEF path
<1>4. depths \in SUBSET Nat
  BY <1>2
<1>5. d \in depths
  <2> HIDE DEF depths
  <2> QED BY <1>3, <1>4, FirstIs
<1>6. d \in 1..Len(path) /\ IsRaw(tree[SubSeq(path, 1, d)])
  BY <1>2, <1>5
<1> HIDE DEF d, depths
<1>7. d \in 1..Len(parsed.positionals) /\ d <= Len(path)
  BY <1>1, <1>2, <1>6
<1>8. SubSeq(path, 1, d) = SubSeq(parsed.positionals, 1, d)
  <2>1. Len(path) \in 0..Len(parsed.positionals) /\ d \in 0..Len(path)
    BY <1>2, <1>6
  <2>2. SubSeq(SubSeq(parsed.positionals, 1, Len(path)), 1, d) = SubSeq(parsed.positionals, 1, d)
    BY <1>1, <2>1, SubSeqOfSubSeq
  <2> QED BY <1>2, <2>2
<1>9. SubSeq(parsed.positionals, 1, d) \in DOMAIN tree
  BY <1>2, <1>7
<1> DEFINE before == parsed.indices[d] + 1
           name == SubSeq(path, 1, d)
<1>10. RawOnPath(parsed).start = before /\ RawOnPath(parsed).path = name
  <2>1. RawOnPath(parsed) = [start |-> before, path |-> name]
    BY <1>3
  <2> HIDE DEF before, name
  <2> QED BY <2>1
<1>11. IsRaw(tree[SubSeq(parsed.positionals, 1, d)])
  BY <1>6, <1>8
<1> QED BY <1>1, <1>7, <1>8, <1>9, <1>10, <1>11 DEF path

LEMMA RawOnPathClaims ==
  ASSUME InputsHold, NEW parsed, WordsRead(parsed, args, Len(args)), RawOnPath(parsed) # NoClaim
  PROVE  IsClaim(RawOnPath(parsed))
<1>1. PICK d \in 1..Len(parsed.indices) :
         /\ RawOnPath(parsed).start = parsed.indices[d] + 1
         /\ RawOnPath(parsed).path = SubSeq(parsed.positionals, 1, d)
         /\ SubSeq(parsed.positionals, 1, d) \in DOMAIN tree
         /\ IsRaw(tree[SubSeq(parsed.positionals, 1, d)])
  BY RawOnPathIs
<1>2. /\ parsed.positionals \in Seq(DOMAIN Shape) /\ Len(parsed.positionals) = Len(parsed.indices)
      /\ parsed.indices[d] \in 1..Len(args) /\ parsed.positionals[d] = args[parsed.indices[d]]
      /\ Len(parsed.indices) \in Nat
  BY DEF WordsRead
<1>3. /\ Len(SubSeq(parsed.positionals, 1, d)) = d /\ SubSeq(parsed.positionals, 1, d) # <<>>
      /\ SubSeq(parsed.positionals, 1, d)[d] = parsed.positionals[d]
  BY <1>2
<1> QED BY <1>1, <1>2, <1>3 DEF IsClaim

LEMMA FindRawIs ==
  ASSUME args \in Seq(DOMAIN Shape), FindRaw # NoClaim
  PROVE  \E n \in 1..Len(args) : FindRaw = RawFrom(n) /\ RawFrom(n) # NoClaim
<1> DEFINE starts == {n \in DOMAIN args : RawFrom(n) # NoClaim}
<1>1. starts # {} /\ FindRaw = RawFrom(First(starts)) /\ starts \in SUBSET Nat
  BY DEF FindRaw
<1>2. First(starts) \in starts
  <2> HIDE DEF starts
  <2> QED BY <1>1, FirstIs
<1>3. First(starts) \in 1..Len(args) /\ RawFrom(First(starts)) # NoClaim
  BY <1>2
<1> QED BY <1>1, <1>3

LEMMA FoundIsClaim ==
  ASSUME InputsHold, RawFound # NoClaim
  PROVE  IsClaim(RawFound)
<1>1. args \in Seq(DOMAIN Shape)
  BY DEF InputsHold
<1>2. CASE Whole.error = None
  <2>1. Reading(Whole, LineBools, args, Len(args))
    BY <1>1, ParseRead DEF Whole
  <2>2. WordsRead(Whole, args, Len(args))
    BY <1>2, <2>1 DEF Reading, HasRead
  <2>3. RawFound = RawOnPath(Whole)
    BY <1>2 DEF RawFound
  <2> QED BY <2>2, <2>3, RawOnPathClaims
<1>3. CASE Whole.error # None
  <2>1. RawFound = FindRaw
    BY <1>3 DEF RawFound
  <2>2. PICK n \in 1..Len(args) : FindRaw = RawFrom(n) /\ RawFrom(n) # NoClaim
    BY <1>1, <2>1, FindRawIs
  <2> QED BY <2>1, <2>2, RawFromClaims
<1> QED BY <1>2, <1>3

(* The line of a claim that no raw command leads: its prefix is read.      *)
LEMMA PrefixLine ==
  ASSUME InputsHold, PrefixRead, claim # NoClaim, NEW m \in 1..Len(args), claim.start = m + 1
  PROVE  /\ Reading(line, LineBools, SubSeq(args, 1, m), m)
         /\ HasRead(line, LineBools, SubSeq(args, 1, m), m) /\ Clean(SubSeq(args, 1, m), m)
         /\ line.pending = None
<1>1. args \in Seq(DOMAIN Shape) /\ m \in 0..Len(args)
  BY DEF InputsHold
<1>2. Len(SubSeq(args, 1, m)) = m /\ SubSeq(args, 1, m) \in Seq(DOMAIN Shape)
  BY <1>1, TokensOfPrefix
<1>3. claim.start - 1 = m
  BY <1>1
<1>4. line = Parse(tree, LineBools, SubSeq(args, 1, m)) /\ line.error = None
  BY <1>3 DEF PrefixRead
<1>5. Reading(line, LineBools, SubSeq(args, 1, m), m) /\ line.pending = None
  BY <1>2, <1>4, ParseRead
<1> QED BY <1>4, <1>5 DEF Reading
-----------------------------------------------------------------------------
(* No help, and no flag twice, on a line that is run.                      *)
LEMMA LeadNeedsTokens ==
  ASSUME InputsHold, RawFrom(1) # NoClaim
  PROVE  1 \in 1..Len(args)
<1>1. Len(args) \in Nat
  BY DEF InputsHold
<1>2. Len(args) # 0
  <2> SUFFICES ASSUME Len(args) = 0 PROVE FALSE
    OBVIOUS
  <2>1. {n \in 1..Len(args) : /\ SubSeq(args, 1, n) \in DOMAIN tree
                              /\ IsRaw(tree[SubSeq(args, 1, n)])} = {}
    OBVIOUS
  <2>2. RawFrom(1) = NoClaim
    BY <2>1 DEF RawFrom
  <2> QED BY <2>2
<1> QED BY <1>1, <1>2

LEMMA HelpInv ==
  ASSUME LineInv
  PROVE  HelpAndRepeatsRunNothing
<1> SUFFICES ASSUME ran # NothingRan, NEW i \in FrameworkTokens, NEW j \in FrameworkTokens
             PROVE  /\ Shape[args[i]].kind # "help"
                    /\ i # j => Names(args[i]) \cap Names(args[j]) = {}
  BY DEF HelpAndRepeatsRunNothing
<1>1. InputsHold /\ args \in Seq(DOMAIN Shape) /\ Len(args) \in Nat
  BY DEF LineInv, InputsHold
<1>2. CASE claim = NoClaim
  <2>1. /\ FrameworkTokens = Tokens(args, Len(args)) /\ Clean(args, Len(args)) /\ NotTheFrameworks
        /\ HasRead(line, LineBools, args, Len(args))
    BY <1>2, OwnLine
  <2>2. ~line.help
    BY <2>1 DEF NotTheFrameworks, HelpWanted
  <2>3. Shape[args[i]].kind # "help"
    BY <2>1, <2>2 DEF HasRead, MarksRead
  <2> QED BY <2>1, <2>3 DEF Clean
<1>3. CASE claim # NoClaim /\ claim = RawFrom(1)
  <2>1. 1 \in 1..Len(args)
    BY <1>1, <1>3, LeadNeedsTokens
  <2>2. PICK m \in 1..Len(args) : claim.start = m + 1 /\ SubSeq(args, 1, m) \in DOMAIN tree
    <3>1. LET k == RawFrom(1).start - 1 IN
          /\ k \in 1..Len(args) /\ RawFrom(1).start = k + 1
          /\ SubSeq(args, 1, k) \in DOMAIN tree
      BY <1>1, <1>3, <2>1, RawFromIs
    <3> QED BY <1>3, <3>1
  <2>3. FrameworkTokens \subseteq 1..m
    <3>1. m \in 0..Len(args)
      BY <1>1
    <3> QED BY <1>1, <1>3, <2>2, <3>1, TokensOfPrefix
  <2>4. m \in DOMAIN args
    BY <1>1
  <2>5. \A k \in 1..m : Shape[args[k]].kind = "word" /\ Names(args[k]) = {}
    BY <1>1, <2>2, <2>4, LeadIsWords
  <2>6. Shape[args[i]].kind = "word" /\ Names(args[i]) = {}
    BY <2>3, <2>5
  <2> QED BY <2>6
<1>4. CASE claim # NoClaim /\ claim # RawFrom(1)
  <2>1. PrefixRead /\ NotTheFrameworks
    BY <1>4 DEF LineInv, RightRan, RawReady
  <2>2. PICK m \in 1..Len(args) : claim.start = m + 1
    BY <1>1, <1>4, <2>1, FoundIsClaim DEF PrefixRead, IsClaim
  <2> DEFINE q == SubSeq(args, 1, m)
  <2>3. HasRead(line, LineBools, q, m) /\ Clean(q, m)
    BY <1>1, <1>4, <2>1, <2>2, PrefixLine
  <2>4. /\ \A k \in 1..m : q[k] = args[k]
        /\ FrameworkTokens = Tokens(q, m) /\ FrameworkTokens \subseteq 1..m
    <3>1. m \in 0..Len(args)
      BY <1>1
    <3> QED BY <1>1, <1>4, <2>2, <3>1, TokensOfPrefix
  <2> HIDE DEF q
  <2>5. ~line.help
    BY <2>1 DEF NotTheFrameworks, HelpWanted
  <2>6. q[i] = args[i] /\ q[j] = args[j] /\ i \in Tokens(q, m) /\ j \in Tokens(q, m)
    BY <2>4
  <2>7. Shape[args[i]].kind # "help"
    BY <2>3, <2>5, <2>6 DEF HasRead, MarksRead
  <2> QED BY <2>3, <2>6, <2>7 DEF Clean
<1> QED BY <1>2, <1>3, <1>4
-----------------------------------------------------------------------------
(* A handler gets every token of its line.                                 *)
LEMMA SplitInTwo ==
  ASSUME NEW R, NEW s \in Seq(R), NEW d \in 0..Len(s)
  PROVE  SubSeq(s, 1, d) \o SubSeq(s, d + 1, Len(s)) = s
<1> DEFINE a == SubSeq(s, 1, d)
           b == SubSeq(s, d + 1, Len(s))
<1>1. /\ a \in Seq(R) /\ b \in Seq(R) /\ Len(s) \in Nat
      /\ Len(a) = d /\ Len(b) = Len(s) - d
      /\ \A i \in 1..d : a[i] = s[i]
  OBVIOUS
<1>2. \A i \in 1..(Len(s) - d) : b[i] = s[d + 1 + i - 1]
  OBVIOUS
<1> HIDE DEF a, b
<1>3. a \o b \in Seq(R) /\ Len(a \o b) = Len(s)
  BY <1>1
<1>4. \A i \in 1..Len(s) : (a \o b)[i] = s[i]
  <2> SUFFICES ASSUME NEW i \in 1..Len(s) PROVE (a \o b)[i] = s[i]
    OBVIOUS
  <2>1. CASE i <= d
    <3>1. i \in 1..d
      BY <1>1, <2>1
    <3>2. (a \o b)[i] = a[i]
      BY <1>1, <3>1
    <3> QED BY <1>1, <3>1, <3>2
  <2>2. CASE i > d
    <3>1. i - d \in 1..(Len(s) - d) /\ d + 1 + (i - d) - 1 = i
      BY <1>1, <2>2
    <3>2. b[i - d] = s[d + 1 + (i - d) - 1]
      BY <1>2, <3>1
    <3>3. (a \o b)[i] = b[i - d]
      BY <1>1, <2>2
    <3> QED BY <3>1, <3>2, <3>3
  <2> QED BY <1>1, <2>1, <2>2
<1>5. a \o b = s
  <2> DEFINE c == a \o b
  <2>1. c \in Seq(R) /\ Len(c) = Len(s) /\ \A i \in 1..Len(s) : c[i] = s[i]
    BY <1>3, <1>4
  <2> HIDE DEF c
  <2>2. c = s
    BY <2>1
  <2> QED BY <2>2 DEF c
<1> QED BY <1>5 DEF a, b

(* The tokens that are words, and the words that are values.               *)
WordTokens ==
  {i \in DOMAIN args : IF i \in FrameworkTokens THEN Shape[args[i]].kind = "word" ELSE TRUE}

ValueTokens ==
  {i \in WordTokens \cap FrameworkTokens :
     /\ i > 1 /\ Shape[args[i - 1]].kind = "flag"
     /\ Shape[args[i - 1]].name \notin line.bare
     /\ line.flags[Shape[args[i - 1]].name] = args[i]}

LEMMA WordsAreWords ==
  ASSUME InputsHold, FrameworkTokens = Tokens(args, Len(args)),
         HasRead(line, LineBools, args, Len(args)), line.pending = None, Clean(args, Len(args))
  PROVE  WordTokens \ ValueTokens = Places(line, Len(args))
<1> DEFINE n == Len(args)
           T == Tokens(args, n)
<1>1. args \in Seq(DOMAIN Shape) /\ n \in Nat /\ DOMAIN args = 1..n
  BY DEF InputsHold
<1>2. T \subseteq 1..n /\ FrameworkTokens = T
  BY DEF Tokens
<1>3. RolesRead(line, args, n) /\ ValuesRead(line, LineBools, args, n) /\ Pending(line) = {}
  BY DEF HasRead, Pending
<1> HIDE DEF n, T
<1>4. ASSUME NEW i \in 1..n, i \notin T
      PROVE  i \in WordTokens /\ i \notin ValueTokens /\ i \in Places(line, n)
  <2>1. line.roles[i] = "positional"
    BY <1>1, <1>3, <1>4 DEF RolesRead, T
  <2> QED BY <1>1, <1>2, <1>4, <2>1 DEF WordTokens, ValueTokens, Places
<1>5. ASSUME NEW i \in T, Shape[args[i]].kind # "word"
      PROVE  i \notin WordTokens /\ i \notin Places(line, n)
  <2>1. i \in 1..n /\ args[i] \in DOMAIN Shape
    BY <1>1, <1>2
  <2>2. Shape[args[i]].kind \in {"flag", "valued", "dashes", "help", "bundle", "invalid"}
    BY <1>5, <2>1, ShapeAssumption
  <2>3. Shape[args[i]].kind # "invalid"
    BY <1>5 DEF Clean, T, n
  <2>4. line.roles[i] # "positional"
    BY <1>1, <1>3, <2>1, <2>2, <2>3 DEF RolesRead, T
  <2> QED BY <1>1, <1>2, <1>5, <2>1, <2>4 DEF WordTokens, Places
<1>6. ASSUME NEW i \in T, Shape[args[i]].kind = "word", line.roles[i] = "value"
      PROVE  i \in WordTokens /\ i \in ValueTokens /\ i \notin Places(line, n)
  <2> DEFINE j == i - 1
  <2>1. i \in 1..n /\ i \in DOMAIN args
    BY <1>1, <1>2
  <2>2. /\ j \in T /\ Shape[args[j]].kind = "flag"
        /\ Shape[args[j]].name \notin line.bare
    BY <1>3, <1>6, <2>1 DEF RolesRead, T
  <2>3. j \in 1..n /\ j + 1 = i /\ i > 1
    BY <1>2, <2>1, <2>2
  <2>4. line.flags[Shape[args[j]].name] = args[j + 1]
    <3> HIDE DEF j
    <3> QED BY <1>3, <2>2 DEF ValuesRead, T
  <2>5. i \in WordTokens
    BY <1>6, <2>1 DEF WordTokens
  <2>6. i \in ValueTokens
    BY <1>2, <2>2, <2>3, <2>4, <2>5 DEF ValueTokens
  <2> QED BY <1>6, <2>5, <2>6 DEF Places
<1>7. ASSUME NEW i \in T, Shape[args[i]].kind = "word", line.roles[i] = "positional"
      PROVE  i \in WordTokens /\ i \notin ValueTokens /\ i \in Places(line, n)
  <2> DEFINE j == i - 1
  <2>1. i \in 1..n /\ i \in DOMAIN args
    BY <1>1, <1>2
  <2>2. ASSUME i > 1, Shape[args[j]].kind = "flag", Shape[args[j]].name \notin line.bare
        PROVE  FALSE
    <3>1. j \in T /\ j + 1 = i
      <4>1. j \in 1..n
        BY <1>1, <2>1, <2>2
      <4>2. \A k \in 1..(j - 1) : k \in 1..(i - 1)
        BY <2>1, <2>2
      <4>3. \A k \in 1..(i - 1) : Shape[args[k]].kind # "dashes"
        BY DEF T, Tokens
      <4> QED BY <2>1, <4>1, <4>2, <4>3 DEF T, Tokens
    <3> HIDE DEF j
    <3>2. line.roles[j + 1] = "value"
      BY <1>3, <2>2, <3>1 DEF ValuesRead, T
    <3> QED BY <1>7, <3>1, <3>2
  <2>3. i \notin ValueTokens
    BY <2>2 DEF ValueTokens
  <2> QED BY <1>7, <2>1, <2>3 DEF WordTokens, Places
<1>8. ASSUME NEW i \in T, Shape[args[i]].kind = "word"
      PROVE  line.roles[i] \in {"value", "positional"}
  BY <1>1, <1>2, <1>3, <1>8 DEF RolesRead, T
<1>9. ASSUME NEW i \in 1..n PROVE i \in WordTokens \ ValueTokens <=> i \in Places(line, n)
  BY <1>4, <1>5, <1>6, <1>7, <1>8
<1>10. WordTokens \subseteq 1..n /\ Places(line, n) \subseteq 1..n
  BY <1>1 DEF WordTokens, Places
<1>11. WordTokens \ ValueTokens = Places(line, n)
  BY <1>9, <1>10
<1> QED BY <1>11 DEF n

LEMMA TokensInv ==
  ASSUME LineInv
  PROVE  TokensDelivered
<1> SUFFICES ASSUME Handled PROVE TokensDelivered
  BY DEF TokensDelivered
<1>1. ran # NothingRan /\ ran.handler # "raw"
  BY DEF Handled, NothingRan, None
<1>2. /\ ran = OwnRun /\ Clean(args, Len(args)) /\ line.pending = None
      /\ HasRead(line, LineBools, args, Len(args)) /\ FrameworkTokens = Tokens(args, Len(args))
  BY <1>1, OwnLine
<1>3. InputsHold /\ args \in Seq(DOMAIN Shape) /\ Len(args) \in Nat /\ IsTree(tree)
  BY DEF LineInv, InputsHold
<1>4. WordsRead(line, args, Len(args)) /\ line.positionals \in Seq(DOMAIN Shape)
  BY <1>2 DEF HasRead, WordsRead
<1> DEFINE given == ran.path \o ran.rest
           W == WordTokens \ ValueTokens
<1>5. given = line.positionals
  <2>1. ran.path = Path /\ ran.rest = Remaining
    BY <1>2 DEF OwnRun
  <2>2. Path = SubSeq(line.positionals, 1, Len(Path)) /\ Len(Path) \in 0..Len(line.positionals)
    BY <1>3, <1>4, ResolveIs DEF Path
  <2>3. SubSeq(line.positionals, 1, Len(Path)) \o
          SubSeq(line.positionals, Len(Path) + 1, Len(line.positionals)) = line.positionals
    BY <1>4, <2>2, SplitInTwo
  <2> QED BY <2>1, <2>2, <2>3 DEF Remaining
<1>6. W = Places(line, Len(args))
  BY <1>2, <1>3, WordsAreWords
<1> HIDE DEF given
<1>7. /\ Cardinality(Places(line, Len(args))) = Len(line.positionals)
      /\ \A i \in Places(line, Len(args)) :
           line.positionals[Rank(line, Len(args), i)] = args[i]
  BY <1>3, <1>4, WordsCounted
<1> HIDE DEF W
<1>8. /\ Len(given) = Cardinality(W)
      /\ \A i \in W : given[Cardinality({j \in W : j <= i})] = args[i]
  BY <1>5, <1>6, <1>7 DEF Rank
<1>9. UNION {Names(args[i]) : i \in FrameworkTokens} = DOMAIN line.flags
  <2>1. \A flag : flag \in DOMAIN line.flags <=> \E i \in FrameworkTokens : flag \in Names(args[i])
    BY <1>2 DEF HasRead, FlagsRead, Pending
  <2> QED BY <2>1
<1> QED BY <1>8, <1>9 DEF TokensDelivered, given, W, WordTokens, ValueTokens
-----------------------------------------------------------------------------
(* A raw command gets what is its own, and nothing else runs for it.       *)
LEMMA NoRawOnPath ==
  ASSUME InputsHold, WordsRead(line, args, Len(args)), RawOnPath(line) = NoClaim
  PROVE  \A command \in Along(tree, Path) : ~IsRaw(command)
<1> DEFINE depths == {d \in DOMAIN Path : IsRaw(tree[SubSeq(Path, 1, d)])}
           d == First(depths)
<1>1. /\ Path \in Seq(DOMAIN Shape) /\ Len(Path) \in 0..Len(line.positionals)
      /\ Len(line.positionals) = Len(line.indices)
  <2>1. /\ IsTree(tree) /\ line.positionals \in Seq(DOMAIN Shape)
        /\ Len(line.positionals) = Len(line.indices)
    BY DEF InputsHold, WordsRead
  <2> QED BY <2>1, ResolveIs DEF Path
<1>2. DOMAIN Path = 1..Len(Path) /\ depths \in SUBSET Nat
  BY <1>1
<1>3. ASSUME depths # {} PROVE FALSE
  <2>1. RawOnPath(line) = [start |-> line.indices[d] + 1, path |-> SubSeq(Path, 1, d)]
    BY <1>3 DEF RawOnPath, Path
  <2>2. d \in depths
    <3> HIDE DEF depths
    <3> QED BY <1>2, <1>3, FirstIs
  <2>3. d \in 1..Len(line.indices)
    BY <1>1, <1>2, <2>2
  <2> HIDE DEF d, depths
  <2>4. line.indices[d] \in 1..Len(args)
    BY <2>3, IndicesGrow
  <2>5. line.indices[d] + 1 = 0
    BY <2>1 DEF NoClaim
  <2> QED BY <2>4, <2>5
<1> QED BY <1>2, <1>3 DEF Along

(* A command on a path is the one it ends in. *)
LEMMA LeafAlong ==
  ASSUME Path \in Seq(DOMAIN Shape), Path # <<>>
  PROVE  Leaf \in Along(tree, Path)
<1>1. Len(Path) \in 1..Len(Path) /\ SubSeq(Path, 1, Len(Path)) = Path
  BY WholeSeq
<1> QED BY <1>1 DEF Along, Leaf

(* The claim of the line that a raw command's own words lead.              *)
LEMMA LeadClaims ==
  ASSUME InputsHold, NEW n \in DOMAIN args, SubSeq(args, 1, n) \in DOMAIN tree,
         IsRaw(tree[SubSeq(args, 1, n)]),
         \A k \in 1..(n - 1) : ~IsRaw(tree[SubSeq(args, 1, k)])
  PROVE  RawFrom(1) # NoClaim /\ RawFrom(1).start = n + 1 /\ RawFrom(1).path = SubSeq(args, 1, n)
<1> DEFINE named == {k \in 1..Len(args) :
                       /\ SubSeq(args, 1, k) \in DOMAIN tree
                       /\ IsRaw(tree[SubSeq(args, 1, k)])}
           f == First(named)
<1>1. args \in Seq(DOMAIN Shape) /\ Len(args) \in Nat /\ n \in 1..Len(args)
  BY DEF InputsHold
<1>2. n \in named /\ named \in SUBSET Nat
  BY <1>1
<1>3. RawFrom(1) = [start |-> f + 1, path |-> SubSeq(args, 1, f)]
  BY <1>2 DEF RawFrom
<1>4. f \in named /\ \A k \in named : f <= k
  <2> HIDE DEF named
  <2> QED BY <1>2, FirstIs
<1>5. f \in 1..Len(args) /\ IsRaw(tree[SubSeq(args, 1, f)]) /\ f <= n
  BY <1>2, <1>4
<1> HIDE DEF f
<1>6. f = n
  <2>1. ~(f \in 1..(n - 1))
    BY <1>5
  <2> QED BY <1>1, <1>5, <2>1
<1>7. RawFrom(1).start = n + 1 /\ RawFrom(1).path = SubSeq(args, 1, n)
  BY <1>3, <1>6
<1>8. n + 1 # 0
  BY <1>1
<1> QED BY <1>7, <1>8 DEF NoClaim

(* The prefix of a line a raw command claimed names that command.          *)
LEMMA PrefixNames ==
  ASSUME InputsHold, PrefixRead, claim # NoClaim, Whole.error = None
  PROVE  Path = claim.path
<1>1. args \in Seq(DOMAIN Shape) /\ IsTree(tree)
  BY DEF InputsHold
<1>2. WordsRead(Whole, args, Len(args))
  <2>1. Reading(Whole, LineBools, args, Len(args))
    BY <1>1, ParseRead DEF Whole
  <2> QED BY <2>1 DEF Reading, HasRead
<1>3. claim = RawOnPath(Whole)
  BY DEF PrefixRead, RawFound
<1>4. PICK d \in 1..Len(Whole.indices) :
         /\ claim.start = Whole.indices[d] + 1
         /\ d <= Len(Resolve(tree, Whole.positionals))
         /\ claim.path = SubSeq(Whole.positionals, 1, d)
  BY <1>2, <1>3, RawOnPathIs
<1> DEFINE m == Whole.indices[d]
           words == Whole.positionals
           given == line.positionals
           path == Resolve(tree, words)
<1>5. /\ m \in 1..Len(args) /\ words \in Seq(DOMAIN Shape) /\ Len(words) = Len(Whole.indices)
      /\ d \in 1..Len(words)
  BY <1>2 DEF WordsRead
<1>6. given = SubSeq(words, 1, d)
  <2>1. claim.start - 1 = m
    BY <1>4, <1>5
  <2>2. line = Parse(tree, LineBools, SubSeq(args, 1, m))
    BY <2>1 DEF PrefixRead
  <2>3. Parse(tree, LineBools, SubSeq(args, 1, m)).positionals = SubSeq(words, 1, d)
    BY <1>1, PrefixParses DEF Whole
  <2> QED BY <2>2, <2>3
<1>7. /\ Len(path) \in 0..Len(words)
      /\ \A k \in 1..Len(words) : SubSeq(words, 1, k) \in DOMAIN tree <=> k <= Len(path)
  BY <1>1, <1>5, ResolveIs
<1>8. d <= Len(path)
  BY <1>4
<1> HIDE DEF words, path, m
<1>9. given \in Seq(DOMAIN Shape) /\ Len(given) = d /\ SubSeq(given, 1, d) = given
  BY <1>5, <1>6
<1>10. /\ Path = SubSeq(given, 1, Len(Path)) /\ Len(Path) \in 0..d
       /\ \A k \in 1..d : SubSeq(given, 1, k) \in DOMAIN tree <=> k <= Len(Path)
  <2>1. /\ Resolve(tree, given) = SubSeq(given, 1, Len(Resolve(tree, given)))
        /\ Len(Resolve(tree, given)) \in 0..Len(given)
        /\ \A k \in 1..Len(given) :
             SubSeq(given, 1, k) \in DOMAIN tree <=> k <= Len(Resolve(tree, given))
    BY <1>1, <1>9, ResolveIs
  <2> QED BY <1>9, <2>1 DEF Path
<1> HIDE DEF given
<1>11. d \in 1..d
  BY <1>5
<1>12. SubSeq(given, 1, d) \in DOMAIN tree
  <2>1. SubSeq(words, 1, d) \in DOMAIN tree
    BY <1>5, <1>7, <1>8
  <2> QED BY <1>6, <1>9, <2>1
<1>13. Len(Path) = d
  <2>1. d <= Len(Path)
    BY <1>10, <1>11, <1>12
  <2>2. Len(Path) \in 0..d
    BY <1>10
  <2> QED BY <1>11, <2>1, <2>2
<1> QED BY <1>4, <1>6, <1>9, <1>10, <1>13 DEF words

LEMMA RawRunIs ==
  ASSUME LineInv, ran.handler = "raw"
  PROVE  ran = RawRun /\ RawReady /\ IsClaim(claim)
<1>1. ran # NothingRan
  BY DEF NothingRan, None
<1>2. claim # NoClaim
  <2> SUFFICES ASSUME claim = NoClaim PROVE FALSE
    OBVIOUS
  <2>1. /\ ran = OwnRun /\ WholeRead /\ Path # <<>>
        /\ HasRead(line, LineBools, args, Len(args))
    BY <1>1, OwnLine
  <2>2. InputsHold /\ WordsRead(line, args, Len(args))
    BY <2>1 DEF LineInv, HasRead
  <2>3. \A command \in Along(tree, Path) : ~IsRaw(command)
    BY <2>1, <2>2, NoRawOnPath DEF WholeRead
  <2>4. Path \in Seq(DOMAIN Shape)
    <3>1. IsTree(tree) /\ line.positionals \in Seq(DOMAIN Shape)
      BY <2>2 DEF InputsHold, WordsRead
    <3> QED BY <3>1, ResolveIs DEF Path
  <2>5. ~IsRaw(Leaf)
    BY <2>1, <2>3, <2>4, LeafAlong
  <2> QED BY <2>1, <2>5 DEF OwnRun, IsRaw
<1>3. ran = RawRun /\ RawReady
  BY <1>1, <1>2 DEF LineInv, RightRan
<1>4. CASE claim = RawFrom(1)
  <2>1. RawFrom(1) # NoClaim /\ InputsHold
    BY <1>2, <1>4 DEF LineInv
  <2>2. 1 \in 1..Len(args)
    BY <2>1, LeadNeedsTokens
  <2> QED BY <1>4, <2>1, <2>2, <1>3, RawFromClaims
<1>5. CASE PrefixRead
  BY <1>2, <1>3, <1>5, FoundIsClaim DEF PrefixRead, LineInv
<1> QED BY <1>3, <1>4, <1>5 DEF RawReady

(* No --dry-run is left before a raw command's tokens on a line that       *)
(* parses: its prefix is of words only, or names the command and passed    *)
(* the gate of the reserved flags.                                         *)
LEMMA DryRunBeforeRaw ==
  ASSUME LineInv, ran.handler = "raw", cli.reserved,
         NEW i \in FrameworkTokens, args[i] = "--dry-run"
  PROVE  Whole.error # None
<1>1. RawReady /\ IsClaim(claim) /\ claim # NoClaim
  BY RawRunIs DEF RawReady
<1>2. InputsHold /\ args \in Seq(DOMAIN Shape) /\ Len(args) \in Nat
  BY DEF LineInv, InputsHold
<1>3. PICK m \in 1..Len(args) : claim.start = m + 1 /\ claim.path # <<>>
  BY <1>1 DEF IsClaim
<1> DEFINE q == SubSeq(args, 1, m)
<1>4. /\ \A k \in 1..m : q[k] = args[k]
      /\ FrameworkTokens = Tokens(q, m) /\ FrameworkTokens \subseteq 1..m
  BY <1>1, <1>2, <1>3, TokensOfPrefix
<1>5. i \in 1..m /\ m \in DOMAIN args /\ args[i] \in DOMAIN Shape
  BY <1>2, <1>4
<1>6. Shape[args[i]].kind = "flag" /\ Shape[args[i]].name = DryRun
  BY <1>5, FlagsAssumption
<1>7. CASE claim = RawFrom(1)
  <2>1. SubSeq(args, 1, m) \in DOMAIN tree
    <3>1. 1 \in 1..Len(args)
      BY <1>1, <1>2, <1>7, LeadNeedsTokens
    <3>2. LET k == RawFrom(1).start - 1 IN SubSeq(args, 1, k) \in DOMAIN tree
      BY <1>1, <1>2, <1>7, <3>1, RawFromIs
    <3>3. RawFrom(1).start - 1 = m
      BY <1>3, <1>7
    <3> QED BY <3>2, <3>3
  <2>2. Shape[args[i]].kind = "word"
    BY <1>2, <1>5, <2>1, LeadIsWords
  <2> QED BY <1>6, <2>2
<1>8. CASE PrefixRead /\ PrefixHeld
  <2> SUFFICES ASSUME Whole.error = None PROVE FALSE
    OBVIOUS
  <2>1. Path # <<>>
    BY <1>1, <1>2, <1>3, <1>8, PrefixNames
  <2>2. HasRead(line, LineBools, q, m) /\ line.pending = None
    BY <1>1, <1>2, <1>3, <1>8, PrefixLine
  <2> HIDE DEF q
  <2>3. i \in Tokens(q, m) /\ q[i] = args[i]
    BY <1>4
  <2>4. DryRun \in Names(q[i])
    BY <1>6, <2>3, KindsOfNames
  <2>5. DryRun \in DOMAIN line.flags
    BY <2>2, <2>3, <2>4 DEF HasRead, FlagsRead, Pending
  <2> QED BY <1>8, <2>1, <2>5, FlagsAssumption DEF PrefixHeld
<1> QED BY <1>1, <1>7, <1>8 DEF RawReady

LEMMA DryRunInv ==
  ASSUME Inv, LineInv
  PROVE  DryRunHonored
<1> SUFFICES ASSUME cli.reserved, NEW i \in FrameworkTokens, args[i] = "--dry-run"
             PROVE  /\ Handled => \E command \in Along(tree, ran.path) : command.dry
                    /\ ran.handler = "raw" => Parse(tree, LineBools, args).error # None
  BY DEF DryRunHonored
<1>1. ASSUME ran.handler = "raw" PROVE Parse(tree, LineBools, args).error # None
  BY <1>1, DryRunBeforeRaw DEF Whole
<1>2. ASSUME Handled PROVE \E command \in Along(tree, ran.path) : command.dry
  <2>1. ran # NothingRan /\ ran.handler # "raw"
    BY <1>2 DEF Handled, NothingRan, None
  <2>2. /\ HasRead(line, LineBools, args, Len(args)) /\ line.pending = None
        /\ i \in Tokens(args, Len(args))
    BY <2>1, OwnLine
  <2>3. args[i] \in DOMAIN Shape
    BY <2>2 DEF LineInv, InputsHold, Tokens
  <2>4. Shape[args[i]].kind = "flag" /\ Shape[args[i]].name = DryRun
    BY <2>3, FlagsAssumption
  <2>5. DryRun \in LineBools
    <3>1. DryRun \in Booleans
      BY FlagsAssumption DEF Booleans
    <3> QED BY <3>1, BooleansAlways
  <2>6. DryRun \in line.bare
    BY <2>2, <2>4, <2>5 DEF HasRead, ValuesRead, Pending
  <2>7. DryRun \in DOMAIN line.flags /\ line.flags[DryRun] = "true"
    BY <2>2, <2>6 DEF HasRead, ValuesRead
  <2>8. On(line, DryRun)
    BY <2>7, SpellingAssumption DEF On
  <2> QED BY <1>2, <2>8 DEF Inv, EveryGateHeld
<1> QED BY <1>1, <1>2

LEMMA RawInv ==
  ASSUME Inv, LineInv
  PROVE  RawOwnsItsTail
<1>1. InputsHold /\ args \in Seq(DOMAIN Shape) /\ Len(args) \in Nat
  BY DEF LineInv, InputsHold
<1>2. ASSUME WholeRead PROVE \A command \in Along(tree, Path) : ~IsRaw(command)
  <2>1. Reading(line, LineBools, args, Len(args))
    BY <1>1, <1>2, ParseRead DEF WholeRead, Whole
  <2>2. WordsRead(line, args, Len(args))
    BY <1>2, <2>1 DEF WholeRead, Reading, HasRead
  <2> QED BY <1>1, <1>2, <2>2, NoRawOnPath DEF WholeRead
<1>3. ASSUME stage = "handler" PROVE ~IsRaw(Leaf)
  <2>1. WholeRead /\ Path # <<>>
    BY <1>3 DEF Inv, Passed, Routed, LineInv, Gates, Unrouted, Walked
  <2>2. Path \in Seq(DOMAIN Shape)
    <3>1. Reading(line, LineBools, args, Len(args))
      BY <1>1, <2>1, ParseRead DEF WholeRead, Whole
    <3>2. IsTree(tree) /\ line.positionals \in Seq(DOMAIN Shape)
      BY <1>1, <2>1, <3>1 DEF WholeRead, Reading, HasRead, WordsRead, InputsHold
    <3> QED BY <3>2, ResolveIs DEF Path
  <2> QED BY <1>2, <2>1, <2>2, LeafAlong
<1>4. ASSUME Handled PROVE \A command \in Along(tree, ran.path) : ~IsRaw(command)
  <2>1. ran # NothingRan /\ ran.handler # "raw"
    BY <1>4 DEF Handled, NothingRan, None
  <2>2. ran = OwnRun /\ WholeRead
    BY <2>1, OwnLine
  <2> QED BY <1>2, <2>2 DEF OwnRun
<1>5. ASSUME ran.handler = "raw"
      PROVE  /\ IsRaw(tree[ran.path])
             /\ LET named == Len(args) - Len(ran.rest) IN
                  /\ named \in DOMAIN args /\ args[named] = ran.path[Len(ran.path)]
                  /\ ran.rest = SubSeq(args, named + 1, Len(args))
  <2>1. ran = RawRun /\ IsClaim(claim)
    BY <1>5, RawRunIs
  <2>2. PICK m \in 1..Len(args) :
          /\ claim.start = m + 1 /\ IsRaw(tree[claim.path])
          /\ claim.path[Len(claim.path)] = args[m]
    BY <2>1 DEF IsClaim
  <2>3. ran.path = claim.path /\ ran.rest = SubSeq(args, m + 1, Len(args))
    BY <2>1, <2>2 DEF RawRun
  <2>4. Len(SubSeq(args, m + 1, Len(args))) = Len(args) - m
    BY <1>1
  <2>5. Len(args) - Len(ran.rest) = m /\ m \in DOMAIN args
    BY <1>1, <2>3, <2>4
  <2> QED BY <2>2, <2>3, <2>5
<1>6. ASSUME stage = "answered", sound.clock, sound.utf8, NEW n \in DOMAIN args,
             SubSeq(args, 1, n) \in DOMAIN tree, IsRaw(tree[SubSeq(args, 1, n)]),
             \A k \in 1..(n - 1) : ~IsRaw(tree[SubSeq(args, 1, k)])
      PROVE  ran = [handler |-> "raw", path |-> SubSeq(args, 1, n),
                    rest |-> SubSeq(args, n + 1, Len(args))]
  <2>1. RawFrom(1) # NoClaim /\ RawFrom(1).start = n + 1 /\ RawFrom(1).path = SubSeq(args, 1, n)
    BY <1>1, <1>6, LeadClaims
  <2>2. ran = RawRun /\ claim = RawFrom(1)
    BY <1>6, <2>1 DEF LineInv, LeadRan
  <2> QED BY <2>1, <2>2 DEF RawRun
<1>7. ASSUME stage = "bools", claim # NoClaim, Parse(tree, LineBools, args).error = None
      PROVE  Path = claim.path
  <2>1. PrefixRead
    BY <1>7 DEF LineInv, Gates
  <2> QED BY <1>1, <1>7, <2>1, PrefixNames DEF Whole
<1> QED BY <1>3, <1>4, <1>5, <1>6, <1>7 DEF RawOwnsItsTail
-----------------------------------------------------------------------------
(* The booleans a line is read with are those of the command that runs.    *)
LEMMA UnionKnowsMore ==
  ASSUME InputsHold
  PROVE  LineBools \subseteq UnionBools
<1> DEFINE path == PreliminaryPath
           F == IF cli.reserved THEN Reserved \ {Select} ELSE {}
           A == UNION {command.bools : command \in Along(tree, path)}
           B == UNION {tree[other].bools : other \in DOMAIN tree}
<1>1. IsTree(tree) /\ args \in Seq(DOMAIN Shape)
  BY DEF InputsHold
<1>2. \A command \in Along(tree, path) : \E other \in DOMAIN tree : command = tree[other]
  <2>1. CASE path = <<>>
    BY <2>1 DEF Along
  <2>2. CASE path # <<>>
    <3> DEFINE guess == Parse(tree, UnionBools, args)
    <3>1. guess.error = None /\ path = Resolve(tree, guess.positionals)
      BY <2>2 DEF PreliminaryPath
    <3>2. guess.positionals \in Seq(DOMAIN Shape)
      <4>1. Reading(guess, UnionBools, args, Len(args))
        BY <1>1, ParseRead
      <4> HIDE DEF guess
      <4> QED BY <3>1, <4>1 DEF Reading, HasRead, WordsRead
    <3> HIDE DEF guess, path
    <3>3. path \in DOMAIN tree /\ path \in Seq(DOMAIN Shape)
      BY <1>1, <2>2, <3>1, <3>2, ResolveIs
    <3>4. \A n \in 1..Len(path) : SubSeq(path, 1, n) \in DOMAIN tree
      BY <1>1, <3>3 DEF IsTree
    <3> QED BY <3>4 DEF Along
  <2> QED BY <2>1, <2>2
<1>3. A \subseteq B
  <2> HIDE DEF path
  <2> QED BY <1>2
<1>4. LineBools = A \cup Framework \cup F
  BY DEF LineBools, PathBools
<1>5. UnionBools = B \cup Framework \cup F
  BY DEF UnionBools
<1> HIDE DEF A, B, F
<1> QED BY <1>3, <1>4, <1>5

LEMMA SchemaInv ==
  ASSUME Inv, LineInv
  PROVE  ParsedByOwnSchema
<1> SUFFICES ASSUME Handled,
                    \A i \in 1..(line.indices[Len(ran.path)]) :
                      \/ Shape[args[i]].kind \in {"word", "valued"}
                      \/ /\ Shape[args[i]].kind = "flag"
                         /\ \/ Shape[args[i]].name \in Booleans
                            \/ Shape[args[i]].name \notin UnionBools
             PROVE  line = Parse(tree, PathBools(ran.path), args)
  BY DEF ParsedByOwnSchema
<1>1. ran # NothingRan /\ ran.handler # "raw"
  BY DEF Handled, NothingRan, None
<1>2. /\ ran = OwnRun /\ WholeRead /\ Path # <<>>
      /\ HasRead(line, LineBools, args, Len(args))
  BY <1>1, OwnLine
<1>3. /\ InputsHold /\ IsTree(tree) /\ args \in Seq(DOMAIN Shape)
      /\ ran.path = Path /\ Path = Resolve(tree, line.positionals)
  BY <1>2 DEF LineInv, InputsHold, OwnRun, Path
<1>4. line = Parse(tree, LineBools, args) /\ line.error = None
  BY <1>2 DEF WholeRead, Whole
<1>5. \A command \in Along(tree, Path) : ~IsRaw(command)
  BY <1>2, <1>3, NoRawOnPath DEF HasRead, WholeRead
<1>6. LineBools \subseteq UnionBools
  BY <1>3, UnionKnowsMore
<1>7. ASSUME NEW i \in 1..line.indices[Len(Path)], Shape[args[i]].kind = "flag"
      PROVE  Shape[args[i]].name \in LineBools <=> Shape[args[i]].name \in UnionBools
  <2>1. Shape[args[i]].name \in Booleans \/ Shape[args[i]].name \notin UnionBools
    BY <1>3, <1>7
  <2> QED BY <1>6, <2>1, BooleansAlways
<1> DEFINE guess == Parse(tree, UnionBools, args)
<1>8. guess.error = None /\ Resolve(tree, guess.positionals) = Path
  BY <1>2, <1>3, <1>4, <1>5, <1>6, <1>7, OwnWalk
<1>9. PreliminaryPath = Path
  BY <1>8 DEF PreliminaryPath
<1>10. LineBools = PathBools(Path)
  BY <1>9 DEF LineBools
<1> QED BY <1>3, <1>4, <1>10
-----------------------------------------------------------------------------
(* A handler receives every token of its line, once and in order: as a     *)
(* word of its path or of its arguments, as the value of the flag before   *)
(* it, or as a flag (README, "How argv is parsed").                        *)
THEOREM NoTokenIsLost == Spec => []TokensDelivered
<1>1. Inv /\ LineInv => TokensDelivered
  BY TokensInv
<1> QED BY <1>1, LineInvariant, PTL

(* No line runs anything that asks for help before a -- or a raw command's *)
(* own tokens, or that gives a flag twice there, in any spelling.          *)
THEOREM HelpAndRepeatsNeverRun == Spec => []HelpAndRepeatsRunNothing
<1>1. Inv /\ LineInv => HelpAndRepeatsRunNothing
  BY HelpInv
<1> QED BY <1>1, LineInvariant, PTL

(* Under a --dry-run that the framework reads, anywhere on the line, no    *)
(* command's handler runs that did not declare it previews (the gate of    *)
(* --dry-run), and no raw handler but on a line that does not parse.       *)
THEOREM DryRunsStayDry == Spec => []DryRunHonored
<1>1. Inv /\ LineInv => DryRunHonored
  BY DryRunInv
<1> QED BY <1>1, LineInvariant, PTL

(* A raw command that is named first always runs, with all that follows    *)
(* its name; nothing under its name does; and the prefix that is left of a *)
(* line that parses names the command that claimed it (parse_argv).        *)
THEOREM RawTailsAreOwned == Spec => []RawOwnsItsTail
<1>1. Inv /\ LineInv => RawOwnsItsTail
  BY RawInv
<1> QED BY <1>1, LineInvariant, PTL

(* The two parses of dispatch agree when every bare flag before the end of *)
(* the path is a boolean of the framework's or of no command at all: the   *)
(* path found with the booleans of the whole tree is then the path of the  *)
(* command that runs, and the line is read with that command's booleans    *)
(* (preliminary_command_path).                                             *)
THEOREM LinesAreReadByOwnSchema == Spec => []ParsedByOwnSchema
<1>1. Inv /\ LineInv => ParsedByOwnSchema
  BY SchemaInv
<1> QED BY <1>1, LineInvariant, PTL
=============================================================================
