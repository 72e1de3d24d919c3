-------------------------- MODULE RedactionProofs --------------------------
(***************************************************************************)
(* What the command field of an answer keeps to itself, on any tree of     *)
(* commands, any marks of secrets, any hook and any argv; and what a       *)
(* handler reads of its line, and says of it in a refusal.                 *)
(***************************************************************************)
EXTENDS CommandRequest, DispatchProofs

(* A line that was answered without a raw command was read whole, unless   *)
(* the answer is that it could not be read; and none ran then.             *)
SlotSeq == Seq([name : STRING, optional : BOOLEAN, variadic : BOOLEAN])
SlotsHold == \A path \in DOMAIN tree : tree[path].slots \in SlotSeq
ReadWhole == stage = "answered" /\ ~Unread /\ claim = NoClaim => WholeRead
RanRead == ran # NothingRan => ~Unread
ReadInv == ReadWhole /\ RanRead /\ SlotsHold

LEMMA InitRead == Init => ReadInv
BY SlotsAssumption DEF Init, Called, ReadInv, ReadWhole, RanRead, SlotsHold, SlotSeq, tree

LEMMA StepWhole ==
  ASSUME Inv, LineInv, ReadWhole, [Next]_vars
  PROVE  ReadWhole'
<1>1. CASE stage' # "answered"
  BY <1>1 DEF ReadWhole
<1>2. CASE UNCHANGED vars
  <2>1. WholeRead' = WholeRead
    BY <1>2, SameRead DEF vars, input
  <2> QED BY <1>2, <2>1 DEF ReadWhole, Unread, vars
<1>3. CASE stage \in Gates /\ UNCHANGED <<input, line, claim>>
  <2>1. WholeRead' = WholeRead
    BY <1>3, SameRead
  <2> QED BY <1>3, <2>1 DEF ReadWhole, LineInv
<1>4. CASE stage = "raw" /\ UNCHANGED claim
  BY <1>4 DEF ReadWhole, LineInv, RawReady
<1>5. CASE answer'.code \in {"INVALID_ENV", "PARSE_ERROR"}
  BY <1>5 DEF ReadWhole, Unread
<1> USE DEF Gates, Unrouted, Beheaded, Reaches, Answer, AnswerAs
<1>6. CASE BadClock \/ NonUtf8Argument \/ GoodClock \/ ClaimLead \/ NoLead
  BY <1>1, <1>5, <1>6 DEF BadClock, NonUtf8Argument, GoodClock, ClaimLead, NoLead
<1>7. CASE ParseLine
  BY <1>1, <1>5, <1>7 DEF ParseLine, RawClaim
<1>8. CASE \/ CheckBools \/ RejectUnknownFlags \/ RejectExtraArgs \/ RejectDryRun
           \/ RejectPrefixUnknown \/ RejectPrefixDeclared
  BY <1>1, <1>3, <1>8 DEF CheckBools, RejectUnknownFlags, RejectExtraArgs, RejectDryRun,
     RejectPrefixUnknown, RejectPrefixDeclared, Gate
<1>9. CASE FrameworkRoute
  BY <1>1, <1>3, <1>9 DEF FrameworkRoute
<1>10. CASE ResolveCommand \/ RejectPrefixReserved
  BY <1>1, <1>3, <1>10 DEF ResolveCommand, RejectPrefixReserved
<1>11. CASE AnswerItself \/ RunHandler
  BY <1>1, <1>3, <1>11 DEF AnswerItself, RunHandler
<1>12. CASE RunRaw
  BY <1>4, <1>12 DEF RunRaw
<1> QED BY <1>2, <1>6, <1>7, <1>8, <1>9, <1>10, <1>11, <1>12 DEF Next, Done

LEMMA StepRan ==
  ASSUME Inv, RanRead, [Next]_vars
  PROVE  RanRead'
<1>1. CASE UNCHANGED vars
  BY <1>1 DEF RanRead, Unread, vars
<1>2. CASE stage # "answered" /\ UNCHANGED ran
  BY <1>2 DEF RanRead, Inv, Fresh
<1>3. CASE RunHandler \/ RunRaw
  BY <1>3 DEF RunHandler, RunRaw, RanRead, Unread
<1> USE DEF Reaches, Answer, AnswerAs
<1>4. CASE BadClock \/ NonUtf8Argument \/ GoodClock \/ ClaimLead \/ NoLead
  BY <1>2, <1>4 DEF BadClock, NonUtf8Argument, GoodClock, ClaimLead, NoLead
<1>5. CASE ParseLine
  BY <1>2, <1>5 DEF ParseLine, RawClaim
<1>6. CASE \/ CheckBools \/ RejectUnknownFlags \/ RejectExtraArgs \/ RejectDryRun
           \/ RejectPrefixUnknown \/ RejectPrefixDeclared
  BY <1>2, <1>6 DEF CheckBools, RejectUnknownFlags, RejectExtraArgs, RejectDryRun,
     RejectPrefixUnknown, RejectPrefixDeclared, Gate
<1>7. CASE FrameworkRoute
  BY <1>2, <1>7 DEF FrameworkRoute
<1>8. CASE ResolveCommand \/ RejectPrefixReserved \/ AnswerItself
  BY <1>2, <1>8 DEF ResolveCommand, RejectPrefixReserved, AnswerItself
<1> QED BY <1>1, <1>3, <1>4, <1>5, <1>6, <1>7, <1>8 DEF Next, Done

(* The CLI and argv are those of the call.                                 *)
LEMMA InputStays ==
  ASSUME [Next]_vars
  PROVE  UNCHANGED input
<1> USE DEF Reaches, Answer, AnswerAs, input
<1>1. CASE UNCHANGED vars
  BY <1>1 DEF vars
<1>2. CASE BadClock \/ NonUtf8Argument \/ GoodClock \/ ClaimLead \/ NoLead
  BY <1>2 DEF BadClock, NonUtf8Argument, GoodClock, ClaimLead, NoLead
<1>3. CASE ParseLine
  BY <1>3 DEF ParseLine, RawClaim
<1>4. CASE \/ CheckBools \/ RejectUnknownFlags \/ RejectExtraArgs \/ RejectDryRun
           \/ RejectPrefixUnknown \/ RejectPrefixDeclared
  BY <1>4 DEF CheckBools, RejectUnknownFlags, RejectExtraArgs, RejectDryRun,
     RejectPrefixUnknown, RejectPrefixDeclared, Gate
<1>5. CASE FrameworkRoute
  BY <1>5 DEF FrameworkRoute
<1>6. CASE ResolveCommand \/ RejectPrefixReserved \/ AnswerItself
  BY <1>6 DEF ResolveCommand, RejectPrefixReserved, AnswerItself
<1>7. CASE RunHandler \/ RunRaw
  BY <1>7 DEF RunHandler, RunRaw
<1> QED BY <1>1, <1>2, <1>3, <1>4, <1>5, <1>6, <1>7 DEF Next, Done

LEMMA StepSlots ==
  ASSUME SlotsHold, [Next]_vars
  PROVE  SlotsHold'
BY InputStays DEF SlotsHold, tree, input

LEMMA ReadInvariant == Spec => [](Inv /\ LineInv /\ ReadInv)
<1>1. Spec => []ReadInv
  BY InitRead, StepWhole, StepRan, StepSlots, LineInvariant, PTL DEF Spec, ReadInv
<1> QED BY <1>1, LineInvariant, PTL
-----------------------------------------------------------------------------
(* A line that was read, and what is shown of it.                          *)

LEMMA LineShown ==
  ASSUME LineInv, ReadInv, Answered, ~Unread, claim = NoClaim
  PROVE  /\ HasRead(line, LineBools, args, Len(args)) /\ line.pending = None
         /\ Clean(args, Len(args)) /\ args \in Seq(DOMAIN Shape)
         /\ FrameworkTokens = Tokens(args, Len(args)) /\ DOMAIN line.roles = DOMAIN args
         /\ \A i \in DOMAIN args : Shown[i] = ParsedWord(line, Path, i)
<1>1. line = Parse(tree, LineBools, args) /\ line.error = None /\ args \in Seq(DOMAIN Shape)
  BY DEF ReadInv, ReadWhole, Answered, WholeRead, Whole, LineInv, InputsHold
<1>2. Reading(line, LineBools, args, Len(args)) /\ line.pending = None
  BY <1>1, ParseRead
<1>3. FrameworkTokens = Tokens(args, Len(args))
  BY <1>1 DEF FrameworkTokens, Tokens
<1>4. HasRead(line, LineBools, args, Len(args)) /\ Clean(args, Len(args))
      /\ DOMAIN line.roles = DOMAIN args
  BY <1>1, <1>2 DEF Reading
<1>5. Shown = ParsedWords(line, Path)
  BY DEF Shown
<1>6. \A i \in DOMAIN args : Shown[i] = ParsedWord(line, Path, i)
  BY <1>4, <1>5 DEF ParsedWords
<1> QED BY <1>1, <1>2, <1>3, <1>4, <1>6

(* A handler that ran was given a line that is shown.                      *)
LEMMA HandledShown ==
  ASSUME Inv, LineInv, Handled
  PROVE  /\ ran # NothingRan /\ ran.handler # "raw" /\ claim = NoClaim
         /\ HasRead(line, LineBools, args, Len(args)) /\ line.pending = None
         /\ FrameworkTokens = Tokens(args, Len(args)) /\ args \in Seq(DOMAIN Shape)
         /\ Path \in Seq(DOMAIN Shape) /\ Len(Path) \in Nat /\ Len(Path) <= Len(line.positionals)
<1>1. ran # NothingRan /\ ran.handler # "raw"
  BY DEF Handled, NothingRan, None
<1>2. args \in Seq(DOMAIN Shape) /\ IsTree(tree)
  BY DEF LineInv, InputsHold
<1>3. /\ claim = NoClaim /\ HasRead(line, LineBools, args, Len(args)) /\ line.pending = None
      /\ FrameworkTokens = Tokens(args, Len(args))
  BY <1>1, OwnLine
<1>4. line.positionals \in Seq(DOMAIN Shape)
  BY <1>3 DEF HasRead, WordsRead
<1>5. Path \in Seq(DOMAIN Shape) /\ Len(Path) \in Nat /\ Len(Path) <= Len(line.positionals)
  BY <1>2, <1>4, ResolveIs DEF Path
<1> QED BY <1>1, <1>2, <1>3, <1>5

(* Where the words of a line are.                                          *)
LEMMA WordPlaces ==
  ASSUME LineInv, HasRead(line, LineBools, args, Len(args)), NEW k \in 1..Len(line.positionals)
  PROVE  /\ line.indices[k] \in DOMAIN args /\ line.roles[line.indices[k]] = "positional"
         /\ line.positionals[k] = args[line.indices[k]]
         /\ PositionalAt(line, line.indices[k]) = k
<1>1. WordsRead(line, args, Len(args)) /\ args \in Seq(DOMAIN Shape)
  BY DEF HasRead, LineInv, InputsHold
<1>2. k \in 1..Len(line.indices) /\ DOMAIN line.indices = 1..Len(line.indices)
  BY <1>1 DEF WordsRead
<1>3. /\ line.indices[k] \in 1..Len(args) /\ line.roles[line.indices[k]] = "positional"
      /\ line.positionals[k] = args[line.indices[k]]
  BY <1>1, <1>2 DEF WordsRead
<1>4. \A l \in 1..Len(line.indices) : line.indices[l] = line.indices[k] => l = k
  <2> SUFFICES ASSUME NEW l \in 1..Len(line.indices), line.indices[l] = line.indices[k], l # k
               PROVE  FALSE
    OBVIOUS
  <2>1. l < k \/ k < l
    BY <1>2
  <2>2. line.indices[l] \in Nat /\ line.indices[k] \in Nat
    BY <1>1, <1>2 DEF WordsRead
  <2> QED BY <1>1, <1>2, <2>1, <2>2 DEF WordsRead
<1>5. PositionalAt(line, line.indices[k]) = k
  BY <1>2, <1>4 DEF PositionalAt
<1> QED BY <1>1, <1>3, <1>5

(* A flag the line holds is named by one of its tokens, which say its      *)
(* value: the token itself, or the next; a bundle gives none.              *)
LEMMA FlagGiven ==
  ASSUME HasRead(line, LineBools, args, Len(args)), line.pending = None,
         args \in Seq(DOMAIN Shape), FrameworkTokens = Tokens(args, Len(args)),
         NEW key \in DOMAIN line.flags, key \notin line.bare
  PROVE  GivenFor(key, line.flags[key])
<1>1. PICK i \in Tokens(args, Len(args)) : key \in Names(args[i])
  BY DEF HasRead, FlagsRead
<1>2. i \in DOMAIN args /\ i \in FrameworkTokens
  BY <1>1 DEF Tokens
<1>3. ValuesRead(line, LineBools, args, Len(args)) /\ Pending(line) = {}
  BY DEF HasRead, Pending
<1>4. CASE Shape[args[i]].kind = "valued"
  <2>1. Shape[args[i]].name = key /\ line.flags[key] = Shape[args[i]].value
    BY <1>1, <1>3, <1>4, KindsOfNames DEF ValuesRead
  <2> QED BY <1>2, <1>4, <2>1 DEF GivenFor, FlagGivenAt
<1>5. CASE Shape[args[i]].kind = "flag"
  <2>1. Shape[args[i]].name = key
    BY <1>1, <1>5, KindsOfNames
  <2>2. i < Len(args) /\ line.flags[key] = args[i + 1]
    BY <1>3, <1>5, <2>1 DEF ValuesRead
  <2> QED BY <1>2, <1>5, <2>1, <2>2 DEF GivenFor, FlagGivenAt
<1>6. CASE Shape[args[i]].kind = "bundle"
  BY <1>1, <1>3, <1>6, KindsOfNames DEF ValuesRead
<1> QED BY <1>1, <1>4, <1>5, <1>6, KindsOfNames

LEMMA ReadsInv ==
  ASSUME Inv, LineInv
  PROVE  ReadsWereGiven
<1> SUFFICES ASSUME Handled
             PROVE  /\ \A index \in 0..Len(args) :
                         ArgParse(index).value # None => args[ArgAt(index)] = ArgParse(index).value
                    /\ \A key \in Keys :
                         FlagParse(key).value # None => GivenFor(key, FlagParse(key).value)
                    /\ SelectText # None => GivenFor(Select, SelectText)
                    /\ cli.reserved /\ ReservedOn(DryRun)
                         => \E command \in Along(tree, ran.path) : command.dry
  BY DEF ReadsWereGiven
<1>1. /\ HasRead(line, LineBools, args, Len(args)) /\ line.pending = None
      /\ FrameworkTokens = Tokens(args, Len(args)) /\ args \in Seq(DOMAIN Shape)
      /\ Path \in Seq(DOMAIN Shape) /\ Len(Path) \in Nat /\ Len(Path) <= Len(line.positionals)
  BY HandledShown
<1>2. ASSUME NEW text, NEW masked, NEW code, ParseAs(text, masked, code).value # None
      PROVE  ParseAs(text, masked, code).value = text
  BY <1>2 DEF ParseAs, Refusal, Read, Absent
<1>3. ASSUME NEW index \in 0..Len(args), ArgParse(index).value # None
      PROVE  args[ArgAt(index)] = ArgParse(index).value
  <2>1. Arg(index) # Absent
    BY <1>3 DEF ArgParse, RequireArg, Refusal
  <2>2. index < Len(Remaining)
    BY <2>1 DEF Arg
  <2>3. ArgParse(index).value = Remaining[index + 1]
    BY <1>2, <1>3, <2>1 DEF ArgParse
  <2>4. line.positionals \in Seq(DOMAIN Shape)
    BY <1>1 DEF HasRead, WordsRead
  <2>5. /\ Len(Path) + index + 1 \in 1..Len(line.positionals)
        /\ Remaining[index + 1] = line.positionals[Len(Path) + index + 1]
    <3> DEFINE words == line.positionals
               n == Len(Path)
    <3>1. words \in Seq(DOMAIN Shape) /\ n \in Nat /\ n <= Len(words)
          /\ index \in Nat /\ index < Len(SubSeq(words, n + 1, Len(words)))
      BY <1>1, <2>2, <2>4 DEF Remaining
    <3> HIDE DEF words, n
    <3>2. n + index + 1 \in 1..Len(words)
          /\ SubSeq(words, n + 1, Len(words))[index + 1] = words[n + index + 1]
      BY <3>1
    <3> QED BY <3>2 DEF words, n, Remaining
  <2> QED BY <1>1, <2>3, <2>5, WordPlaces DEF ArgAt
<1>4. ASSUME NEW key \in Keys, FlagParse(key).value # None
      PROVE  GivenFor(key, FlagParse(key).value)
  <2>1. key \in DOMAIN line.flags \ line.bare
    BY <1>4 DEF FlagParse, Absent, Refusal
  <2>2. FlagParse(key).value = line.flags[key]
    BY <1>2, <1>4, <2>1 DEF FlagParse
  <2> QED BY <1>1, <2>1, <2>2, FlagGiven
<1>5. ASSUME SelectText # None
      PROVE  GivenFor(Select, SelectText)
  <2>1. Select \notin line.bare /\ Select \in DOMAIN line.flags /\ SelectText = line.flags[Select]
    BY <1>5 DEF SelectText, FlagRead, Absent, Read
  <2> QED BY <1>1, <2>1, FlagGiven
<1>6. ASSUME cli.reserved, ReservedOn(DryRun)
      PROVE  \E command \in Along(tree, ran.path) : command.dry
  BY <1>6 DEF Inv, EveryGateHeld, ReservedOn
<1> QED BY <1>3, <1>4, <1>5, <1>6
-----------------------------------------------------------------------------
(* Flags and their values.                                                 *)

(* The flags of a token that was taken for one, and of the value after it. *)
LEMMA FlagTokens ==
  ASSUME HasRead(line, LineBools, args, Len(args)), line.pending = None,
         args \in Seq(DOMAIN Shape), FrameworkTokens = Tokens(args, Len(args)),
         NEW i \in FrameworkTokens
  PROVE  /\ i \in DOMAIN args /\ args[i] \in DOMAIN Shape
         /\ Shape[args[i]].kind \in {"flag", "valued"} => line.roles[i] = "flag"
         /\ Shape[args[i]].kind = "bundle" => line.roles[i] = "plain"
         /\ Shape[args[i]].kind = "flag" /\ Shape[args[i]].name \notin line.bare =>
              i + 1 \in DOMAIN args /\ line.roles[i + 1] = "value"
<1>1. i \in Tokens(args, Len(args)) /\ i \in DOMAIN args /\ args[i] \in DOMAIN Shape
  BY DEF Tokens
<1>2. RolesRead(line, args, Len(args)) /\ ValuesRead(line, LineBools, args, Len(args))
      /\ Pending(line) = {}
  BY DEF HasRead, Pending
<1>3. /\ Shape[args[i]].kind \in {"flag", "valued"} => line.roles[i] = "flag"
      /\ Shape[args[i]].kind = "bundle" => line.roles[i] = "plain"
  BY <1>1, <1>2 DEF RolesRead
<1>4. ASSUME Shape[args[i]].kind = "flag", Shape[args[i]].name \notin line.bare
      PROVE  i + 1 \in DOMAIN args /\ line.roles[i + 1] = "value"
  <2>1. i < Len(args) /\ line.roles[i + 1] = "value"
    BY <1>1, <1>2, <1>4 DEF ValuesRead
  <2> QED BY <1>1, <2>1
<1> QED BY <1>1, <1>3, <1>4

(* What the property calls confidential is what the masking masks.         *)
LEMMA ConfidentialIsMasked ==
  ASSUME NEW flag, Confidential(flag), Path \in Seq(DOMAIN Shape)
  PROVE  MaskFlag(Path, flag)
<1>1. {tree[SubSeq(Path, 1, n)] : n \in DOMAIN Path} = Along(tree, Path)
  <2>1. DOMAIN Path = 1..Len(Path)
    OBVIOUS
  <2> QED BY <2>1 DEF Along
<1>2. CASE \E command \in Along(tree, Path) : flag \in command.secrets
  BY <1>2 DEF MaskFlag
<1>3. CASE /\ \A command \in Along(tree, Path) : flag \notin command.bools \cup command.values
           /\ flag \notin Framework /\ (cli.reserved => flag \notin Reserved)
  <2>1. flag \notin Declared(Path)
    BY <1>3 DEF Declared
  <2> QED BY <1>3, <2>1 DEF MaskFlag
<1> QED BY <1>1, <1>2, <1>3 DEF Confidential

LEMMA PathTyped ==
  ASSUME LineInv, HasRead(line, LineBools, args, Len(args))
  PROVE  /\ Path \in Seq(DOMAIN Shape) /\ Len(Path) \in Nat /\ Len(Path) <= Len(line.positionals)
         /\ Path # <<>> => Path \in DOMAIN tree
<1>1. IsTree(tree) /\ line.positionals \in Seq(DOMAIN Shape)
  BY DEF LineInv, InputsHold, HasRead, WordsRead
<1> QED BY <1>1, ResolveIs DEF Path

LEMMA SecretFlagsInv ==
  ASSUME LineInv, ReadInv
  PROVE  SecretFlagsMasked
<1> SUFFICES ASSUME Answered, ~Unread, claim = NoClaim, NEW i \in DOMAIN args, i \in FrameworkTokens,
                    Shape[args[i]].kind \in {"flag", "valued"}, Confidential(Shape[args[i]].name)
             PROVE  /\ Shape[args[i]].kind = "valued" => Masked(Shown, i)
                    /\ Shape[args[i]].kind = "flag" /\ Shape[args[i]].name \notin line.bare
                         => Masked(Shown, i + 1)
  BY DEF SecretFlagsMasked
<1>1. /\ HasRead(line, LineBools, args, Len(args)) /\ line.pending = None
      /\ args \in Seq(DOMAIN Shape) /\ FrameworkTokens = Tokens(args, Len(args))
      /\ \A j \in DOMAIN args : Shown[j] = ParsedWord(line, Path, j)
  BY LineShown
<1>2. MaskFlag(Path, Shape[args[i]].name)
  BY <1>1, PathTyped, ConfidentialIsMasked
<1>3. line.roles[i] = "flag"
  BY <1>1, FlagTokens
<1>4. ASSUME Shape[args[i]].kind = "valued" PROVE Masked(Shown, i)
  <2>1. ParsedWord(line, Path, i) \in {"marker", "name"}
    BY <1>2, <1>3, <1>4 DEF ParsedWord, MaskedFlagWord, HasEquals
  <2> QED BY <1>1, <2>1 DEF Masked
<1>5. ASSUME Shape[args[i]].kind = "flag", Shape[args[i]].name \notin line.bare
      PROVE  Masked(Shown, i + 1)
  <2>1. i + 1 \in DOMAIN args /\ line.roles[i + 1] = "value"
    BY <1>1, <1>5, FlagTokens
  <2>2. (i + 1) - 1 = i
    BY <1>1
  <2>3. ParsedWord(line, Path, i + 1) = "marker"
    BY <1>2, <2>1, <2>2 DEF ParsedWord
  <2> QED BY <1>1, <2>1, <2>3 DEF Masked
<1> QED BY <1>4, <1>5
-----------------------------------------------------------------------------
(* What a refusal says.                                                    *)

LEMMA HandledAnswered ==
  ASSUME Inv, LineInv, ReadInv, Handled, sound.utf8
  PROVE  Answered /\ ~Unread /\ claim = NoClaim
BY HandledShown DEF Answered, Inv, Fresh, ReadInv, RanRead

(* A token that is not shown whole is one that the line knows it masked.   *)
LEMMA MaskedIsKnown ==
  ASSUME NEW i, Masked([j \in {i} |-> ParsedWord(line, Path, j)], i)
  PROVE  MaskedToken(i)
<1>1. ParsedWord(line, Path, i) # "whole"
  BY DEF Masked
<1>2. CASE Tied(line, Path, i) \/ args[i] \in Hooked
  BY <1>2 DEF MaskedToken
<1>3. CASE line.roles[i] = "flag" /\ MaskFlag(Path, Shape[args[i]].name)
  BY <1>3 DEF MaskedToken
<1>4. CASE line.roles[i] = "value" /\ MaskFlag(Path, Shape[args[i - 1]].name)
  BY <1>4 DEF MaskedToken
<1>5. CASE /\ line.roles[i] = "positional"
           /\ MaskPositional(line, Path, PositionalAt(line, i) - Len(Path))
  BY <1>5 DEF MaskedToken
<1>6. \/ Tied(line, Path, i) \/ args[i] \in Hooked
      \/ line.roles[i] = "flag" /\ MaskFlag(Path, Shape[args[i]].name)
      \/ line.roles[i] = "value" /\ MaskFlag(Path, Shape[args[i - 1]].name)
      \/ /\ line.roles[i] = "positional"
         /\ MaskPositional(line, Path, PositionalAt(line, i) - Len(Path))
  BY <1>1 DEF ParsedWord, HookWord
<1> QED BY <1>2, <1>3, <1>4, <1>5, <1>6

(* What is masked as a whole and names flags is a token tied to the one    *)
(* before it.                                                              *)
LEMMA MarkersHide ==
  ASSUME LineInv, ReadInv, Answered, ~Unread, claim = NoClaim,
         NEW i \in FrameworkTokens, Shown[i] = "marker"
  PROVE  Names(args[i]) \subseteq HiddenFlags
<1>1. /\ HasRead(line, LineBools, args, Len(args)) /\ line.pending = None
      /\ args \in Seq(DOMAIN Shape) /\ FrameworkTokens = Tokens(args, Len(args))
      /\ \A j \in DOMAIN args : Shown[j] = ParsedWord(line, Path, j)
      /\ DOMAIN line.roles = DOMAIN args
  BY LineShown
<1>2. i \in DOMAIN args /\ i \in DOMAIN line.roles
  BY <1>1 DEF Tokens
<1>3. CASE Shape[args[i]].kind \notin {"flag", "valued", "bundle"}
  BY <1>3, KindsOfNames
<1>4. CASE Shape[args[i]].kind \in {"flag", "valued", "bundle"}
  <2>1. line.roles[i] \in {"flag", "plain"}
    BY <1>1, <1>4, FlagTokens
  <2>2. ParsedWord(line, Path, i) = "marker"
    BY <1>1, <1>2
  <2>3. Tied(line, Path, i)
    BY <2>1, <2>2 DEF ParsedWord, MaskedFlagWord, HookWord
  <2> QED BY <1>2, <2>1, <2>3 DEF HiddenFlags
<1> QED BY <1>3, <1>4

(* A refusal of a text it may not repeat quotes the marker.                *)
LEMMA MaskedIsNotRepeated ==
  ASSUME NEW text, NEW code, NEW said
  PROVE  ~Repeats(ParseAs(text, TRUE, code), said)
BY DEF Repeats, ParseAs, Refusal, Read, Absent

LEMMA AbsenceRepeatsNothing ==
  ASSUME NEW said, NEW code, NEW value
  PROVE  ~Repeats(Absent, said) /\ ~Repeats(Refusal(code, None, FALSE), said)
         /\ ~Repeats(Read(value), said) /\ ~Repeats(Refusal(code, Marker, FALSE), said)
BY DEF Repeats, Absent, Refusal, Read

LEMMA RefusalsInv ==
  ASSUME Inv, LineInv, ReadInv
  PROVE  RefusalsRepeatNothingMasked
<1>1. ASSUME Answered, ~Unread, claim = NoClaim, NEW i \in FrameworkTokens, Shown[i] = "marker"
      PROVE  Names(args[i]) \subseteq HiddenFlags
  BY <1>1, MarkersHide
<1>2. ASSUME Handled, sound.utf8
      PROVE  /\ \A index \in 0..(Len(Remaining) - 1) :
                  Repeats(ArgParse(index), args[ArgAt(index)]) => ~Masked(Shown, ArgAt(index))
             /\ \A key \in Keys : \A asked \in {FlagParse(key), FlagOn(key)} : \A i \in DOMAIN args :
                  FlagGivenAt(key, i) /\ Repeats(asked, line.flags[key]) =>
                    /\ ~Masked(Shown, i)
                    /\ Shape[args[i]].kind = "flag" /\ key \notin line.bare => ~Masked(Shown, i + 1)
  <2>1. Answered /\ ~Unread /\ claim = NoClaim
    BY <1>2, HandledAnswered
  <2>2. /\ HasRead(line, LineBools, args, Len(args)) /\ line.pending = None
        /\ args \in Seq(DOMAIN Shape) /\ FrameworkTokens = Tokens(args, Len(args))
        /\ \A j \in DOMAIN args : Shown[j] = ParsedWord(line, Path, j)
        /\ DOMAIN line.roles = DOMAIN args
    BY <2>1, LineShown
  <2>3. \A j \in DOMAIN args : Masked(Shown, j) => MaskedToken(j)
    BY <2>2, MaskedIsKnown DEF Masked
  <2>4. ASSUME NEW index \in 0..(Len(Remaining) - 1),
               Repeats(ArgParse(index), args[ArgAt(index)]), Masked(Shown, ArgAt(index))
        PROVE  FALSE
    <3> DEFINE k == Len(Path) + index + 1
    <3>1. k \in 1..Len(line.positionals)
      <4> DEFINE words == line.positionals
                 n == Len(Path)
      <4>1. words \in Seq(DOMAIN Shape) /\ n \in Nat /\ n <= Len(words)
            /\ index \in 0..(Len(SubSeq(words, n + 1, Len(words))) - 1)
        BY <2>2, PathTyped DEF Remaining, HasRead, WordsRead
      <4> HIDE DEF words, n
      <4>2. n + index + 1 \in 1..Len(words)
        BY <4>1
      <4> QED BY <4>2 DEF words, n
    <3>2. line.indices[k] \in DOMAIN args
      BY <2>2, <3>1, WordPlaces
    <3>3. k \in MaskedPositionals
      <4>1. k \in DOMAIN line.positionals
        BY <2>2, <3>1 DEF HasRead, WordsRead
      <4> QED BY <2>3, <2>4, <3>2, <4>1 DEF MaskedPositionals, ArgAt
    <3>4. \/ ArgParse(index) = RequireArg(index) /\ Arg(index) = Absent
          \/ ArgParse(index) = ParseAs(Remaining[index + 1], TRUE, "INVALID_ARG")
      BY <3>3 DEF ArgParse
    <3> QED BY <2>4, <3>4, MaskedIsNotRepeated, AbsenceRepeatsNothing DEF RequireArg
  <2>5. ASSUME NEW key \in Keys, NEW asked \in {FlagParse(key), FlagOn(key)}, NEW i \in DOMAIN args,
               FlagGivenAt(key, i), Repeats(asked, line.flags[key])
        PROVE  /\ ~Masked(Shown, i)
               /\ Shape[args[i]].kind = "flag" /\ key \notin line.bare => ~Masked(Shown, i + 1)
    <3>1. key \notin MaskedFlags
      <4> SUFFICES ASSUME key \in MaskedFlags PROVE FALSE
        OBVIOUS
      <4>1. \/ FlagParse(key) = Absent \/ FlagParse(key) = Refusal("INVALID_FLAG", None, FALSE)
            \/ FlagParse(key) = ParseAs(line.flags[key], TRUE, "INVALID_FLAG")
        <5>1. CASE key \notin DOMAIN line.flags
          BY <5>1 DEF FlagParse
        <5>2. CASE key \in DOMAIN line.flags \cap line.bare
          BY <5>2 DEF FlagParse
        <5>3. CASE key \in DOMAIN line.flags \ line.bare
          BY <5>3 DEF FlagParse
        <5> QED BY <5>1, <5>2, <5>3
      <4>2. \/ \E value : FlagOn(key) = Read(value)
            \/ FlagOn(key) = Refusal("INVALID_FLAG", Marker, FALSE)
        <5>1. CASE key \notin DOMAIN line.flags
          BY <5>1 DEF FlagOn, NotABoolean
        <5>2. CASE NotABoolean(line, key)
          BY <5>2 DEF FlagOn, NotABoolean
        <5>3. CASE key \in DOMAIN line.flags /\ ~NotABoolean(line, key)
          BY <5>3 DEF FlagOn
        <5> QED BY <5>1, <5>2, <5>3
      <4> QED BY <2>5, <4>1, <4>2, MaskedIsNotRepeated, AbsenceRepeatsNothing
    <3>2. i \in FrameworkTokens /\ Shape[args[i]].kind \in {"flag", "valued"} /\ Shape[args[i]].name = key
      BY <2>5 DEF FlagGivenAt
    <3>3. i \in DOMAIN line.roles /\ line.roles[i] = "flag"
      BY <2>2, <3>2, FlagTokens
    <3>4. ~MaskedToken(i)
      BY <3>1, <3>2, <3>3 DEF MaskedFlags
    <3>5. ASSUME Shape[args[i]].kind = "flag", key \notin line.bare PROVE ~Masked(Shown, i + 1)
      <4>1. i + 1 \in DOMAIN args /\ line.roles[i + 1] = "value"
        BY <2>2, <3>2, <3>5, FlagTokens
      <4>2. ~MaskedToken(i + 1)
        BY <2>2, <3>1, <3>2, <3>3, <4>1 DEF MaskedFlags
      <4> QED BY <2>3, <4>1, <4>2
    <3> QED BY <2>3, <3>4, <3>5
  <2> QED BY <2>4, <2>5
<1> QED BY <1>1, <1>2 DEF RefusalsRepeatNothingMasked
-----------------------------------------------------------------------------
(* What a parse takes for flags and values, in a line it may refuse.       *)
TakenFor(p, list, n) ==
  /\ DOMAIN p.roles = DOMAIN list
  /\ \A i \in DOMAIN list :
       /\ p.roles[i] = "flag" => i \in Tokens(list, n)
       /\ p.roles[i] = "value" =>
            /\ i - 1 \in Tokens(list, n) /\ Shape[list[i - 1]].kind = "flag"
            /\ Shape[list[i]].kind = "word"

(* One token more is taken for one of these.                               *)
RoleStep(p, q, list, n) ==
  \/ q.roles = p.roles
  \/ q.roles = [p.roles EXCEPT ![n + 1] = "positional"]
  \/ q.roles = [p.roles EXCEPT ![n + 1] = "flag"] /\ n + 1 \in Tokens(list, n + 1)
  \/ /\ q.roles = [p.roles EXCEPT ![n + 1] = "value"]
     /\ n \in Tokens(list, n) /\ Shape[list[n]].kind = "flag"
     /\ Shape[list[n + 1]].kind = "word"

LEMMA TakenOneMore ==
  ASSUME NEW list \in Seq(DOMAIN Shape), NEW n \in 0..(Len(list) - 1), NEW p, TakenFor(p, list, n),
         NEW q, RoleStep(p, q, list, n)
  PROVE  TakenFor(q, list, n + 1)
<1>1. n \in Nat /\ Len(list) \in Nat /\ n + 1 \in DOMAIN list /\ (n + 1) - 1 = n
  OBVIOUS
<1>2. Tokens(list, n) \subseteq Tokens(list, n + 1)
  BY <1>1, TokensGrow
<1>3. DOMAIN q.roles = DOMAIN list
  BY DEF TakenFor, RoleStep
<1>4. ASSUME NEW i \in DOMAIN list, i # n + 1 PROVE q.roles[i] = p.roles[i]
  BY <1>4 DEF TakenFor, RoleStep
<1>5. /\ p.roles[n + 1] # "flag" \/ n + 1 \in Tokens(list, n + 1)
      /\ q.roles[n + 1] = "flag" => n + 1 \in Tokens(list, n + 1)
  BY <1>1, <1>2 DEF TakenFor, RoleStep
<1>6. q.roles[n + 1] = "value" =>
        /\ n \in Tokens(list, n + 1) /\ Shape[list[n]].kind = "flag"
        /\ Shape[list[n + 1]].kind = "word"
  BY <1>1, <1>2 DEF TakenFor, RoleStep
<1>7. ASSUME NEW i \in DOMAIN list, q.roles[i] = "flag" PROVE i \in Tokens(list, n + 1)
  BY <1>2, <1>4, <1>5, <1>7 DEF TakenFor
<1>8. ASSUME NEW i \in DOMAIN list, q.roles[i] = "value"
      PROVE  /\ i - 1 \in Tokens(list, n + 1) /\ Shape[list[i - 1]].kind = "flag"
             /\ Shape[list[i]].kind = "word"
  <2>1. CASE i = n + 1
    BY <1>1, <1>6, <1>8, <2>1
  <2>2. CASE i # n + 1
    BY <1>2, <1>4, <1>8, <2>2 DEF TakenFor
  <2> QED BY <2>1, <2>2
<1> QED BY <1>3, <1>7, <1>8 DEF TakenFor

LEMMA FeedTakes ==
  ASSUME NEW trees, NEW bools, NEW list \in Seq(DOMAIN Shape), NEW n \in 0..(Len(list) - 1),
         NEW p, Reading(p, bools, list, n)
  PROVE  RoleStep(p, Feed(trees, bools, p, n + 1, list[n + 1]), list, n)
<1> DEFINE i == n + 1
           text == list[n + 1]
           kind == Shape[text].kind
           q == Feed(trees, bools, p, n + 1, list[n + 1])
           f == FlushPending(p)
<1>0. q = Feed(trees, bools, p, i, text)
  OBVIOUS
<1> SUFFICES RoleStep(p, q, list, n)
  OBVIOUS
<1> HIDE DEF q
<1>1. /\ IsParser(p) /\ DOMAIN p.roles = DOMAIN list /\ n \in Nat /\ text \in DOMAIN Shape
      /\ i \in DOMAIN p.roles
  BY DEF Reading
<1>2. IsParser(f) /\ f.roles = p.roles
  BY <1>1, FlushFields
<1>3. CASE p.error # None
  <2>1. q.roles = p.roles
    BY <1>0, <1>3 DEF Feed
  <2> QED BY <2>1 DEF RoleStep
<1>4. CASE p.error = None /\ p.only
  <2>1. q = PushPositional(f, i, text)
    BY <1>0, <1>4 DEF Feed
  <2>2. q.roles = [f.roles EXCEPT ![i] = "positional"]
    <3> HIDE DEF f
    <3> QED BY <1>1, <1>2, <2>1, PushFields
  <2> HIDE DEF f
  <2> QED BY <1>2, <2>2 DEF RoleStep
<1>5. CASE p.error = None /\ ~p.only
  <2>1. HasRead(p, bools, list, n)
    BY <1>5 DEF Reading
  <2>2. i \in Tokens(list, i)
    <3>1. ~\E j \in 1..n : Shape[list[j]].kind = "dashes"
      BY <1>0, <1>5, <2>1 DEF HasRead, MarksRead
    <3> QED BY <1>1, <3>1, TokensGrow
  <2>3. p.pending # None => n \in Tokens(list, n) /\ Shape[list[n]].kind = "flag"
    BY <2>1 DEF HasRead, LastPends
  <2>4. IsParser(Flagged(p, i)) /\ Flagged(p, i).roles = [p.roles EXCEPT ![i] = "flag"]
    BY <1>1, FlaggedFields
  <2>5. kind \in {"word", "dashes", "help", "invalid", "flag", "valued", "bundle"}
    BY <1>1, ShapeAssumption
  <2>6. CASE kind \in {"dashes", "help", "invalid"}
    <3>1. q = [f EXCEPT !.only = TRUE] \/ q = [f EXCEPT !.help = TRUE] \/ q = [p EXCEPT !.error = "invalid"]
      BY <1>0, <1>5, <2>6 DEF Feed
    <3> HIDE DEF f
    <3>2. q.roles = p.roles
      <4>1. [f EXCEPT !.only = TRUE].roles = f.roles
        BY <1>2, OnlyFields
      <4>2. [f EXCEPT !.help = TRUE].roles = f.roles
        BY <1>2, HelpFields
      <4>3. [p EXCEPT !.error = "invalid"].roles = p.roles
        BY <1>1, ErrorFields
      <4> QED BY <1>2, <3>1, <4>1, <4>2, <4>3
    <3> QED BY <3>2 DEF RoleStep
  <2>7. CASE kind = "valued"
    <3> DEFINE g == Flagged(p, i)
    <3>1. q = SetFlag(g, Shape[text].name, Shape[text].value)
      BY <1>0, <1>5, <2>7 DEF Feed
    <3>2. IsParser(g) /\ g.roles = [p.roles EXCEPT ![i] = "flag"]
      BY <2>4
    <3> HIDE DEF g
    <3>3. q.roles = [p.roles EXCEPT ![i] = "flag"]
      <4>1. SetFlag(g, Shape[text].name, Shape[text].value).roles = g.roles
        <5> DEFINE name == Shape[text].name
                   value == Shape[text].value
        <5> HIDE DEF name, value
        <5>1. SetFlag(g, name, value).roles = g.roles
          BY <3>2 DEF SetFlag, IsParser
        <5> QED BY <5>1 DEF name, value
      <4> QED BY <3>1, <3>2, <4>1
    <3> QED BY <2>2, <3>3 DEF RoleStep
  <2>8. CASE kind = "flag"
    <3> DEFINE g == Flagged(p, i)
               name == Shape[text].name
    <3>1. q = BareFlag(g, bools, name)
      BY <1>0, <1>5, <2>8 DEF Feed
    <3>2. IsParser(g) /\ g.roles = [p.roles EXCEPT ![i] = "flag"]
      BY <2>4
    <3> HIDE DEF g, name
    <3>3. \/ q = SetBareFlag(g, name) \/ q = [g EXCEPT !.error = "repeated"]
          \/ q = [g EXCEPT !.pending = name]
      BY <3>1 DEF BareFlag
    <3>4. q.roles = g.roles
      <4>1. SetBareFlag(g, name).roles = g.roles
        BY <3>2, SetBareFlagFields
      <4>2. [g EXCEPT !.error = "repeated"].roles = g.roles
        BY <3>2, ErrorFields
      <4>3. [g EXCEPT !.pending = name].roles = g.roles
        BY <3>2, PendingFields
      <4> QED BY <3>3, <4>1, <4>2, <4>3
    <3> QED BY <2>2, <3>2, <3>4 DEF RoleStep
  <2>9. CASE kind = "bundle"
    <3>1. q = SetBareFlag(SetBareFlag(f, Shape[text].first), Shape[text].second)
      BY <1>0, <1>5, <2>9 DEF Feed
    <3>2. q.roles = p.roles
      <4> DEFINE g == SetBareFlag(f, Shape[text].first)
      <4> HIDE DEF f
      <4>1. IsParser(g) /\ g.roles = p.roles
        BY <1>2, SetBareFlagFields
      <4> HIDE DEF g
      <4> QED BY <3>1, <4>1, SetBareFlagFields DEF g
    <3> QED BY <3>2 DEF RoleStep
  <2>10. CASE kind = "word"
    <3>1. q = ValueOrPositional(trees, p, i, text)
      BY <1>0, <1>5, <2>10 DEF Feed
    <3>2. CASE p.pending = None
      <4>1. q = PushPositional(p, i, text)
        BY <3>1, <3>2 DEF ValueOrPositional
      <4>2. q.roles = [p.roles EXCEPT ![i] = "positional"]
        BY <1>1, <4>1, PushFields
      <4> QED BY <4>2 DEF RoleStep
    <3>3. CASE p.pending # None /\ NamesCommand(trees, p.positionals, text)
      <4>1. q = PushPositional(f, i, text)
        BY <3>1, <3>3 DEF ValueOrPositional
      <4>2. q.roles = [p.roles EXCEPT ![i] = "positional"]
        <5> HIDE DEF f
        <5> QED BY <1>1, <1>2, <4>1, PushFields
      <4> QED BY <4>2 DEF RoleStep
    <3>4. CASE p.pending # None /\ ~NamesCommand(trees, p.positionals, text)
      <4>1. q = SetFlag([p EXCEPT !.pending = None, !.roles[i] = "value"], p.pending, text)
        BY <3>1, <3>4 DEF ValueOrPositional
      <4>2. q.roles = [p.roles EXCEPT ![i] = "value"]
        <5>1. ValuePut(p, SetFlag([p EXCEPT !.pending = None, !.roles[i] = "value"], p.pending, text), i, text)
          BY <1>1, ValueFields
        <5> QED BY <4>1, <5>1 DEF ValuePut, RoleSet
      <4> QED BY <2>3, <2>10, <3>4, <4>2 DEF RoleStep
    <3> QED BY <3>2, <3>3, <3>4
  <2> HIDE DEF kind
  <2> QED BY <2>5, <2>6, <2>7, <2>8, <2>9, <2>10
<1> QED BY <1>3, <1>4, <1>5

(* So of a whole line, refused or not.                                     *)
LEMMA ParseTakes ==
  ASSUME NEW trees, NEW bools, NEW list \in Seq(DOMAIN Shape)
  PROVE  TakenFor(Parse(trees, bools, list), list, Len(list))
<1> DEFINE fed == Fed(trees, bools, list)
           S == {n \in Nat : TakenFor(fed[n], list, n)}
<1>1. Len(list) \in Nat /\ fed[0] = NewParser(list)
  BY FedEquation
<1>2. 0 \in S
  BY <1>1 DEF TakenFor, NewParser
<1>3. ASSUME NEW n \in 0..(Len(list) - 1), n \in S PROVE n + 1 \in S
  <2>1. n \in 0..Len(list) /\ n + 1 \in 1..Len(list) /\ (n + 1) - 1 = n /\ n + 1 \in Nat
    BY <1>1
  <2>2. fed[n + 1] = Feed(trees, bools, fed[n], n + 1, list[n + 1])
    BY <1>1, <2>1, FedEquation
  <2>3. Reading(fed[n], bools, list, n) /\ TakenFor(fed[n], list, n)
    BY <1>3, <2>1, FedRead
  <2> DEFINE p == fed[n]
  <2> HIDE DEF fed
  <2>4. TakenFor(Feed(trees, bools, p, n + 1, list[n + 1]), list, n + 1)
    BY <2>3, FeedTakes, TakenOneMore
  <2> QED BY <2>1, <2>2, <2>4 DEF fed
<1>4. \A n \in 0..Len(list) : n \in S
  <2> HIDE DEF S
  <2> QED BY <1>1, <1>2, <1>3, UpTo
<1>5. Len(list) \in 0..Len(list)
  BY <1>1
<1>6. TakenFor(fed[Len(list)], list, Len(list)) /\ IsParser(fed[Len(list)])
  <2>1. IsParser(fed[Len(list)])
    BY <1>5, FedRead DEF Reading
  <2> QED BY <1>4, <1>5, <2>1
<1> DEFINE p == fed[Len(list)]
<1>7. Parse(trees, bools, list) = FlushPending(p)
  BY DEF Parse
<1> HIDE DEF fed, p
<1>8. FlushPending(p).roles = p.roles
  BY <1>6, FlushFields DEF p
<1> QED BY <1>6, <1>7, <1>8 DEF TakenFor, p
-----------------------------------------------------------------------------
(* The tail of a raw command.                                              *)

(* A text the hook rewrites is shown by it; so none of these is a flag,    *)
(* whose value the hook would have to know.                                *)
FlagsUnhooked == \A text \in Hooked : text \in DOMAIN Shape => Shape[text].kind # "flag"

LEMMA RawTailMasks ==
  ASSUME args \in Seq(DOMAIN Shape), FlagsUnhooked, NEW start \in Nat \ {0}, start <= Len(args) + 1,
         NEW p, TakenFor(p, SubSeq(args, start, Len(args)), Len(args) - start + 1),
         NEW i \in 1..(Len(args) - start + 1)
  PROVE  /\ p.roles[i] = "value" => RawTail(start)[start + i - 1] # "whole"
         /\ p.roles[i] = "flag" /\ HasEquals(args[start + i - 1])
              => RawTail(start)[start + i - 1] # "whole"
<1> DEFINE n == Len(args) - start + 1
           tail == SubSeq(args, start, Len(args))
           at == start + i - 1
           ended(j) == \E k \in start..(j - 1) : Shape[args[k]].kind = "dashes" /\ args[k] \notin Hooked
           isFlag(j) == ~ended(j) /\ Shape[args[j]].kind # "word"
           open(j) ==
             /\ j >= start /\ isFlag(j) /\ args[j] \notin Hooked
             /\ Shape[args[j]].kind # "dashes" /\ ~HasEquals(args[j])
           word(j) ==
             IF open(j - 1) /\ ~(isFlag(j) /\ Shape[args[j]].kind = "dashes") THEN "marker"
             ELSE IF isFlag(j) THEN MaskedFlagWord(args[j]) ELSE "whole"
<1>1. /\ n \in Nat /\ Len(tail) = n /\ tail \in Seq(DOMAIN Shape) /\ Len(args) \in Nat
      /\ \A j \in 1..n : tail[j] = args[start + j - 1]
  OBVIOUS
<1>2. at \in start..Len(args) /\ RawTail(start)[at] = HookWord(args[at], word(at))
  <2>1. at \in start..Len(args)
    BY <1>1
  <2>2. RawTail(start) = [j \in start..Len(args) |-> HookWord(args[j], word(j))]
    BY Zenon DEF RawTail
  <2> HIDE DEF word, at
  <2> QED BY <2>1, <2>2
<1>3. ASSUME NEW j \in Tokens(tail, n) PROVE ~ended(start + j - 1) /\ j \in 1..n
  <2>1. j \in 1..n /\ \A k \in 1..(j - 1) : Shape[tail[k]].kind # "dashes"
    BY DEF Tokens
  <2>2. ASSUME NEW k \in start..(start + j - 2) PROVE Shape[args[k]].kind # "dashes"
    <3>1. k - start + 1 \in 1..(j - 1) /\ k - start + 1 \in 1..n /\ start + (k - start + 1) - 1 = k
      <4>1. n \in Nat /\ j \in 1..n /\ k \in start..(start + j - 2) /\ start \in Nat
        BY <1>1, <2>1
      <4> HIDE DEF n
      <4> QED BY <4>1
    <3>2. tail[k - start + 1] = args[k]
      BY <1>1, <3>1
    <3> HIDE DEF tail
    <3> QED BY <2>1, <3>1, <3>2
  <2>3. (start + j - 1) - 1 = start + j - 2
    BY <2>1
  <2> QED BY <2>1, <2>2, <2>3
<1>4. DOMAIN tail = 1..n
  BY <1>1
<1>5. TakenFor(p, tail, n)
  OBVIOUS
<1> HIDE DEF n, tail
<1>6. CASE p.roles[i] = "value"
  <2>1. /\ i - 1 \in Tokens(tail, n) /\ Shape[tail[i - 1]].kind = "flag"
        /\ Shape[tail[i]].kind = "word"
    BY <1>4, <1>5, <1>6 DEF TakenFor, n
  <2>2. /\ ~ended(start + (i - 1) - 1) /\ i - 1 \in 1..n /\ start + (i - 1) - 1 = at - 1
        /\ tail[i - 1] = args[at - 1] /\ tail[i] = args[at] /\ at - 1 >= start
    <3>1. i - 1 \in 1..n /\ i \in 1..n /\ ~ended(start + (i - 1) - 1)
      BY <1>3, <2>1 DEF n
    <3>2. start + (i - 1) - 1 = at - 1 /\ at - 1 >= start
      BY <3>1
    <3> HIDE DEF at
    <3> QED BY <1>1, <3>1, <3>2 DEF at
  <2>3. args[at - 1] \in DOMAIN Shape
    BY <1>1, <2>2
  <2>4. open(at - 1)
    BY <2>1, <2>2, <2>3 DEF FlagsUnhooked, HasEquals
  <2>5. word(at) = "marker"
    BY <2>1, <2>2, <2>4
  <2> HIDE DEF word, at
  <2> QED BY <1>2, <1>6, <2>5 DEF HookWord, at
<1>7. CASE p.roles[i] = "flag" /\ HasEquals(args[at])
  <2>1. i \in Tokens(tail, n)
    BY <1>4, <1>5, <1>7 DEF TakenFor, n
  <2>2. ~ended(at)
    BY <1>3, <2>1
  <2>3. Shape[args[at]].kind # "word" /\ MaskedFlagWord(args[at]) = "name"
    BY <1>7 DEF HasEquals, MaskedFlagWord
  <2>4. word(at) \in {"marker", "name"}
    BY <2>2, <2>3
  <2> HIDE DEF word, at
  <2> QED BY <1>2, <1>7, <2>4 DEF HookWord, at
<1> QED BY <1>6, <1>7

LEMMA RawRunClaims ==
  ASSUME LineInv, ran.handler = "raw"
  PROVE  /\ claim # NoClaim /\ claim.start \in Nat \ {0} /\ claim.start <= Len(args) + 1
         /\ args \in Seq(DOMAIN Shape)
<1>1. RawReady /\ IsClaim(claim) /\ args \in Seq(DOMAIN Shape)
  BY RawRunIs DEF LineInv, InputsHold
<1>2. PICK m \in 1..Len(args) : claim.start = m + 1
  BY <1>1 DEF IsClaim
<1>3. Len(args) \in Nat
  BY <1>1
<1> QED BY <1>1, <1>2, <1>3 DEF RawReady

LEMMA RawValuesInv ==
  ASSUME Inv, LineInv, ReadInv, FlagsUnhooked
  PROVE  RawValuesMasked
<1> SUFFICES ASSUME ran.handler = "raw", NEW bools
             PROVE  LET tail == SubSeq(args, claim.start, Len(args))
                        read == Parse([none \in {} |-> None], bools, tail)
                    IN \A i \in DOMAIN tail :
                         /\ read.roles[i] = "value" => Masked(Shown, claim.start + i - 1)
                         /\ read.roles[i] = "flag" /\ HasEquals(tail[i])
                              => Masked(Shown, claim.start + i - 1)
  BY DEF RawValuesMasked
<1> DEFINE start == claim.start
           tail == SubSeq(args, start, Len(args))
           read == Parse([none \in {} |-> None], bools, tail)
<1>1. claim # NoClaim /\ start \in Nat \ {0} /\ start <= Len(args) + 1 /\ args \in Seq(DOMAIN Shape)
  BY RawRunClaims
<1>2. ~Unread
  BY DEF ReadInv, RanRead, NothingRan, None
<1>3. /\ Len(tail) = Len(args) - start + 1 /\ tail \in Seq(DOMAIN Shape)
      /\ DOMAIN tail = 1..(Len(args) - start + 1) /\ Len(args) \in Nat
      /\ \A i \in DOMAIN tail : tail[i] = args[start + i - 1] /\ start + i - 1 \in DOMAIN args
                                /\ start + i - 1 >= start
  BY <1>1
<1>4. TakenFor(read, tail, Len(args) - start + 1)
  BY <1>3, ParseTakes
<1>5. Shown = RawWords
  BY <1>1, <1>2 DEF Shown
<1>6. \A i \in DOMAIN tail : Shown[start + i - 1] = RawTail(start)[start + i - 1]
  BY <1>3, <1>5 DEF RawWords
<1> SUFFICES ASSUME NEW i \in DOMAIN tail
             PROVE  /\ read.roles[i] = "value" => Masked(Shown, start + i - 1)
                    /\ read.roles[i] = "flag" /\ HasEquals(tail[i]) => Masked(Shown, start + i - 1)
  OBVIOUS
<1> HIDE DEF read
<1>7. /\ read.roles[i] = "value" => RawTail(start)[start + i - 1] # "whole"
      /\ read.roles[i] = "flag" /\ HasEquals(args[start + i - 1])
              => RawTail(start)[start + i - 1] # "whole"
  BY <1>1, <1>3, <1>4, RawTailMasks
<1> QED BY <1>3, <1>6, <1>7 DEF Masked
-----------------------------------------------------------------------------
(* Positionals that may be the secret one.                                 *)

(* A positional sits past the first optional slot as soon as one before    *)
(* its own was skipped.                                                    *)
LEMMA MaySitIs ==
  ASSUME NEW slots \in SlotSeq, NEW given \in Nat, NEW k \in 1..given, NEW j \in MaySit(slots, given, k)
  PROVE  LET opt == {s \in DOMAIN slots : slots[s].optional} IN
         /\ j \in 1..Len(slots)
         /\ \/ j = k
            \/ slots[j].variadic /\ k > j
            \/ given < Len(slots) /\ opt # {} /\ j >= First(opt) /\ k >= First(opt)
<1> DEFINE n == Len(slots)
           opt == {s \in 1..n : slots[s].optional}
           f == First(opt)
<1>1. n \in Nat /\ DOMAIN slots = 1..n /\ j \in 1..n
  BY DEF MaySit, SlotSeq
<1>2. ASSUME NEW skipped \in SUBSET opt, given < n, Cardinality(skipped) = n - given, j \notin skipped,
             Cardinality((1..j) \ skipped) = k
      PROVE  j = k \/ (opt # {} /\ j >= f /\ k >= f)
  <2>1. \A a, b \in Nat : IsFiniteSet(a..b) /\ Cardinality(a..b) = IF a > b THEN 0 ELSE b - a + 1
    <3> TAKE a, b \in Nat
    <3>1. a \in Int /\ b \in Int
      OBVIOUS
    <3> QED BY <3>1, FS_Interval
  <2>2. skipped # {}
    <3> SUFFICES ASSUME skipped = {} PROVE FALSE
      OBVIOUS
    <3>1. Cardinality({}) = 0
      BY FS_EmptySet
    <3>2. n - given = 0
      BY <1>2, <3>1
    <3> HIDE DEF n
    <3> QED BY <1>1, <1>2, <3>2
  <2>3. opt \in SUBSET Nat /\ opt # {}
    <3>1. opt \in SUBSET Nat
      BY <1>1
    <3> HIDE DEF opt
    <3> QED BY <2>2, <3>1
  <2> HIDE DEF opt
  <2>4. f \in opt /\ \A s \in opt : f <= s
    BY <2>3, FirstIs
  <2>5. f \in Nat /\ f >= 1 /\ j \in Nat /\ j >= 1 /\ k \in Nat
    BY <1>1, <2>4 DEF opt
  <2> HIDE DEF f
  <2>6. \A s \in skipped : f <= s
    BY <2>4
  <2>7. CASE j < f
    <3>1. (1..j) \ skipped = 1..j
      BY <2>5, <2>6, <2>7
    <3>2. Cardinality(1..j) = j
      BY <2>1, <2>5
    <3> QED BY <1>2, <3>1, <3>2
  <2>8. CASE j >= f
    <3> DEFINE low == 1..(f - 1)
               rest == (1..j) \ skipped
    <3>1. IsFiniteSet(low) /\ Cardinality(low) = f - 1
      BY <2>1, <2>5
    <3>2. j \notin low
      BY <2>5, <2>8
    <3>3. IsFiniteSet(low \cup {j}) /\ Cardinality(low \cup {j}) = f
      <4> HIDE DEF low
      <4>1. Cardinality(low \cup {j}) = Cardinality(low) + 1 /\ IsFiniteSet(low \cup {j})
        BY <3>1, <3>2, FS_AddElement
      <4> QED BY <2>5, <3>1, <4>1
    <3>4. IsFiniteSet(rest)
      <4>1. IsFiniteSet(1..j)
        BY <2>1, <2>5
      <4> QED BY <4>1, FS_Subset
    <3>5. low \cup {j} \subseteq rest
      BY <1>2, <2>5, <2>6, <2>8
    <3>6. Cardinality(low \cup {j}) <= Cardinality(rest)
      <4> HIDE DEF low, rest
      <4> QED BY <3>4, <3>5, FS_Subset
    <3> QED BY <1>2, <2>3, <2>8, <3>3, <3>6
  <2> QED BY <2>5, <2>7, <2>8
<1>3. \/ j = k
      \/ slots[j].variadic /\ j <= k
      \/ \E skipped \in SUBSET opt :
           /\ given < n /\ Cardinality(skipped) = n - given /\ j \notin skipped
           /\ Cardinality((1..j) \ skipped) = k
  BY DEF MaySit
<1>4. CASE \E skipped \in SUBSET opt :
             /\ given < n /\ Cardinality(skipped) = n - given /\ j \notin skipped
             /\ Cardinality((1..j) \ skipped) = k
  <2>1. given < n /\ (j = k \/ (opt # {} /\ j >= f /\ k >= f))
    BY <1>2, <1>4
  <2>2. opt = {s \in DOMAIN slots : slots[s].optional}
    BY <1>1
  <2> HIDE DEF opt
  <2> QED BY <1>1, <2>1, <2>2 DEF f
<1>5. CASE slots[j].variadic /\ j <= k
  BY <1>1, <1>5
<1> QED BY <1>1, <1>3, <1>4, <1>5

LEMMA SecretPositionalsInv ==
  ASSUME LineInv, ReadInv
  PROVE  SecretPositionalsMasked
<1> SUFFICES ASSUME Answered, ~Unread, claim = NoClaim, Path # <<>>,
                    NEW k \in 1..Given(line, Path),
                    NEW j \in MaySit(Leaf.slots, Given(line, Path), k),
                    Leaf.slots[j].name \in Leaf.secrets
             PROVE  Masked(Shown, line.indices[Len(Path) + k])
  BY DEF SecretPositionalsMasked
<1> DEFINE slots == tree[Path].slots
           given == Given(line, Path)
           at == line.indices[Len(Path) + k]
<1>1. /\ HasRead(line, LineBools, args, Len(args))
      /\ \A i \in DOMAIN args : Shown[i] = ParsedWord(line, Path, i)
  BY LineShown
<1>2. Path \in Seq(DOMAIN Shape) /\ Len(Path) \in Nat /\ Len(Path) <= Len(line.positionals)
      /\ Path \in DOMAIN tree
  BY <1>1, PathTyped
<1>3. slots \in SlotSeq /\ given \in Nat /\ Len(line.positionals) \in Nat
  <2>1. line.positionals \in Seq(DOMAIN Shape)
    BY <1>1 DEF HasRead, WordsRead
  <2>2. Len(line.positionals) \in Nat
    BY <2>1
  <2> QED BY <1>2, <2>2 DEF ReadInv, SlotsHold, Given
<1>4. Len(Path) + k \in 1..Len(line.positionals) /\ k \in Nat /\ k > 0 /\ (Len(Path) + k) - Len(Path) = k
  BY <1>2, <1>3 DEF Given
<1>5. at \in DOMAIN args /\ line.roles[at] = "positional" /\ PositionalAt(line, at) = Len(Path) + k
  BY <1>1, <1>4, WordPlaces
<1>6. /\ j \in 1..Len(slots)
      /\ \/ j = k
         \/ slots[j].variadic /\ k > j
         \/ given < Len(slots) /\ Optional(Path) # {} /\ j >= First(Optional(Path))
            /\ k >= First(Optional(Path))
  <2>1. j \in MaySit(slots, given, k)
    BY DEF Leaf
  <2> HIDE DEF slots, given
  <2> QED BY <1>3, <2>1, MaySitIs DEF Optional, slots, given
<1>7. j \in SecretSlots(Path)
  <2>1. DOMAIN slots = 1..Len(slots)
    BY <1>3 DEF SlotSeq
  <2> QED BY <1>6, <2>1 DEF SecretSlots, Leaf
<1>8. MaskPositional(line, Path, k)
  BY <1>4, <1>6, <1>7 DEF MaskPositional
<1> HIDE DEF at
<1>9. MaskPositional(line, Path, PositionalAt(line, at) - Len(Path))
  BY <1>4, <1>5, <1>8
<1>10. ParsedWord(line, Path, at) = "marker"
  BY <1>5, <1>9 DEF ParsedWord
<1> QED BY <1>1, <1>5, <1>10 DEF Masked, at
-----------------------------------------------------------------------------
(* A line that was not read.                                               *)

(* The path walked is what the recursion says, and words throughout.       *)
WalkStep(walked, i) ==
  IF i = 0 THEN <<>>
  ELSE IF /\ args[i] \notin Hooked /\ i \notin TiedFlagTokens /\ WordHere(i)
          /\ NamesCommand(tree, walked[i - 1], args[i])
       THEN Append(walked[i - 1], args[i]) ELSE walked[i - 1]

LEMMA WalkExists ==
  ASSUME NEW k \in Nat
  PROVE  \E f : f = [n \in 0..k |-> WalkStep(f, n)]
<1> DEFINE S == {m \in Nat : \E f : f = [n \in 0..m |-> WalkStep(f, n)]}
<1>1. 0 \in S
  <2> DEFINE f == [n \in 0..0 |-> <<>>]
  <2>1. f = [n \in 0..0 |-> WalkStep(f, n)]
    BY DEF WalkStep
  <2> QED BY <2>1
<1>2. ASSUME NEW m \in S PROVE m + 1 \in S
  <2>1. PICK f : f = [n \in 0..m |-> WalkStep(f, n)]
    BY <1>2
  <2> DEFINE g == [n \in 0..(m + 1) |-> IF n = m + 1 THEN WalkStep(f, n) ELSE f[n]]
  <2>2. ASSUME NEW n \in 0..(m + 1) PROVE WalkStep(f, n) = WalkStep(g, n)
    <3>1. n # 0 => g[n - 1] = f[n - 1]
      OBVIOUS
    <3> HIDE DEF g
    <3> QED BY <3>1 DEF WalkStep
  <2>3. ASSUME NEW n \in 0..(m + 1) PROVE g[n] = WalkStep(g, n)
    <3>1. CASE n = m + 1
      BY <3>1, <2>2
    <3>2. CASE n \in 0..m
      <4>1. f[n] = WalkStep(f, n) BY <2>1, <3>2
      <4> QED BY <4>1, <3>2, <2>2
    <3> QED BY <3>1, <3>2
  <2> HIDE DEF g
  <2>4. g = [n \in 0..(m + 1) |-> WalkStep(g, n)]
    BY <2>3 DEF g
  <2> QED BY <2>4
<1>3. S = Nat
  <2> HIDE DEF S
  <2>1. S \in SUBSET Nat BY DEF S
  <2> QED BY <1>1, <1>2, <2>1, UpFromZero
<1> QED BY <1>3

LEMMA WalkedWords ==
  ASSUME args \in Seq(DOMAIN Shape), NEW i \in 0..Len(args)
  PROVE  PathShown[i] \in Seq(DOMAIN Shape)
<1>0. Len(args) \in Nat
  OBVIOUS
<1>1. PathShown = [n \in 0..Len(args) |-> WalkStep(PathShown, n)]
  <2>1. \E f : f = [n \in 0..Len(args) |-> WalkStep(f, n)]
    BY <1>0, WalkExists
  <2>2. PathShown = CHOOSE f : f = [n \in 0..Len(args) |-> WalkStep(f, n)]
    BY DEF PathShown, WalkStep
  <2> QED BY <2>1, <2>2
<1>2. \A n \in 0..Len(args) : PathShown[n] = WalkStep(PathShown, n)
  <2> SUFFICES ASSUME NEW f, f = [n \in 0..Len(args) |-> WalkStep(f, n)], NEW n \in 0..Len(args)
               PROVE  f[n] = WalkStep(f, n)
    BY <1>1
  <2> HIDE DEF WalkStep
  <2> QED OBVIOUS
<1> DEFINE S == {n \in Nat : PathShown[n] \in Seq(DOMAIN Shape)}
<1>3. 0 \in S
  <2>1. PathShown[0] = <<>>
    BY <1>0, <1>2 DEF WalkStep
  <2>2. <<>> \in Seq(DOMAIN Shape)
    OBVIOUS
  <2> QED BY <2>1, <2>2
<1>4. ASSUME NEW n \in 0..(Len(args) - 1), n \in S PROVE n + 1 \in S
  <2>1. n + 1 \in 0..Len(args) /\ n + 1 # 0 /\ (n + 1) - 1 = n /\ args[n + 1] \in DOMAIN Shape
    BY <1>0
  <2>2. PathShown[n + 1] = WalkStep(PathShown, n + 1)
    BY <1>2, <2>1
  <2>3. PathShown[n + 1] \in {PathShown[n], Append(PathShown[n], args[n + 1])}
    BY <2>1, <2>2 DEF WalkStep
  <2> DEFINE before == PathShown[n]
  <2>4. before \in Seq(DOMAIN Shape)
    BY <1>4
  <2> HIDE DEF before
  <2>5. Append(before, args[n + 1]) \in Seq(DOMAIN Shape)
    BY <2>1, <2>4
  <2>6. PathShown[n + 1] \in Seq(DOMAIN Shape)
    BY <2>3, <2>4, <2>5 DEF before
  <2> QED BY <2>1, <2>6
<1>5. \A n \in 0..Len(args) : n \in S
  <2> HIDE DEF S
  <2> QED BY <1>0, <1>3, <1>4, UpTo
<1> QED BY <1>5

(* A token shown whole is a flag by itself, a -- or a command's name.      *)
LEMMA OpaqueWhole ==
  ASSUME args \in Seq(DOMAIN Shape), NEW i \in DOMAIN args, OpaqueWords[i] = "whole"
  PROVE  /\ args[i] \notin Hooked /\ i \notin TiedFlagTokens
         /\ \/ ~WordHere(i) /\ ~HasEquals(args[i])
            \/ \E command \in DOMAIN tree : command[Len(command)] = args[i]
<1> DEFINE word == IF i \in TiedFlagTokens THEN "marker"
                   ELSE IF ~WordHere(i) THEN MaskedFlagWord(args[i])
                   ELSE IF NamesCommand(tree, PathShown[i - 1], args[i]) THEN "whole" ELSE "marker"
<1>1. HookWord(args[i], word) = "whole"
  BY DEF OpaqueWords
<1>2. args[i] \notin Hooked /\ word = "whole"
  <2> HIDE DEF word
  <2> QED BY <1>1 DEF HookWord
<1>3. i \notin TiedFlagTokens
  BY <1>2
<1>4. CASE ~WordHere(i)
  BY <1>2, <1>3, <1>4 DEF MaskedFlagWord
<1>5. CASE NamesCommand(tree, PathShown[i - 1], args[i])
  <2>1. i - 1 \in 0..Len(args) /\ args[i] \in DOMAIN Shape
    OBVIOUS
  <2> DEFINE before == PathShown[i - 1]
             command == Append(before, args[i])
  <2>2. before \in Seq(DOMAIN Shape)
    BY <2>1, WalkedWords
  <2>3. command \in DOMAIN tree
    BY <1>5 DEF NamesCommand
  <2> HIDE DEF before
  <2>4. command[Len(command)] = args[i]
    BY <2>1, <2>2
  <2> QED BY <1>2, <1>3, <2>3, <2>4
<1> QED BY <1>2, <1>3, <1>4, <1>5

(* A -- that the hook rewrites is not seen to end the flags.               *)
DashesUnhooked == \A text \in Hooked : text \in DOMAIN Shape => Shape[text].kind # "dashes"

LEMMA OpaqueInv ==
  ASSUME LineInv, DashesUnhooked
  PROVE  OpaqueMasksMore
<1> SUFFICES ASSUME Answered, Unread, NEW n \in 0..Len(args),
                    Parse(tree, LineBools, SubSeq(args, 1, n)).error = None, NEW i \in 1..n,
                    Masked(ParsedWords(Parse(tree, LineBools, SubSeq(args, 1, n)),
                             Resolve(tree, Parse(tree, LineBools, SubSeq(args, 1, n)).positionals)), i),
                    ~Masked(Shown, i), Shape[args[i]].kind # "dashes",
                    ~\E command \in DOMAIN tree : command[Len(command)] = args[i]
             PROVE  FALSE
  BY DEF OpaqueMasksMore
<1> DEFINE list == SubSeq(args, 1, n)
           read == Parse(tree, LineBools, list)
           path == Resolve(tree, read.positionals)
<1>1. args \in Seq(DOMAIN Shape)
  BY DEF LineInv, InputsHold
<1>2. /\ list \in Seq(DOMAIN Shape) /\ Len(list) = n /\ n \in Nat /\ Len(args) \in Nat
      /\ DOMAIN list = 1..n /\ i \in DOMAIN args
      /\ \A j \in 1..n : list[j] = args[j] /\ args[j] \in DOMAIN Shape
  BY <1>1
<1>3. RolesRead(read, list, n) /\ DOMAIN read.roles = 1..n
  <2>1. Reading(read, LineBools, list, Len(list))
    BY <1>2, ParseRead
  <2> HIDE DEF list
  <2> QED BY <1>2, <2>1 DEF Reading, HasRead, list
<1>4. Shown = OpaqueWords
  BY DEF Shown
<1>5. args[i] \notin Hooked /\ i \notin TiedFlagTokens /\ ~WordHere(i) /\ ~HasEquals(args[i])
  BY <1>1, <1>2, <1>4, OpaqueWhole DEF Masked
<1>6. \A j \in 1..i : Shape[args[j]].kind # "dashes"
  <2> SUFFICES ASSUME NEW j \in 1..i, j # i, Shape[args[j]].kind = "dashes" PROVE FALSE
    OBVIOUS
  <2>1. j \in 1..(i - 1) /\ j \in 1..n
    BY <1>2
  <2>2. args[j] \notin Hooked
    BY <1>2, <2>1 DEF DashesUnhooked
  <2> QED BY <1>5, <2>1, <2>2 DEF WordHere
<1>7. Shape[args[i]].kind \in {"help", "flag", "bundle"}
  BY <1>2, <1>5, ShapeAssumption DEF WordHere, HasEquals
<1> HIDE DEF read, list, path
<1>8. i \in Tokens(list, n) /\ list[i] = args[i] /\ i \in DOMAIN list
  BY <1>2, <1>6 DEF Tokens
<1>9. read.roles[i] \in {"flag", "plain"}
  BY <1>3, <1>7, <1>8 DEF RolesRead
<1>10. ~Tied(read, path, i)
  <2> SUFFICES ASSUME Tied(read, path, i) PROVE FALSE
    OBVIOUS
  <2>1. i > 1 /\ Shape[args[i - 1]].kind \in {"flag", "bundle"}
    BY DEF Tied
  <2> QED BY <1>2, <1>5, <1>6, <1>7, <2>1 DEF TiedFlagTokens, IsFlagToken, HasEquals
<1>11. ParsedWord(read, path, i) = "whole"
  <2>1. CASE read.roles[i] = "flag" /\ MaskFlag(path, Shape[args[i]].name)
    BY <1>5, <1>10, <2>1 DEF ParsedWord, MaskedFlagWord
  <2>2. CASE ~(read.roles[i] = "flag" /\ MaskFlag(path, Shape[args[i]].name))
    BY <1>5, <1>9, <1>10, <2>2 DEF ParsedWord, HookWord
  <2> QED BY <2>1, <2>2
<1>12. Masked(ParsedWords(read, path), i)
  BY DEF read, list, path
<1> QED BY <1>3, <1>11, <1>12 DEF Masked, ParsedWords
-----------------------------------------------------------------------------
(* Every value a handler is handed was given on the line for the argument  *)
(* or the flag it asked for, and a handler that must know of --dry-run is  *)
(* never given one it does not.                                            *)
THEOREM ReadsAreGiven == Spec => []ReadsWereGiven
<1>1. Inv /\ LineInv /\ ReadInv => ReadsWereGiven
  BY ReadsInv
<1> QED BY <1>1, ReadInvariant, PTL

(* The echoed line never shows the value of a flag that the commands on    *)
(* its path mark secret or do not declare, in one token or in two.         *)
THEOREM SecretFlagsStayHidden == Spec => []SecretFlagsMasked
<1>1. Inv /\ LineInv /\ ReadInv => SecretFlagsMasked
  BY SecretFlagsInv
<1> QED BY <1>1, ReadInvariant, PTL

(* Nor a positional that may be the secret one, whichever of the optional  *)
(* positionals the caller left out.                                        *)
THEOREM SecretPositionalsStayHidden == Spec => []SecretPositionalsMasked
<1>1. Inv /\ LineInv /\ ReadInv => SecretPositionalsMasked
  BY SecretPositionalsInv
<1> QED BY <1>1, ReadInvariant, PTL

(* A handler's refusal of an argument or a flag repeats no text that the   *)
(* echoed line masks.                                                      *)
THEOREM RefusalsStaySilent == Spec => []RefusalsRepeatNothingMasked
<1>1. Inv /\ LineInv /\ ReadInv => RefusalsRepeatNothingMasked
  BY RefusalsInv
<1> QED BY <1>1, ReadInvariant, PTL

(* Whatever booleans a raw command may have, its echoed tail hides the     *)
(* value of each flag, if the hook rewrites no bare flag: the hook's text  *)
(* is shown before raw_tail_words looks for a value to hide.               *)
THEOREM RawValuesStayHidden ==
  ASSUME FlagsUnhooked
  PROVE  Spec => []RawValuesMasked
<1>1. Inv /\ LineInv /\ ReadInv => RawValuesMasked
  BY RawValuesInv
<1> QED BY <1>1, ReadInvariant, PTL

(* A line that could not be read hides all that reading it, or any part of *)
(* it, would hide, but for the names of commands and a --; if the hook     *)
(* rewrites no --, which opaque_words would then not see.                  *)
THEOREM UnreadLinesHideMore ==
  ASSUME DashesUnhooked
  PROVE  Spec => []OpaqueMasksMore
<1>1. LineInv => OpaqueMasksMore
  BY OpaqueInv
<1> QED BY <1>1, LineInvariant, PTL
=============================================================================
