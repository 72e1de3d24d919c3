--------------------------- MODULE CommandRequest ---------------------------
(***************************************************************************)
(* What a handler reads of its line through CommandRequest, and what the   *)
(* errors of the typed accessors say of it. A handler that runs may ask    *)
(* for any argument or flag; its `?` makes the refusal the answer of the   *)
(* run, next to the command field that Redaction masked.                   *)
(***************************************************************************)
EXTENDS Redaction

CONSTANTS
  Numbers,  \* the texts that parse as the type the handler asks for
  Infinite  \* those that parse to an infinite or NaN float

(* Invocation::redact also keeps which flags and positionals it masked: a  *)
(* flag named without its value counts, as does what the hook rewrote.     *)
MaskedToken(i) ==
  LET role == line.roles[i] IN
  \/ Tied(line, Path, i)
  \/ role = "flag" /\ MaskFlag(Path, Shape[args[i]].name)
  \/ role = "value" /\ MaskFlag(Path, Shape[args[i - 1]].name)
  \/ role = "positional" /\ MaskPositional(line, Path, PositionalAt(line, i) - Len(Path))
  \/ args[i] \in Hooked

BugMaskedFlags ==
  {Shape[args[i]].name : i \in {i \in DOMAIN line.roles :
     line.roles[i] = "flag" /\ MaskedToken(i)}}

MaskedFlags ==
  {Shape[args[i]].name : i \in {i \in DOMAIN line.roles :
     \/ line.roles[i] = "flag" /\ MaskedToken(i)
     \/ line.roles[i] = "flag" /\ i + 1 \in DOMAIN line.roles
          /\ line.roles[i + 1] = "value" /\ MaskedToken(i + 1)}}

MaskedPositionals ==
  {k \in DOMAIN line.positionals : MaskedToken(line.indices[k])}

(* The flags that the text of an UNKNOWN_FLAG may not name.                *)
HiddenFlags ==
  UNION {Names(args[i]) : i \in {i \in DOMAIN line.roles :
    Tied(line, Path, i) /\ line.roles[i] \in {"flag", "plain"}}}
-----------------------------------------------------------------------------
(* The accessors: a value, or the refusal with the text it quotes and      *)
(* whether it carries the parse error, which may repeat that text.         *)

Marker == "<redacted>"
Absent == [code |-> None, value |-> None, quotes |-> None, detail |-> FALSE]
Read(value) == [Absent EXCEPT !.value = value]
Refusal(code, quotes, detail) == [code |-> code, value |-> None, quotes |-> quotes, detail |-> detail]

Arg(index) == IF index < Len(Remaining) THEN Read(Remaining[index + 1]) ELSE Absent

RequireArg(index) ==
  IF Arg(index) = Absent THEN Refusal("MISSING_ARG", None, FALSE) ELSE Arg(index)

(* parse::<T>, and parsed_value_is_finite. masked: the text must not be    *)
(* repeated.                                                               *)
ParseAs(text, masked, code) ==
  LET shown == IF masked THEN Marker ELSE text IN
  CASE text \in Infinite -> Refusal(code, shown, FALSE)
    [] text \in Numbers \ Infinite -> Read(text)
    [] text \notin Numbers \cup Infinite -> Refusal(code, shown, ~masked)

ArgParse(index) ==
  IF Arg(index) = Absent THEN RequireArg(index)
  ELSE ParseAs(Remaining[index + 1], Len(Path) + index + 1 \in MaskedPositionals, "INVALID_ARG")

FlagRead(key) == IF key \in DOMAIN line.flags THEN Read(line.flags[key]) ELSE Absent

BugFlagParse(key) ==
  IF key \notin DOMAIN line.flags THEN Absent
  ELSE ParseAs(line.flags[key], key \in MaskedFlags, "INVALID_FLAG")

(* A bare flag reads as "true" but carries no value. *)
FlagParse(key) ==
  CASE key \notin DOMAIN line.flags -> Absent
    [] key \in DOMAIN line.flags \cap line.bare -> Refusal("INVALID_FLAG", None, FALSE)
    [] key \in DOMAIN line.flags \ line.bare ->
         ParseAs(line.flags[key], key \in MaskedFlags, "INVALID_FLAG")

FlagOn(key) ==
  CASE key \notin DOMAIN line.flags -> Read("false")
    [] NotABoolean(line, key) ->
         Refusal("INVALID_FLAG",
                 IF key \in MaskedFlags THEN Marker ELSE line.flags[key], FALSE)
    [] key \in DOMAIN line.flags /\ ~NotABoolean(line, key) ->
         Read(IF On(line, key) THEN "true" ELSE "false")

(* dry_run, quiet, no_cache, and the other reads of a reserved boolean.    *)
ReservedOn(flag) == On(line, flag)

(* select: nothing of a bare --select. *)
SelectText == IF Select \in line.bare THEN None ELSE FlagRead(Select).value
-----------------------------------------------------------------------------
(* Where a handler's argument and a flag's value are on argv. *)
ArgAt(index) == line.indices[Len(Path) + index + 1]

FlagGivenAt(key, i) ==
  LET token == Shape[args[i]] IN
  i \in FrameworkTokens /\ token.kind \in {"flag", "valued"} /\ token.name = key

(* value is on the line for flag key, in its token or in the next. *)
GivenFor(key, value) ==
  \E i \in DOMAIN args : FlagGivenAt(key, i) /\
    IF Shape[args[i]].kind = "valued" THEN Shape[args[i]].value = value
    ELSE i < Len(args) /\ args[i + 1] = value

Keys == UNION {Names(args[i]) : i \in DOMAIN args}

(* A refusal says text; one that spells the marker would say nothing.      *)
Repeats(asked, text) ==
  asked.detail \/ (asked.quotes = text /\ text \notin {None, Marker})

(* No refusal of a typed accessor repeats a text that the command field of *)
(* the same answer masks, as the text it quotes or in the parse error      *)
(* (README: "and in the text of every error the framework or               *)
(* CommandRequest::arg_parse and flag_parse raise"); and no unknown flag   *)
(* is named that a token masked as a whole spells ("its letters are left   *)
(* out of UNKNOWN_FLAG and PARSE_ERROR text").                             *)
RefusalsRepeatNothingMasked ==
  /\ Answered /\ ~Unread /\ claim = NoClaim =>
       \A i \in FrameworkTokens : Shown[i] = "marker" => Names(args[i]) \subseteq HiddenFlags
  /\ Handled /\ sound.utf8 =>
    /\ \A index \in 0..(Len(Remaining) - 1) :
         Repeats(ArgParse(index), args[ArgAt(index)]) => ~Masked(Shown, ArgAt(index))
    /\ \A key \in Keys : \A asked \in {FlagParse(key), FlagOn(key)} : \A i \in DOMAIN args :
         FlagGivenAt(key, i) /\ Repeats(asked, line.flags[key]) =>
           /\ ~Masked(Shown, i)
           /\ Shape[args[i]].kind = "flag" /\ key \notin line.bare => ~Masked(Shown, i + 1)

(* A value a handler reads typed was given on the line for that argument   *)
(* or flag: a flag given bare has none, whatever its type takes, nor has a *)
(* bare --select; and a handler that reads --dry-run as on declared it     *)
(* (flag_parse: "A bare flag reads as "true" but carries no value").       *)
ReadsWereGiven ==
  Handled =>
    /\ \A index \in 0..Len(args) :
         ArgParse(index).value # None => args[ArgAt(index)] = ArgParse(index).value
    /\ \A key \in Keys : FlagParse(key).value # None => GivenFor(key, FlagParse(key).value)
    /\ SelectText # None => GivenFor(Select, SelectText)
    /\ cli.reserved /\ ReservedOn(DryRun) => \E command \in Along(tree, ran.path) : command.dry
=============================================================================
