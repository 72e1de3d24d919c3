----------------------------- MODULE Redaction -----------------------------
(***************************************************************************)
(* What the command field of an answer shows of argv. A line dispatch      *)
(* could read is masked by the roles its parse gave the tokens; a line it  *)
(* could not, and a raw command's tail, by what the tokens may be.         *)
(*                                                                         *)
(* A command also has the names it marks secret, and the positionals its   *)
(* usage declares: secrets, and slots, a sequence of [name, optional,      *)
(* variadic]. No text is a lone -, which is not a word here.               *)
(***************************************************************************)
EXTENDS Dispatch

CONSTANT Hooked  \* the texts the redact_arg hook rewrites

(* The positionals of a usage string come in its order.                    *)
ASSUME SlotsAssumption ==
  \A given \in Inputs : \A path \in DOMAIN given.cli.tree :
    given.cli.tree[path].slots \in Seq([name : STRING, optional : BOOLEAN, variadic : BOOLEAN])

(* A token is shown whole, as a flag without its value (name), as the      *)
(* marker, or as the hook's text.                                          *)
HasEquals(text) == Shape[text].kind \in {"valued", "invalid"}
IsFlagToken(text) == Shape[text].kind \notin {"word", "dashes"}

MaskedFlagWord(text) == IF HasEquals(text) THEN "name" ELSE "whole"
HookWord(text, other) == IF text \in Hooked THEN "hook" ELSE other
-----------------------------------------------------------------------------
(* A parsed line: redact_for_path and Invocation::redact.                  *)

BugMaskFlag(path, flag) ==
  \/ path # <<>> /\ flag \in tree[path].secrets
  \/ flag \notin Declared(path) \cup Framework \cup (IF cli.reserved THEN Reserved ELSE {})

MaskFlag(path, flag) ==
  \/ \E command \in Along(tree, path) : flag \in command.secrets
  \/ flag \notin Declared(path) \cup Framework \cup (IF cli.reserved THEN Reserved ELSE {})

Given(parsed, path) == Len(parsed.positionals) - Len(path)

(* The first optional slot from which every positional is masked, as one   *)
(* may have been skipped. Secret slots are by position.                    *)
SecretSlots(path) == {s \in DOMAIN tree[path].slots : tree[path].slots[s].name \in tree[path].secrets}
Optional(path) == {s \in DOMAIN tree[path].slots : tree[path].slots[s].optional}

BugMaskPositional(parsed, path, own) ==
  /\ path # <<>>
  /\ \E s \in SecretSlots(path) : own = s \/ (tree[path].slots[s].variadic /\ own > s)

MaskPositional(parsed, path, own) ==
  /\ path # <<>> /\ own > 0
  /\ \/ /\ Given(parsed, path) < Len(tree[path].slots)
        /\ Optional(path) # {}
        /\ \E s \in SecretSlots(path) : s >= First(Optional(path))
        /\ own >= First(Optional(path))
     \/ \E s \in SecretSlots(path) : own = s \/ (tree[path].slots[s].variadic /\ own > s)

(* Follows: the token before left a value open for a masked flag.          *)
Tied(parsed, path, i) ==
  /\ i > 1
  /\ LET before == Shape[args[i - 1]] IN
     \/ /\ parsed.roles[i - 1] = "flag" /\ before.kind = "flag" /\ before.name \notin LineBools
        /\ parsed.roles[i] # "positional"
        /\ MaskFlag(path, before.name)
     \/ /\ parsed.roles[i - 1] = "plain" /\ before.kind = "bundle"
        /\ MaskFlag(path, before.first) \/ MaskFlag(path, before.second)

PositionalAt(parsed, i) == CHOOSE k \in DOMAIN parsed.indices : parsed.indices[k] = i

ParsedWord(parsed, path, i) ==
  LET role == parsed.roles[i] IN
  CASE Tied(parsed, path, i) -> "marker"
    [] ~Tied(parsed, path, i) /\ role = "flag" /\ MaskFlag(path, Shape[args[i]].name) ->
         MaskedFlagWord(args[i])
    [] ~Tied(parsed, path, i) /\ role = "value" /\ MaskFlag(path, Shape[args[i - 1]].name) ->
         "marker"
    [] ~Tied(parsed, path, i) /\ role = "positional"
         /\ MaskPositional(parsed, path, PositionalAt(parsed, i) - Len(path)) -> "marker"
    [] OTHER -> HookWord(args[i], "whole")

(* The words for a line, or for a prefix of it. *)
ParsedWords(parsed, path) == [i \in DOMAIN parsed.roles |-> ParsedWord(parsed, path, i)]

-----------------------------------------------------------------------------
(* A line that was not parsed: opaque_words.                               *)

TiedFlagTokens ==
  {i \in DOMAIN args :
    /\ i > 1 /\ \A j \in 1..i : Shape[args[j]].kind # "dashes"
    /\ IsFlagToken(args[i]) /\ IsFlagToken(args[i - 1]) /\ ~HasEquals(args[i - 1])}

BugOpaqueWords ==
  [i \in DOMAIN args |->
    HookWord(args[i], IF Shape[args[i]].kind # "word" THEN MaskedFlagWord(args[i])
                      ELSE IF NamesCommand(tree, <<>>, args[i]) THEN "whole" ELSE "marker")]

(* A -- ends the flags unless the hook rewrote it. *)
WordHere(i) ==
  \/ \E j \in 1..(i - 1) : Shape[args[j]].kind = "dashes" /\ args[j] \notin Hooked
  \/ Shape[args[i]].kind = "word"

(* The names of commands are shown, each after the path walked before it.  *)
PathShown ==
  LET path[i \in 0..Len(args)] ==
        IF i = 0 THEN <<>>
        ELSE IF /\ args[i] \notin Hooked /\ i \notin TiedFlagTokens /\ WordHere(i)
                /\ NamesCommand(tree, path[i - 1], args[i])
             THEN Append(path[i - 1], args[i]) ELSE path[i - 1]
  IN path

OpaqueWords ==
  [i \in DOMAIN args |->
    HookWord(args[i],
      IF i \in TiedFlagTokens THEN "marker"
      ELSE IF ~WordHere(i) THEN MaskedFlagWord(args[i])
      ELSE IF NamesCommand(tree, PathShown[i - 1], args[i]) THEN "whole" ELSE "marker")]
-----------------------------------------------------------------------------
(* A raw command's line: raw_command_line.                                 *)

BugRawTail(start) ==
  LET open(i) == i >= start /\ Shape[args[i]].kind \in {"flag", "bundle"} IN
  [i \in start..Len(args) |->
    HookWord(args[i], IF open(i - 1) /\ ~open(i - 2) THEN "marker" ELSE MaskedFlagWord(args[i]))]

(* raw_tail_words: open[i] says whether token i was a bare flag.           *)
RawTail(start) ==
  LET ended(i) ==
        \E j \in start..(i - 1) : Shape[args[j]].kind = "dashes" /\ args[j] \notin Hooked
      isFlag(i) == ~ended(i) /\ Shape[args[i]].kind # "word"
      open(i) ==
        /\ i >= start /\ isFlag(i) /\ args[i] \notin Hooked
        /\ Shape[args[i]].kind # "dashes" /\ ~HasEquals(args[i])
  IN [i \in start..Len(args) |->
       HookWord(args[i],
         IF open(i - 1) /\ ~(isFlag(i) /\ Shape[args[i]].kind = "dashes") THEN "marker"
         ELSE IF isFlag(i) THEN MaskedFlagWord(args[i]) ELSE "whole")]

(* Before the name are command names, or a prefix no command declares.     *)
RawWords ==
  [i \in DOMAIN args |->
    IF i >= claim.start THEN RawTail(claim.start)[i]
    ELSE IF line.roles = <<>> THEN "whole" ELSE ParsedWord(line, <<>>, i)]
-----------------------------------------------------------------------------
(* The line of the answer. *)
Unread == answer.code \in {"INVALID_ENV", "PARSE_ERROR"}

Shown ==
  CASE Unread -> OpaqueWords
    [] ~Unread /\ claim # NoClaim -> RawWords
    [] ~Unread /\ claim = NoClaim -> ParsedWords(line, Path)

(* argv that is not UTF-8 has no tokens to show. *)
Answered == stage = "answered" /\ sound.utf8

Masked(words, i) == words[i] # "whole"
-----------------------------------------------------------------------------
(* Properties. *)

(* The slots the k-th positional of a command may fill, when as many       *)
(* optional ones are skipped as positionals are missing, or none is.       *)
MaySit(slots, given, k) ==
  LET n == Len(slots) IN
  {j \in 1..n :
    \/ j = k
    \/ slots[j].variadic /\ j <= k
    \/ \E skipped \in SUBSET {s \in 1..n : slots[s].optional} :
         /\ given < n /\ Cardinality(skipped) = n - given /\ j \notin skipped
         /\ Cardinality((1..j) \ skipped) = k}

(* A positional that may be the secret one, whichever optional positionals *)
(* the caller left out, is masked (README, "Secrets in argv").             *)
SecretPositionalsMasked ==
  Answered /\ ~Unread /\ claim = NoClaim /\ Path # <<>> =>
    \A k \in 1..Given(line, Path) :
      (\E s \in MaySit(Leaf.slots, Given(line, Path), k) : Leaf.slots[s].name \in Leaf.secrets)
        => Masked(Shown, line.indices[Len(Path) + k])

(* A command on the path marks flag secret, or none declares it and it is  *)
(* not the framework's.                                                    *)
Confidential(flag) ==
  LET along == {tree[SubSeq(Path, 1, n)] : n \in DOMAIN Path} IN
  \/ \E command \in along : flag \in command.secrets
  \/ /\ \A command \in along : flag \notin command.bools \cup command.values
     /\ flag \notin Framework /\ (cli.reserved => flag \notin Reserved)

(* The value of a flag that the commands on the path mark secret or do not *)
(* declare is never shown, in one token or in two (README).                *)
SecretFlagsMasked ==
  Answered /\ ~Unread /\ claim = NoClaim =>
    \A i \in DOMAIN args :
      LET token == Shape[args[i]] IN
      i \in FrameworkTokens /\ token.kind \in {"flag", "valued"} /\ Confidential(token.name) =>
        /\ token.kind = "valued" => Masked(Shown, i)
        /\ token.kind = "flag" /\ token.name \notin line.bare => Masked(Shown, i + 1)

(* A line that was not read shows no token that reading it, or any part of *)
(* it up to an error, would have masked, but for words that name commands  *)
(* and a --, which is no value (README: "Where the framework cannot tell a *)
(* value from a word, it masks more").                                     *)
OpaqueMasksMore ==
  Answered /\ Unread =>
    \A n \in 0..Len(args) :
      LET read == Parse(tree, LineBools, SubSeq(args, 1, n))
          path == Resolve(tree, read.positionals)
      IN read.error = None =>
           \A i \in 1..n :
             Masked(ParsedWords(read, path), i) /\ ~Masked(Shown, i)
               => \/ Shape[args[i]].kind = "dashes"
                  \/ \E command \in DOMAIN tree : command[Len(command)] = args[i]

(* A raw command's line never shows what is the value of a flag under some *)
(* choice of the booleans it may have (README: "its flags lose their       *)
(* values and the token after a bare flag is masked").                     *)
RawValuesMasked ==
  ran.handler = "raw" =>
    \A bools \in SUBSET UNION {Names(args[i]) : i \in DOMAIN args} :
      LET tail == SubSeq(args, claim.start, Len(args))
          read == Parse([none \in {} |-> None], bools, tail)
      IN \A i \in DOMAIN tail :
           /\ read.roles[i] = "value" => Masked(Shown, claim.start + i - 1)
           /\ read.roles[i] = "flag" /\ HasEquals(tail[i]) => Masked(Shown, claim.start + i - 1)
=============================================================================
