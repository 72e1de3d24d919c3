----------------------------- MODULE Invocation -----------------------------
(***************************************************************************)
(* The command tree, and the parse of an argv against it.                  *)
(*                                                                         *)
(* A tree is a function from command paths to what dispatch reads of the   *)
(* command there: the handler it has and what its usage string declares.   *)
(* argv is a sequence of texts without the program name. What the parser   *)
(* sees in a text (its dashes, its =) is given by Shape.                   *)
(***************************************************************************)
EXTENDS Integers, Sequences

CONSTANTS
  Shape,     \* text -> its token: see Token
  Spelled    \* the values that spell a boolean: a function to BOOLEAN

None == "none"

(* None is no flag's name.                                                  *)
ASSUME ShapeAssumption ==
  \A text \in DOMAIN Shape :
    /\ Shape[text].kind \in {"word", "dashes", "help", "invalid", "flag", "valued", "bundle"}
    /\ Shape[text].kind = "flag" => Shape[text].name # None

(* Words (negative numbers and a lone - included), bare flags, flags with   *)
(* a value, bundles of two letters, --, --help or -h, and flags without a   *)
(* usable name.                                                             *)
Token(names, values) ==
  [kind : {"word", "dashes", "help", "invalid"}]
    \cup [kind : {"flag"}, name : names]
    \cup [kind : {"valued"}, name : names, value : values]
    \cup [kind : {"bundle"}, first : names, second : names]

(* The flags a text names. *)
Names(text) ==
  LET token == Shape[text] IN
  CASE token.kind \in {"flag", "valued"} -> {token.name}
    [] token.kind = "bundle" -> {token.first, token.second}
    [] OTHER -> {}

(* A tree: whatever has a command has one at each step of the way, and     *)
(* commands are called by words.                                           *)
IsTree(tree) ==
  \A path \in DOMAIN tree :
    /\ path \in Seq(DOMAIN Shape) /\ path # <<>>
    /\ \A n \in DOMAIN path :
         SubSeq(path, 1, n) \in DOMAIN tree /\ Shape[path[n]].kind = "word"

Longest(S) == CHOOSE n \in S : \A k \in S : k <= n

First(S) == CHOOSE n \in S : \A k \in S : n <= k

(* Walk words down the tree as far as they name commands. *)
Resolve(tree, words) ==
  SubSeq(words, 1, Longest({n \in 0..Len(words) :
                              n = 0 \/ SubSeq(words, 1, n) \in DOMAIN tree}))

(* The commands along a path, root first. *)
Along(tree, path) == {tree[SubSeq(path, 1, n)] : n \in 1..Len(path)}

HasChildren(tree, path) ==
  \E other \in DOMAIN tree :
    Len(other) > Len(path) /\ SubSeq(other, 1, Len(path)) = path

IsRaw(command) == command.handler = "raw"

(* names_command: may text, read after positionals, name a command? *)
NamesCommand(tree, positionals, text) ==
  /\ Append(positionals, text) \in DOMAIN tree
  /\ \A command \in Along(tree, positionals) : ~IsRaw(command)
-----------------------------------------------------------------------------
(* TokenParser. *)

NoFlags == [flag \in {} |-> None]

NewParser(args) ==
  [flags |-> NoFlags, bare |-> {}, positionals |-> <<>>, indices |-> <<>>,
   help |-> FALSE, only |-> FALSE, pending |-> None, error |-> None,
   roles |-> [i \in DOMAIN args |-> "plain"]]

BugSetFlagKeepsLast(p, key, value) ==
  [p EXCEPT !.flags = [k \in DOMAIN @ \cup {key} |-> IF k = key THEN value ELSE @[k]]]

SetFlag(p, key, value) ==
  IF key \in DOMAIN p.flags THEN [p EXCEPT !.error = "repeated"]
  ELSE [p EXCEPT !.flags = [k \in DOMAIN @ \cup {key} |-> IF k = key THEN value ELSE @[k]]]

SetBareFlag(p, key) == SetFlag([p EXCEPT !.bare = @ \cup {key}], key, "true")

(* Resolve a pending bare flag as a boolean. *)
FlushPending(p) ==
  IF p.pending = None THEN p
  ELSE SetBareFlag([p EXCEPT !.pending = None], p.pending)

PushPositional(p, i, text) ==
  [p EXCEPT !.roles[i] = "positional",
            !.positionals = Append(@, text), !.indices = Append(@, i)]

BareFlag(p, bools, name) ==
  IF name \in bools THEN SetBareFlag(p, name)
  ELSE IF name \in DOMAIN p.flags THEN [p EXCEPT !.error = "repeated"]
  ELSE [p EXCEPT !.pending = name]

BugValueDropped(tree, p, i, text) ==
  IF p.pending = None THEN PushPositional(p, i, text)
  ELSE IF NamesCommand(tree, p.positionals, text)
       THEN PushPositional(FlushPending(p), i, text)
       ELSE [FlushPending(p) EXCEPT !.roles[i] = "value"]

ValueOrPositional(tree, p, i, text) ==
  IF p.pending = None THEN PushPositional(p, i, text)
  ELSE IF NamesCommand(tree, p.positionals, text)
       THEN PushPositional(FlushPending(p), i, text)
       ELSE SetFlag([p EXCEPT !.pending = None, !.roles[i] = "value"], p.pending, text)

Flagged(p, i) == [FlushPending(p) EXCEPT !.roles[i] = "flag"]

Feed(tree, bools, p, i, text) ==
  LET token == Shape[text] IN
  CASE p.error # None -> p
    [] p.error = None /\ p.only -> PushPositional(FlushPending(p), i, text)
    [] p.error = None /\ ~p.only ->
         CASE token.kind = "dashes" -> [FlushPending(p) EXCEPT !.only = TRUE]
           [] token.kind = "help" -> [FlushPending(p) EXCEPT !.help = TRUE]
           [] token.kind = "invalid" -> [p EXCEPT !.error = "invalid"]
           [] token.kind = "valued" -> SetFlag(Flagged(p, i), token.name, token.value)
           [] token.kind = "flag" -> BareFlag(Flagged(p, i), bools, token.name)
           [] token.kind = "bundle" ->
                SetBareFlag(SetBareFlag(FlushPending(p), token.first), token.second)
           [] token.kind = "word" -> ValueOrPositional(tree, p, i, text)

(* The parser after each token: fed[n] has read the first n. *)
Fed(tree, bools, args) ==
  LET fed[n \in 0..Len(args)] ==
        IF n = 0 THEN NewParser(args) ELSE Feed(tree, bools, fed[n - 1], n, args[n])
  IN fed

(* Invocation::parse_in_tree. *)
Parse(tree, bools, args) == FlushPending(Fed(tree, bools, args)[Len(args)])
-----------------------------------------------------------------------------
(* What dispatch asks of a parsed line. *)

(* bool_flag_on: a flag whose value spells true. *)
On(line, flag) ==
  /\ flag \in DOMAIN line.flags
  /\ line.flags[flag] \in DOMAIN Spelled
  /\ Spelled[line.flags[flag]]

NotABoolean(line, flag) ==
  flag \in DOMAIN line.flags /\ line.flags[flag] \notin DOMAIN Spelled
=============================================================================
