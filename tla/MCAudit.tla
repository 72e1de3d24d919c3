------------------------------ MODULE MCAudit ------------------------------
(* Small instances of Redaction, CommandRequest and Audit for TLC. The     *)
(* lines of Inputs are any texts, on a CLI whose secrets are flags,        *)
(* inherited flags, a positional after an optional one and a variadic      *)
(* positional, with a raw command in a group. AuditSpec adds a CLI one of  *)
(* whose usage strings is any sequence of a few tokens, with the lines its *)
(* template makes, and the lines that sequences of a few tokens make as a  *)
(* next action.                                                            *)
EXTENDS CommandRequest, Audit, TLC, SequencesExt

CONSTANTS
  Texts,     \* the texts on the lines of Inputs
  MaxTokens, \* bound: the texts of such a line, or after a command's name
  MaxUsage,  \* bound: the tokens of CoreTokens after get in its usage string
  MaxOther,  \* bound: the tokens of any kind there, and for other commands
  MaxAction  \* bound: the tokens of a next action

Word(text) == text :> [kind |-> "word"]
Bare(text, flag) == text :> [kind |-> "flag", name |-> flag]

Valued(text, flag, v) == text :> [kind |-> "valued", name |-> flag, value |-> v]

AllShapes ==
  Word("vault") @@ Word("put") @@ Word("run") @@ Word("z") @@ Word("h")
  @@ Bare("--key", "key") @@ Bare("--odd", "odd") @@ Bare("--select", "select")
  @@ Bare("--dry-run", "dry-run") @@ Valued("--key=z", "key", "z") @@ Valued("--odd=z", "odd", "z")
  @@ ("--" :> [kind |-> "dashes"]) @@ ("--=x" :> [kind |-> "invalid"])
  @@ Word("get") @@ Word("list") @@ Word("code") @@ Word("open") @@ Word("grep")
  @@ Word("now") @@ Word("k=v") @@ Word("b") @@ Word("1") @@ Word("2") @@ Word("3")
  @@ Bare("--v", "v") @@ Bare("--x", "x") @@ Bare("-s", "s") @@ Bare("--json", "json")
  @@ Valued("--s=2", "s", "2")
  @@ ("-vk" :> [kind |-> "bundle", first |-> "v", second |-> "key"])
  @@ ("--help" :> [kind |-> "help"])

Fillers == ("a" :> "1") @@ ("s" :> "2") @@ ("b" :> "3")

Spellings == [spelled \in {"true"} |-> TRUE]
-----------------------------------------------------------------------------
(* Any line. *)

Command(handler) ==
  [handler |-> handler, usage |-> TRUE, bools |-> {}, values |-> {}, arity |-> 0,
   variadic |-> FALSE, unknown |-> FALSE, extra |-> FALSE, dry |-> FALSE,
   secrets |-> {}, slots |-> <<>>]

Positional(name, optional, variadic) == [name |-> name, optional |-> optional, variadic |-> variadic]

(* vault --key, a secret for what is under it: open [--v] <a> [b] <s>,     *)
(* with s secret, which takes any flag; put <a> [s...]; and raw run --odd. *)
Vault ==
  (<<"vault">> :> [Command(None) EXCEPT !.values = {"key"}, !.secrets = {"key"}])
  @@ (<<"vault", "open">> :>
       [Command("envelope") EXCEPT !.bools = {"v"}, !.unknown = TRUE, !.secrets = {"s"},
          !.arity = 3, !.slots = <<Positional("a", FALSE, FALSE), Positional("b", TRUE, FALSE),
                                   Positional("s", FALSE, FALSE)>>])
  @@ (<<"put">> :>
       [Command("envelope") EXCEPT !.variadic = TRUE, !.dry = TRUE, !.secrets = {"s"}, !.values = {"v"},
          !.slots = <<Positional("a", FALSE, FALSE), Positional("s", TRUE, TRUE)>>])
  @@ (<<"vault", "run">> :> [Command("raw") EXCEPT !.values = {"odd"}])

(* Any texts, alone and after the names of a command. *)
AnyLine ==
  [cli : [tree : {Vault}, reserved : {TRUE}, given : {[from |-> "line"]}],
   args : {path \o rest : path \in {<<>>, <<"vault", "open">>, <<"put">>, <<"vault", "run">>},
                          rest \in BoundedSeq(Texts, MaxTokens)}]
-----------------------------------------------------------------------------
(* Lines made of templates. *)

Literal(text) ==
  [open |-> FALSE, close |-> "no", dots |-> FALSE, kind |-> "word", flags |-> {},
   eq |-> FALSE, holder |-> NoHolder, text |-> text]
Slot(name) == [Literal(name) EXCEPT !.kind = "slot", !.holder = name]
Flag(text, names) ==
  [Literal(text) EXCEPT !.kind = IF Cardinality(names) = 1 /\ text # "-s" THEN "long" ELSE "short",
                        !.flags = names]
Opening(token) == [token EXCEPT !.open = TRUE]
Closing(token) == [token EXCEPT !.close = "end"]
Bracketed(token) == Opening(Closing(token))
Dots(token) == [token EXCEPT !.dots = TRUE]

(* <a> <s> <s>... [b] [b]... [<s>] [--v] [-s <a>] [--s=<s>]                *)
CoreTokens ==
  {Slot("a"), Slot("s"), Dots(Slot("s")), Bracketed(Literal("b")),
   [Opening(Dots(Literal("b"))) EXCEPT !.close = "mid"], Bracketed(Slot("s")),
   Bracketed(Flag("--v", {"v"})), Opening(Flag("-s", {"s"})), Closing(Slot("a")),
   Bracketed([Flag("--s=2", {"s"}) EXCEPT !.eq = TRUE, !.holder = "s"])}

(* [-vk] -s now [--json] [--help]                                          *)
RareTokens ==
  {Bracketed(Flag("-vk", {"v", "key"})), Flag("-s", {"s"}), Literal("now"),
   Bracketed(Flag("--json", {"json"})), Bracketed(Flag("--help", {"help"}))}

ActionTokens ==
  {Literal(text) : text \in {"get", "list", "code", "open", "grep", "now"}}
    \cup {[Literal("k=v") EXCEPT !.eq = TRUE], Slot("a"), Dots(Slot("s")),
          Flag("--v", {"v"}), Bracketed(Flag("--v", {"v"}))}

Literals(path) == [i \in DOMAIN path |-> Literal(path[i])]
-----------------------------------------------------------------------------
Plain(handler, template) ==
  [handler |-> handler, usage |-> template # <<>>, template |-> template, secrets |-> {},
   bools |-> {}, values |-> {}, arity |-> 0, variadic |-> FALSE, slots |-> <<>>,
   unknown |-> FALSE, extra |-> FALSE, dry |-> FALSE,
   program |-> TRUE, described |-> TRUE, actions |-> {}]

(* get <a>, get list [b], a group with an inherited flag, a raw command.   *)
Commands ==
  (<<"get">> :> Plain("envelope", <<Literal("get"), Slot("a")>>))
  @@ (<<"get", "list">> :> Plain("envelope", Literals(<<"get", "list">>) \o <<Bracketed(Literal("b"))>>))
  @@ (<<"code">> :> Plain(None, <<Literal("code"), Bracketed(Flag("--x", {"x"}))>>))
  @@ (<<"code", "open">> :> Plain("stream", Literals(<<"code", "open">>)))
  @@ (<<"code", "grep">> :> Plain("raw", Literals(<<"code", "grep">>) \o <<Slot("a"), Slot("s")>>))

Tree == [path \in DOMAIN Commands |-> Compiled(Commands[path])]

(* No mark, or one that names a placeholder or a flag of the template.     *)
Marks(template) ==
  {{}} \cup {{name} : name \in {"a", "s"} \cap
    UNION {{template[i].holder} \cup template[i].flags : i \in DOMAIN template}}

WithUsage(path, u, marks) ==
  [Tree EXCEPT ![path] =
     Compiled([Commands[path] EXCEPT !.template = u, !.usage = TRUE, !.secrets = marks])]

From(what, path, template, fills) ==
  [from |-> what, path |-> path, template |-> template, fills |-> fills]

Input(commands, reserved, what) ==
  [cli |-> [tree |-> commands, reserved |-> reserved, given |-> what],
   args |-> Argv(what.fills)]

(* Any line, those of get with a single token after its name, and those of *)
(* a next action of one token.                                             *)
AnyInput ==
  AnyLine
  \cup UNION {LET u == Literals(<<"get">>) \o <<token>> IN
              {Input(WithUsage(<<"get">>, u, {}), TRUE, From("template", <<"get">>, u, fills)) :
                fills \in Filled(u)} : token \in CoreTokens \cup RareTokens}
  \cup UNION {{Input(Tree, TRUE, From("action", <<>>, <<token>>, fills)) :
                fills \in Filled(<<token>>)} : token \in ActionTokens}

OwnLine ==
  \E path \in {<<"get">>, <<"code", "open">>, <<"code", "grep">>} :
  \E rest \in BoundedSeq(CoreTokens \cup RareTokens, MaxOther)
              \cup (IF path = <<"get">> THEN BoundedSeq(CoreTokens, MaxUsage) ELSE {}) :
    LET u == Literals(path) \o rest IN
    \E marks \in Marks(u), reserved \in IF Len(rest) = 1 THEN BOOLEAN ELSE {TRUE},
       fills \in Filled(u) \cup Filled(NextAction(u).command) :
      Called(Input(WithUsage(path, u, marks), reserved, From("template", path, u, fills)))

ActionLine ==
  \E template \in BoundedSeq(ActionTokens, MaxAction) :
  \E reserved \in BOOLEAN, fills \in Filled(template) :
    Called(Input(Tree, reserved, From("action", <<>>, template, fills)))

(* Where argv is UTF-8: what is not shows none of it (MCDispatch). *)
AuditInit == (Init \/ OwnLine \/ (ActionLine /\ sound.clock)) /\ sound.utf8

AuditSpec == AuditInit /\ [][Next]_vars

FrameworkFlags == {"help", "h", "version", "V"}
ReservedFlags == {"select", "dry-run", "json"}
=============================================================================
