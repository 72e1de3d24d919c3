------------------------------- MODULE Audit -------------------------------
(***************************************************************************)
(* AgentCli::audit, composed with the dispatch it makes promises about. A  *)
(* command also has                                                        *)
(*   template   the tokens of its usage string (module Usage)              *)
(*   program    the usage starts with the program name                     *)
(*   described  it has a description                                       *)
(*   actions    the templates of its default next actions                  *)
(* and the fields dispatch reads are compiled from its usage. An input     *)
(* says what its argv was made from: a command's advertised template, or   *)
(* one of its default next actions, filled in, or nothing of the kind.     *)
(***************************************************************************)
EXTENDS Redaction, Usage

(* The flags and the bound dispatch reads off a usage string, afresh each  *)
(* time.                                                                   *)
Compiled(command) ==
  LET u == command.template IN
  [command EXCEPT !.bools = BoolFlags(u), !.values = AllFlags(u) \ BoolFlags(u),
                  !.arity = RequiredCount(u) + OptionalCount(u),
                  !.variadic = Unbounded(u), !.slots = PositionalNames(u)]
-----------------------------------------------------------------------------
(* Findings: a severity, a code and the command. *)

Finding(holds, severity, code, path) ==
  IF holds THEN {[severity |-> severity, code |-> code, command |-> path]} ELSE {}

(* audit_command_shape *)
ShapeFindings(path) ==
  LET command == tree[path]
      runnable == command.handler # None IN
  Finding(~runnable /\ ~HasChildren(tree, path), "error", "DEAD_END_COMMAND", path)
  \cup Finding(IsRaw(command) /\ HasChildren(tree, path),
               "error", "RAW_COMMAND_HAS_SUBCOMMANDS", path)
  \cup Finding(~command.described, "warning", "EMPTY_DESCRIPTION", path)
  \cup Finding(runnable /\ ~command.usage, "warning", "MISSING_USAGE", path)

(* The flags some command on a path through path declares: collect_flags.  *)
FlagsThrough(path) ==
  UNION {AllFlags(tree[other].template) : other \in {other \in DOMAIN tree :
    LET n == IF Len(other) < Len(path) THEN Len(other) ELSE Len(path) IN
    SubSeq(other, 1, n) = SubSeq(path, 1, n)}}

BugSecretFindings(path) ==
  Finding(IsRaw(tree[path]) /\ tree[path].secrets # {}, "error", "SECRET_ON_RAW_COMMAND", path)

(* audit_secrets *)
SecretFindings(path) ==
  LET command == tree[path]
      names == PositionalNames(command.template)
      at(name) == {p \in DOMAIN names : names[p].name = name} IN
  IF IsRaw(command)
  THEN Finding(command.secrets # {}, "error", "SECRET_ON_RAW_COMMAND", path)
  ELSE Finding(\E name \in command.secrets : name \notin FlagsThrough(path) /\ at(name) = {},
               "error", "UNDECLARED_SECRET", path)
       \cup Finding(\E name \in command.secrets :
                      /\ at(name) # {}
                      /\ \E p \in 1..(Least(at(name)) - 1) : names[p].optional,
                    "warning", "SECRET_AFTER_OPTIONAL", path)

(* audit_usage; placeholders are always closed here. *)
UsageFindings(path) ==
  LET command == tree[path]
      u == command.template
      parsed == IF IsRaw(command) THEN {} ELSE AllFlags(u) IN
  Finding(Cardinality({i \in DOMAIN u : u[i].open})
            # Cardinality({i \in DOMAIN u : u[i].close # "no"}),
          "error", "UNBALANCED_USAGE_BRACKETS", path)
  \cup Finding(~command.program, "warning", "USAGE_PROGRAM_MISMATCH", path)
  \cup Finding(CommandTokens(u) # path, "error", "USAGE_PATH_MISMATCH", path)
  \cup Finding(parsed \cap Framework # {}, "error", "INTERCEPTED_FLAG_DECLARED", path)
  \cup Finding(cli.reserved /\ parsed \cap Reserved # {},
               "warning", "RESERVED_FLAG_REDECLARED", path)

IsArgument(token) == ~token.open /\ ~IsFlag(token) /\ ~token.eq
IsLiteral(token) == IsArgument(token) /\ token.kind = "word"

(* How many of a template's tokens, from the n-th on, are given as         *)
(* arguments before anything else.                                         *)
ArgumentsFrom(template, n) ==
  Least({i \in n..Len(template) : ~IsArgument(template[i])} \cup {Len(template) + 1}) - n

BugNextActionResolves(template) ==
  LET leading == Least({i \in DOMAIN template : ~IsLiteral(template[i])}
                         \cup {Len(template) + 1}) - 1
      path == Resolve(tree, [i \in 1..leading |-> template[i].text])
  IN path # <<>> \/ template = <<>>

(* next_action_resolves. A literal that names nothing starts the arguments *)
(* of the command before it.                                               *)
NextActionResolves(template) ==
  LET leading == Least({i \in DOMAIN template : ~IsLiteral(template[i])}
                         \cup {Len(template) + 1}) - 1
      path == Resolve(tree, [i \in 1..leading |-> template[i].text])
  IN IF Len(path) = leading THEN path # <<>> \/ template = <<>>
     ELSE /\ path # <<>> /\ tree[path].handler \notin {None, "skill"}
          /\ Bounded(path) =>
               ArgumentsFrom(template, Len(path) + 1) <= tree[path].arity

ActionFindings(path) ==
  Finding(\E template \in tree[path].actions : ~NextActionResolves(template),
          "error", "DANGLING_NEXT_ACTION", path)

Report ==
  UNION {ShapeFindings(path) \cup SecretFindings(path) \cup ActionFindings(path)
           \cup (IF tree[path].usage THEN UsageFindings(path) ELSE {}) : path \in DOMAIN tree}

IsClean == \A finding \in Report : finding.severity # "error"
-----------------------------------------------------------------------------
(* The lines an agent makes of a template: each group in brackets left out *)
(* or filled in, and a ... placeholder filled once or twice. fills says    *)
(* what each text stands for.                                              *)

CONSTANT Filler  \* bound: the text each placeholder is filled with, by its name

Item(text, role, name, holder) == [text |-> text, role |-> role, name |-> name, holder |-> holder]

(* A flag's name, where it has one. *)
FlagName(token) == CHOOSE name \in token.flags : TRUE

(* What the j-th token of the k-th piece becomes. *)
Filling(pieces, k, j) ==
  LET token == pieces[k][j]
      name == IF token.kind = "slot" THEN token.holder ELSE token.text IN
  CASE IsFlag(token) -> Item(token.text, "flag", FlagName(token), token.holder)
    [] token.kind = "slot" /\ j > 1 /\ IsFlag(pieces[k][1]) ->
         Item(Filler[name], "value", FlagName(pieces[k][1]), name)
    [] j = 1 /\ TakenByFlag(pieces, k) ->
         Item(Filler[name], "value", FlagName(pieces[k - 1][1]), name)
    [] ~IsFlag(token) /\ IsPositional(pieces, k) -> Item(Filler[name], "slot", name, name)
    [] OTHER -> Item(token.text, "word", token.text, NoHolder)

PieceFilled(pieces, k) ==
  LET once == [j \in DOMAIN pieces[k] |-> Filling(pieces, k, j)] IN
  {once}
  \cup (IF IsPositional(pieces, k) /\ \E j \in DOMAIN pieces[k] : pieces[k][j].dots
        THEN {once \o once} ELSE {})
  \cup (IF IsGroup(pieces[k]) THEN {<<>>} ELSE {})

Joined(starts, ends) == {s \o t : s \in starts, t \in ends}

Filled(template) ==
  LET pieces == BytePieces(template)
      upto[k \in 0..Len(pieces)] ==
        IF k = 0 THEN {<<>>}
        ELSE Joined(upto[k - 1], PieceFilled(pieces, k))
  IN upto[Len(pieces)]

Argv(fills) == [i \in DOMAIN fills |-> fills[i].text]

(* The words of a template are words on the line, and so is what fills a   *)
(* placeholder.                                                            *)
Worded(u) ==
  \A i \in DOMAIN u :
    LET text == IF u[i].kind = "slot" THEN Filler[u[i].holder] ELSE u[i].text IN
    u[i].kind \in {"word", "slot"} /\ ~u[i].open =>
      text \in DOMAIN Shape /\ Shape[text].kind = "word"

(* How many positionals a usage string declares is counted.                *)
ASSUME ArityAssumption ==
  \A call \in Inputs : \A path \in DOMAIN call.cli.tree : call.cli.tree[path].arity \in Nat

(* A line that is made of a template is one of the lines it makes.         *)
ASSUME TemplatesAssumption ==
  \A call \in Inputs : LET from == call.cli.given IN
    /\ from.from \in {"template", "action"} => IsUsage(from.template)
    /\ from.from = "action" =>
         /\ Worded(from.template)
         /\ from.fills \in Filled(from.template) /\ call.args = Argv(from.fills)
-----------------------------------------------------------------------------
(* What the audit does not look at, and a template needs to mean the same  *)
(* to its reader and to the framework: brackets close before others open,  *)
(* [name]... is the last positional, words come first, a flag's group      *)
(* holds its placeholder and nothing else, a loose flag has its value next *)
(* to it, letters are bundled in brackets only, and no placeholder or flag *)
(* has the name of another.                                                *)
WellPaired(u) ==
  \A i \in DOMAIN u :
    /\ u[i].open => \E j \in i..Len(u) :
         u[j].close # "no" /\ \A k \in (i + 1)..j : ~u[k].open
    /\ u[i].close # "no" => \E j \in 1..i :
         u[j].open /\ \A k \in j..(i - 1) : u[k].close = "no"

Plainly(u) ==
  LET pieces == BytePieces(u)
      value(k) == /\ k \in DOMAIN pieces /\ TakenByFlag(pieces, k)
  IN /\ WellPaired(u)
     /\ \A i, j \in DOMAIN u : i # j /\ u[i].holder # NoHolder => u[i].holder # u[j].holder
     /\ \A i \in DOMAIN u : ~u[i].open /\ u[i].kind = "word" =>
          \A j \in 1..i : u[j].kind = "word" /\ ~u[j].open
     /\ \A k, m \in DOMAIN pieces :
          pieces[k][1].close = "mid" /\ m > k => ~IsPositional(pieces, m)
     /\ \A k \in DOMAIN pieces :
          /\ IsGroup(pieces[k]) /\ IsFlag(pieces[k][1]) =>
               /\ Len(pieces[k]) = 1 \/ (Len(pieces[k]) = 2 /\ pieces[k][2].kind = "slot")
               /\ Cardinality(pieces[k][1].flags) = 1 \/ Len(pieces[k]) = 1
          /\ ~pieces[k][1].open /\ IsFlag(pieces[k][1]) =>
               Cardinality(pieces[k][1].flags) = 1 /\ (pieces[k][1].eq \/ value(k + 1))

NamedOnce(path) ==
  LET flagsAt(p) == {i \in DOMAIN tree[p].template : IsFlag(tree[p].template[i])}
      prefixes == {SubSeq(path, 1, n) : n \in DOMAIN path} IN
  \A p, q \in prefixes : \A i \in flagsAt(p), j \in flagsAt(q) :
    <<p, i>> # <<q, j>> => tree[p].template[i].flags \cap tree[q].template[j].flags = {}

PlainTemplate(path) ==
  /\ \A n \in DOMAIN path : Plainly(tree[SubSeq(path, 1, n)].template)
  /\ NamedOnce(path)
-----------------------------------------------------------------------------
(* Properties. given says what argv was made from: a command's own         *)
(* "template", a default next "action", or any "line"; and for the first   *)
(* two the command, the template and fills.                                *)

given == cli.given

(* A CLI that audits clean runs its own templates: however a command's     *)
(* plain template is filled in, its handler runs and receives its          *)
(* placeholders in order and its flags, unless it redeclares a reserved    *)
(* flag, which is only a warning (audit_usage: "agents copy next_action    *)
(* templates verbatim").                                                   *)
CleanTemplatesRun ==
  /\ stage = "answered" /\ sound.clock /\ sound.utf8
  /\ given.from = "template" /\ IsClean /\ PlainTemplate(given.path)
  /\ AllFlags(tree[given.path].template) \cap Reserved = {}
  /\ tree[given.path].handler \notin {None, "skill"}
  => /\ ran.path = given.path
     /\ ran.handler # "raw" =>
          LET slots == SelectSeq(given.fills, LAMBDA item : item.role = "slot") IN
          /\ ran.rest = Argv(slots)
          /\ \A i \in DOMAIN given.fills :
               LET item == given.fills[i] IN
               /\ item.role = "flag" => Names(item.text) \subseteq DOMAIN line.flags
               /\ item.role = "value" => line.flags[item.name] = item.text

(* A next action the audit resolves names something that runs: a line made *)
(* from it is never an unknown command; a handler that runs is that of the *)
(* command its leading words name, or of one below; with nothing but       *)
(* literals it is no unknown subcommand; and with nothing but literals     *)
(* after a command, or placeholders given once, there are not too many     *)
(* (next_action_resolves).                                                 *)
ResolvedActionsRun ==
  stage = "answered" /\ given.from = "action" /\ NextActionResolves(given.template) =>
    LET u == given.template
        named == Resolve(tree, CommandTokens(u)) IN
    /\ answer.code # "UNKNOWN_COMMAND"
    /\ Handled => SubSeq(ran.path, 1, Len(named)) = named
    /\ answer.code = "UNKNOWN_SUBCOMMAND" => \E i \in DOMAIN u : ~IsLiteral(u[i])
    /\ answer.code = "EXTRA_ARG" =>
         \/ \E i \in DOMAIN u : ~IsArgument(u[i]) \/ u[i].dots
         \/ CommandTokens(u) \in DOMAIN tree

(* A secret after a variadic positional, or after an optional one where    *)
(* another is variadic, may sit in another slot on a line with as many     *)
(* positionals as are declared, or more.                                   *)
SecretMoves(path) ==
  LET names == PositionalNames(tree[path].template) IN
  \E p, q \in DOMAIN names :
    /\ p < q /\ names[q].name \in tree[path].secrets
    /\ names[p].variadic \/ (names[p].optional /\ \E v \in DOMAIN names : names[v].variadic)

(* Does a text of the line fill a placeholder that is marked secret, by    *)
(* its own name or by the name of the flag it belongs to?                  *)
FillsSecret(item) ==
  \/ item.role \in {"slot", "value"} /\ item.holder \in tree[given.path].secrets
  \/ /\ item.role = "value" \/ (item.role = "flag" /\ HasEquals(item.text))
     /\ \E command \in Along(tree, given.path) :
          {item.name, item.holder} \cap command.secrets # {}

SecretsMasked ==
  \A i \in DOMAIN args : FillsSecret(given.fills[i]) => Masked(Shown, i)

(* In a CLI that audits clean, what fills the placeholder of a name marked *)
(* secret, a positional's or the value of a flag on its path, is masked in *)
(* the command field, with whatever else the line leaves out and whatever  *)
(* answer it gets (README, "Secrets in argv"). Not in a template where the *)
(* position of a secret depends on how often a ... is given:               *)
(* UnwarnedSecretsMasked.                                                 *)
CleanSecretsMasked ==
  /\ Answered /\ given.from = "template" /\ IsClean /\ PlainTemplate(given.path)
  /\ ~SecretMoves(given.path)
  => SecretsMasked

(* The same of every template whose secret follows no optional positional, *)
(* which the audit does not even warn of.                                  *)
UnwarnedSecretsMasked ==
  /\ Answered /\ given.from = "template" /\ Report = {} /\ PlainTemplate(given.path)
  => SecretsMasked

(* The scanners of a usage string agree: positional_names finds as many    *)
(* positionals as positional_arity counts, of the same kinds; an answer    *)
(* advertises every required one as a parameter; and where brackets pair,  *)
(* a template without parameters is advertised as a command that has       *)
(* nothing optional left (positional_names: "so the two agree on what a    *)
(* positional is").                                                        *)
ScannersAgree ==
  stage = "answered" /\ given.from = "template" =>
    LET u == given.template
        names == PositionalNames(u)
        advertised == NextAction(u) IN
    /\ ~Unbounded(u) =>
         /\ Cardinality({p \in DOMAIN names : ~names[p].optional}) = RequiredCount(u)
         /\ Cardinality({p \in DOMAIN names : names[p].optional}) = OptionalCount(u)
         /\ \A p \in DOMAIN names : ~names[p].variadic
    /\ \A p \in DOMAIN names : ~names[p].optional =>
         names[p].name \in DOMAIN advertised.params
    /\ WellPaired(u) /\ DOMAIN advertised.params = {} =>
         /\ RequiredCount(u) = 0
         /\ \A i \in DOMAIN advertised.command : ~advertised.command[i].open
=============================================================================
