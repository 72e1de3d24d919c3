----------------------------- MODULE MCDispatch -----------------------------
(* Small instances of Dispatch for TLC: two command trees, the lines over  *)
(* the texts of a run, and what the parser sees in each text.              *)
EXTENDS Dispatch, TLC, SequencesExt

CONSTANTS
  NormalTexts, RawTexts,  \* the texts on the lines of each tree
  MaxTokens               \* bound: the texts of a line

Word(text) == text :> [kind |-> "word"]
Bare(text, flag) == text :> [kind |-> "flag", name |-> flag]
Valued(text, flag, v) == text :> [kind |-> "valued", name |-> flag, value |-> v]

AllShapes ==
  Word("get") @@ Word("put") @@ Word("tail") @@ Word("code") @@ Word("grep")
  @@ Word("deep") @@ Word("skill") @@ Word("todo") @@ Word("help") @@ Word("version")
  @@ Word("z")
  @@ Bare("--v", "v") @@ Bare("--x", "x") @@ Bare("--q", "q")
  @@ Bare("--dry-run", "dry-run") @@ Bare("--json", "json") @@ Bare("--select", "select")
  @@ Bare("--version", "version")
  @@ Valued("--x=z", "x", "z") @@ Valued("--json=z", "json", "z")
  @@ Valued("--json=off", "json", "off") @@ Valued("--help=on", "help", "on")
  @@ ("-vx" :> [kind |-> "bundle", first |-> "v", second |-> "x"])
  @@ ("--" :> [kind |-> "dashes"])
  @@ ("--help" :> [kind |-> "help"])
  @@ ("--=x" :> [kind |-> "invalid"])

Spellings == ("true" :> TRUE) @@ ("on" :> TRUE) @@ ("off" :> FALSE)

(* A command with a handler and a usage string that declares nothing. *)
Plain(handler) ==
  [handler |-> handler, usage |-> TRUE, bools |-> {}, values |-> {}, arity |-> 0,
   variadic |-> FALSE, unknown |-> FALSE, extra |-> FALSE, dry |-> FALSE]

(* get [--v] [--x <x>] <id>, put [--v <v>] [ids...], and a stream. *)
NormalTree ==
  (<<"get">> :> [Plain("envelope") EXCEPT !.bools = {"v"}, !.values = {"x"}, !.arity = 1])
  @@ (<<"put">> :> [Plain("envelope") EXCEPT !.values = {"v"}, !.variadic = TRUE, !.dry = TRUE])
  @@ (<<"tail">> :> [Plain("stream") EXCEPT !.bools = {"x"}])

(* A group with a raw command, which has a subcommand; a raw command at    *)
(* the top; a command that takes anything; the built-in skill; and one     *)
(* that was given no handler.                                              *)
RawTree ==
  (<<"code">> :> [Plain(None) EXCEPT !.usage = FALSE])
  @@ (<<"code", "grep">> :> [Plain("raw") EXCEPT !.bools = {"v"}, !.values = {"x"}])
  @@ (<<"code", "grep", "deep">> :> Plain("envelope"))
  @@ (<<"grep">> :> [Plain("raw") EXCEPT !.usage = FALSE])
  @@ (<<"get">> :> [Plain("envelope") EXCEPT !.unknown = TRUE, !.extra = TRUE])
  @@ (<<"skill">> :> Plain("skill"))
  @@ (<<"todo">> :> Plain(None))

Clis(tr) == [tree : {tr}, reserved : BOOLEAN]

Lines ==
  [cli : Clis(NormalTree), args : BoundedSeq(NormalTexts, MaxTokens)]
    \cup [cli : Clis(RawTree), args : BoundedSeq(RawTexts, MaxTokens)]

FrameworkFlags == {"help", "h", "version", "V"}
ReservedFlags == {"select", "dry-run", "json"}
=============================================================================
