# agcli in TLA+

agcli is a Rust library for building command-line programs that agents drive.
Every answer is one JSON envelope on stdout, or, for a streaming command, NDJSON
lines that end with one terminal line. A program describes its commands with a
builder; agcli parses argv against the usage strings of the commands, gates it,
runs one async handler, and prints what it returned.

This directory models the parts of agcli where state, order, failure or the
agreement of two readers decides whether that contract holds, and checks them
with TLC on small instances. With TLAPS it proves for every instance what it
says of streams, the panic hook, truncation, the parser, dispatch, redaction and
what a handler reads, the doctor, the lines a reader decodes, and the calendar.

Contents: [inventory](#inventory) · [modules](#modules) · [runs](#runs) ·
[fairness](#fairness) · [proofs](#proofs) · [findings](#findings) ·
[what is left out](#what-is-left-out) · [plan](#plan)

## Inventory

Paths are under `src/src/`. "State" is what outlives one call.

| Component | Source | State | Operations | What is hard | What makes it correct |
|---|---|---|---|---|---|
| Streaming | `stream.rs`, `execution.rs`, `dispatch.rs` run_handler | `StreamState` behind a mutex: closed, poisoned, the sink; stdout | `emit` by any clone, `StreamHandle::close`, `Execution::print` | clones outlive the handler; the stamp is read before the lock; a write may fail part way | one terminal line, last; an accepted event is delivered once; no event glued to a torn line |
| Panic hook, clock marks | `panic_hook.rs`, `clock.rs`, `agent_cli.rs` run_env | per thread: `ACTIVE` (the marked run), `READING_CUSTOM` | `guard`/`marked` on each poll, `read_custom`, the hook | polls nest, futures migrate, several threads panic at once, the clock itself panics | the mark is the innermost run; one envelope per run; the process ends |
| Argv parsing | `invocation.rs`, `reserved_flags.rs` | the parser: flags, positionals, the pending flag | `parse_in_tree`, `TokenParser::feed` | a bare flag may or may not take the next token, by a schema that depends on the words | no token lost, doubled or moved |
| Dispatch | `dispatch.rs`, `raw.rs`, `tree.rs`, `command.rs` | one argv, its parse, the claim of a raw command | the stages of `AgentCli::dispatch`, `raw_execution` | a raw command can claim argv at three points; booleans are guessed before the path is known | a handler runs only past every gate, with exactly its tokens |
| Redaction | `redaction.rs`, `invocation.rs`, `dispatch.rs` | none beyond the parse | masks for parsed lines, unread lines and raw lines, the `redact_arg` hook | optional positionals shift secrets; a line that failed to parse has no roles | a token that may be a secret is masked in every answer |
| Truncation | `truncate.rs` | files in a temp directory shared by processes | `truncate_lines_with_file`, `write_full_output`, `cleanup` | names collide; writes fail half way; a process dies in the middle | a result's file is its own and whole; few orphans |
| Projection | `project.rs`, `select.rs` | none | `--select`, `--compact`, the select warning | paths merge one after another; rows must keep their positions | shown = named; a miss is told; a result is never wiped |
| Lists and the success envelope | `command_output.rs`, `dispatch.rs` handler_success | none | `list_truncated`, the `--select` advertisement | the advertised paths are read back by another parser on the next run | pasted back, the paths project every row |
| Doctor | `doctor.rs` | the checks registered | the report, `fail_exit_with` | codes fold in registration order | the code of a check that failed, generic only if none has its own; healthy only if none failed |
| Usage strings | `usage.rs` | none | arity, positional names, boolean and other flags, the next action, each its own scanner | five scanners read one string, by token or by byte | they agree on what a positional is |
| Audit | `audit.rs` | none | one rule per code over the built tree | a rule that misses a case promises what dispatch does not keep | a CLI without findings runs the templates it advertises, and masks its secrets |
| What a handler reads | `command_request.rs` | none beyond the parse and its masks | `arg`, `flag`, `require_arg`, `arg_parse`, `flag_parse`, `flag_on`, `select` | a bare flag is stored as "true"; an error text may quote the line | a value was given; a refusal quotes nothing masked |
| Timestamps and clocks | `timestamp.rs`, `clock.rs` | none | both directions of RFC 3339, SOURCE_DATE_EPOCH | leap days, centuries, the range's ends | one spelling per second, and the right one |
| Envelopes, codes, readers | `envelope.rs`, `command_error.rs`, `codes.rs`, `stream.rs` | none | writing an answer and its event lines; decoding them | optional keys, nulls, later versions, payloads that look like answers | a reader gets back what was said, by one decoder only |
| Suggestions | `suggest.rs` | none | edit distance with one row | | (not modelled: wording) |
| Skill document | `skill.rs` | none | the tree as text | | (not modelled: wording; dispatch has when it answers) |
| Builder | `agent_cli.rs`, `command.rs`, `tree.rs` | the tree, fixed before anything runs | registration | | (not modelled: the trees the modules take are those it can build) |
| Examples, tests, benches | `examples/`, `tests/`, `benches/` | | users of the crate | | (not modelled: read for what is promised) |

How they interact. `run_env` marks the thread for the panic hook and polls
`dispatch`. Dispatch reads the usage strings of the tree for its schema, parses
argv (perhaps three times: a guess with every boolean of the tree, the line, the
prefix of a raw command), gates it, and calls
one handler: it gives a streaming handler a `StreamWriter`, and gets from a
normal one a `CommandOutput` that the success envelope projects. Every answer
carries the argv, redacted by the roles the parse gave its tokens. The hook
answers in the place of a handler that panics, through stdout and past the
writer. The handler reads its line through `CommandRequest`, whose errors are
answers as well. Every line is stamped by the clock and read by another process,
with the decoders of the same crate. Audit looks at the tree before any of it
runs. Truncation and list results are helpers a handler calls; doctor is a
handler the library provides.

The hazards of this code, each at its line, are the `hazards` of
[PROJECT.json](PROJECT.json), with the properties that would catch them.

## Modules

A definition named `Bug...` stands before the definition it is a slip in, and is
no part of the model: in the place of that definition it must break a property,
which shows that the property depends on that line of the code.

**`NdjsonStream`** is the abstract specification of a stream: what a reader of
stdout (or of an `Execution`) receives. Events while the stream is open, at most
one torn line, after which no event follows, then the handler's answer, then one
terminal line (or a failed try at one). A panic abandons the stream (`Abandon`):
from there nothing is promised of its order. It says nothing of locks, clones,
clocks or modes.

**`StreamWriter`** is one streaming run. `Stamp`, then one of `SerializeFails`,
`Refuse`, `Capture`, `WriteEvent`, `WriteEventFails`, are `StreamWriter::emit`:
two steps, because the code reads the clock and serializes before it takes the
lock (`stream.rs:299`), and checks the flags and writes under it. `Close`,
`BuildEnvelope`, `PrintAnswer`, `Exit` are the framework after the handler
returned; `Panic`, `HookStamp`, `HookPrint` the hook's path. `mode` picks
`run_env` with a live sink, or `run` with a captured one. A failed write
(`Torn`) leaves any prefix of the text, cut inside a line or between lines.
Tasks emit until the process is gone, also after the close.

**`PanicHook`** is the threads of the executors. A frame of a thread is a poll
of a future or a reading of the custom clock, and records what `Restore` puts
back when the frame is left, by a return (`PollEnds`, `ClockRead`) or by a panic
(`Unwind`). Between polls a future may move to any thread. `HookLooks`,
`HookStamps`, `HookWrites`, `HookExits` are the steps of the hook on the thread
that panicked; `HookClockPanics` is the second panic, inside the hook, that
aborts. The executor (`Runs`, `MayPoll`) is external, modelled from how a
future may be polled.

**`Invocation`** holds the command tree and `parse_in_tree` as a fold of `Feed`
over the tokens; `Shape` gives what the parser sees of a text (a word, a bare
flag, a flag with `=`, a bundle, `--`), so no text is read character by
character. **`Dispatch`** is the stages of `AgentCli::dispatch` in the code's
order, one action each: a stage either answers or reaches the next. `RawFrom`,
`FindRaw`, `RawOnPath` are the three ways a raw command claims argv.

**`Usage`** is the scanners of `usage.rs` over the tokens of a usage string. A
token keeps what they look at: where its brackets and dots are, what it starts
with, its placeholder. `TokenPieces` and `BytePieces` are the two ways the code
cuts the string into groups, which differ on `[a]...` and on brackets that are
not paired; each scanner uses the one the code uses.

**`Redaction`** extends `Dispatch` with the words of the `command` field:
`ParsedWords` for a line that was read, `OpaqueWords` for one that was not (the
leading words that name commands are shown, `PathShown`, and each token after
them is `WordHere`), `RawWords` for a raw command's. A token is shown whole, as a flag without its
value, as the marker, or as the hook's text. It has no transitions of its own:
its properties are about the states in which dispatch has answered.

**`CommandRequest`** extends `Redaction` with what a handler that runs reads of
its line, typed or not, and with the masks `Invocation::redact` keeps for the
texts of the errors: `quotes` is the text an error repeats, `detail` whether it
repeats the parser's own message. `Numbers` and `Infinite` are the texts that
parse as the type asked for.

**`Audit`** extends `Redaction` and `Usage`: the rules of `audit_commands`, each
a set of findings, over commands whose record of flags, booleans, slots and
bound is compiled from the usage string (`Compiled`). It composes them with
dispatch: an argv is made of a command's advertised template or of a default
next action, filled in, and `cli.given` remembers from which, so a property can
compare what the audit said of the CLI with what dispatch did with the line.

**`Truncate`** is any number of calls, in any threads or processes, that share a
temp directory. `dir` says which call created the file behind each name;
`Create` is `create_new`, so it and `Taken` exclude each other; `Spill` is the
buffer going to the file; `WriteFails`, `OpenFails` and `Kill` end the call in
the middle. `NameOf` lets any names of any stems coincide.

**`Values`** is the shapes of JSON values and the keys a map may leave out.
**`NextActions`** is the commands an answer offers: a literal one, or a template
whose params say what the builder was told of each (`ActionJson`), and what
serde makes of the line (`ReadAction`), where an `Option` left out and a null
are the same. **`Projection`** has `project.rs` and
`select.rs` as recursive operators on trees of them. **`Output`** is a handler
that returns such a tree, a list, or the doctor with its checks,
`HandlerSuccess`, and the agent that takes up the `--select` advertisement and
runs the command again (`Rerun`). A key that is advertised, and the value the
agent pastes, are spelled in pieces (`Spelling`): commas, dots, blanks and what
is between them. `IsSelectableKey` looks at the spelling alone, as
`select.rs:23` does, and `ParseSelectFields` splits and trims the pasted value,
so whether the one is right about the other is left to AdvertisedPathsProject.
What the reserved flags make of a result is its parameter `Project`, so that what does not depend on it can be proved for
any. **`Selection`** puts the two together, with the properties of a selection;
there, and in the run, `Project` is `ProjectOutput`.

**`Calendar`** is the arithmetic of `timestamp.rs`, both directions, the readings
`clock.rs` makes of them, and the rule of the Gregorian calendar (`YearStart`,
`MonthStart`, `IsDayOf`) they are measured against. **`Envelope`** extends
`Output` and `Calendar`: the errors a handler or the framework builds, each line
with its next actions, as a map of keys to JSON values, the exit status, and the
decoders `ReadSuccess`,
`ReadError`, `ReadEnvelope`, `ReadEvent`, `ReadLine`. `WireNext`
is Output's steps, a handler that errs (`HandlerErrs`), a refusal before it
(`FrameworkRefuses`), its events (`Emit`) and the one line of the answer
(`PrintAnswer`); an agent follows an advertisement only when it has read it.

`MC...` modules only give the constants their values; `MCAudit` has those of
Redaction, CommandRequest and Audit, `MCOutput` those of Output and Envelope.
`StreamWriterProofs`, `InvocationProofs`, `DispatchProofs`, `RedactionProofs`,
`PanicHookProofs`, `TruncateProofs`, `EnvelopeProofs` and `AuditProofs` hold the
theorems. `PROJECT.json` maps every definition to the lines it models.

## Runs

Twelve runs. "V" marks the runs that end in a counterexample: see
[findings](#findings).

| Run | What it asks | Bounds, and why they are enough |
|---|---|---|
| `stream` | order, ownership, completeness of what reaches the reader (TerminalIsLastUnlessPanic, OneAnswer, NoEventAfterPartial, AcceptedIsDelivered, AnswerIsStampedLast); that `StreamWriter` implements `NdjsonStream` (PromiseKept); that a run whose handler ended exits (EndedRunExits) | the handler and one task, 2 emits each, the clock moves twice, 2 failed writes, panic or not: a task can hold a stamped line across every step of the framework, a torn line can be followed by every kind of line. About 900,000 states |
| `stream_panic` V | TerminalIsLast when the handler panics | one emit each |
| `dispatch` | what reaches a handler, who owns which token, what keeps a handler from running, in which form a stream is refused (TokensDelivered, HelpAndRepeatsRunNothing, DryRunHonored, ParsedByOwnSchema, RawOwnsItsTail, StreamRefusalsAreNdjson) | all lines of up to 4 texts out of 11 and of 13, on two trees, with and without the reserved flags. Four texts hold a group, its raw command, a flag before and one after; or a command, a bare flag, its value and a repeat. About 1,150,000 states |
| `dispatch_bools` V | BooleansTakeNoValue | as above, few texts |
| `dispatch_dropped` V | PrefixFlagNeverDropped | as above, few texts |
| `redaction` | which tokens every answer masks and which texts an error may repeat (SecretPositionalsMasked, SecretFlagsMasked, OpaqueMasksMore, RawValuesMasked, RefusalsRepeatNothingMasked), what a handler reads (ReadsWereGiven), and what an audit without findings promises (CleanTemplatesRun, ResolvedActionsRun, CleanSecretsMasked, ScannersAgree) | up to 3 texts, alone and after the names of three commands: an optional positional before a secret one needs three words. Usage strings of up to 3 tokens of the core kinds and 2 of any, next actions of up to 3: a flag, its value and a positional beside it, or two positionals and a group, or one placeholder that repeats |
| `redaction_hook` V | RawValuesMasked with a hook that rewrites a bare flag | 2 texts |
| `audit_secret` V | UnwarnedSecretsMasked: the secrets of every CLI that audits clean | usage strings of 2 tokens |
| `panic_hook` | marks, clock flag, envelopes, and that a panic ends the process (MarkIsInnermost, ReadingIsCurrent, OneEnvelopePerRun, SpawnedPanicsLeftAlone, PanicEndsProcess) | 2 threads, 2 `run_env` handlers, one of `run`, one task, 3 frames: a run inside a run inside a clock reading; both threads may be in the hook at once |
| `panic_hook_local` V | SpawnedPanicsLeftAlone where a task is polled inside its handler's poll | as above |
| `truncate` | who loses a file, who leaves one, who runs out of names, and that calls return (LostOnlyToSecondCleanup, ResultDecodes, OrphansComeFromFailure, ExhaustedByRivals, CallReturns) | 3 calls, 2 attempts, 2 stems of which the second name of one is the first of the other, up to 2 cleanups of a result: a rival per name, and one more |
| `output` | projection, warnings, lists, doctor (SelectionIsWhatWasNamed, MissesAreNamed, SelectNeverWipes, AdvertisedPathsProject, DoctorIsActionable); what is written reads back and says the right second (LinesReadBack, TimestampsAreTrue) | results three levels deep over two keys under every selection of up to two fields, lists of up to 2 rows of 7 shapes, whose keys have a dot, a comma, a blank on either side, or nothing; doctors of up to 3 checks with any codes, SUCCESS among them; every exit code, data and event shape, templates with null values and defaults; every day of 1970, 1972, 2000, 2100, 2399, 2400 and 9999, where a leap year, a century, an era and the range begin or end |

The type invariants are proved, not run, where a module has theorems.
`truncate` and `output` may stop (a call that returned makes no further step),
so deadlock is not checked there; the other modules have a stuttering step for
the end (`Settled`, `Done`, `Quiet`), so that TLC finds any other stop.

Some statements carry an exception, because the code does:

- *TerminalIsLastUnlessPanic*, *AnswerIsStampedLast*: the hook does not close
  the stream. The clock is taken to be monotone within a run; one that goes
  back may stamp the answer before an event.
- *LostOnlyToSecondCleanup*: `cleanup` removes whatever has the name. A second
  cleanup of a result, which the docs allow, can remove the file of a later call
  that was given the same name. Where the temp directory's path is not UTF-8,
  `full_output` is a lossy text and cleanup finds no file (`Utf8TempDir`).
- *SelectionIsWhatWasNamed*: with a field and a path into it
  (`checks.name,checks`) rows that are not objects may be lost: `project.rs:87`
  merges into the rows already rebuilt. In the other order they are kept. A
  test in `project.rs` says a whole key and a path into it agree on the whole
  key; it only has object rows.
- *CleanTemplatesRun* and *CleanSecretsMasked* are about plain templates (`Plainly`, `NamedOnce`): usage
  strings with one reading. Brackets are paired, no two placeholders or flags
  share a name, words come first, nothing positional follows `[x]...`, and a
  flag outside brackets has its value next to it. The audit has no rule for the
  others, and the code makes of them what it can. CleanTemplatesRun leaves out a
  command that redeclares a reserved flag, which the audit only warns of.
- *CleanSecretsMasked* leaves out the templates in which a secret's position
  depends on how often another argument is given (`SecretMoves`): run
  `audit_secret`.
- *MissesAreNamed*: in a result that is an array with arrays among its rows, a
  field that only nested rows have is shown and warned of as matching nothing:
  on `[[{"a":1}],{"b":2}]`, `--select a,b` says so of `a`. `matches_anything`
  (`select.rs:202`) looks for keys in the rows of one array, `project.rs` goes
  into rows at every level (`NestedRows`). Such a result gets no warning it
  should not get of a field that an object row has, and lacks none.
- *DoctorIsActionable*: `DoctorCheck::exit_code` takes `ExitCode::SUCCESS`. Where
  a check that was given it fails, the doctor may exit 0; its report still says
  unhealthy, and shows the check's fix.
- *LinesReadBack*: an error built with `CommandError::data(Value::Null)` is
  written with `"data":null`, and no decoder takes that line (`NullData`). A
  `value` or a `default_value` of an `ActionParam` that is `Value::Null` is
  written as a null and read as one that was not given (`next_action.rs:65`,
  `WithoutNulls`).
- *DryRunHonored*: a raw handler runs past a `--dry-run` before its name where
  the line as a whole does not parse and the prefix names nothing: run
  `dispatch_dropped`.
- *ParsedByOwnSchema* is about lines whose bare flags, up to the end of the path,
  are booleans of the framework, flags that take a value, or flags nobody
  declares. With a boolean some command declares there, the guess at the path
  may be wrong: run `dispatch_bools`.
- *StreamRefusalsAreNdjson* is about lines that named the streaming command: a
  line that did not parse, or that help or version answers, is answered in one
  envelope.

Across emitters the code promises no order of stamps: a task may hold a line it
stamped while another stamps and writes a later one.

Two things seen on the way that no run states. `envelope.rs:318` says of a null
`data` that the framework never writes one, which is so only for the errors the
framework builds itself. README.md:1404 says a null where the framework leaves
a key out is an error; the optional keys of a `StreamEvent`, of a `NextAction`
and of its parameters accept one.

## Fairness

Fairness is only assumed where a thread has nothing to wait for.

- `StreamWriter`: weak fairness of `Close`, `BuildEnvelope`, `PrintAnswer`,
  `Exit` and the hook's two steps. They run one after another on the thread that
  ran the handler. `Close` needs the writer's lock, which an emit holds for one
  write; a reader of stdout that stops reading without closing the pipe blocks
  that write, and then nothing is promised. Emits are not fair: a task may stop
  at any point, and `Return` is not: a handler may run for ever.
- `PanicHook`: weak fairness of the hook's steps and of unwinding, per thread.
  A panicking thread waits for nothing but the stdout lock.
- `Truncate`: weak fairness of a call's own steps without its errors: the thread
  is scheduled and the file system answers. An error ends the call as well.
- `Dispatch`, `Redaction`, `Audit`, `Output` and `Envelope` have safety
  properties only: they are one call after another on one thread.

## Proofs

TLAPS checks the theorems below for any number of tasks, threads, handlers,
calls, names and attempts, any tree, argv, result, call and bounds, with no
assumption but the ones the modules name:

- `ConstantsAssumption`, `FuturesAssumption`, `NameOfAssumption`,
  `NoneAssumption`, `SettingsAssumption`, `FlagsAssumption`: the constants have
  their types, and names that the code keeps apart are different.
- `ShapeAssumption`, `SlotsAssumption`, `RequestsAssumption`: a token is of a
  kind the parser has, a command's positionals are a sequence, a request's
  numbers are unsigned.
- `SpellingAssumption`: "true", which the parser stores for a bare flag, reads
  as on.
- `InputsAssumption`: an argv is made of tokens, and the commands are a tree
  whose names are words. The last is a choice of scope: the builder checks that
  names are not given twice, and would take a name like `--x` too.
- `CodesAssumption`, `KeysAssumption`: the names of the exit codes are different;
  no two keys are spelled alike, and what is between the marks of a spelling is
  one as well.
- `ArityAssumption`, `TemplatesAssumption`: a usage string declares a number of
  positionals. A line said to be made of a usage string is made of one; made of a
  next action it is one of the lines the action makes, whose words are words and
  whose placeholders are filled with words. The last is the scope of the claim:
  a placeholder filled with `--x` gives a flag, not an argument.
- `ActionsAssumption`, `ChecksAssumption`, `CallsAssumption`: an action's params
  are those the builder can set, of which only a value and a default may be
  null; a check's code is any exit code; a call names at most one doctor; what
  is an `Option` in the code has at most one value; a schema version is a text;
  the clock reads whole seconds from 1970 on; an event has the keys of its type.

TLC evaluates each of them in the runs.

**`StreamWriterProofs`.** `TypeCorrect`. `TerminalStaysLast` is
TerminalIsLastUnlessPanic. It is not inductive: nothing in it says that an
answer on the wire means the stream is closed. The invariant `TerminalInv` adds
`Lifecycle` (from the phase "closed" on, `closed` is TRUE), `NoAnswerYet` (no
terminal line is on the wire before the phase "printed") and `OnlyEvents` (the
lines a sink has captured are events). With these an emit of
any task after the close is refused, and the print appends the one terminal
line at the end.

On top of it: `OneTerminalLine` (OneAnswer), `NothingBehindATear`
(NoEventAfterPartial), `AcceptedEventsArrive` (AcceptedIsDelivered) and
`AnswerIsYoungest` (AnswerIsStampedLast). `ReaderInv` adds to `TerminalInv` what
each needs. `Single`: there is one answer at most, and one after a print that
did not fail. `TornInv`: a torn event on a live wire means the writer is
poisoned, so no event can follow; a captured run writes nothing before its
print. `TimeInv`: no stamp, held, captured or written, is ahead of the clock,
and once the answer of a handler that returned is stamped, no line is
younger than it. `Booked`: an emitter counts one
line for each of its answers and the one it holds, and every delivered line is
one of those. `Uncollected`: the Execution holds no event before the close,
which moves the capture into it.

Last, `ImplementsPromise`: the initial state maps to
NdjsonStream's, and under `ReaderInv` every step maps to one of its steps or to
a stutter. The map of the wire is the kinds of its lines (`KindsOf`), empty once
a panic has abandoned the stream. The fairness of the promise, which TLAPS
cannot reach, is in PromiseKept and stays with TLC.

**`InvocationProofs`.** What the parser makes of a line, for every tree, every
set of booleans and every argv. `Fed` is a recursive function of the number of
tokens read, so what it computes takes an induction; the library's induction
theorems cannot be cited (they take a predicate as a parameter), but a set of
naturals has a least element (`NatLessThanWellFounded` and `WFMin`), and the
least number of tokens at which a claim fails refutes itself. The claim is
`Reading`, the parser's inductive invariant: it has refused exactly the lines
that are to be refused (`Clean`), its flags are the flags of the line with their
values (`FlagsRead`, `ValuesRead`), its last token waits for a value just when
it may take one (`LastPends`), and every token has one role (`RolesRead`,
`WordsRead`). `ParseRead`: every parse ends so, with nothing pending unless it
failed. `RefusedAlike`: a line that parses under one set of booleans parses
under any; it is what lets dispatch guess first. `PrefixParses`: the part of a
line up to one of its positionals parses by itself, with the same positionals;
it is what the two later claims of a raw command rest on.

**`DispatchProofs`.** `TypeCorrect`, `NoGateIsSkipped` (EveryGateHeld) and
`StreamsRefuseInNdjson` (StreamRefusalsAreNdjson), for any tree and any argv.
A handler runs at the last stage, and the gates that judged its line are four
stages behind it, so neither is inductive. `Passed` says at each stage which
gates the line has passed; `Fresh` that nothing ran or was answered before the
line is answered. They need nothing of what `Parse` computes.

The other five do: `NoTokenIsLost` (TokensDelivered), `HelpAndRepeatsNeverRun`
(HelpAndRepeatsRunNothing), `DryRunsStayDry` (DryRunHonored), `RawTailsAreOwned`
(RawOwnsItsTail), `LinesAreReadByOwnSchema` (ParsedByOwnSchema). `LineInv` says
what has been read of argv at each stage: no raw command claims the line before
the first look for one; from the first gate on the line is either the whole
parse of argv, or the parse of the prefix before a raw command's tokens
(`WholeRead`, `PrefixRead`); behind help and version it asks for neither
(`NotTheFrameworks`); a prefix that names a command has no reserved flag left but
`--json` once it is past its gates (`PrefixHeld`); what ran is what one of these
says (`RightRan`). Each property then follows from `Reading` of the parse at
hand. For a raw handler `DryRunsStayDry` needs all of it (`DryRunBeforeRaw`): a
claim at the head of the line has only words before it; on a line that parses,
the prefix names the command that claimed it (`PrefixNames`), so its gates were
asked. `LinesAreReadByOwnSchema` needs that two sets of booleans which agree on
the flags before the end of a path walk the line alike (`OwnWalk`).

**`RedactionProofs`.** The words of the echoed line and what a handler reads,
for every tree, argv, hook and schema. `LineInv` with `ReadWhole` (a line that
is answered as read was read as a whole) and `RanRead` (a handler only runs on a
line that was read) is the invariant. `SecretPositionalsStayHidden`
(SecretPositionalsMasked) needs that a positional sits in a slot other than its
own only as one more of a variadic, or at or past the first optional slot of a
line that leaves some out (`MaySitIs`): the code masks by just that.
`SecretFlagsStayHidden` (SecretFlagsMasked) follows a flag and its value through
the roles of `Reading`. `RawValuesStayHidden` (RawValuesMasked) assumes a hook
that rewrites no bare flag: without that it is false, which the run
`redaction_hook` shows. `UnreadLinesHideMore` (OpaqueMasksMore) assumes that it
rewrites no `--`: a rewritten one is not seen to end the flags. `ReadsAreGiven`
(ReadsWereGiven) and `RefusalsStaySilent` (RefusalsRepeatNothingMasked) are
about `CommandRequest`.

**`PanicHookProofs`.** `PanicTypeCorrect`, `MarkIsRight` (MarkIsInnermost),
`ReadingFlagIsRight` (ReadingIsCurrent), `AnsweredOnce` (OneEnvelopePerRun), and
`TasksLeftAlone` (SpawnedPanicsLeftAlone, where no task is polled inside a
handler's poll). The mark of a thread being right is not inductive, since
leaving a frame restores what the frame saved. So `Marks` says it of every
frame: what frame n saved is the innermost run among the first n - 1. `Reads`
says the same of the clock flag. `Polled` says that a future is in one frame of
one thread, from which a run is answered by one thread only; `Hooked` and
`Wrote` that a thread which wrote its envelope stays where it is until the
process exits; `TasksBelow` that a task is at the bottom of its thread. The
stacks change in two ways, a push and a `Leave`; one lemma for each
(`PushKeeps`, `LeaveKeeps`) carries the four parts about stacks, and each action
is reduced to one of them.

**`TruncateProofs`.** `TypeCorrect`, `FullOutputIsSafe`
(LostOnlyToSecondCleanup), `OrphansAreFailures` (OrphansComeFromFailure). The
invariant adds `Progress`, what a call has at each place, and `Held`: a call
that writes, or whose result nobody cleaned up, still has its file, or another
result of the same path was cleaned up twice. It holds because `create_new` only
takes a free name, so two live files never share one, and because a first
cleanup removes a file its own call still holds, or one lost to a second
cleanup before. `FullOutputIsSafe` and `OrphansAreFailures` take a UTF-8 path of
the temp directory as their hypothesis. `ResultsDecode` (ResultDecodes) adds
`Sized`: a call kept its lines whole only where they fit, and is on its way to a
file only where they do not. `OnlyRivalsExhaust` (ExhaustedByRivals) adds
`Owned` (a file in the directory is the one its call created) and `Rivals` (each
name a call gave up had been given to another call).

**`EnvelopeProofs`.** `WireImplementsAnswers`: each step of the lines is one of
Output's or a stutter. `DoctorsAreActionable` (DoctorIsActionable): the code
folded so far is none just when no check has failed, is that of one that failed,
and is generic just when no failed check had its own (`Folded`), which one more
check keeps in any order, whatever the codes, SUCCESS included.
`EnvelopeInvariantHolds`: answer and error are never both there, the last line
before the exit is an event's, and then the one line of the answer or the
error; the exit status is its exit code; the clock is in range (`WireInv`).
TLC finds no state of the `output` run outside it. `EveryLineReadsBack`
(LinesReadBack): `Says` is what a map says of an envelope, whatever more keys it
holds; a written line says its envelope (`SerializedSays`), a framed one and one
with a key added still do (`StillSays`), and what says an envelope is read as it
(`SuccessReadsBack`, `ErrorReadsBack`), or not at all where an error's data is
null (`Heard`). An action is read as it was written, param by param, without the
values and defaults that are null (`ActionReadsBack`). `EveryTimestampIsTrue` (TimestampsAreTrue) adds that every line
carries the Display of the clock's second. All of it holds whatever `Project` makes of a
result.

Its first part is the calendar's. `RoundTrip`: what Display writes of any second from the
epoch to `Timestamp::MAX`, `FromStr` reads back as that second. `OneSpelling`: a
text `FromStr` takes is what Display writes of the second it reads, so no second
has two spellings and no date the calendar lacks is taken. Nested quotients
are out of the solver's reach; so `Splits` says of a variable that it is a
quotient, and `YearLinear` and `UniqueLinear` are statements of linear
arithmetic over such variables: the day of the year is in range, and the year of
an era is the only one that puts it there. `MonthLength` and `LeapYear` tie the
months counted from March to the lengths `FromStr` looks up. `GregorianDates`:
the date Display writes is the one of the Gregorian calendar, on every day of
the range. `DayOfIsNumber` counts the same days by the code's eras of years
that begin in March, and by whole years and the leap years before them.

**`AuditProofs`.** `PositionalsAgree`, of every usage string,
`ScannersAlwaysAgree` (ScannersAgree), of the string any line was made from, and
`ResolvedActionsAlwaysRun` (ResolvedActionsRun), of every line an accepted next
action makes. First the scanners. The
two ways of cutting a string into pieces, and the folds over the pieces, are
recursive functions: each is first shown to have a function that meets its
equation (`FromExists`, `FoldExists`), and what it holds goes by induction on the
tokens (`PiecesCut`) or the pieces. `CutCovers` and `CutApart`: every token is in
a piece, and a piece ends before the next starts. `NamesEnumerate` gives each
positional piece its name, so that counting names is counting pieces.
`StandsAlone` ties the two cuts: a token that is a piece by itself read token by
token is one read byte by byte, since a group that closes at the first `]` never
runs further than one that closes at the first token with `]` at its end. Where
brackets do not pair the cuts differ, and only the last part of the claim, about
a command without parameters, needs them to (`WellPaired`).

`ResolvedActionsAlwaysRun` follows a line from the action it is made of to its
answer. The lines an action makes are a fold over its pieces (`FilledEquation`);
the words and placeholders it starts with are pieces of their own and become one
word each (`LoosePieces`, `LooseFilling`, `MadeStarts`), and the words an argv
starts with are its first positionals, whatever flags follow (`WordsFirst`).
More words walk further down the tree and no other way (`ResolveMore`): that is
why the audit, which resolves the literal words alone, and dispatch, which
resolves what the placeholders are filled with too, cannot part.
`LiteralWords`, `NamesFirst`, `LiteralsRun` and `ArgumentsFitLine` say what
`next_action_resolves` gives of a line; `LineIsRead`, `CommandFirst` and
`WordLine` what is known of it at a gate. The invariant is `AnsweredWell`, with
`Made` (the argv is one the action makes), the type invariant and `LineInv`
(what has been read of the line so far): an answer alone does not say which line
it answers, so the property is not inductive without them. There is one lemma
per stage that may refuse the line (`RouteAllowed`, `ResolveAllowed`,
`ExtraAllowed`), and `HandlerBelow` for the handler that runs.

Model-checked only, and why:

- What holds under fairness (EndedRunExits, PanicEndsProcess, CallReturns, and
  PromiseKept's own), which TLAPS cannot reach.
- SelectionIsWhatWasNamed, MissesAreNamed, SelectNeverWipes and
  AdvertisedPathsProject: what `Projection` computes is defined by recursion on
  JSON trees, with operators the provers cannot use.
- CleanTemplatesRun and CleanSecretsMasked: they compare every rule of the audit,
  over every scanner of a usage string, with what dispatch does with a line that
  has flags, groups and repeats. `ResolvedActionsAlwaysRun` is the same argument
  for the part that is about words.

## Findings

Each is a run TLC ends with a counterexample. The line of the docs that the
property states is quoted in PROJECT.json.

- `stream_panic`: README.md:1341 has the terminal line always last. After a
  panic of the handler a spawned task that keeps its writer can emit between the
  hook's line and the exit.
- `dispatch_bools`: README.md:353 has a declared boolean never take the next
  token. On `app --v z get` the path is guessed before `get` is reached, and `--v`
  takes `z`.
- `dispatch_dropped`: README.md:1069 has a reserved flag before a raw command
  refused. On `app z --dry-run grep --dry-run`, which does not parse, `grep` is
  found at a later word, and the prefix names no command whose gates would
  refuse the flag.
- `panic_hook_local`: README.md:1234 has a panic in a spawned task that the
  runtime catches behave as without agcli. A task that is polled inside its
  handler's poll, as a `LocalSet` does, ends the process.
- `audit_secret`: README.md:411 has the value of a secret masked. With
  `get <s>... <a>` and a secret `a`, `get 2 2 1` shows the 1: a mask goes by the
  index of its name in the usage, which a variadic argument before it moves. The
  audit has no finding for such a command.
- `redaction_hook`: README.md:479 has the token after a bare flag of a raw
  command masked. When the `redact_arg` hook rewrites the flag, the next token
  shows.

## What is left out

- Wording: messages, fixes, descriptions, usage text, JSON layout. An answer is
  its code and form; which next actions `Dispatch` offers with it is left out,
  as each is a command line in words.
- The payload of events and lines: who wrote which one, and when, is all the
  properties tell apart.
- `install`'s `Once` and the hook it chains to; file modes; the numbers of a
  list, which are one scalar each; the list of available fields in a warning.
- What is said of a failed write: `Execution::print` returns the exit code of
  the run either way, ignores a closed pipe and reports any other failure on
  stderr. The wire keeps what got out.
- Where the hook's envelope goes: stdout, the stream's terminal line, or stderr
  for a raw command. `PanicHook` has one place, `StreamWriter` the second.
- In usage strings: more than one placeholder in a token, brackets inside a
  token, and the quoting in `flag_display`.
- In lines read back: a value of the wrong JSON type, but for null. The decoders
  are serde's, and refuse it by the type of the field.
- The digits of a timestamp's text: a text of the right shape is its numbers.
- Not modelled. Suggestions: an edit distance that ranks names in the wording of
  a fix, which decides nothing. The skill document: the tree as text. The
  builder: it runs before anything else and panics on a mistake, so what
  it refuses no run has. Examples, tests and benches: users of the crate, read
  as statements of what is promised.

## Plan

Done, in the order of weight:

1. `NdjsonStream`, `StreamWriter`, the refinement and its proof.
2. `Invocation`, `Dispatch`: the parse, the gates and their proof, raw commands.
3. `PanicHook` and its proofs.
4. `Redaction`, over the states of Dispatch; `CommandRequest`; their proofs, and
   those of the parser under them.
5. `Truncate` and its proofs.
6. `Projection`, `Output`, `Selection`.
7. `Usage` and `Audit`, composed with Dispatch and Redaction; the proofs of the
   scanners and of the next actions.
8. `Calendar`, `Envelope` and their proofs.

Left:

- `suggest.rs` as a recursive function against the textbook edit distance.
- CleanTemplatesRun and CleanSecretsMasked of `Audit` as theorems.
