------------------------------ MODULE Output ------------------------------
(* From what a handler returns to what the agent reads: the list results   *)
(* of command_output.rs, the report of the builtin doctor (doctor.rs) and  *)
(* the success envelope that dispatch.rs handler_success makes of them,    *)
(* under the reserved flags. The agent may follow the --select             *)
(* advertisement of a list: the same invocation, projected.                *)
EXTENDS NextActions, Naturals, SequencesExt

CONSTANT
  Project(_, _, _, _)  \* module Projection: what --select and --compact make of a result

CONSTANTS
  Calls,           \* invocations: [reserved, checks, select, compact, quiet]
  Outputs,         \* outputs a handler builds with CommandOutput::new
  Rendered,        \* results the framework renders: the tree, help, the version
  Listed,          \* rows of a list result
  MaxRows,         \* bound: the rows of a list
  Spelling,        \* text -> its spelling, of marks (comma, dot, blank) and other pieces
  CommandActions,  \* what a command offers when its handler offers nothing
  RootActions,     \* what the framework's own answers offer
  Codes            \* exit codes other than SUCCESS and ERROR

None == "none"
Statuses == {"pass", "fail", "skip"}
ExitCodes == {"SUCCESS", "ERROR"} \cup Codes

AreActions(actions) ==
  actions \in Seq(ToSet(actions)) /\ \A action \in ToSet(actions) : IsAction(action)

ASSUME CodesAssumption == Codes \cap {"SUCCESS", "ERROR", None} = {}
ASSUME ActionsAssumption ==
  /\ AreActions(CommandActions) /\ AreActions(RootActions)
  /\ \A out \in Outputs : AreActions(out.actions)

(* A row's keys are texts, no two are spelled alike, and what is between   *)
(* the marks of a text, or within its blanks, is a text.                   *)
ASSUME KeysAssumption ==
  /\ IsInjective(Spelling) /\ Spelling["items"] = <<"items">>
  /\ \A row \in Listed : IsObj(row) => DOMAIN row.map \subseteq DOMAIN Spelling
  /\ \A raw \in Range(Spelling) : \A i, j \in 0..Len(raw) :
       LET part == SubSeq(raw, i + 1, j)
       IN  ToSet(part) \cap {",", "."} = {} => part \in Range(Spelling)

ASSUME ChecksAssumption ==
  \A given \in Calls :
    /\ "checks" \in DOMAIN given /\ IsOption(given.checks)
    /\ \A checks \in given.checks : checks \in Seq(ExitCodes)

VARIABLES
  call,      \* the invocation; with checks when it names the doctor
  report,    \* the statuses of the checks that ran
  failExit,  \* the exit code the failed ones fold into, or None
  output,    \* an Option of what the handler returned
  answer,    \* an Option of the success envelope
  pasted     \* the row keys the agent pasted from an advertisement

vars == <<call, report, failExit, output, answer, pasted>>

IsDoctor == call.checks # {}
Checks == The(call.checks)

Init ==
  /\ call \in Calls
  /\ report = <<>> /\ failExit = None
  /\ output = {} /\ answer = {} /\ pasted = {}

-----------------------------------------------------------------------------
(* select.rs: a --select value is the spelling of a text.                  *)

(* The parts of a value between the marks of one kind. *)
Split(raw, mark) ==
  FoldLeft(LAMBDA parts, piece :
             IF piece = mark THEN Append(parts, <<>>)
             ELSE [parts EXCEPT ![Len(parts)] = Append(@, piece)],
           <<<<>>>>, raw)

Trim(raw) ==
  LET kept == {i \in DOMAIN raw : raw[i] # " "}
  IN  IF kept = {} THEN <<>> ELSE SubSeq(raw, Min(kept), Max(kept))

TextOf(raw) == CHOOSE text \in DOMAIN Spelling : Spelling[text] = raw

(* The fields of a value, each as the texts between its dots. *)
ParseSelectFields(raw) ==
  LET parts == Split(raw, ",")
      fields == SelectSeq([i \in DOMAIN parts |-> Trim(parts[i])], LAMBDA field : field # <<>>)
      Steps(field) == LET steps == Split(field, ".") IN [i \in DOMAIN steps |-> TextOf(steps[i])]
  IN  [i \in DOMAIN fields |-> Steps(fields[i])]

-----------------------------------------------------------------------------
(* command_output.rs                                                       *)

BugIsSelectableKey(key) == ToSet(Spelling[key]) \cap {",", "."} = {} /\ Spelling[key] # <<>>

(* No comma or dot, its own trim, and not empty. *)
IsSelectableKey(key) ==
  LET spelled == Spelling[key]
  IN  ToSet(spelled) \cap {",", "."} = {} /\ Trim(spelled) = spelled /\ spelled # <<>>

RowSchema(items) ==
  {key \in UNION {DOMAIN items[i].map : i \in {j \in DOMAIN items : IsObj(items[j])}} :
     IsSelectableKey(key)}

Returned(result, actions, exit, compactFields, selectKeys) ==
  [result |-> result, actions |-> actions, exit |-> exit,
   compactFields |-> compactFields, selectKeys |-> selectKeys]

(* Counts and texts are scalars the properties do not tell apart. *)
ListTruncated(items, truncated) ==
  LET some == IF RowSchema(items) = {} THEN {} ELSE {"fields"}
      more == IF truncated THEN {"guidance"} ELSE {}
      said == [k \in {"count", "total", "truncated"} \cup some \cup more |-> Scalar(k)]
  IN  Returned(Obj(With([items |-> Arr(items)], said)), <<>>, None, {}, RowSchema(items))

-----------------------------------------------------------------------------
(* The handler                                                             *)

Running == output = {} /\ answer = {}

HandlerReturns(out) ==
  /\ Running /\ ~IsDoctor
  /\ output' = {out}
  /\ UNCHANGED <<call, report, failExit, answer, pasted>>

(* list and list_truncated; a total below the count panics (PanicHook). *)
ListReturns(items, truncated) ==
  /\ Running /\ ~IsDoctor
  /\ output' = {ListTruncated(items, truncated)}
  /\ UNCHANGED <<call, report, failExit, answer, pasted>>

(* doctor.rs: the code of one more failed check. *)
BugFailExitWith(before, code) == IF before = None THEN code ELSE before  \* the first wins
FailExitWith(before, code) == IF before \in {None, "ERROR"} THEN code ELSE before

CheckAnswers(status) ==
  /\ Running /\ IsDoctor /\ Len(report) < Len(Checks)
  /\ report' = Append(report, status)
  /\ failExit' = IF status = "fail"
                 THEN FailExitWith(failExit, Checks[Len(report) + 1]) ELSE failExit
  /\ UNCHANGED <<call, output, answer, pasted>>

Entry(status) ==
  Obj([k \in {"name", "status"} \cup (IF status = "fail" THEN {"fix"} ELSE {}) |-> Scalar(status)])

Report ==
  Obj([healthy |-> Truth(failExit = None),
       skipped |-> Scalar(ToString(Cardinality({i \in DOMAIN report : report[i] = "skip"}))),
       checks |-> Arr([i \in DOMAIN report |-> Entry(report[i])])])

DoctorReturns ==
  /\ Running /\ IsDoctor /\ Len(report) = Len(Checks)
  /\ output' = {Returned(Report, <<>>, failExit, {}, {})}
  /\ UNCHANGED <<call, report, failExit, answer, pasted>>

-----------------------------------------------------------------------------
(* dispatch.rs: handler_success                                            *)

AppliesReservedProjection == ~IsDoctor

EnsureNextActions(actions) == IF actions = <<>> THEN CommandActions ELSE actions

(* advertisement_action: the fields themselves are in its description. *)
AdvertisementAction ==
  Template("select", [fields |-> [required |-> Truth(TRUE), description |-> Text]])

(* Advertised once, and only where the flag would apply. *)
Advertisement(out) ==
  IF /\ call.reserved /\ AppliesReservedProjection
     /\ call.select = {} /\ out.selectKeys # {}
  THEN <<AdvertisementAction>> ELSE <<>>

NextActions(out) ==
  IF call.reserved /\ call.quiet THEN <<>>
  ELSE EnsureNextActions(out.actions) \o Advertisement(out)

Projected(out) ==
  IF call.reserved /\ AppliesReservedProjection
  THEN Project(out.result, call.select, call.compact, out.compactFields)
  ELSE [result |-> out.result, warning |-> NoWarning]

ExitOf(exit) == IF exit = None THEN "SUCCESS" ELSE exit

HandlerSuccess ==
  /\ answer = {}
  /\ \E out \in output :
       answer' = {[result |-> Projected(out).result, warning |-> Projected(out).warning,
                   actions |-> NextActions(out), exit |-> ExitOf(out.exit)]}
  /\ UNCHANGED <<call, report, failExit, output, pasted>>

(* The paths items.<key> of some keys, as the advertisement joins them. *)
Advertised(keys) ==
  FlattenSeq([i \in DOMAIN keys |->
                (IF i = 1 THEN <<>> ELSE <<",", " ">>) \o <<"items", ".">> \o Spelling[keys[i]]])

(* The agent: the advertised invocation with a subset of the advertised    *)
(* fields, answered by the same output of the handler.                     *)
Rerun(keys) ==
  /\ \E told \in answer : AdvertisementAction \in ToSet(told.actions)
  /\ call' = [call EXCEPT !.select = {ParseSelectFields(Advertised(keys))}]
  /\ pasted' = ToSet(keys) /\ answer' = {}
  /\ UNCHANGED <<report, failExit, output>>

(* agent_cli.rs: framework_success, for the tree, help and version.        *)
FrameworkAnswers(result) ==
  /\ Running /\ ~IsDoctor
  /\ output' = {Returned(result, RootActions, None, {}, {})}
  /\ LET shown == IF call.reserved THEN Project(result, call.select, call.compact, {})
                  ELSE [result |-> result, warning |-> NoWarning]
     IN  answer' = {[result |-> shown.result, warning |-> shown.warning, exit |-> "SUCCESS",
                     actions |-> IF call.reserved /\ call.quiet THEN <<>> ELSE RootActions]}
  /\ UNCHANGED <<call, report, failExit, pasted>>

HandlerAnswers ==
  Running /\
    \/ \E out \in Outputs : HandlerReturns(out)
    \/ \E items \in BoundedSeq(Listed, MaxRows), truncated \in BOOLEAN :
         ListReturns(items, truncated)
    \/ \E status \in Statuses : CheckAnswers(status)
    \/ DoctorReturns

Answering == HandlerAnswers \/ HandlerSuccess

Rendering == Running /\ \E result \in Rendered : FrameworkAnswers(result)

Rerunning ==
  \E out \in output : \E keys \in SetToAllKPermutations(out.selectKeys) \ {<<>>} : Rerun(keys)

Next == Answering \/ Rendering \/ Rerunning

Spec == Init /\ [][Next]_vars

-----------------------------------------------------------------------------
(* In whatever order the checks were registered, the doctor exits with the *)
(* code of one that failed, generically only when no failed check has      *)
(* another code (doctor.rs, fail_exit). It exits 0 just when none failed,  *)
(* skipped ones aside; but where SUCCESS is the code of a failed check,    *)
(* which the builder takes, it may exit 0 beside a report that says        *)
(* unhealthy, as it does whenever a check failed. No flag hides a failed   *)
(* check's fix: the report is shown whole.                                 *)
DoctorIsActionable ==
  \A told \in answer, out \in output :
    LET failed == {Checks[i] : i \in {j \in DOMAIN report : report[j] = "fail"}}
    IN  IsDoctor =>
          /\ "SUCCESS" \notin failed => (told.exit = "SUCCESS" <=> failed = {})
          /\ told.exit = "ERROR" <=> failed = {"ERROR"}
          /\ failed # {} => told.exit \in failed
          /\ told.result = out.result
          /\ told.result.map["healthy"] = Truth(failed = {})
=============================================================================
