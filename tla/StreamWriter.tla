---------------------------- MODULE StreamWriter ----------------------------
(***************************************************************************)
(* One streaming run: the handler and the tasks it spawned emit events     *)
(* through clones of one StreamWriter, while the framework closes the      *)
(* stream, stamps the envelope and prints the terminal line, or the panic  *)
(* hook answers in its place.                                              *)
(*                                                                         *)
(* StreamWriter::emit is two steps, as in the code: the clock is read and  *)
(* the line serialized before the lock is taken, and the flags are checked *)
(* and the line written under it.                                          *)
(*                                                                         *)
(* A definition named Bug... is a slip in the definition that follows it:  *)
(* put in its place, it must break a property stated below.                *)
(***************************************************************************)
EXTENDS Integers, Sequences

CONSTANTS
  Handler,    \* the emitter that is the command's own handler
  Tasks,      \* the emitters that are tasks it handed a clone to
  MaxEmits,   \* bound: emits each emitter attempts
  MaxTime,    \* bound: the last reading of the clock
  MaxFaults,  \* bound: writes to stdout that fail
  MayPanic    \* may the handler panic?

Emitters == {Handler} \cup Tasks

ASSUME ConstantsAssumption ==
  /\ Handler \notin Tasks
  /\ MaxEmits \in Nat
  /\ MaxTime \in Nat
  /\ MaxFaults \in Nat
  /\ MayPanic \in BOOLEAN

VARIABLES
  mode,      \* "process" (run_env, a live sink) or "inprocess" (run, captured)
  phase,     \* where the thread that runs the handler is
  outcome,   \* how the handler ended: none, result, error or panic
  now,       \* what the run's clock reads
  stamp,     \* the envelope's timestamp, once it is read
  pc,        \* per emitter: idle, or holding a stamped line
  ts,        \* per emitter: the stamp of the line it holds
  count,     \* per emitter: the emits it has begun
  answers,   \* history, per emitter: what each emit returned
  closed,    \* StreamState.closed
  poisoned,  \* StreamState.poisoned
  captured,  \* the lines of Sink::Captured
  events,    \* the captured lines the Execution took
  wire,      \* everything that has reached stdout
  faults     \* writes that failed so far

run == <<mode, phase, outcome, stamp>>
emits == <<pc, ts, count, answers>>
stream == <<closed, poisoned, captured>>
output == <<events, wire, faults>>
vars == <<mode, phase, outcome, stamp, now, pc, ts, count, answers,
          closed, poisoned, captured, events, wire, faults>>

Phases == {"running", "returned", "closed", "built", "printed", "exited",
           "panicked", "reported", "unwound"}
Returns == {"result", "error"}
Replies == {"ok", "io", "json", "closed", "poisoned"}
Kinds == {"event", "partial"} \cup Returns
Item == [kind : Kinds, by : Emitters, n : Nat, ts : Nat]

TypeOK ==
  /\ mode \in {"process", "inprocess"}
  /\ phase \in Phases
  /\ outcome \in Returns \cup {"none", "panic"}
  /\ now \in Nat /\ stamp \in Nat /\ faults \in Nat
  /\ pc \in [Emitters -> {"idle", "stamped"}]
  /\ ts \in [Emitters -> Nat]
  /\ count \in [Emitters -> Nat]
  /\ answers \in [Emitters -> Seq(Replies)]
  /\ closed \in BOOLEAN /\ poisoned \in BOOLEAN
  /\ captured \in Seq(Item) /\ events \in Seq(Item) /\ wire \in Seq(Item)

Init ==
  /\ mode \in {"process", "inprocess"}
  /\ phase = "running" /\ outcome = "none"
  /\ now = 0 /\ stamp = 0 /\ faults = 0
  /\ pc = [e \in Emitters |-> "idle"]
  /\ ts = [e \in Emitters |-> 0]
  /\ count = [e \in Emitters |-> 0]
  /\ answers = [e \in Emitters |-> <<>>]
  /\ closed = FALSE /\ poisoned = FALSE
  /\ captured = <<>> /\ events = <<>> /\ wire = <<>>
-----------------------------------------------------------------------------
(* Writing to stdout. *)

(* The lines a write of text leaves when it fails: some whole ones, then   *)
(* perhaps a part of the next. All of them are out when the flush fails.   *)
Torn(text) ==
  {SubSeq(text, 1, k) : k \in 0..Len(text)}
    \cup {Append(SubSeq(text, 1, k), [text[k + 1] EXCEPT !.kind = "partial"]) :
            k \in 0..(Len(text) - 1)}

WriteWhole(text) ==
  /\ wire' = wire \o text
  /\ UNCHANGED faults

WriteFails(text) ==
  /\ faults < MaxFaults
  /\ faults' = faults + 1
  /\ \E rest \in Torn(text) : wire' = wire \o rest

(* Execution::print and the hook do not act on a failed write. *)
WriteLine(text) == WriteWhole(text) \/ WriteFails(text)
-----------------------------------------------------------------------------
(* StreamWriter::emit. *)

Tick ==
  /\ now < MaxTime
  /\ phase # "exited"
  /\ now' = now + 1
  /\ UNCHANGED <<run, emits, stream, output>>

(* The handler runs until it returns; a task until the process is gone. *)
Running(e) == IF e = Handler THEN phase = "running" ELSE phase # "exited"

Reply(e, reply) ==
  /\ pc' = [pc EXCEPT ![e] = "idle"]
  /\ answers' = [answers EXCEPT ![e] = Append(@, reply)]
  /\ UNCHANGED <<ts, count>>

(* Read the clock and serialize, before the lock. *)
Stamp(e) ==
  /\ Running(e)
  /\ pc[e] = "idle"
  /\ count[e] < MaxEmits
  /\ count' = [count EXCEPT ![e] = @ + 1]
  /\ ts' = [ts EXCEPT ![e] = now]
  /\ pc' = [pc EXCEPT ![e] = "stamped"]
  /\ UNCHANGED <<answers, now, run, stream, output>>

(* Serialization fails: nothing is written and the writer stays usable. *)
SerializeFails(e) ==
  /\ Running(e)
  /\ pc[e] = "stamped"
  /\ Reply(e, "json")
  /\ UNCHANGED <<now, run, stream, output>>

EventLine(e) == [kind |-> "event", by |-> e, n |-> count[e], ts |-> ts[e]]

BugRefusedIgnoresClosed == poisoned

Refused == closed \/ poisoned

Refuse(e) ==
  /\ Running(e)
  /\ pc[e] = "stamped"
  /\ Refused
  /\ Reply(e, IF closed THEN "closed" ELSE "poisoned")
  /\ UNCHANGED <<now, run, stream, output>>

Capture(e) ==
  /\ Running(e)
  /\ pc[e] = "stamped"
  /\ ~Refused
  /\ mode = "inprocess"
  /\ captured' = Append(captured, EventLine(e))
  /\ Reply(e, "ok")
  /\ UNCHANGED <<now, run, closed, poisoned, output>>

WriteEvent(e) ==
  /\ Running(e)
  /\ pc[e] = "stamped"
  /\ ~Refused
  /\ mode = "process"
  /\ WriteWhole(<<EventLine(e)>>)
  /\ Reply(e, "ok")
  /\ UNCHANGED <<now, run, stream, events>>

BugWriteEventFailsUnpoisoned(e) ==
  /\ Running(e)
  /\ pc[e] = "stamped"
  /\ ~Refused
  /\ mode = "process"
  /\ WriteFails(<<EventLine(e)>>)
  /\ Reply(e, "io")
  /\ UNCHANGED <<now, run, stream, events>>

WriteEventFails(e) ==
  /\ Running(e)
  /\ pc[e] = "stamped"
  /\ ~Refused
  /\ mode = "process"
  /\ WriteFails(<<EventLine(e)>>)
  /\ poisoned' = TRUE
  /\ Reply(e, "io")
  /\ UNCHANGED <<now, run, closed, captured, events>>
-----------------------------------------------------------------------------
(* The framework, once the handler returned. *)

(* The handler returns Ok or Err. A write error it passed on with `?` is an *)
(* Err like any other.                                                      *)
Return ==
  /\ phase = "running"
  /\ pc[Handler] = "idle"
  /\ outcome' \in Returns
  /\ phase' = "returned"
  /\ UNCHANGED <<mode, stamp, now, emits, stream, output>>

BugCloseDropsCaptured ==
  /\ phase = "returned"
  /\ phase' = "closed"
  /\ closed' = TRUE
  /\ captured' = <<>>
  /\ UNCHANGED <<mode, outcome, stamp, now, emits, poisoned, output>>

BugCloseWaitsForTasks ==
  /\ phase = "returned"
  /\ \A e \in Tasks : pc[e] = "idle"
  /\ phase' = "closed"
  /\ closed' = TRUE
  /\ events' = captured
  /\ captured' = <<>>
  /\ UNCHANGED <<mode, outcome, stamp, now, emits, poisoned, wire, faults>>

(* StreamHandle::close. *)
Close ==
  /\ phase = "returned"
  /\ phase' = "closed"
  /\ closed' = TRUE
  /\ events' = captured
  /\ captured' = <<>>
  /\ UNCHANGED <<mode, outcome, stamp, now, emits, poisoned, wire, faults>>

BugBuildEnvelopeStampedAtStart ==
  /\ phase = "closed"
  /\ phase' = "built"
  /\ UNCHANGED <<mode, outcome, stamp, now, emits, stream, output>>

(* handler_success and handler_error stamp the envelope. *)
BuildEnvelope ==
  /\ phase = "closed"
  /\ phase' = "built"
  /\ stamp' = now
  /\ UNCHANGED <<mode, outcome, now, emits, stream, output>>

Terminal ==
  [kind |-> IF outcome = "result" THEN "result" ELSE "error",
   by |-> Handler, n |-> 0, ts |-> stamp]

(* Execution::print: the captured events, then the terminal line. *)
PrintAnswer ==
  /\ phase = "built"
  /\ phase' = "printed"
  /\ WriteLine(Append(events, Terminal))
  /\ UNCHANGED <<mode, outcome, stamp, now, emits, stream, events>>

Exit ==
  /\ phase = "printed"
  /\ phase' = "exited"
  /\ UNCHANGED <<mode, outcome, stamp, now, emits, stream, output>>
-----------------------------------------------------------------------------
(* The handler panics. *)

(* With run_env the hook takes over on the handler's thread and nothing    *)
(* closes the stream; with run the panic unwinds into the caller.          *)
Panic ==
  /\ MayPanic
  /\ phase = "running"
  /\ pc[Handler] = "idle"
  /\ outcome' = "panic"
  /\ phase' = IF mode = "process" THEN "panicked" ELSE "unwound"
  /\ UNCHANGED <<mode, stamp, now, emits, stream, output>>

HookStamp ==
  /\ phase = "panicked"
  /\ phase' = "reported"
  /\ stamp' = now
  /\ UNCHANGED <<mode, outcome, now, emits, stream, output>>

BugHookReturns ==
  /\ phase = "reported"
  /\ phase' = "returned"
  /\ WriteLine(<<Terminal>>)
  /\ UNCHANGED <<mode, outcome, stamp, now, emits, stream, events>>

HookPrint ==
  /\ phase = "reported"
  /\ phase' = "printed"
  /\ WriteLine(<<Terminal>>)
  /\ UNCHANGED <<mode, outcome, stamp, now, emits, stream, events>>
-----------------------------------------------------------------------------
(* Nothing is left to run. *)
Settled ==
  /\ phase \in {"exited", "unwound"}
  /\ UNCHANGED vars

Emit(e) ==
  \/ Stamp(e) \/ SerializeFails(e) \/ Refuse(e)
  \/ Capture(e) \/ WriteEvent(e) \/ WriteEventFails(e)

Framework ==
  \/ Return \/ Close \/ BuildEnvelope \/ PrintAnswer \/ Exit
  \/ Panic \/ HookStamp \/ HookPrint

Next == (\E e \in Emitters : Emit(e)) \/ Framework \/ Tick \/ Settled

Spec == Init /\ [][Next]_vars

(* The thread that ran the handler is not blocked once the handler ended.  *)
FairSpec ==
  /\ Spec
  /\ WF_vars(Close) /\ WF_vars(BuildEnvelope) /\ WF_vars(PrintAnswer) /\ WF_vars(Exit)
  /\ WF_vars(HookStamp) /\ WF_vars(HookPrint)
-----------------------------------------------------------------------------
(* Properties. *)

IsAnswer(item) == item.kind \in Returns
Answered == {i \in DOMAIN wire : IsAnswer(wire[i])}

(* The terminal line is the last thing on stdout, whatever a spawned task  *)
(* does with the clone it kept (dispatch.rs run_handler: "Close before the *)
(* terminal line exists").                                                 *)
TerminalIsLast == \A i \in Answered : i = Len(wire)

(* The code keeps that promise whenever the handler returned. *)
TerminalIsLastUnlessPanic == outcome # "panic" => TerminalIsLast

(* A run that exits without a failed write leaves exactly one terminal     *)
(* line, also when its handler panicked; no run ever leaves two.           *)
OneAnswer ==
  /\ \A i, j \in Answered : i = j
  /\ phase = "exited" /\ faults = 0 => Answered # {}

(* "After a failed write the writer refuses every later one, so nothing    *)
(* lands after a partial line" (README, NDJSON streams): no event does, as *)
(* the write that tore a line poisons the writer. The terminal line of the *)
(* run still follows it (execution.rs).                                    *)
NoEventAfterPartial ==
  \A i, j \in DOMAIN wire :
    wire[i].kind = "partial" /\ wire[i].n > 0 /\ i < j => wire[j].kind # "event"

(* Where a reader of the run finds its events: stdout, or the Execution.   *)
Delivered == IF mode = "process" THEN wire ELSE captured \o events

(* An emit answered Ok is delivered, once, and stays delivered through the *)
(* close that moves the captured lines into the Execution; one the writer  *)
(* refused, or that did not serialize, leaves nothing.                     *)
AcceptedIsDelivered ==
  \A e \in Emitters : \A n \in DOMAIN answers[e] :
    LET lines == {i \in DOMAIN Delivered : Delivered[i].by = e /\ Delivered[i].n = n} IN
    /\ answers[e][n] = "ok" => \E i \in lines : lines = {i} /\ Delivered[i].kind = "event"
    /\ lines # {} => answers[e][n] \in {"ok", "io"}

(* No event of a run that returned carries a later stamp than its answer:  *)
(* the stream is closed before the envelope's timestamp is read.           *)
AnswerIsStampedLast ==
  outcome # "panic" =>
    \A i \in Answered : \A j \in DOMAIN wire : wire[j].ts <= wire[i].ts

(* Once its handler ended, a run_env process writes its answer and exits,  *)
(* even if a spawned task emits without end.                               *)
EndedRunExits == (outcome # "none" /\ mode = "process") ~> (phase = "exited")

(* The run implements what the reader is promised. A panic abandons the    *)
(* stream: what the hook leaves behind is the subject of TerminalIsLast.   *)
Sent ==
  IF mode = "process" THEN wire
  ELSE captured \o events \o (IF phase \in {"printed", "exited"} THEN <<Terminal>> ELSE <<>>)

Promise == INSTANCE NdjsonStream WITH
  out <- IF outcome = "panic" THEN <<>> ELSE [i \in DOMAIN Sent |-> Sent[i].kind],
  answered <- outcome \in Returns,
  state <- IF outcome = "panic" THEN "abandoned"
           ELSE IF phase \in {"printed", "exited"} THEN "ended"
           ELSE IF poisoned THEN "torn" ELSE "open"

PromiseKept == Promise!Spec
=============================================================================
