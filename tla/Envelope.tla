------------------------------ MODULE Envelope ------------------------------
(***************************************************************************)
(* The lines a run leaves on stdout and what a reader of them decodes      *)
(* (envelope.rs, command_error.rs, codes.rs, stream.rs): a success         *)
(* envelope of what Output answers, the envelope of an error, and the      *)
(* event lines before either. A call also says whether its answer is the   *)
(* terminal line of a stream (stream, which what is refused before argv is *)
(* read never is), the CLI's schema_version (version, an Option), what the *)
(* default clock reads (pin and elapsed, module Calendar), and what its    *)
(* handler may do other than succeed: the errors it builds (failures, as   *)
(* [exit, retryable, actions, data]) and the events it emits (events, as   *)
(* maps).                                                                  *)
(*                                                                         *)
(* A line is a function from its keys to JSON values. Texts the properties *)
(* do not tell apart are Text; what does not fit a key's type is left out, *)
(* but for null.                                                           *)
(***************************************************************************)
EXTENDS Output, Calendar

VARIABLES
  error,   \* an Option of the CommandError the run answers with
  line,    \* an Option of the last line on stdout
  status   \* what the process exited with, or None

wire == <<error, line, status>>

Now == The(DefaultClock(call.pin, call.elapsed))

(* The keys of a StreamEvent of each type, and those it may leave out.     *)
Required ==
  [start |-> {"command"}, step |-> {"name", "status"}, progress |-> {"name"},
   log |-> {"level", "message"}, event |-> {"name", "data"}]
Optionals ==
  [type \in DOMAIN Required |->
     CASE type = "step" -> {"duration_ms", "error"}
       [] type = "progress" -> {"percent", "message"}
       [] OTHER -> {}]

(* None of its own keys is null, but for the data of an event. *)
IsEvent(event) ==
  \E type \in DOMAIN Required, given \in SUBSET {"duration_ms", "error", "percent", "message"} :
    /\ DOMAIN event = {"type"} \cup Required[type] \cup given
    /\ event = [key \in DOMAIN event |-> event[key]]
    /\ given \subseteq Optionals[type] /\ event["type"] = Scalar(type)
    /\ \A key \in DOMAIN event \ {"data"} : ~IsNull(event[key])

Readings == [day : Nat, second : 0..(DaySeconds - 1)]

(* A version is no null, and a clock reads a second since the epoch.        *)
ASSUME CallsAssumption ==
  \A given \in Calls :
    /\ {"stream", "version", "pin", "elapsed", "failures", "events"} \subseteq DOMAIN given
    /\ IsOption(given.version) /\ \A version \in given.version : ~IsNull(version)
    /\ IsOption(given.pin) /\ given.pin \subseteq {Malformed} \cup Readings
    /\ IsOption(given.elapsed) /\ given.elapsed \subseteq Readings
    /\ \A event \in given.events : IsEvent(event)
    /\ \A failure \in given.failures : IsOption(failure.data) /\ AreActions(failure.actions)

WireInit ==
  /\ Init /\ DefaultClock(call.pin, call.elapsed) # {}
  /\ error = {} /\ line = {} /\ status = None
-----------------------------------------------------------------------------
(* command_error.rs: the builder panics on an exit code of SUCCESS, and    *)
(* the hook of run_env answers for the handler. A handler's error without  *)
(* next actions gets the command's.                                        *)

HandlerPanic ==
  [code |-> "HANDLER_PANIC", exit |-> "ERROR", retryable |-> FALSE, actions |-> CommandActions,
   data |-> {}]

BugReturnedError(failure) ==
  [code |-> "OWN", exit |-> failure.exit, retryable |-> failure.retryable,
   actions |-> EnsureNextActions(failure.actions), data |-> failure.data]

ReturnedError(failure) ==
  IF failure.exit = "SUCCESS" THEN HandlerPanic
  ELSE [code |-> "OWN", exit |-> failure.exit, retryable |-> failure.retryable,
        actions |-> EnsureNextActions(failure.actions), data |-> failure.data]

HandlerErrs(failure) ==
  /\ Running /\ ~IsDoctor /\ error = {}
  /\ error' = {ReturnedError(failure)}
  /\ UNCHANGED <<vars, line, status>>

(* error_execution: a usage error, whatever it says. A streaming command's *)
(* refusals are framed as its answers are (Dispatch).                      *)
FrameworkRefuses ==
  /\ Running /\ report = <<>> /\ error = {}
  /\ error' = {[code |-> "USAGE", exit |-> "USAGE", retryable |-> FALSE,
                actions |-> RootActions, data |-> {}]}
  /\ UNCHANGED <<vars, line, status>>
-----------------------------------------------------------------------------
(* envelope.rs                                                             *)

SuccessEnvelope(told) ==
  [ok |-> TRUE, timestamp |-> Now, version |-> call.version, result |-> told.result,
   warning |-> IF told.warning = NoWarning THEN {} ELSE {Text},
   actions |-> told.actions, exit |-> told.exit]

BugErrorEnvelope(failed) ==
  [ok |-> FALSE, timestamp |-> Now, version |-> call.version, code |-> failed.code,
   retryable |-> failed.retryable, actions |-> failed.actions, data |-> failed.data,
   exit |-> ExitOf(failed.exit)]

ErrorEnvelope(failed) ==
  [ok |-> FALSE, timestamp |-> Now, version |-> call.version, code |-> failed.code,
   retryable |-> failed.retryable, actions |-> failed.actions, data |-> failed.data,
   exit |-> IF failed.exit = None THEN "ERROR" ELSE failed.exit]

ActionsJson(actions) == Arr([i \in DOMAIN actions |-> ActionJson(actions[i])])

Common(envelope) ==
  With([ok |-> Scalar(envelope.ok), command |-> Text,
        timestamp |-> Scalar(Display(envelope.timestamp)), exit_code |-> Scalar(envelope.exit),
        next_actions |-> ActionsJson(envelope.actions)],
       Optional("schema_version", envelope.version))

ErrorBody(envelope) ==
  Obj([message |-> Text, code |-> Scalar(envelope.code), retryable |-> Scalar(envelope.retryable)])

Serialized(envelope) ==
  With(Common(envelope),
       IF envelope.ok
       THEN With([result |-> envelope.result], Optional("select_warning", envelope.warning))
       ELSE With([error |-> ErrorBody(envelope), fix |-> Text], Optional("data", envelope.data)))

(* to_stream_json: the terminal line of a stream is led by its type. *)
Terminal(envelope) ==
  With([type |-> Scalar(IF envelope.ok THEN "result" ELSE "error")], Serialized(envelope))

(* Execution::print, then finish. *)
Finish(envelope) ==
  /\ status = None
  /\ line' = {IF call.stream THEN Terminal(envelope) ELSE Serialized(envelope)}
  /\ status' = envelope.exit
  /\ UNCHANGED <<vars, error>>

PrintAnswer ==
  \/ \E told \in answer : Finish(SuccessEnvelope(told))
  \/ \E failed \in error : Finish(ErrorEnvelope(failed))

(* StreamWriter::emit: the event's own keys, then ts. *)
Stamped(event, moment) == With(event, [ts |-> Scalar(Display(moment))])
EventLine(event) == Stamped(event, Now)

Emit(event) ==
  /\ Running /\ call.stream /\ error = {} /\ line = {}
  /\ line' = {EventLine(event)}
  /\ UNCHANGED <<vars, error, status>>

(* An agent that follows the advertisement has read the answer. *)
WireNext ==
  \/ Answering /\ error = {} /\ UNCHANGED wire
  \/ Rendering /\ ~call.stream /\ error = {} /\ UNCHANGED wire
  \/ \E failure \in call.failures : HandlerErrs(failure)
  \/ FrameworkRefuses
  \/ \E event \in call.events : Emit(event)
  \/ PrintAnswer
  \/ Rerunning /\ status # None /\ error' = {} /\ line' = {} /\ status' = None

WireSpec == WireInit /\ [][WireNext]_<<vars, wire>>
-----------------------------------------------------------------------------
(* The decoders, as a reader of another process has them. Each gives an    *)
(* Option of what it read; a key it does not know is ignored.              *)

(* Keys that must be there, none of them null, and keys that may be left   *)
(* out but not be null (present).                                          *)
Strict(map, needed, optional) ==
  /\ needed \subseteq DOMAIN map
  /\ \A key \in (needed \cup optional) \cap DOMAIN map : ~IsNull(map[key])

ReadActions(value) == [i \in DOMAIN value.items |-> ReadAction(value.items[i])]

ReadTime(value) == IF IsNull(value) THEN {} ELSE Parse(value.value)

ReadSuccess(map) ==
  IF /\ Strict(map, {"ok", "command", "timestamp", "exit_code", "next_actions"},
                    {"schema_version", "select_warning"})
     /\ "result" \in DOMAIN map
     /\ map["ok"].value
  THEN {[ok |-> TRUE, timestamp |-> read, version |-> Given(map, "schema_version"),
         result |-> map["result"], warning |-> Given(map, "select_warning"),
         actions |-> ReadActions(map["next_actions"]), exit |-> map["exit_code"].value] :
           read \in ReadTime(map["timestamp"])}
  ELSE {}

(* ErrorCode is never empty; ErrorBody has all its keys. *)
ReadError(map) ==
  IF /\ Strict(map, {"ok", "command", "timestamp", "exit_code", "error", "fix", "next_actions"},
                    {"schema_version"})
     /\ ~map["ok"].value
     /\ IsObj(map["error"])
     /\ Strict(map["error"].map, {"message", "code", "retryable"}, {})
     /\ map["error"].map["code"].value # ""
     /\ map["exit_code"].value # "SUCCESS"
     /\ \A data \in Given(map, "data") : ~IsNull(data)
  THEN {[ok |-> FALSE, timestamp |-> read, version |-> Given(map, "schema_version"),
         code |-> map["error"].map["code"].value,
         retryable |-> map["error"].map["retryable"].value,
         actions |-> ReadActions(map["next_actions"]), data |-> Given(map, "data"),
         exit |-> map["exit_code"].value] : read \in ReadTime(map["timestamp"])}
  ELSE {}

(* Envelope: by its ok. *)
ReadEnvelope(map) ==
  IF "ok" \notin DOMAIN map \/ IsNull(map["ok"]) THEN {}
  ELSE IF map["ok"].value THEN ReadSuccess(map) ELSE ReadError(map)

(* StreamEvent: a null for what it may leave out reads as left out. *)
ReadEvent(map, type) ==
  IF /\ type \in DOMAIN Required /\ Required[type] \subseteq DOMAIN map
     /\ \A key \in Required[type] \ {"data"} : ~IsNull(map[key])
  THEN LET given == {key \in Optionals[type] \cap DOMAIN map : ~IsNull(map[key])}
       IN  {[key \in {"type"} \cup Required[type] \cup given |-> map[key]]}
  ELSE {}

(* StreamLine: by its type, which the envelopes do not know. *)
BugReadLine(map) ==
  IF "type" \notin DOMAIN map THEN {}
  ELSE IF map["type"].value \in {"result", "error"} THEN ReadEnvelope(map)
  ELSE {[event |-> event, timestamp |-> UnixEpoch] : event \in ReadEvent(map, map["type"].value)}

ReadLine(map) ==
  IF "type" \notin DOMAIN map THEN {}
  ELSE CASE map["type"].value = "result" -> ReadSuccess(map)
         [] map["type"].value = "error" -> ReadError(map)
         [] OTHER -> {[event |-> event, timestamp |-> read] :
                        event \in ReadEvent(map, map["type"].value),
                        read \in UNION {ReadTime(ts) : ts \in Given(map, "ts")}}
-----------------------------------------------------------------------------
(* Properties. *)

Said ==
  {SuccessEnvelope(told) : told \in IF status = None THEN {} ELSE answer}
    \cup {ErrorEnvelope(failed) : failed \in error}

(* The map a later agcli writes that only added a key. *)
Later(map) == With(map, [added |-> Text])

(* An error built with data that is null. *)
NullData == \E failed \in error : \E data \in failed.data : IsNull(data)

(* What a reader is to make of an envelope. *)
AsRead(envelope) ==
  [envelope EXCEPT !.actions = [i \in DOMAIN @ |-> WithoutNulls(@[i])]]

(* A reader of another process gets back what the run said, by the one     *)
(* decoder for the line, also from a later agcli: an event is never taken  *)
(* for the answer nor the answer for an event, whatever the payload holds; *)
(* the exit status is the line's, and 0 only where it says ok (README,     *)
(* Decoding and Exit codes). But for two nulls the builders take and write *)
(* (CommandError::data, ActionParam::value and default_value): no decoder  *)
(* takes an error with data null, and a param's value or default that is   *)
(* null is read as not given.                                              *)
LinesReadBack ==
  \A map \in line : \A read \in {map, Later(map)} :
    IF "ok" \notin DOMAIN map
    THEN /\ {Stamped(got.event, got.timestamp) : got \in ReadLine(read)} = {map}
         /\ ReadEnvelope(read) = {}
    ELSE /\ ReadEnvelope(read) = IF NullData THEN {} ELSE {AsRead(said) : said \in Said}
         /\ ReadLine(read) = IF call.stream THEN ReadEnvelope(read) ELSE {}
         /\ status = map["exit_code"].value
         /\ status = "SUCCESS" => map["ok"].value

(* The texts near one: another day or month of it. *)
Near(text) ==
  {[text EXCEPT !.date.day = day] : day \in 0..32}
    \cup {[text EXCEPT !.date.month = month] : month \in 0..13}

(* Every line says the second its clock read, by the Gregorian calendar,   *)
(* it reads back as that second, and no text but the one spelling of a     *)
(* second reads as one (timestamp.rs).                                     *)
TimestampsAreTrue ==
  \A map \in line :
    LET text == IF "ts" \in DOMAIN map THEN map["ts"].value ELSE map["timestamp"].value IN
    /\ IsDayOf(text.date, Now.day)
    /\ text.hour * 3600 + text.minute * 60 + text.second = Now.second
    /\ Parse(text) = {Now}
    /\ \A other \in Near(text) : \A read \in Parse(other) : Display(read) = other
=============================================================================
