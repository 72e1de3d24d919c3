----------------------------- MODULE PanicHook -----------------------------
(***************************************************************************)
(* The panic hook and its thread marks. Executor threads poll the futures  *)
(* of handlers started by run_env (guarded: the poll marks the thread), of *)
(* handlers started by run (not marked) and of spawned tasks (not marked,  *)
(* and the runtime catches their panics). A poll may run inside another's, *)
(* a future may move between threads from one poll to the next, and        *)
(* several threads may panic at once.                                      *)
(***************************************************************************)
EXTENDS Integers, Sequences

CONSTANTS
  Threads,     \* the threads of the executors
  Guarded,     \* handlers of run_env, each with its PanicReport
  Unguarded,   \* handlers of run
  Tasks,       \* tasks a runtime polls and whose panics it catches
  Clock,       \* the frame of a reading of the custom clock
  NoRun,
  MaxDepth,    \* bound: frames on a thread
  ClockPanics, \* may the custom clock itself panic?
  LocalTasks   \* are tasks polled inside a handler's poll (a LocalSet)?

Futures == Guarded \cup Unguarded \cup Tasks

ASSUME FuturesAssumption ==
  /\ Guarded \cap Unguarded = {} /\ Tasks \cap (Guarded \cup Unguarded) = {}
  /\ Clock \notin Futures /\ NoRun \notin Futures /\ NoRun # Clock
  /\ MaxDepth \in Nat
  /\ ClockPanics \in BOOLEAN /\ LocalTasks \in BOOLEAN

VARIABLES
  future,   \* what each future is: pending, polled, done or failed
  stack,    \* per thread, the frames below it: the poll or reading each is,
            \* and what its guard puts back when it ends
  active,   \* ACTIVE: the run marked on each thread
  reading,  \* READING_CUSTOM of each thread
  hook,     \* per thread, where its panic is
  stamp,    \* per thread, the clock that stamped the hook's envelope
  written,  \* the envelopes written: the run each answers, and the frames
            \* its thread was in
  process   \* running, exited or aborted

vars == <<future, stack, active, reading, hook, stamp, written, process>>

Frame == [of : Futures \cup {Clock}, mark : Guarded \cup {NoRun}, read : BOOLEAN]
HookSteps == {"none", "panicked", "marked", "stamped", "written", "unwinding"}

TypeOK ==
  /\ future \in [Futures -> {"pending", "polled", "done", "failed"}]
  /\ stack \in [Threads -> Seq(Frame)]
  /\ active \in [Threads -> Guarded \cup {NoRun}]
  /\ reading \in [Threads -> BOOLEAN]
  /\ hook \in [Threads -> HookSteps]
  /\ stamp \in [Threads -> {"none", "run", "system"}]
  /\ written \in Seq([run : Guarded, by : Threads, in : Seq(Frame)])
  /\ process \in {"running", "exited", "aborted"}

Init ==
  /\ future = [f \in Futures |-> "pending"]
  /\ stack = [t \in Threads |-> <<>>]
  /\ active = [t \in Threads |-> NoRun]
  /\ reading = [t \in Threads |-> FALSE]
  /\ hook = [t \in Threads |-> "none"]
  /\ stamp = [t \in Threads |-> "none"]
  /\ written = <<>>
  /\ process = "running"
-----------------------------------------------------------------------------
Top(frames) == frames[Len(frames)]
Below(frames) == SubSeq(frames, 1, Len(frames) - 1)

(* The thread runs code that may poll, return or panic. *)
Runs(t) == process = "running" /\ hook[t] = "none"

(* Where a poll of f may start: at the bottom of a thread, or inside a     *)
(* handler or a task that drives f itself.                                 *)
MayPoll(t, f) ==
  stack[t] # <<>> =>
    /\ Top(stack[t]).of # Clock
    /\ f \in Tasks => LocalTasks

Push(t, f) ==
  stack' = [stack EXCEPT ![t] = Append(@, [of |-> f, mark |-> active[t], read |-> reading[t]])]

BugRestoreClearsMark(t) ==
  /\ stack' = [stack EXCEPT ![t] = Below(@)]
  /\ active' = [active EXCEPT ![t] = IF Top(stack[t]).of \in Guarded THEN NoRun ELSE @]
  /\ reading' = [reading EXCEPT ![t] = Top(stack[t]).read]

BugRestoreNotOnUnwind(t) ==
  /\ stack' = [stack EXCEPT ![t] = Below(@)]
  /\ active' = [active EXCEPT ![t] = IF Top(stack[t]).of \in Guarded THEN Top(stack[t]).mark ELSE @]
  /\ reading' = [reading EXCEPT ![t] = IF hook[t] = "none" THEN Top(stack[t]).read ELSE @]

BugLeaveKeepsMark(t) ==
  /\ stack' = [stack EXCEPT ![t] = Below(@)]
  /\ reading' = [reading EXCEPT ![t] = Top(stack[t]).read]
  /\ UNCHANGED active

(* Leave the innermost frame: its guards put back what they replaced. *)
Leave(t) ==
  /\ stack' = [stack EXCEPT ![t] = Below(@)]
  /\ active' = [active EXCEPT ![t] = IF Top(stack[t]).of \in Guarded THEN Top(stack[t]).mark ELSE @]
  /\ reading' = [reading EXCEPT ![t] = Top(stack[t]).read]

(* guard: the handler's call or a poll of its future, with its run marked. *)
Poll(t, f) ==
  /\ Runs(t) /\ future[f] = "pending" /\ Len(stack[t]) < MaxDepth /\ MayPoll(t, f)
  /\ future' = [future EXCEPT ![f] = "polled"]
  /\ Push(t, f)
  /\ active' = [active EXCEPT ![t] = IF f \in Guarded THEN f ELSE @]
  /\ UNCHANGED <<reading, hook, stamp, written, process>>

(* The poll ends: the future waits for another, on any thread, or is done. *)
PollEnds(t) ==
  /\ Runs(t) /\ stack[t] # <<>> /\ Top(stack[t]).of # Clock
  /\ \E next \in {"pending", "done"} :
       future' = [future EXCEPT ![Top(stack[t]).of] = next]
  /\ Leave(t)
  /\ UNCHANGED <<hook, stamp, written, process>>

(* read_custom, by a handler's req.now() or anyone's event stamp. *)
ReadClock(t) ==
  /\ Runs(t) /\ stack[t] # <<>> /\ Len(stack[t]) < MaxDepth
  /\ Top(stack[t]).of # Clock
  /\ Push(t, Clock)
  /\ reading' = [reading EXCEPT ![t] = TRUE]
  /\ UNCHANGED <<future, active, hook, stamp, written, process>>

ClockRead(t) ==
  /\ Runs(t) /\ stack[t] # <<>> /\ Top(stack[t]).of = Clock
  /\ Leave(t)
  /\ UNCHANGED <<future, hook, stamp, written, process>>
-----------------------------------------------------------------------------
(* A panic. In a reading it is the clock's own, or that of a reading past  *)
(* Timestamp::MAX.                                                         *)
Panic(t) ==
  /\ Runs(t) /\ stack[t] # <<>>
  /\ hook' = [hook EXCEPT ![t] = "panicked"]
  /\ UNCHANGED <<future, stack, active, reading, stamp, written, process>>

BugHookReportsAll(t) ==
  /\ process = "running" /\ hook[t] = "panicked"
  /\ hook' = [hook EXCEPT ![t] = "marked"]
  /\ UNCHANGED <<future, stack, active, reading, stamp, written, process>>

(* The hook, active_report: a thread with no mark unwinds. *)
HookLooks(t) ==
  /\ process = "running" /\ hook[t] = "panicked"
  /\ hook' = [hook EXCEPT ![t] = IF active[t] = NoRun THEN "unwinding" ELSE "marked"]
  /\ UNCHANGED <<future, stack, active, reading, stamp, written, process>>

StampedBy(t, clock) ==
  /\ hook' = [hook EXCEPT ![t] = "stamped"]
  /\ stamp' = [stamp EXCEPT ![t] = clock]
  /\ UNCHANGED <<future, stack, active, reading, written, process>>

(* The run's clock, or the system's while the run's is being read here. A  *)
(* reading past Timestamp::MAX gives the system's too.                     *)
HookStamps(t) ==
  /\ process = "running" /\ hook[t] = "marked"
  /\ \/ StampedBy(t, "system")
     \/ ~reading[t] /\ StampedBy(t, "run")

(* The run's clock panics when the hook reads it: a second panic. *)
HookClockPanics(t) ==
  /\ process = "running" /\ hook[t] = "marked" /\ ~reading[t]
  /\ ClockPanics
  /\ process' = "aborted"
  /\ UNCHANGED <<future, stack, active, reading, hook, stamp, written>>

HookWrites(t) ==
  /\ process = "running" /\ hook[t] = "stamped"
  /\ written' = Append(written, [run |-> active[t], by |-> t, in |-> stack[t]])
  /\ hook' = [hook EXCEPT ![t] = "written"]
  /\ UNCHANGED <<future, stack, active, reading, stamp, process>>

BugHookUnwinds(t) ==
  /\ process = "running" /\ hook[t] = "written"
  /\ hook' = [hook EXCEPT ![t] = "unwinding"]
  /\ UNCHANGED <<future, stack, active, reading, stamp, written, process>>

HookExits(t) ==
  /\ process = "running" /\ hook[t] = "written"
  /\ process' = "exited"
  /\ UNCHANGED <<future, stack, active, reading, hook, stamp, written>>

(* The panic unwinds a frame. The runtime catches it at a task, and at the *)
(* bottom of the thread the caller of run has it.                          *)
Unwind(t) ==
  /\ process = "running" /\ hook[t] = "unwinding"
  /\ LET of == Top(stack[t]).of IN
     /\ Leave(t)
     /\ future' = IF of = Clock THEN future ELSE [future EXCEPT ![of] = "failed"]
     /\ hook' = [hook EXCEPT ![t] = IF of \in Tasks \/ Len(stack[t]) = 1 THEN "none" ELSE @]
  /\ UNCHANGED <<stamp, written, process>>

Quiet ==
  /\ \/ process # "running"
     \/ \A f \in Futures : future[f] \in {"done", "failed"}
  /\ UNCHANGED vars

Hook(t) ==
  \/ HookLooks(t) \/ HookStamps(t) \/ HookClockPanics(t) \/ HookWrites(t) \/ HookExits(t)

Next ==
  \/ \E t \in Threads :
       \/ \E f \in Futures : Poll(t, f)
       \/ PollEnds(t) \/ ReadClock(t) \/ ClockRead(t)
       \/ Panic(t) \/ Hook(t) \/ Unwind(t)
  \/ Quiet

Spec == Init /\ [][Next]_vars

(* A panicking thread runs on. *)
FairSpec == Spec /\ \A t \in Threads : WF_vars(Hook(t)) /\ WF_vars(Unwind(t))
-----------------------------------------------------------------------------
(* Properties. *)

(* The innermost handler of run_env among frames, NoRun if there is none. *)
Innermost(frames) ==
  LET marked == {i \in DOMAIN frames : frames[i].of \in Guarded} IN
  IF marked = {} THEN NoRun
  ELSE frames[CHOOSE i \in marked : \A j \in marked : j <= i].of

(* The mark on a thread is the innermost run_env handler it is in,         *)
(* whichever thread polled it before, also while a panic unwinds (marked:  *)
(* "restoring the previous mark afterwards (also if f unwinds)").          *)
MarkIsInnermost == \A t \in Threads : active[t] = Innermost(stack[t])

(* A thread counts as reading the custom clock exactly while it is in the  *)
(* reading, so the hook neither calls a clock that is panicking nor skips  *)
(* one that is not.                                                        *)
ReadingIsCurrent ==
  \A t \in Threads : reading[t] <=> \E i \in DOMAIN stack[t] : stack[t][i].of = Clock

(* No run is answered twice, though several threads may be in the hook.    *)
OneEnvelopePerRun ==
  \A i, j \in DOMAIN written : written[i].run = written[j].run => i = j

(* An envelope is never written for the panic of a task, which a runtime   *)
(* catches, unless a handler of run_env was running in it (README, Panics: *)
(* "in a task the handler spawned that the runtime catches, behaves as it  *)
(* would without agcli").                                                  *)
SpawnedPanicsLeftAlone ==
  \A i \in DOMAIN written : \A k \in DOMAIN written[i].in :
    written[i].in[k].of \in Tasks =>
      \E m \in DOMAIN written[i].in : k < m /\ written[i].in[m].of = written[i].run

(* Once a handler of run_env panics the process ends (README, Panics: "a    *)
(* handler that panics still ends the process").                           *)
PanicEndsProcess ==
  \A t \in Threads :
    (hook[t] = "panicked" /\ active[t] # NoRun) ~> (process # "running")
=============================================================================
