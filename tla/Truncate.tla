------------------------------ MODULE Truncate ------------------------------
(***************************************************************************)
(* truncate_lines_with_file (truncate.rs): calls in any threads and        *)
(* processes that share a temp directory keep the tail of their lines and  *)
(* write all of them to a file, which the one who reads the result removes *)
(* with cleanup. A name is <prefix>-<pid>-<nanos>, with -<attempt> from    *)
(* the second attempt on; the part before the attempt is a stem, and any   *)
(* two calls may share one: a clock that ticks slowly or reads before 1970 *)
(* (map_or(0)), a pid reused by a container.                               *)
(*                                                                         *)
(* A file is the call that created it: a cleanup unlinks a name whoever    *)
(* created the file behind it.                                             *)
(***************************************************************************)
EXTENDS Naturals, FiniteSets

CONSTANTS
  Calls,        \* calls of truncate_lines_with_file
  Requests,     \* what one is given: [total, max, prefix]
  Stems, Names,
  NameOf,       \* the name of a stem at an attempt
  Attempts,     \* 5 in the code
  Utf8TempDir,  \* whether the temp directory's path is UTF-8
  MaxCleanups,  \* bound: cleanups of one result
  None

Tries == 0 .. Attempts - 1

ASSUME RequestsAssumption ==
  Requests \subseteq [total : Nat, max : Nat, prefix : BOOLEAN]
ASSUME NameOfAssumption ==
  /\ Attempts \in Nat \ {0}
  /\ NameOf \in [Stems -> [Tries -> Names]]
  /\ \A s \in Stems, a, b \in Tries : NameOf[s][a] = NameOf[s][b] => a = b
ASSUME NoneAssumption == None \notin Names \cup Calls \cup Stems
ASSUME SettingsAssumption == Utf8TempDir \in BOOLEAN /\ MaxCleanups \in Nat

VARIABLES
  given,    \* per call, its request
  pc,       \* where each call is
  stem,     \* the stem of its names, None before the clock is read
  attempt,  \* the attempt of its loop
  file,     \* the name it created, None before
  wrote,    \* the lines of its output that reached the file
  dir,      \* the temp directory: per name, who created the file, or None
  cleaned   \* how often its result was cleaned up

vars == <<given, pc, stem, attempt, file, wrote, dir, cleaned>>

Total(c) == given[c].total

Init ==
  /\ given \in [Calls -> Requests]
  /\ pc = [c \in Calls |-> "called"]
  /\ stem = [c \in Calls |-> None] /\ attempt = [c \in Calls |-> 0]
  /\ file = [c \in Calls |-> None] /\ wrote = [c \in Calls |-> 0]
  /\ dir = [n \in Names |-> None]
  /\ cleaned = [c \in Calls |-> 0]

Goto(c, there) == pc' = [pc EXCEPT ![c] = there]
-----------------------------------------------------------------------------
(* Truncates at the limit instead of past it. *)
BugFits(c) == Total(c) < given[c].max

Fits(c) == Total(c) <= given[c].max

Reject(c) ==
  /\ pc[c] = "called"
  /\ given[c].max = 0 \/ ~given[c].prefix
  /\ Goto(c, "invalid")
  /\ UNCHANGED <<given, stem, attempt, file, wrote, dir, cleaned>>

KeepAll(c) ==
  /\ pc[c] = "called"
  /\ given[c].max > 0 /\ given[c].prefix
  /\ Fits(c)
  /\ Goto(c, "whole")
  /\ UNCHANGED <<given, stem, attempt, file, wrote, dir, cleaned>>

(* The names of a call come from one reading of the clock.                 *)
ReadClock(c) ==
  /\ pc[c] = "called"
  /\ given[c].max > 0 /\ given[c].prefix
  /\ ~Fits(c)
  /\ \E s \in Stems : stem' = [stem EXCEPT ![c] = s]
  /\ Goto(c, "naming")
  /\ UNCHANGED <<given, attempt, file, wrote, dir, cleaned>>

(* Every attempt has the same name. *)
BugCandidate(c) == NameOf[stem[c]][0]

Candidate(c) == NameOf[stem[c]][attempt[c]]
Trying(c) == pc[c] = "naming" /\ attempt[c] < Attempts

(* The file is opened with create instead of create_new. *)
BugCreate(c) ==
  /\ Trying(c)
  /\ dir' = [dir EXCEPT ![Candidate(c)] = c]
  /\ file' = [file EXCEPT ![c] = Candidate(c)]
  /\ Goto(c, "writing")
  /\ UNCHANGED <<given, stem, attempt, wrote, cleaned>>

(* create_new: the file is created only where none is.                     *)
Create(c) ==
  /\ Trying(c)
  /\ dir[Candidate(c)] = None
  /\ dir' = [dir EXCEPT ![Candidate(c)] = c]
  /\ file' = [file EXCEPT ![c] = Candidate(c)]
  /\ Goto(c, "writing")
  /\ UNCHANGED <<given, stem, attempt, wrote, cleaned>>

(* A taken name is tried until it is free. *)
BugTaken(c) ==
  /\ Trying(c)
  /\ dir[Candidate(c)] # None
  /\ UNCHANGED vars

Taken(c) ==
  /\ Trying(c)
  /\ dir[Candidate(c)] # None
  /\ attempt' = [attempt EXCEPT ![c] = @ + 1]
  /\ UNCHANGED <<given, pc, stem, file, wrote, dir, cleaned>>

GiveUp(c) ==
  /\ pc[c] = "naming" /\ attempt[c] = Attempts
  /\ Goto(c, "exhausted")
  /\ UNCHANGED <<given, stem, attempt, file, wrote, dir, cleaned>>

OpenFails(c) ==
  /\ Trying(c)
  /\ Goto(c, "failed")
  /\ UNCHANGED <<given, stem, attempt, file, wrote, dir, cleaned>>

(* The buffer is full, and what it holds goes to the file.                 *)
Spill(c) ==
  /\ pc[c] = "writing"
  /\ \E n \in wrote[c] + 1 .. Total(c) : wrote' = [wrote EXCEPT ![c] = n]
  /\ UNCHANGED <<given, pc, stem, attempt, file, dir, cleaned>>

Flush(c) ==
  /\ pc[c] = "writing"
  /\ wrote' = [wrote EXCEPT ![c] = Total(c)]
  /\ Goto(c, "cut")
  /\ UNCHANGED <<given, stem, attempt, file, dir, cleaned>>

(* A failed write tries the next name. *)
BugWriteFails(c) ==
  /\ pc[c] = "writing"
  /\ attempt' = [attempt EXCEPT ![c] = @ + 1]
  /\ Goto(c, "naming")
  /\ UNCHANGED <<given, stem, file, wrote, dir, cleaned>>

(* The error returns at once, and the file stays. The writer that is       *)
(* dropped may still flush some of what its buffer holds.                  *)
WriteFails(c) ==
  /\ pc[c] = "writing"
  /\ \E n \in wrote[c] .. Total(c) : wrote' = [wrote EXCEPT ![c] = n]
  /\ Goto(c, "failed")
  /\ UNCHANGED <<given, stem, attempt, file, dir, cleaned>>

(* The process ends in the middle of the call.                             *)
Kill(c) ==
  /\ pc[c] \in {"called", "naming", "writing"}
  /\ Goto(c, "killed")
  /\ UNCHANGED <<given, stem, attempt, file, wrote, dir, cleaned>>
-----------------------------------------------------------------------------
Min2(m, n) == IF m <= n THEN m ELSE n

(* to_string_lossy: a path that is not UTF-8 becomes another, which names  *)
(* no file of the directory.                                               *)
Shown(c) == IF Utf8TempDir THEN file[c] ELSE None

(* The TruncatedEntries of a call that returned Ok; entries are its last   *)
(* lines, the first of which is number from.                               *)
Result(c) ==
  LET kept == IF pc[c] = "whole" THEN Total(c) ELSE Min2(Total(c), given[c].max) IN
  [lines |-> kept, total |-> Total(c), dropped |-> Total(c) - kept,
   truncated |-> pc[c] = "cut", pointed |-> pc[c] = "cut",
   from |-> Total(c) - kept + 1]

(* The shapes the Deserialize of TruncatedEntries accepts.                 *)
Decodes(r) ==
  /\ r.lines = r.total - r.from + 1
  /\ r.total >= r.lines /\ r.dropped = r.total - r.lines
  /\ r.truncated <=> r.dropped > 0
  /\ r.pointed <=> r.truncated

(* remove_file on the result's path. NotFound is Ok, and any other error   *)
(* leaves everything as it is.                                             *)
Cleanup(c) ==
  /\ pc[c] = "cut"
  /\ cleaned[c] < MaxCleanups
  /\ dir' = [n \in Names |-> IF n = Shown(c) THEN None ELSE dir[n]]
  /\ cleaned' = [cleaned EXCEPT ![c] = @ + 1]
  /\ UNCHANGED <<given, pc, stem, attempt, file, wrote>>

Advance(c) ==
  \/ Reject(c) \/ KeepAll(c) \/ ReadClock(c)
  \/ Create(c) \/ Taken(c) \/ GiveUp(c)
  \/ Spill(c) \/ Flush(c)

Next ==
  \E c \in Calls : Advance(c) \/ OpenFails(c) \/ WriteFails(c) \/ Kill(c) \/ Cleanup(c)

Spec == Init /\ [][Next]_vars

(* The thread of a call is scheduled and the file system answers it, which *)
(* need not be with an error.                                              *)
FairSpec == Spec /\ \A c \in Calls : WF_vars(Advance(c))
-----------------------------------------------------------------------------
Places == {"called", "naming", "writing", "cut", "whole", "invalid", "exhausted",
           "failed", "killed"}

(* Every variable keeps its type: a file never holds more lines than the   *)
(* call has, and the loop of write_full_output ends at its last attempt.   *)
TypeOK ==
  /\ given \in [Calls -> Requests]
  /\ pc \in [Calls -> Places]
  /\ stem \in [Calls -> Stems \cup {None}]
  /\ attempt \in [Calls -> 0 .. Attempts]
  /\ file \in [Calls -> Names \cup {None}]
  /\ wrote \in [Calls -> Nat] /\ \A c \in Calls : wrote[c] <= Total(c)
  /\ dir \in [Names -> Calls \cup {None}]
  /\ cleaned \in [Calls -> 0 .. MaxCleanups]

(* A result nobody has cleaned up. *)
Live(c) == pc[c] = "cut" /\ cleaned[c] = 0

(* The file of c holds its whole output under the path the result shows.   *)
Holds(c) == file[c] # None /\ Shown(c) = file[c] /\ dir[file[c]] = c /\ wrote[c] = Total(c)

(* Whatever calls share its names, full_output is "the path of the file    *)
(* holding every line" (truncate.rs:38) until it is cleaned up, unless     *)
(* another result of the same path was cleaned up twice: its second        *)
(* cleanup removes whatever has the name.                                  *)
LostOnlyToSecondCleanup ==
  \A c \in Calls : Live(c) =>
    \/ Holds(c)
    \/ \E d \in Calls \ {c} : file[d] = file[c] /\ cleaned[d] > 1

(* What truncate_lines_with_file returns is what a reader that decodes it  *)
(* accepts, at every boundary of total and max_lines.                      *)
ResultDecodes == \A c \in Calls : pc[c] \in {"cut", "whole"} => Decodes(Result(c))

(* The only files left without a result to clean them up are those of      *)
(* calls that failed or were killed while writing, one file each.          *)
OrphansComeFromFailure ==
  \A n \in Names : \A c \in Calls : dir[n] = c =>
    /\ file[c] = n
    /\ pc[c] \in {"writing", "failed", "killed"} \/ Live(c)

(* AlreadyExists is returned only when every name the call may use was     *)
(* given to another call.                                                  *)
ExhaustedByRivals ==
  \A c \in Calls : pc[c] = "exhausted" =>
    \A a \in Tries : \E d \in Calls \ {c} : file[d] = NameOf[stem[c]][a]

(* A call returns, however many names are taken, unless it is killed.      *)
CallReturns ==
  \A c \in Calls : pc[c] = "called" ~> pc[c] \notin {"called", "naming", "writing"}
=============================================================================
