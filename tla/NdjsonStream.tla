---------------------------- MODULE NdjsonStream ----------------------------
(***************************************************************************)
(* What a streaming command promises the reader of its output, whatever    *)
(* tasks write it: event lines while the stream is open, at most one torn  *)
(* line, after which no event follows, and one terminal line that ends it. *)
(* Only the kind of each line is kept. A program that panics before it     *)
(* answers abandons the stream, and nothing is promised of it from then.   *)
(***************************************************************************)
EXTENDS Sequences

VARIABLES
  out,        \* the kinds of the lines a reader has received
  answered,   \* has the handler given its answer?
  state       \* open, torn by a failed write, ended, or abandoned

vars == <<out, answered, state>>

EventKind == "event"
TornKind == "partial"
AnswerKinds == {"result", "error"}

TypeOK ==
  /\ out \in Seq({EventKind, TornKind} \cup AnswerKinds)
  /\ answered \in BOOLEAN
  /\ state \in {"open", "torn", "ended", "abandoned"}

Init ==
  /\ out = <<>>
  /\ answered = FALSE
  /\ state = "open"

(* An event line reaches the reader. *)
Accept ==
  /\ state = "open"
  /\ out' = Append(out, EventKind)
  /\ UNCHANGED <<answered, state>>

(* Writing an event line fails: none, a part, or all of it is out. *)
Tear ==
  /\ state = "open"
  /\ \E rest \in {<<>>, <<TornKind>>, <<EventKind>>} : out' = out \o rest
  /\ state' = "torn"
  /\ UNCHANGED answered

(* The handler answers; the stream is not closed yet. *)
Answer ==
  /\ ~answered
  /\ state # "abandoned"
  /\ answered' = TRUE
  /\ UNCHANGED <<out, state>>

(* The terminal line ends the stream, or the last write fails. *)
End ==
  /\ answered
  /\ state \in {"open", "torn"}
  /\ \E rest \in {<<>>, <<TornKind>>} \cup {<<kind>> : kind \in AnswerKinds} :
       out' = out \o rest
  /\ state' = "ended"
  /\ UNCHANGED answered

(* The program panics with no answer; what its reader holds is forgotten. *)
Abandon ==
  /\ ~answered
  /\ state \in {"open", "torn"}
  /\ state' = "abandoned"
  /\ out' = <<>>
  /\ UNCHANGED answered

Next == Accept \/ Tear \/ Answer \/ End \/ Abandon

Spec == Init /\ [][Next]_vars /\ WF_vars(End)
=============================================================================
