------------------------- MODULE StreamWriterProofs -------------------------
(***************************************************************************)
(* Proofs about StreamWriter, for any number of tasks, emits, clock        *)
(* readings and failed writes. First that the answer stays last; then what *)
(* a reader of a streaming run can rely on: one answer, no event behind a  *)
(* torn line, every accepted event, and an answer stamped last. And that   *)
(* such a run implements NdjsonStream: its first state is one of the       *)
(* promise's, and each of its steps is one of the promise's or a stutter.  *)
(* That the terminal line is printed in the end is checked by TLC.         *)
(***************************************************************************)
EXTENDS StreamWriter, SequenceTheorems, TLAPS

(* What a failed write leaves is made of items, at most one of them the    *)
(* torn one, and is a prefix of the text otherwise.                        *)
LEMMA TornTyped ==
  ASSUME NEW text \in Seq(Item), NEW rest \in Torn(text)
  PROVE  rest \in Seq(Item)
<1>1. CASE \E k \in 0..Len(text) : rest = SubSeq(text, 1, k)
  BY <1>1, SubSeqProperties
<1>2. CASE \E k \in 0..(Len(text) - 1) :
             rest = Append(SubSeq(text, 1, k), [text[k + 1] EXCEPT !.kind = "partial"])
  <2>1. PICK k \in 0..(Len(text) - 1) :
          rest = Append(SubSeq(text, 1, k), [text[k + 1] EXCEPT !.kind = "partial"])
    BY <1>2
  <2>2. k + 1 \in 1..Len(text) /\ text[k + 1] \in Item
    BY LenProperties, ElementOfSeq
  <2>3. [text[k + 1] EXCEPT !.kind = "partial"] \in Item
    BY <2>2 DEF Item, Kinds
  <2>4. SubSeq(text, 1, k) \in Seq(Item)
    BY <2>1, LenProperties, SubSeqProperties
  <2>5. QED BY <2>1, <2>3, <2>4, AppendProperties
<1>3. QED BY <1>1, <1>2 DEF Torn

LEMMA TerminalTyped == TypeOK => Terminal \in Item
  BY DEF TypeOK, Terminal, Item, Kinds, Returns, Emitters

LEMMA EventLineTyped ==
  ASSUME TypeOK, NEW e \in Emitters
  PROVE  EventLine(e) \in Item
  BY DEF TypeOK, EventLine, Item, Kinds

(* Writing a line keeps stdout well formed. *)
LEMMA WriteTyped ==
  ASSUME TypeOK, NEW text \in Seq(Item), WriteLine(text)
  PROVE  wire' \in Seq(Item) /\ faults' \in Nat
<1>1. CASE WriteWhole(text)
  BY <1>1, ConcatProperties DEF WriteWhole, TypeOK
<1>2. CASE WriteFails(text)
  <2>1. PICK rest \in Torn(text) : wire' = wire \o rest
    BY <1>2 DEF WriteFails
  <2>2. wire' \in Seq(Item)
    BY <2>1, TornTyped, ConcatProperties DEF TypeOK
  <2>3. QED BY <2>2, <1>2 DEF WriteFails, TypeOK
<1>3. QED BY <1>1, <1>2 DEF WriteLine

(***************************************************************************)
(* Type correctness.                                                       *)
(***************************************************************************)
LEMMA ReplyTyped ==
  ASSUME TypeOK, NEW e \in Emitters, NEW reply \in Replies, Reply(e, reply)
  PROVE  /\ pc' \in [Emitters -> {"idle", "stamped"}]
         /\ ts' \in [Emitters -> Nat]
         /\ count' \in [Emitters -> Nat]
         /\ answers' \in [Emitters -> Seq(Replies)]
<1>1. Append(answers[e], reply) \in Seq(Replies)
  BY AppendProperties DEF TypeOK
<1>2. QED BY <1>1 DEF Reply, TypeOK

LEMMA InitTyped == Init => TypeOK
<1> SUFFICES ASSUME Init PROVE TypeOK
  OBVIOUS
<1>1. <<>> \in Seq(Item) /\ <<>> \in Seq(Replies)
  BY EmptySeq
<1>2. answers \in [Emitters -> Seq(Replies)]
  BY <1>1 DEF Init
<1>3. wire \in Seq(Item) /\ captured \in Seq(Item) /\ events \in Seq(Item)
  BY <1>1 DEF Init
<1>4. QED BY <1>2, <1>3 DEF Init, TypeOK, Phases

LEMMA StepTyped == TypeOK /\ [Next]_vars => TypeOK'
<1> SUFFICES ASSUME TypeOK, [Next]_vars PROVE TypeOK'
  OBVIOUS
<1> USE DEF run, emits, stream, output
<1>1. ASSUME NEW e \in Emitters, Stamp(e) PROVE TypeOK'
  BY <1>1 DEF Stamp, TypeOK
<1>2. ASSUME NEW e \in Emitters, SerializeFails(e) PROVE TypeOK'
  BY <1>2, ReplyTyped DEF SerializeFails, TypeOK, Replies
<1>3. ASSUME NEW e \in Emitters, Refuse(e) PROVE TypeOK'
  BY <1>3, ReplyTyped DEF Refuse, TypeOK, Replies
<1>4. ASSUME NEW e \in Emitters, Capture(e) PROVE TypeOK'
  <2>1. captured' \in Seq(Item)
    BY <1>4, EventLineTyped, AppendProperties DEF Capture, TypeOK
  <2>2. QED BY <1>4, <2>1, ReplyTyped DEF Capture, TypeOK, Replies
<1>5. ASSUME NEW e \in Emitters, WriteEvent(e) PROVE TypeOK'
  <2>1. <<EventLine(e)>> \in Seq(Item)
    BY EventLineTyped
  <2>2. wire' \in Seq(Item) /\ faults' \in Nat
    BY <1>5, <2>1, WriteTyped DEF WriteEvent, WriteLine
  <2>3. QED BY <1>5, <2>2, ReplyTyped DEF WriteEvent, TypeOK, Replies
<1>6. ASSUME NEW e \in Emitters, WriteEventFails(e) PROVE TypeOK'
  <2>1. <<EventLine(e)>> \in Seq(Item)
    BY EventLineTyped
  <2>2. wire' \in Seq(Item) /\ faults' \in Nat
    BY <1>6, <2>1, WriteTyped DEF WriteEventFails, WriteLine
  <2>3. QED BY <1>6, <2>2, ReplyTyped DEF WriteEventFails, TypeOK, Replies
<1>7. CASE Return
  BY <1>7 DEF Return, TypeOK, Phases
<1>8. CASE Close
  BY <1>8 DEF Close, TypeOK, Phases
<1>9. CASE BuildEnvelope
  BY <1>9 DEF BuildEnvelope, TypeOK, Phases
<1>10. CASE PrintAnswer
  <2>1. Append(events, Terminal) \in Seq(Item)
    BY TerminalTyped, AppendProperties DEF TypeOK
  <2>2. wire' \in Seq(Item) /\ faults' \in Nat
    BY <1>10, <2>1, WriteTyped DEF PrintAnswer
  <2>3. QED BY <1>10, <2>2 DEF PrintAnswer, TypeOK, Phases
<1>11. CASE Exit
  BY <1>11 DEF Exit, TypeOK, Phases
<1>12. CASE Panic
  BY <1>12 DEF Panic, TypeOK, Phases
<1>13. CASE HookStamp
  BY <1>13 DEF HookStamp, TypeOK, Phases
<1>14. CASE HookPrint
  <2>1. <<Terminal>> \in Seq(Item)
    BY TerminalTyped
  <2>2. wire' \in Seq(Item) /\ faults' \in Nat
    BY <1>14, <2>1, WriteTyped DEF HookPrint
  <2>3. QED BY <1>14, <2>2 DEF HookPrint, TypeOK, Phases
<1>15. CASE Tick
  BY <1>15 DEF Tick, TypeOK
<1>16. CASE UNCHANGED vars
  BY <1>16 DEF vars, TypeOK
<1>17. QED
  BY <1>1, <1>2, <1>3, <1>4, <1>5, <1>6, <1>7, <1>8, <1>9, <1>10, <1>11,
     <1>12, <1>13, <1>14, <1>15, <1>16 DEF Next, Emit, Framework, Settled

(* Every reachable state of a streaming run is well typed: lines, flags,   *)
(* phases and replies stay in their domains for any set of tasks.          *)
THEOREM TypeCorrect == Spec => []TypeOK
  BY InitTyped, StepTyped, PTL DEF Spec

(***************************************************************************)
(* The terminal line is last.                                              *)
(***************************************************************************)
(* A write, failed or not, adds to stdout a prefix of its text whose last  *)
(* line may be torn.                                                       *)
PartOf(rest, text) ==
  /\ Len(rest) <= Len(text)
  /\ \A i \in 1..Len(rest) :
       \/ rest[i] = text[i]
       \/ i = Len(rest) /\ rest[i] = [text[i] EXCEPT !.kind = "partial"]

LEMMA WriteAppends ==
  ASSUME TypeOK, NEW text \in Seq(Item), WriteLine(text)
  PROVE  \E rest \in Seq(Item) : wire' = wire \o rest /\ PartOf(rest, text)
<1>1. CASE WriteWhole(text)
  <2>1. PartOf(text, text)
    BY LenProperties DEF PartOf
  <2>2. QED BY <1>1, <2>1 DEF WriteWhole
<1>2. CASE WriteFails(text)
  <2>1. PICK rest \in Torn(text) : wire' = wire \o rest
    BY <1>2 DEF WriteFails
  <2>2. rest \in Seq(Item)
    BY <2>1, TornTyped
  <2>3. CASE \E k \in 0..Len(text) : rest = SubSeq(text, 1, k)
    <3>1. PICK k \in 0..Len(text) : rest = SubSeq(text, 1, k)
      BY <2>3
    <3>2. /\ Len(rest) = k
          /\ \A i \in 1..k : rest[i] = text[i]
      BY <3>1, LenProperties
    <3>3. PartOf(rest, text)
      BY <3>1, <3>2, LenProperties DEF PartOf
    <3>4. QED BY <2>1, <2>2, <3>3
  <2>4. CASE \E k \in 0..(Len(text) - 1) :
          rest = Append(SubSeq(text, 1, k), [text[k + 1] EXCEPT !.kind = "partial"])
    <3>1. PICK k \in 0..(Len(text) - 1) :
            rest = Append(SubSeq(text, 1, k), [text[k + 1] EXCEPT !.kind = "partial"])
      BY <2>4
    <3>2. /\ Len(SubSeq(text, 1, k)) = k
          /\ \A i \in 1..k : SubSeq(text, 1, k)[i] = text[i]
      BY <3>1, LenProperties
    <3>3. /\ Len(rest) = k + 1
          /\ \A i \in 1..k : rest[i] = text[i]
          /\ rest[k + 1] = [text[k + 1] EXCEPT !.kind = "partial"]
      BY <3>1, <3>2, LenProperties
    <3>4. \A i \in 1..Len(rest) : i \in 1..k \/ i = k + 1
      BY <3>3
    <3>5. Len(rest) <= Len(text) /\ Len(rest) = k + 1
      BY <3>3, LenProperties
    <3>6. ASSUME NEW i \in 1..Len(rest)
          PROVE  \/ rest[i] = text[i]
                 \/ i = Len(rest) /\ rest[i] = [text[i] EXCEPT !.kind = "partial"]
      BY <3>3, <3>4
    <3>7. PartOf(rest, text)
      BY <3>5, <3>6 DEF PartOf
    <3>8. QED BY <2>1, <2>2, <3>7
  <2>5. QED BY <2>1, <2>3, <2>4 DEF Torn
<1>3. QED BY <1>1, <1>2 DEF WriteLine

(* A handler that returned is behind a closed stream from then on.         *)
Lifecycle ==
  /\ outcome = "none" <=> phase = "running"
  /\ outcome \in Returns => phase \in {"returned", "closed", "built", "printed", "exited"}
  /\ outcome \in Returns /\ phase # "returned" => closed

(* Captured lines are events, and no answer is out before it is printed.   *)
OnlyEvents(lines) == \A i \in DOMAIN lines : lines[i].kind = "event"

NoAnswerYet == phase \notin {"printed", "exited"} => Answered = {}

TerminalInv ==
  /\ Lifecycle
  /\ NoAnswerYet
  /\ OnlyEvents(captured) /\ OnlyEvents(events)
  /\ TerminalIsLastUnlessPanic

LEMMA InitTerminal == Init => TerminalInv
<1> SUFFICES ASSUME Init PROVE TerminalInv
  OBVIOUS
<1>1. DOMAIN wire = {} /\ DOMAIN captured = {} /\ DOMAIN events = {}
  BY DEF Init
<1>2. Lifecycle
  BY DEF Init, Lifecycle, Returns
<1>3. Answered = {}
  BY <1>1 DEF Answered
<1>4. QED BY <1>1, <1>2, <1>3 DEF TerminalInv, NoAnswerYet, OnlyEvents,
                                  TerminalIsLastUnlessPanic, TerminalIsLast

(* Writing one event line while nothing answered leaves nothing answered.  *)
LEMMA EventAnswersNothing ==
  ASSUME TypeOK, Answered = {}, NEW e \in Emitters, WriteLine(<<EventLine(e)>>)
  PROVE  Answered' = {}
<1>1. <<EventLine(e)>> \in Seq(Item)
  BY EventLineTyped
<1> DEFINE text == <<EventLine(e)>>
<1>2. PICK rest \in Seq(Item) : wire' = wire \o rest /\ PartOf(rest, text)
  BY <1>1, WriteAppends
<1>0. \A i \in 1..Len(rest) : rest[i].kind \in {"event", "partial"}
  <2>1. Len(rest) \in Nat /\ Len(rest) <= 1
    BY <1>2, LenProperties DEF PartOf
  <2>2. ASSUME NEW i \in 1..Len(rest) PROVE rest[i].kind \in {"event", "partial"}
    <3>1. i = 1 /\ text[i] = EventLine(e)
      BY <2>1, <2>2
    <3>2. rest[i] = EventLine(e) \/ rest[i] = [EventLine(e) EXCEPT !.kind = "partial"]
      BY <1>2, <3>1, <2>2 DEF PartOf
    <3>3. QED BY <3>2 DEF EventLine
  <2>3. QED BY <2>2
<1>3. \A i \in 1..Len(wire) : wire[i].kind \notin Returns
  BY DEF Answered, IsAnswer, TypeOK
<1>4. \A i \in 1..Len(wire') : wire'[i].kind \notin Returns
  <2>1. \A i \in 1..Len(rest) : rest[i].kind \notin Returns
    BY <1>0 DEF Returns
  <2>2. /\ Len(wire') = Len(wire) + Len(rest)
        /\ \A i \in 1..(Len(wire) + Len(rest)) :
             wire'[i] = IF i <= Len(wire) THEN wire[i] ELSE rest[i - Len(wire)]
    BY <1>2, ConcatProperties DEF TypeOK
  <2>3. Len(wire) \in Nat /\ Len(rest) \in Nat
    BY <1>2 DEF TypeOK
  <2>4. ASSUME NEW i \in 1..Len(wire') PROVE wire'[i].kind \notin Returns
    <3>1. CASE i <= Len(wire)
      BY <1>3, <2>2, <2>3, <3>1
    <3>2. CASE i > Len(wire)
      <4>1. i - Len(wire) \in 1..Len(rest) /\ wire'[i] = rest[i - Len(wire)]
        BY <2>2, <2>3, <3>2
      <4>2. QED BY <2>1, <4>1
    <3>3. QED BY <2>3, <3>1, <3>2
  <2>5. QED BY <2>4
<1>5. wire' \in Seq(Item)
  BY <1>2, ConcatProperties DEF TypeOK
<1>6. QED BY <1>4, <1>5 DEF Answered, IsAnswer

(* Printing events and an answer after events leaves the answer last.      *)
LEMMA AnswerEndsWire ==
  ASSUME TypeOK, Answered = {}, NEW lines \in Seq(Item), OnlyEvents(lines),
         WriteLine(Append(lines, Terminal))
  PROVE  TerminalIsLast'
<1> DEFINE text == Append(lines, Terminal)
<1>1. text \in Seq(Item) /\ Len(text) = Len(lines) + 1
      /\ \A i \in 1..Len(lines) : text[i].kind = "event"
  BY TerminalTyped, AppendProperties, LenProperties DEF OnlyEvents
<1>2. PICK rest \in Seq(Item) : wire' = wire \o rest /\ PartOf(rest, text)
  BY <1>1, WriteAppends
<1>3. ASSUME NEW i \in 1..Len(rest), rest[i].kind \in Returns PROVE i = Len(rest)
  <2>1. rest[i] = text[i] \/ i = Len(rest)
    BY <1>2 DEF PartOf
  <2>2. Len(rest) \in Nat /\ Len(lines) \in Nat /\ Len(rest) <= Len(lines) + 1
    BY <1>1, <1>2, LenProperties DEF PartOf
  <2>3. i <= Len(lines) => text[i].kind \notin Returns
    BY <1>1, <2>2 DEF Returns
  <2>4. QED BY <1>3, <2>1, <2>2, <2>3
<1>4. \A i \in 1..Len(wire) : wire[i].kind \notin Returns
  BY DEF Answered, IsAnswer, TypeOK
<1>5. wire' \in Seq(Item) /\ Len(wire') = Len(wire) + Len(rest)
      /\ \A i \in 1..Len(wire') :
           wire'[i] = IF i <= Len(wire) THEN wire[i] ELSE rest[i - Len(wire)]
  BY <1>2, ConcatProperties DEF TypeOK
<1>6. ASSUME NEW i \in 1..Len(wire'), wire'[i].kind \in Returns PROVE i = Len(wire')
  <2>1. Len(wire) \in Nat /\ Len(rest) \in Nat
    BY DEF TypeOK
  <2>2. i > Len(wire)
    BY <1>4, <1>5, <1>6, <2>1
  <2>3. i - Len(wire) \in 1..Len(rest) /\ rest[i - Len(wire)].kind \in Returns
    BY <1>5, <1>6, <2>1, <2>2
  <2>4. i - Len(wire) = Len(rest)
    BY <1>3, <2>3
  <2>5. QED BY <1>5, <2>1, <2>2, <2>4
<1>7. QED BY <1>5, <1>6 DEF TerminalIsLast, Answered, IsAnswer

LEMMA StepTerminal == TypeOK /\ TypeOK' /\ TerminalInv /\ [Next]_vars => TerminalInv'
<1> SUFFICES ASSUME TypeOK, TypeOK', TerminalInv, [Next]_vars PROVE TerminalInv'
  OBVIOUS
<1> USE DEF run, emits, stream, output, TerminalInv
<1>1. ASSUME NEW e \in Emitters, Stamp(e) \/ SerializeFails(e) \/ Refuse(e)
      PROVE  TerminalInv'
  BY <1>1 DEF Stamp, SerializeFails, Refuse, Lifecycle, NoAnswerYet, OnlyEvents,
              TerminalIsLastUnlessPanic, TerminalIsLast, Answered, IsAnswer
<1>2. ASSUME NEW e \in Emitters, Capture(e) PROVE TerminalInv'
  <2>1. OnlyEvents(captured)'
    <3>1. captured' = Append(captured, EventLine(e)) /\ EventLine(e) \in Item
      BY <1>2, EventLineTyped DEF Capture
    <3>2. EventLine(e).kind = "event"
      BY DEF EventLine
    <3>3. /\ Len(captured') = Len(captured) + 1
          /\ \A i \in 1..Len(captured) : captured'[i] = captured[i]
          /\ captured'[Len(captured) + 1] = EventLine(e)
      BY <3>1, AppendProperties DEF TypeOK
    <3>4. captured' \in Seq(Item) /\ captured \in Seq(Item)
      BY DEF TypeOK
    <3>5. \A i \in 1..Len(captured') : captured'[i].kind = "event"
      BY <3>2, <3>3, <3>4, LenProperties DEF OnlyEvents
    <3>6. QED BY <3>4, <3>5, LenProperties DEF OnlyEvents
  <2>2. QED BY <1>2, <2>1 DEF Capture, Lifecycle, NoAnswerYet, OnlyEvents,
              TerminalIsLastUnlessPanic, TerminalIsLast, Answered, IsAnswer
<1>3. ASSUME NEW e \in Emitters, WriteEvent(e) \/ WriteEventFails(e) PROVE TerminalInv'
  <2>1. WriteLine(<<EventLine(e)>>) /\ ~closed /\ closed' = closed
        /\ UNCHANGED <<phase, outcome, captured, events>>
    BY <1>3 DEF WriteEvent, WriteEventFails, WriteLine, Refused
  <2>2. Lifecycle' /\ OnlyEvents(captured)' /\ OnlyEvents(events)'
    BY <2>1 DEF Lifecycle, OnlyEvents
  <2>3. CASE Answered = {}
    <3>1. Answered' = {}
      BY <2>1, <2>3, EventAnswersNothing
    <3>2. QED BY <2>2, <3>1 DEF NoAnswerYet, TerminalIsLastUnlessPanic, TerminalIsLast
  <2>4. CASE Answered # {}
    <3>1. outcome = "panic"
      BY <2>1, <2>4 DEF NoAnswerYet, Lifecycle, TypeOK
    <3>2. phase' \in {"printed", "exited"} /\ outcome' = "panic"
      BY <2>1, <2>4, <3>1 DEF NoAnswerYet
    <3>3. QED BY <2>2, <3>2 DEF NoAnswerYet, TerminalIsLastUnlessPanic
  <2>5. QED BY <2>3, <2>4
<1>4. CASE Return \/ Panic
  BY <1>4 DEF Return, Panic, Lifecycle, NoAnswerYet, OnlyEvents, Returns,
              TerminalIsLastUnlessPanic, TerminalIsLast, Answered, IsAnswer
<1>5. CASE Close
  <2>1. OnlyEvents(captured)' /\ OnlyEvents(events)'
    BY <1>5 DEF Close, OnlyEvents
  <2>2. QED BY <1>5, <2>1 DEF Close, Lifecycle, NoAnswerYet, Returns,
              TerminalIsLastUnlessPanic, TerminalIsLast, Answered, IsAnswer
<1>6. CASE BuildEnvelope \/ Exit \/ HookStamp
  BY <1>6 DEF BuildEnvelope, Exit, HookStamp, Lifecycle, NoAnswerYet, OnlyEvents, Returns,
              TerminalIsLastUnlessPanic, TerminalIsLast, Answered, IsAnswer
<1>7. CASE PrintAnswer
  <2>1. TerminalIsLast'
    BY <1>7, AnswerEndsWire DEF PrintAnswer, NoAnswerYet, TypeOK
  <2>2. Lifecycle' /\ NoAnswerYet' /\ OnlyEvents(captured)' /\ OnlyEvents(events)'
    BY <1>7 DEF PrintAnswer, Lifecycle, NoAnswerYet, OnlyEvents, Returns
  <2>3. QED BY <2>1, <2>2 DEF TerminalIsLastUnlessPanic
<1>8. CASE HookPrint
  <2>1. outcome = "panic"
    BY <1>8 DEF HookPrint, Lifecycle, TypeOK
  <2>2. QED BY <1>8, <2>1 DEF HookPrint, Lifecycle, NoAnswerYet, OnlyEvents, Returns,
              TerminalIsLastUnlessPanic
<1>9. CASE Tick \/ UNCHANGED vars
  BY <1>9 DEF Tick, vars, Lifecycle, NoAnswerYet, OnlyEvents,
              TerminalIsLastUnlessPanic, TerminalIsLast, Answered, IsAnswer
<1>10. QED
  BY <1>1, <1>2, <1>3, <1>4, <1>5, <1>6, <1>7, <1>8, <1>9
     DEF Next, Emit, Framework, Settled

(* Once a handler has returned, whatever its tasks still emit, the answer  *)
(* of the run is the last thing on stdout.                                 *)
THEOREM TerminalStaysLast == Spec => []TerminalIsLastUnlessPanic
<1>1. TerminalInv => TerminalIsLastUnlessPanic
  BY DEF TerminalInv
<1>2. QED BY <1>1, TypeCorrect, InitTerminal, StepTerminal, PTL DEF Spec

-----------------------------------------------------------------------------
(* What a write appends, index by index. *)
LEMMA Extended ==
  ASSUME TypeOK, NEW rest \in Seq(Item), wire' = wire \o rest
  PROVE  /\ Len(wire) \in Nat /\ Len(rest) \in Nat /\ Len(wire') = Len(wire) + Len(rest)
         /\ DOMAIN wire = 1..Len(wire) /\ DOMAIN wire' = 1..Len(wire')
         /\ \A i \in DOMAIN wire : i \in DOMAIN wire' /\ wire'[i] = wire[i]
         /\ \A i \in DOMAIN wire' \ DOMAIN wire :
              /\ i \in Nat /\ i > Len(wire) /\ i - Len(wire) \in 1..Len(rest)
              /\ wire'[i] = rest[i - Len(wire)]
<1>1. /\ wire' \in Seq(Item) /\ Len(wire') = Len(wire) + Len(rest)
      /\ \A i \in 1..(Len(wire) + Len(rest)) :
           wire'[i] = IF i <= Len(wire) THEN wire[i] ELSE rest[i - Len(wire)]
  BY ConcatProperties DEF TypeOK
<1>2. wire \in Seq(Item)
  BY DEF TypeOK
<1>3. Len(wire) \in Nat /\ Len(rest) \in Nat
  BY <1>2, LenProperties
<1>4. DOMAIN wire = 1..Len(wire) /\ DOMAIN wire' = 1..Len(wire')
  BY <1>1, <1>2, LenProperties
<1> QED BY <1>1, <1>3, <1>4

(* Writing an event line appends it, a part of it, or nothing. *)
LEMMA EventRest ==
  ASSUME TypeOK, NEW e \in Emitters, WriteLine(<<EventLine(e)>>)
  PROVE  \E rest \in Seq(Item) :
           /\ wire' = wire \o rest
           /\ Len(rest) \in {0, 1}
           /\ \A i \in 1..Len(rest) :
                rest[i] \in {EventLine(e), [EventLine(e) EXCEPT !.kind = "partial"]}
<1> DEFINE text == <<EventLine(e)>>
<1>1. text \in Seq(Item)
  BY EventLineTyped
<1>2. PICK rest \in Seq(Item) : wire' = wire \o rest /\ PartOf(rest, text)
  BY <1>1, WriteAppends
<1>3. Len(rest) \in Nat /\ Len(rest) <= 1
  BY <1>2, LenProperties DEF PartOf
<1>4. ASSUME NEW i \in 1..Len(rest)
      PROVE  rest[i] \in {EventLine(e), [EventLine(e) EXCEPT !.kind = "partial"]}
  <2>1. i = 1 /\ text[i] = EventLine(e)
    BY <1>3, <1>4
  <2> QED BY <1>2, <1>4, <2>1 DEF PartOf
<1> QED BY <1>2, <1>3, <1>4

(* The writes of a run: an emitted event, the answer after the captured    *)
(* events, the hook's answer; everything else leaves stdout alone.         *)
LEMMA WireStep ==
  ASSUME TypeOK, [Next]_vars
  PROVE  \/ /\ UNCHANGED <<wire, faults>>
            /\ phase' \in {"printed", "exited"} => phase \in {"printed", "exited"}
         \/ \E e \in Emitters : WriteEvent(e) \/ WriteEventFails(e)
         \/ PrintAnswer
         \/ HookPrint
  BY DEF Next, Emit, Framework, Settled, Stamp, SerializeFails, Refuse, Capture, Return,
         Close, BuildEnvelope, Exit, Panic, HookStamp, Tick, run, emits, stream, output, vars
-----------------------------------------------------------------------------
(* One answer. *)

(* Where a run printed, all its writes succeeded only if its answer is out.*)
Single ==
  /\ \A i, j \in Answered : i = j
  /\ phase \in {"printed", "exited"} /\ faults = 0 => Answered # {}

LEMMA EventKeepsAnswers ==
  ASSUME TypeOK, NEW e \in Emitters, WriteLine(<<EventLine(e)>>)
  PROVE  Answered' = Answered
<1>1. PICK rest \in Seq(Item) :
        /\ wire' = wire \o rest
        /\ \A i \in 1..Len(rest) :
             rest[i] \in {EventLine(e), [EventLine(e) EXCEPT !.kind = "partial"]}
  BY EventRest
<1>2. \A i \in 1..Len(rest) : rest[i].kind \notin Returns
  BY <1>1 DEF EventLine, Returns
<1> QED BY <1>1, <1>2, Extended DEF Answered, IsAnswer

(* A write of events and the answer leaves one answer, or failed.          *)
LEMMA AnswerOnce ==
  ASSUME TypeOK, TypeOK', Answered = {}, NEW lines \in Seq(Item), OnlyEvents(lines),
         WriteLine(Append(lines, Terminal))
  PROVE  /\ \A i, j \in Answered' : i = j
         /\ faults' = 0 => Answered' # {}
<1>1. TerminalIsLast'
  BY AnswerEndsWire
<1>2. \A i, j \in Answered' : i = j
  BY <1>1 DEF TerminalIsLast
<1>3. ASSUME faults' = 0 PROVE Answered' # {}
  <2> DEFINE text == Append(lines, Terminal)
  <2>1. wire' = wire \o text
    BY <1>3 DEF WriteLine, WriteWhole, WriteFails, TypeOK
  <2>2. /\ text \in Seq(Item) /\ Len(text) = Len(lines) + 1 /\ Len(lines) \in Nat
        /\ text[Len(text)] = Terminal
    BY TerminalTyped, AppendProperties, LenProperties
  <2>3. Len(wire) \in Nat
    BY LenProperties DEF TypeOK
  <2>4. Len(wire') \in DOMAIN wire' /\ wire'[Len(wire')] = Terminal
    BY <2>1, <2>2, <2>3, ConcatProperties, LenProperties DEF TypeOK
  <2>5. Terminal.kind \in Returns
    BY DEF Terminal, Returns
  <2> QED BY <2>4, <2>5 DEF Answered, IsAnswer
<1> QED BY <1>2, <1>3

LEMMA StepSingle ==
  TypeOK /\ TypeOK' /\ TerminalInv /\ Single /\ [Next]_vars => Single'
<1> SUFFICES ASSUME TypeOK, TypeOK', TerminalInv, Single, [Next]_vars PROVE Single'
  OBVIOUS
<1> USE DEF TerminalInv
<1>1. CASE /\ UNCHANGED <<wire, faults>>
           /\ phase' \in {"printed", "exited"} => phase \in {"printed", "exited"}
  BY <1>1 DEF Single, Answered, IsAnswer
<1>2. ASSUME NEW e \in Emitters, WriteEvent(e) \/ WriteEventFails(e) PROVE Single'
  <2>1. WriteLine(<<EventLine(e)>>) /\ UNCHANGED phase
    BY <1>2 DEF WriteEvent, WriteEventFails, WriteLine, run
  <2>2. Answered' = Answered
    BY <2>1, EventKeepsAnswers
  <2>3. faults' = 0 => faults = 0
    BY <2>1 DEF WriteLine, WriteWhole, WriteFails, TypeOK
  <2> QED BY <2>1, <2>2, <2>3 DEF Single
<1>3. CASE PrintAnswer
  <2>1. Answered = {} /\ events \in Seq(Item) /\ WriteLine(Append(events, Terminal))
    BY <1>3 DEF PrintAnswer, NoAnswerYet, TypeOK
  <2> QED BY <2>1, AnswerOnce DEF Single
<1>4. CASE HookPrint
  <2>1. Answered = {} /\ <<>> \in Seq(Item) /\ WriteLine(Append(<<>>, Terminal))
    BY <1>4, TerminalTyped DEF HookPrint, NoAnswerYet, TypeOK
  <2>2. OnlyEvents(<<>>)
    BY DEF OnlyEvents
  <2> QED BY <2>1, <2>2, AnswerOnce DEF Single
<1> QED BY <1>1, <1>2, <1>3, <1>4, WireStep
-----------------------------------------------------------------------------
(* Nothing behind a torn line. *)

(* A line an emit tore; the terminal line has no number. *)
TornEvents == {i \in DOMAIN wire : wire[i].kind = "partial" /\ wire[i].n > 0}

(* An emit that tore a line poisoned its writer; a captured run writes     *)
(* nothing before it prints, and a live one captures nothing.              *)
TornInv ==
  /\ mode = "process" /\ TornEvents # {} => poisoned
  /\ mode = "process" => captured = <<>> /\ events = <<>>
  /\ mode = "inprocess" => phase \notin {"panicked", "reported"}
  /\ mode = "inprocess" /\ phase \notin {"printed", "exited"} => wire = <<>>
  /\ NoEventAfterPartial

LEMMA StepTorn ==
  TypeOK /\ TypeOK' /\ TerminalInv /\ TornInv /\ [Next]_vars => TornInv'
<1> SUFFICES ASSUME TypeOK, TypeOK', TerminalInv, TornInv, [Next]_vars PROVE TornInv'
  OBVIOUS
<1>0. UNCHANGED mode /\ (poisoned' = poisoned \/ poisoned' = TRUE)
  BY DEF Next, Emit, Framework, Settled, Stamp, SerializeFails, Refuse, Capture,
         WriteEvent, WriteEventFails, Return, Close, BuildEnvelope, Exit, Panic,
         PrintAnswer, HookPrint, HookStamp, Tick, run, emits, stream, output, vars
<1>1. CASE /\ UNCHANGED <<wire, faults>>
           /\ phase' \in {"printed", "exited"} => phase \in {"printed", "exited"}
  <2>1. mode = "process" => captured' = <<>> /\ events' = <<>>
    BY DEF TornInv, Next, Emit, Framework, Settled, Stamp, SerializeFails, Refuse, Capture,
           WriteEvent, WriteEventFails, Return, Close, BuildEnvelope, Exit, Panic,
           PrintAnswer, HookPrint, HookStamp, Tick, run, emits, stream, output, vars
  <2>2. mode = "inprocess" => phase' \notin {"panicked", "reported"}
    BY DEF TornInv, Next, Emit, Framework, Settled, Stamp, SerializeFails, Refuse, Capture,
           WriteEvent, WriteEventFails, Return, Close, BuildEnvelope, Exit, Panic,
           PrintAnswer, HookPrint, HookStamp, Tick, run, emits, stream, output, vars
  <2>3. mode = "inprocess" /\ phase' \notin {"printed", "exited"} =>
          phase \notin {"printed", "exited"}
    BY DEF Next, Emit, Framework, Settled, Stamp, SerializeFails, Refuse, Capture,
           WriteEvent, WriteEventFails, Return, Close, BuildEnvelope, Exit, Panic,
           PrintAnswer, HookPrint, HookStamp, Tick, run, emits, stream, output, vars
  <2> QED BY <1>0, <1>1, <2>1, <2>2, <2>3 DEF TornInv, TornEvents, NoEventAfterPartial
<1>2. ASSUME NEW e \in Emitters, WriteEvent(e) \/ WriteEventFails(e) PROVE TornInv'
  <2>1. /\ mode = "process" /\ ~poisoned /\ WriteLine(<<EventLine(e)>>)
        /\ UNCHANGED <<mode, phase, captured, events>>
    BY <1>2 DEF WriteEvent, WriteEventFails, WriteLine, Refused, run, stream
  <2>2. TornEvents = {}
    BY <2>1 DEF TornInv
  <2>3. PICK rest \in Seq(Item) :
          /\ wire' = wire \o rest /\ Len(rest) \in {0, 1}
          /\ \A i \in 1..Len(rest) :
               rest[i] \in {EventLine(e), [EventLine(e) EXCEPT !.kind = "partial"]}
    BY <2>1, EventRest
  <2>4. NoEventAfterPartial'
    BY <2>2, <2>3, Extended DEF TornEvents, NoEventAfterPartial
  <2>5. CASE WriteEvent(e)
    <3>1. wire' = wire \o <<EventLine(e)>> /\ <<EventLine(e)>> \in Seq(Item)
      BY <2>5, EventLineTyped DEF WriteEvent, WriteWhole
    <3>2. \A i \in 1..Len(<<EventLine(e)>>) : <<EventLine(e)>>[i].kind = "event"
      BY DEF EventLine
    <3>3. TornEvents' = {}
      BY <2>2, <3>1, <3>2, Extended DEF TornEvents
    <3> QED BY <2>1, <2>4, <3>3 DEF TornInv
  <2>6. CASE WriteEventFails(e)
    <3>1. poisoned'
      BY <2>6 DEF WriteEventFails
    <3> QED BY <2>1, <2>4, <3>1 DEF TornInv
  <2> QED BY <1>2, <2>5, <2>6
<1>3. ASSUME NEW lines \in Seq(Item), OnlyEvents(lines), WriteLine(Append(lines, Terminal)),
             mode = "process" => lines = <<>>, mode = "inprocess" => wire = <<>>
      PROVE  /\ NoEventAfterPartial'
             /\ mode = "process" => TornEvents' = TornEvents
  <2> DEFINE text == Append(lines, Terminal)
  <2>1. /\ text \in Seq(Item) /\ Len(text) = Len(lines) + 1 /\ Len(lines) \in Nat
        /\ \A i \in 1..Len(lines) : text[i].kind = "event"
        /\ text[Len(lines) + 1] = Terminal
    BY <1>3, TerminalTyped, AppendProperties, LenProperties DEF OnlyEvents
  <2>2. PICK rest \in Seq(Item) : wire' = wire \o rest /\ PartOf(rest, text)
    BY <1>3, <2>1, WriteAppends
  <2>3. Terminal.kind \in Returns /\ Terminal.n = 0
    BY DEF Terminal, Returns
  <2>4. CASE mode = "process"
    <3>1. \A i \in 1..Len(rest) : rest[i].kind # "event" /\ rest[i].n = 0
      <4>1. Len(rest) \in Nat /\ Len(rest) <= 1
        BY <1>3, <2>1, <2>2, <2>4, LenProperties DEF PartOf
      <4>2. text[1] = Terminal
        BY <1>3, <2>1, <2>4
      <4>3. \A i \in 1..Len(rest) : i = 1
        BY <4>1
      <4>4. \A i \in 1..Len(rest) :
              rest[i] = Terminal \/ rest[i] = [Terminal EXCEPT !.kind = "partial"]
        BY <2>2, <4>2, <4>3 DEF PartOf
      <4> QED BY <2>3, <4>4 DEF Returns, Terminal
    <3>2. TornEvents' = TornEvents
      BY <2>2, <3>1, Extended DEF TornEvents
    <3>3. NoEventAfterPartial'
      BY <2>2, <3>1, Extended DEF TornInv, NoEventAfterPartial
    <3> QED BY <3>2, <3>3
  <2>5. CASE mode = "inprocess"
    <3>1. wire' = rest
      BY <1>3, <2>2, <2>5, ConcatEmptySeq
    <3>2. DOMAIN rest = 1..Len(rest) /\ Len(rest) \in Nat
      BY <2>2, LenProperties
    <3>3. \A i \in 1..Len(rest) : rest[i].kind = "partial" => i = Len(rest)
      <4>1. Len(rest) <= Len(lines) + 1
        BY <2>1, <2>2 DEF PartOf
      <4>2. \A i \in 1..Len(rest) : i \in 1..Len(lines) \/ i = Len(lines) + 1
        BY <2>1, <3>2, <4>1
      <4>3. \A i \in 1..Len(rest) : text[i].kind # "partial"
        BY <2>1, <2>3, <4>2 DEF Returns
      <4> QED BY <2>2, <4>3 DEF PartOf
    <3>4. NoEventAfterPartial'
      <4> SUFFICES ASSUME NEW i \in 1..Len(rest), NEW j \in 1..Len(rest),
                          rest[i].kind = "partial", i < j
                   PROVE  FALSE
        BY <3>1, <3>2 DEF NoEventAfterPartial
      <4>1. i = Len(rest)
        BY <3>3
      <4> QED BY <3>2, <4>1
    <3> QED BY <2>5, <3>4
  <2> QED BY <2>4, <2>5 DEF TypeOK
<1>4. CASE PrintAnswer
  <2>1. /\ events \in Seq(Item) /\ OnlyEvents(events) /\ WriteLine(Append(events, Terminal))
        /\ phase = "built" /\ phase' = "printed" /\ UNCHANGED <<poisoned, captured, events>>
    BY <1>4 DEF PrintAnswer, TerminalInv, TypeOK, stream
  <2>2. NoEventAfterPartial' /\ (mode = "process" => TornEvents' = TornEvents)
    BY <1>3, <2>1 DEF TornInv
  <2> QED BY <1>0, <2>1, <2>2 DEF TornInv
<1>5. CASE HookPrint
  <2>1. /\ <<>> \in Seq(Item) /\ OnlyEvents(<<>>) /\ WriteLine(Append(<<>>, Terminal))
        /\ phase = "reported" /\ phase' = "printed" /\ UNCHANGED <<poisoned, captured, events>>
    BY <1>5, TerminalTyped DEF HookPrint, OnlyEvents, stream
  <2>2. NoEventAfterPartial' /\ (mode = "process" => TornEvents' = TornEvents)
    BY <1>3, <2>1 DEF TornInv
  <2> QED BY <1>0, <2>1, <2>2 DEF TornInv
<1> QED BY <1>1, <1>2, <1>4, <1>5, WireStep
-----------------------------------------------------------------------------
(* The answer is stamped last. *)

StampedBy(lines, time) == \A i \in DOMAIN lines : lines[i].ts <= time

(* No line is from the future, and once the envelope of an answer is built,*)
(* none is younger than it.                                                *)
TimeInv ==
  /\ \A e \in Emitters : ts[e] <= now
  /\ stamp <= now
  /\ StampedBy(wire, now) /\ StampedBy(captured, now) /\ StampedBy(events, now)
  /\ outcome \in Returns /\ phase \in {"built", "printed", "exited"} =>
       StampedBy(wire, stamp) /\ StampedBy(events, stamp)
  /\ outcome # "panic" => \A i \in Answered : wire[i].ts = stamp

(* Lines appended by a write are as old as the text they are from.         *)
LEMMA RestStamped ==
  ASSUME TypeOK, NEW text \in Seq(Item), NEW rest \in Seq(Item), PartOf(rest, text),
         NEW time \in Nat, StampedBy(text, time)
  PROVE  StampedBy(rest, time)
<1>1. /\ Len(rest) \in Nat /\ Len(text) \in Nat /\ Len(rest) <= Len(text)
      /\ DOMAIN rest = 1..Len(rest) /\ DOMAIN text = 1..Len(text)
  BY LenProperties DEF PartOf
<1>2. ASSUME NEW i \in DOMAIN rest PROVE rest[i].ts <= time
  <2>1. text[i].ts <= time /\ text[i] \in Item
    BY <1>1, ElementOfSeq DEF StampedBy
  <2>2. rest[i] = text[i] \/ rest[i] = [text[i] EXCEPT !.kind = "partial"]
    BY <1>1 DEF PartOf
  <2> QED BY <2>1, <2>2 DEF Item
<1> QED BY <1>2 DEF StampedBy

LEMMA WireStamped ==
  ASSUME TypeOK, NEW rest \in Seq(Item), wire' = wire \o rest,
         NEW time \in Nat, StampedBy(wire, time), StampedBy(rest, time)
  PROVE  StampedBy(wire', time)
<1>1. DOMAIN rest = 1..Len(rest)
  BY LenProperties
<1> QED BY <1>1, Extended DEF StampedBy

LEMMA StepTime ==
  TypeOK /\ TypeOK' /\ TerminalInv /\ TimeInv /\ [Next]_vars => TimeInv'
<1> SUFFICES ASSUME TypeOK, TypeOK', TerminalInv, TimeInv, [Next]_vars PROVE TimeInv'
  OBVIOUS
<1> USE DEF run, emits, stream, output
<1>1. ASSUME NEW e \in Emitters, Stamp(e) PROVE TimeInv'
  BY <1>1 DEF Stamp, TimeInv, TypeOK, StampedBy, Answered, IsAnswer
<1>2. ASSUME NEW e \in Emitters, SerializeFails(e) \/ Refuse(e) PROVE TimeInv'
  BY <1>2 DEF SerializeFails, Refuse, Reply, TimeInv, StampedBy, Answered, IsAnswer
<1>3. ASSUME NEW e \in Emitters, Capture(e) PROVE TimeInv'
  <2>1. captured' = Append(captured, EventLine(e)) /\ EventLine(e).ts <= now
    BY <1>3 DEF Capture, EventLine, TimeInv
  <2>2. captured \in Seq(Item) /\ EventLine(e) \in Item
    BY EventLineTyped DEF TypeOK
  <2>3. DOMAIN captured' = 1..(Len(captured) + 1) /\ DOMAIN captured = 1..Len(captured)
        /\ Len(captured) \in Nat
    BY <2>1, <2>2, AppendProperties, LenProperties
  <2>4. /\ \A i \in 1..Len(captured) : captured'[i] = captured[i]
        /\ captured'[Len(captured) + 1] = EventLine(e)
    BY <2>1, <2>2, AppendProperties
  <2>5. StampedBy(captured', now)
    BY <2>1, <2>3, <2>4 DEF TimeInv, StampedBy
  <2> QED BY <1>3, <2>5 DEF Capture, Reply, TimeInv, StampedBy, Answered, IsAnswer
<1>4. ASSUME NEW e \in Emitters, WriteEvent(e) \/ WriteEventFails(e) PROVE TimeInv'
  <2>1. /\ WriteLine(<<EventLine(e)>>) /\ ~closed /\ UNCHANGED <<ts, now, run, captured, events>>
    BY <1>4 DEF WriteEvent, WriteEventFails, WriteLine, Refused, Reply
  <2>2. ~(outcome \in Returns /\ phase \in {"built", "printed", "exited"})
    BY <2>1 DEF TerminalInv, Lifecycle
  <2>3. PICK rest \in Seq(Item) :
          /\ wire' = wire \o rest
          /\ \A i \in 1..Len(rest) :
               rest[i] \in {EventLine(e), [EventLine(e) EXCEPT !.kind = "partial"]}
    BY <2>1, EventRest
  <2>4. \A i \in 1..Len(rest) : rest[i].ts <= now
    <3>1. EventLine(e).ts <= now /\ [EventLine(e) EXCEPT !.kind = "partial"].ts <= now
      BY DEF EventLine, TimeInv
    <3> QED BY <2>3, <3>1
  <2>5. StampedBy(rest, now)
    BY <2>4, LenProperties DEF StampedBy
  <2>6. StampedBy(wire', now)
    BY <2>3, <2>5, WireStamped DEF TimeInv, TypeOK
  <2>7. Answered' = Answered /\ \A i \in Answered : wire'[i] = wire[i]
    BY <2>1, <2>3, EventKeepsAnswers, Extended DEF Answered
  <2> QED BY <2>1, <2>2, <2>6, <2>7 DEF TimeInv, StampedBy
<1>5. CASE Return \/ Panic
  BY <1>5 DEF Return, Panic, TerminalInv, NoAnswerYet, TimeInv, StampedBy, Answered, IsAnswer
<1>6. CASE Close
  BY <1>6 DEF Close, TimeInv, StampedBy, Answered, IsAnswer
<1>7. CASE BuildEnvelope \/ HookStamp
  BY <1>7 DEF BuildEnvelope, HookStamp, TerminalInv, NoAnswerYet, Lifecycle, TypeOK, TimeInv,
              StampedBy, Answered, IsAnswer
<1>8. CASE Exit
  BY <1>8 DEF Exit, TimeInv, StampedBy, Answered, IsAnswer
<1>9. CASE PrintAnswer
  <2> DEFINE text == Append(events, Terminal)
  <2>1. /\ events \in Seq(Item) /\ OnlyEvents(events) /\ WriteLine(text)
        /\ UNCHANGED <<ts, now, stamp, outcome, captured, events>> /\ phase = "built"
        /\ phase' = "printed"
    BY <1>9 DEF PrintAnswer, TerminalInv, TypeOK
  <2>2. /\ text \in Seq(Item) /\ DOMAIN text = 1..(Len(events) + 1)
        /\ Len(events) \in Nat /\ DOMAIN events = 1..Len(events)
        /\ \A i \in 1..Len(events) : text[i] = events[i]
        /\ text[Len(events) + 1] = Terminal
    BY <2>1, TerminalTyped, AppendProperties, LenProperties
  <2>3. Terminal.ts = stamp
    BY DEF Terminal
  <2>4. PICK rest \in Seq(Item) : wire' = wire \o rest /\ PartOf(rest, text)
    BY <2>1, <2>2, WriteAppends
  <2>5. ASSUME NEW time \in Nat, StampedBy(wire, time), StampedBy(events, time), stamp <= time
        PROVE  StampedBy(wire', time)
    <3>1. StampedBy(text, time)
      BY <2>2, <2>3, <2>5 DEF StampedBy
    <3> QED BY <2>2, <2>4, <2>5, <3>1, RestStamped, WireStamped
  <2>6. stamp \in Nat /\ now \in Nat
    BY DEF TypeOK
  <2>7. StampedBy(wire', now)
    BY <2>5, <2>6 DEF TimeInv
  <2>8. outcome \in Returns => StampedBy(wire', stamp)
    BY <2>1, <2>5, <2>6 DEF TimeInv
  <2>9. ASSUME NEW i \in Answered' PROVE wire'[i].ts = stamp
    <3>1. i \in DOMAIN wire' \ DOMAIN wire /\ wire'[i].kind \in Returns
      BY <2>1, <2>4, Extended DEF TerminalInv, NoAnswerYet, Answered, IsAnswer
    <3>2. PICK k \in 1..Len(rest) : wire'[i] = rest[k]
      BY <2>4, <3>1, Extended
    <3>3. k \in 1..(Len(events) + 1)
      BY <2>2, <2>4, LenProperties DEF PartOf
    <3>4. rest[k] = text[k]
      <4>1. rest[k] = text[k] \/ rest[k] = [text[k] EXCEPT !.kind = "partial"]
        BY <2>4 DEF PartOf
      <4>2. text[k] \in Item
        BY <2>2, <3>3, ElementOfSeq
      <4> QED BY <3>1, <3>2, <4>1, <4>2 DEF Returns, Item
    <3>5. k \notin 1..Len(events)
      BY <2>1, <2>2, <3>1, <3>2, <3>4 DEF OnlyEvents, Returns
    <3>6. k = Len(events) + 1
      BY <2>2, <3>3, <3>5
    <3> QED BY <2>2, <2>3, <3>2, <3>4, <3>6
  <2> QED BY <2>1, <2>7, <2>8, <2>9 DEF TimeInv, StampedBy
<1>10. CASE HookPrint
  <2> DEFINE text == <<Terminal>>
  <2>1. /\ WriteLine(text) /\ UNCHANGED <<ts, now, stamp, outcome, captured, events>>
        /\ outcome = "panic"
    BY <1>10 DEF HookPrint, TerminalInv, Lifecycle, TypeOK
  <2>2. text \in Seq(Item) /\ StampedBy(text, now)
    BY TerminalTyped DEF StampedBy, Terminal, TimeInv
  <2>3. PICK rest \in Seq(Item) : wire' = wire \o rest /\ PartOf(rest, text)
    BY <2>1, <2>2, WriteAppends
  <2>4. now \in Nat
    BY DEF TypeOK
  <2>5. StampedBy(wire', now)
    BY <2>2, <2>3, <2>4, RestStamped, WireStamped DEF TimeInv
  <2> QED BY <2>1, <2>5 DEF TimeInv, StampedBy, Returns
<1>11. CASE Tick
  <2>1. now' = now + 1 /\ now \in Nat /\ UNCHANGED <<run, emits, stream, output>>
    BY <1>11 DEF Tick, TypeOK
  <2>2. ASSUME NEW lines \in Seq(Item), StampedBy(lines, now) PROVE StampedBy(lines, now')
    <3>1. \A i \in DOMAIN lines : lines[i].ts \in Nat
      <4>1. \A i \in DOMAIN lines : lines[i] \in Item
        BY LenProperties, ElementOfSeq
      <4> QED BY <4>1 DEF Item
    <3> QED BY <2>1, <2>2, <3>1 DEF StampedBy
  <2>3. StampedBy(wire, now') /\ StampedBy(captured, now') /\ StampedBy(events, now')
    BY <2>2 DEF TimeInv, TypeOK
  <2> QED BY <2>1, <2>3 DEF TypeOK, TimeInv, StampedBy, Answered, IsAnswer
<1>12. CASE UNCHANGED vars
  BY <1>12 DEF vars, TimeInv, StampedBy, Answered, IsAnswer
<1> QED
  BY <1>1, <1>2, <1>3, <1>4, <1>5, <1>6, <1>7, <1>8, <1>9, <1>10, <1>11, <1>12
     DEF Next, Emit, Framework, Settled
-----------------------------------------------------------------------------
(* Accepted events are delivered. *)

LinesOf(lines, e, n) == {i \in DOMAIN lines : lines[i].by = e /\ lines[i].n = n}

(* An emitter is as many emits ahead of its answers as it holds lines, and *)
(* every event a reader has is of an answered emit.                        *)
Booked ==
  /\ \A e \in Emitters : count[e] = Len(answers[e]) + (IF pc[e] = "stamped" THEN 1 ELSE 0)
  /\ \A i \in DOMAIN Delivered :
       Delivered[i].n # 0 => Delivered[i].n \in DOMAIN answers[Delivered[i].by]
  /\ AcceptedIsDelivered

(* The Execution holds no event before the stream is closed. *)
Uncollected ==
  /\ ~closed => events = <<>>
  /\ phase \in {"running", "returned"} => events = <<>>

LEMMA DeliveredTyped ==
  ASSUME TypeOK
  PROVE  Delivered \in Seq(Item)
  BY ConcatProperties DEF TypeOK, Delivered

(* An answered emit of an event delivers what was appended for it. *)
LEMMA ReplyBooked ==
  ASSUME TypeOK, TypeOK', Booked, NEW e \in Emitters, pc[e] = "stamped",
         NEW reply \in Replies, Reply(e, reply),
         NEW rest \in Seq(Item), Delivered' = Delivered \o rest,
         Len(rest) \in {0, 1},
         \A i \in 1..Len(rest) : rest[i].by = e /\ rest[i].n = count[e],
         reply \notin {"ok", "io"} => Len(rest) = 0,
         reply = "ok" => Len(rest) = 1 /\ rest[1].kind = "event"
  PROVE  Booked'
<1> DEFINE D == Delivered
           m == Len(answers[e]) + 1
<1>1. /\ answers[e] \in Seq(Replies) /\ Len(answers[e]) \in Nat /\ count[e] = m
      /\ DOMAIN answers[e] = 1..Len(answers[e])
  BY LenProperties DEF TypeOK, Booked
<1>2. /\ answers'[e] = Append(answers[e], reply) /\ UNCHANGED count
      /\ \A x \in Emitters \ {e} : answers'[x] = answers[x] /\ pc'[x] = pc[x]
      /\ pc'[e] = "idle"
  BY DEF Reply, TypeOK
<1>3. /\ DOMAIN answers'[e] = 1..m /\ Len(answers'[e]) = m /\ answers'[e][m] = reply
      /\ \A n \in 1..Len(answers[e]) : answers'[e][n] = answers[e][n]
  BY <1>1, <1>2, AppendProperties, LenProperties
<1>4. /\ D \in Seq(Item) /\ Len(D) \in Nat /\ DOMAIN D = 1..Len(D)
  BY DeliveredTyped, LenProperties
<1>5. /\ DOMAIN Delivered' = 1..(Len(D) + Len(rest))
      /\ \A i \in DOMAIN D : Delivered'[i] = D[i]
      /\ \A i \in DOMAIN Delivered' \ DOMAIN D :
           i = Len(D) + 1 /\ Len(rest) = 1 /\ Delivered'[i] = rest[1]
  BY <1>4, ConcatProperties, LenProperties
<1>6. ASSUME NEW x \in Emitters
      PROVE  count'[x] = Len(answers'[x]) + (IF pc'[x] = "stamped" THEN 1 ELSE 0)
  <2>1. CASE x = e
    <3>1. count'[e] = m /\ Len(answers'[e]) = m /\ m = m + 0 /\ pc'[e] # "stamped"
      BY <1>1, <1>2, <1>3
    <3> QED BY <2>1, <3>1
  <2>2. CASE x # e
    <3>1. answers'[x] = answers[x] /\ pc'[x] = pc[x] /\ count'[x] = count[x]
      BY <1>2, <2>2
    <3> QED BY <3>1 DEF Booked
  <2> QED BY <2>1, <2>2
<1>7. ASSUME NEW i \in DOMAIN Delivered', Delivered'[i].n # 0
      PROVE  Delivered'[i].n \in DOMAIN answers'[Delivered'[i].by]
  <2>1. CASE i \in DOMAIN D
    <3>1. D[i] \in Item /\ Delivered'[i] = D[i]
      BY <1>4, <1>5, <2>1, ElementOfSeq
    <3>2. D[i].by \in Emitters
      BY <3>1 DEF Item
    <3>3. D[i].n \in DOMAIN answers[D[i].by]
      BY <1>7, <2>1, <3>1 DEF Booked
    <3>4. \A x \in Emitters : DOMAIN answers[x] \subseteq DOMAIN answers'[x]
      <4>1. DOMAIN answers[e] \subseteq DOMAIN answers'[e]
        BY <1>1, <1>3
      <4> QED BY <1>2, <4>1
    <3> QED BY <3>1, <3>2, <3>3, <3>4
  <2>2. CASE i \notin DOMAIN D
    BY <1>1, <1>3, <1>5, <1>7, <2>2
  <2> QED BY <2>1, <2>2
<1>8. ASSUME NEW x \in Emitters, NEW n \in DOMAIN answers'[x]
      PROVE  LET lines == LinesOf(Delivered', x, n) IN
             /\ answers'[x][n] = "ok" =>
                  \E i \in lines : lines = {i} /\ Delivered'[i].kind = "event"
             /\ lines # {} => answers'[x][n] \in {"ok", "io"}
  <2>1. CASE x # e \/ n # m
    <3>1. n \in DOMAIN answers[x] /\ answers'[x][n] = answers[x][n]
      <4>1. CASE x = e
        <5>1. n \in 1..m /\ n # m
          BY <1>3, <1>8, <2>1, <4>1
        <5>2. n \in 1..Len(answers[e])
          BY <1>1, <5>1
        <5> QED BY <1>1, <1>3, <4>1, <5>2
      <4>2. CASE x # e
        BY <1>2, <1>8, <4>2
      <4> QED BY <4>1, <4>2
    <3>2. LinesOf(Delivered', x, n) = LinesOf(D, x, n)
      BY <1>1, <1>4, <1>5, <2>1 DEF LinesOf
    <3>3. \A i \in LinesOf(D, x, n) : Delivered'[i] = D[i]
      BY <1>5 DEF LinesOf
    <3> DEFINE held == LinesOf(D, x, n)
    <3>4. /\ answers[x][n] = "ok" => \E i \in held : held = {i} /\ D[i].kind = "event"
          /\ held # {} => answers[x][n] \in {"ok", "io"}
      BY <3>1 DEF Booked, AcceptedIsDelivered, LinesOf
    <3> HIDE DEF held
    <3> QED BY <3>1, <3>2, <3>3, <3>4 DEF held
  <2>2. CASE x = e /\ n = m
    <3>1. LinesOf(D, e, m) = {}
      BY <1>1, <1>4 DEF Booked, LinesOf
    <3>2. LinesOf(Delivered', e, m) \subseteq {Len(D) + 1}
      BY <1>5, <3>1 DEF LinesOf
    <3>3. LinesOf(Delivered', e, m) # {} => Len(rest) = 1
      BY <1>5, <3>1 DEF LinesOf
    <3>4. ASSUME reply = "ok"
          PROVE  /\ LinesOf(Delivered', e, m) = {Len(D) + 1}
                 /\ Delivered'[Len(D) + 1].kind = "event"
      <4>1. Len(D) + 1 \in DOMAIN Delivered' \ DOMAIN D
        <5>1. Len(rest) = 1
          BY <3>4
        <5>2. DOMAIN Delivered' = 1..(Len(D) + 1)
          BY <1>5, <5>1
        <5> QED BY <1>4, <5>2
      <4>2. Delivered'[Len(D) + 1] = rest[1] /\ rest[1].by = e /\ rest[1].n = m
        BY <1>1, <1>5, <3>4, <4>1
      <4> QED BY <3>2, <3>4, <4>1, <4>2 DEF LinesOf
    <3>5. answers'[x][n] = reply
      BY <1>3, <2>2
    <3> QED BY <2>2, <3>2, <3>3, <3>4, <3>5
  <2> QED BY <1>1, <1>3, <2>1, <2>2
<1>9. AcceptedIsDelivered'
  BY <1>8 DEF AcceptedIsDelivered, LinesOf
<1> QED BY <1>6, <1>7, <1>9 DEF Booked

(* Lines without a number, or none at all, change nothing for the emits.   *)
LEMMA QuietBooked ==
  ASSUME TypeOK, Booked, UNCHANGED answers,
         \A e \in Emitters :
           count'[e] = Len(answers[e]) + (IF pc'[e] = "stamped" THEN 1 ELSE 0),
         NEW rest \in Seq(Item), Delivered' = Delivered \o rest,
         \A i \in 1..Len(rest) : rest[i].n = 0
  PROVE  Booked'
<1> DEFINE D == Delivered
<1>1. /\ D \in Seq(Item) /\ Len(D) \in Nat /\ DOMAIN D = 1..Len(D)
      /\ Len(rest) \in Nat
  BY DeliveredTyped, LenProperties
<1>2. /\ DOMAIN Delivered' = 1..(Len(D) + Len(rest))
      /\ \A i \in DOMAIN D : i \in DOMAIN Delivered' /\ Delivered'[i] = D[i]
      /\ \A i \in DOMAIN Delivered' \ DOMAIN D : Delivered'[i].n = 0
  <2>1. /\ DOMAIN Delivered' = 1..(Len(D) + Len(rest))
        /\ \A i \in 1..(Len(D) + Len(rest)) :
             Delivered'[i] = IF i <= Len(D) THEN D[i] ELSE rest[i - Len(D)]
    BY <1>1, ConcatProperties, LenProperties
  <2>2. ASSUME NEW i \in DOMAIN Delivered' \ DOMAIN D PROVE Delivered'[i].n = 0
    <3>1. i \in 1..(Len(D) + Len(rest)) /\ ~(i <= Len(D))
      BY <1>1, <2>1
    <3>2. i - Len(D) \in 1..Len(rest) /\ Delivered'[i] = rest[i - Len(D)]
      BY <1>1, <2>1, <3>1
    <3> QED BY <3>2
  <2> QED BY <1>1, <2>1, <2>2
<1>3. ASSUME NEW e \in Emitters
      PROVE  count'[e] = Len(answers'[e]) + (IF pc'[e] = "stamped" THEN 1 ELSE 0)
  OBVIOUS
<1>4. ASSUME NEW i \in DOMAIN Delivered', Delivered'[i].n # 0
      PROVE  Delivered'[i].n \in DOMAIN answers'[Delivered'[i].by]
  BY <1>2, <1>4 DEF Booked
<1>5. ASSUME NEW x \in Emitters, NEW n \in DOMAIN answers[x]
      PROVE  LET lines == LinesOf(Delivered', x, n) IN
             /\ answers[x][n] = "ok" =>
                  \E i \in lines : lines = {i} /\ Delivered'[i].kind = "event"
             /\ lines # {} => answers[x][n] \in {"ok", "io"}
  <2>1. n # 0
    BY LenProperties DEF TypeOK
  <2>2. LinesOf(Delivered', x, n) = LinesOf(D, x, n)
    BY <1>2, <2>1 DEF LinesOf
  <2>3. \A i \in LinesOf(D, x, n) : Delivered'[i] = D[i]
    BY <1>2 DEF LinesOf
  <2> DEFINE held == LinesOf(D, x, n)
  <2>4. /\ answers[x][n] = "ok" => \E i \in held : held = {i} /\ D[i].kind = "event"
        /\ held # {} => answers[x][n] \in {"ok", "io"}
    BY DEF Booked, AcceptedIsDelivered, LinesOf
  <2> HIDE DEF held
  <2> QED BY <2>2, <2>3, <2>4 DEF held
<1>6. AcceptedIsDelivered'
  BY <1>5 DEF AcceptedIsDelivered, LinesOf
<1> QED BY <1>3, <1>4, <1>6 DEF Booked

LEMMA StepUncollected ==
  TypeOK /\ Uncollected /\ [Next]_vars => Uncollected'
BY DEF TypeOK, Uncollected, Next, Emit, Framework, Settled, Stamp, SerializeFails, Refuse,
       Capture, WriteEvent, WriteEventFails, Return, Close, BuildEnvelope, Exit, Panic,
       PrintAnswer, HookPrint, HookStamp, Tick, run, emits, stream, output, vars

LEMMA StepBooked ==
  /\ TypeOK /\ TypeOK' /\ TornInv /\ Uncollected /\ Booked
  /\ [Next]_vars
  => Booked'
<1> SUFFICES ASSUME TypeOK, TypeOK', TornInv, Uncollected, Booked, [Next]_vars PROVE Booked'
  OBVIOUS
<1> USE DEF run, emits, stream, output
<1>0. /\ Delivered \in Seq(Item) /\ Delivered \o <<>> = Delivered /\ <<>> \in Seq(Item)
      /\ captured \o <<>> = captured /\ <<>> \o captured = captured
  BY DeliveredTyped, ConcatEmptySeq DEF TypeOK
<1>nothing. PICK none \in Seq(Item) :
         Len(none) = 0 /\ (\A i \in 1..Len(none) : FALSE) /\ Delivered \o none = Delivered
  <2>1. Len(<<>>) = 0 /\ \A i \in 1..Len(<<>>) : FALSE
    OBVIOUS
  <2> QED BY <1>0, <2>1
<1>1. ASSUME NEW e \in Emitters, Stamp(e) PROVE Booked'
  <2>1. UNCHANGED <<Delivered, answers>>
    BY <1>1 DEF Stamp, Delivered
  <2>2. ASSUME NEW x \in Emitters
        PROVE  count'[x] = Len(answers[x]) + (IF pc'[x] = "stamped" THEN 1 ELSE 0)
    <3>1. Len(answers[x]) \in Nat
      BY LenProperties DEF TypeOK
    <3>2. CASE x = e
      <4>1. count[e] = Len(answers[e]) + 0
        BY <1>1 DEF Stamp, Booked
      <4>2. count'[e] = count[e] + 1 /\ pc'[e] = "stamped"
        BY <1>1 DEF Stamp, TypeOK
      <4> QED BY <3>1, <3>2, <4>1, <4>2
    <3>3. CASE x # e
      <4>1. count'[x] = count[x] /\ pc'[x] = pc[x]
        BY <1>1, <3>3 DEF Stamp, TypeOK
      <4> QED BY <4>1 DEF Booked
    <3> QED BY <3>2, <3>3
  <2>3. Delivered' = Delivered \o none
    BY <1>nothing, <2>1
  <2> QED BY <1>nothing, <2>1, <2>2, <2>3, QuietBooked
<1>2. ASSUME NEW e \in Emitters, SerializeFails(e) \/ Refuse(e) PROVE Booked'
  <2>1. /\ pc[e] = "stamped" /\ UNCHANGED Delivered
        /\ \E reply \in {"json", "closed", "poisoned"} : Reply(e, reply)
    BY <1>2 DEF SerializeFails, Refuse, Delivered
  <2>2. {"json", "closed", "poisoned"} \subseteq Replies \ {"ok", "io"}
    BY DEF Replies
  <2>3. Delivered' = Delivered \o none
    BY <1>nothing, <2>1
  <2>4. PICK reply \in Replies \ {"ok", "io"} : Reply(e, reply)
    BY <2>1, <2>2
  <2> QED BY <1>nothing, <2>1, <2>3, <2>4, ReplyBooked
<1>3. ASSUME NEW e \in Emitters, Capture(e) \/ WriteEvent(e) PROVE Booked'
  <2> DEFINE rest == <<EventLine(e)>>
  <2>1. /\ rest \in Seq(Item) /\ Len(rest) = 1 /\ rest[1].kind = "event"
        /\ rest[1].by = e /\ rest[1].n = count[e]
    BY EventLineTyped DEF EventLine
  <2>2. pc[e] = "stamped" /\ Reply(e, "ok") /\ "ok" \in Replies
    BY <1>3 DEF Capture, WriteEvent, Replies
  <2>3. Delivered' = Delivered \o rest
    <3>1. CASE Capture(e)
      <4>1. events = <<>> /\ UNCHANGED events /\ mode = "inprocess" /\ UNCHANGED mode
            /\ captured' = Append(captured, EventLine(e))
        BY <3>1 DEF Capture, Refused, Uncollected
      <4>2. captured' = captured \o rest /\ captured' \o <<>> = captured'
        BY <4>1, EventLineTyped, AppendIsConcat, ConcatEmptySeq DEF TypeOK
      <4> QED BY <1>0, <4>1, <4>2 DEF Delivered
    <3>2. CASE WriteEvent(e)
      BY <3>2 DEF WriteEvent, WriteWhole, Delivered
    <3> QED BY <1>3, <3>1, <3>2
  <2>4. \A i \in 1..Len(rest) : rest[i].by = e /\ rest[i].n = count[e]
    BY <2>1
  <2> HIDE DEF rest
  <2> QED BY <2>1, <2>2, <2>3, <2>4, ReplyBooked
<1>4. ASSUME NEW e \in Emitters, WriteEventFails(e) PROVE Booked'
  <2>1. /\ pc[e] = "stamped" /\ Reply(e, "io") /\ "io" \in Replies
        /\ mode = "process" /\ UNCHANGED mode /\ WriteLine(<<EventLine(e)>>)
    BY <1>4 DEF WriteEventFails, Replies, WriteLine
  <2>2. PICK rest \in Seq(Item) :
          /\ wire' = wire \o rest /\ Len(rest) \in {0, 1}
          /\ \A i \in 1..Len(rest) :
               rest[i] \in {EventLine(e), [EventLine(e) EXCEPT !.kind = "partial"]}
    BY <2>1, EventRest
  <2>3. \A i \in 1..Len(rest) : rest[i].by = e /\ rest[i].n = count[e]
    <3>1. /\ EventLine(e).by = e /\ EventLine(e).n = count[e]
          /\ [EventLine(e) EXCEPT !.kind = "partial"].by = e
          /\ [EventLine(e) EXCEPT !.kind = "partial"].n = count[e]
      BY DEF EventLine
    <3> QED BY <2>2, <3>1
  <2>4. Delivered' = Delivered \o rest
    BY <2>1, <2>2 DEF Delivered
  <2> QED BY <2>1, <2>2, <2>3, <2>4, ReplyBooked
<1>5. ASSUME UNCHANGED emits, NEW rest \in Seq(Item), Delivered' = Delivered \o rest,
             \A i \in 1..Len(rest) : rest[i].n = 0
      PROVE  Booked'
  BY <1>5, QuietBooked DEF Booked
<1>6. ASSUME UNCHANGED emits, UNCHANGED Delivered PROVE Booked'
  <2>1. Delivered' = Delivered \o none
    BY <1>nothing, <1>6
  <2> QED BY <1>nothing, <1>5, <1>6, <2>1
<1>7. CASE Return \/ BuildEnvelope \/ Exit \/ Panic \/ HookStamp \/ Tick \/ UNCHANGED vars
  BY <1>6, <1>7 DEF Return, BuildEnvelope, Exit, Panic, HookStamp, Tick, vars, Delivered
<1>8. CASE Close
  <2>1. events = <<>> /\ events' = captured /\ captured' = <<>> /\ UNCHANGED <<mode, wire, emits>>
    BY <1>8 DEF Close, Uncollected
  <2> QED BY <1>0, <1>6, <2>1 DEF Delivered
<1>9. CASE PrintAnswer \/ HookPrint
  <2>1. UNCHANGED <<mode, captured, events, emits>>
    BY <1>9 DEF PrintAnswer, HookPrint
  <2>2. CASE mode = "inprocess"
    BY <1>6, <2>1, <2>2 DEF Delivered
  <2>3. CASE mode = "process"
    <3> DEFINE text == <<Terminal>>
    <3>1. WriteLine(text)
      BY <1>9, <2>3 DEF PrintAnswer, HookPrint, TornInv
    <3>2. text \in Seq(Item) /\ Len(text) = 1 /\ text[1] = Terminal
      BY TerminalTyped
    <3>3. PICK rest \in Seq(Item) : wire' = wire \o rest /\ PartOf(rest, text)
      BY <3>1, <3>2, WriteAppends
    <3>4. \A i \in 1..Len(rest) : rest[i].n = 0
      <4>1. Len(rest) \in Nat /\ Len(rest) <= 1
        BY <3>2, <3>3, LenProperties DEF PartOf
      <4>2. \A i \in 1..Len(rest) : i = 1
        BY <4>1
      <4>3. \A i \in 1..Len(rest) :
              rest[i] = Terminal \/ rest[i] = [Terminal EXCEPT !.kind = "partial"]
        BY <3>2, <3>3, <4>2 DEF PartOf
      <4> QED BY <4>3 DEF Terminal
    <3> QED BY <1>5, <2>1, <2>3, <3>3, <3>4 DEF Delivered
  <2> QED BY <2>2, <2>3 DEF TypeOK
<1> QED
  BY <1>1, <1>2, <1>3, <1>4, <1>7, <1>8, <1>9 DEF Next, Emit, Framework, Settled
-----------------------------------------------------------------------------
(* Together. *)

ReaderInv == Single /\ TornInv /\ TimeInv /\ Uncollected /\ Booked

LEMMA InitReader == Init => ReaderInv
<1> SUFFICES ASSUME Init PROVE ReaderInv
  OBVIOUS
<1> USE DEF Init
<1>1. DOMAIN wire = {} /\ Answered = {}
  BY DEF Answered
<1>2. Single
  BY <1>1 DEF Single
<1>3. TornInv
  BY <1>1 DEF TornInv, TornEvents, NoEventAfterPartial
<1>4. TimeInv
  BY <1>1 DEF TimeInv, StampedBy, Returns
<1>5. Uncollected
  BY DEF Uncollected
<1>6. Booked
  <2>1. <<>> \o <<>> = <<>>
    BY ConcatEmptySeq, EmptySeq
  <2>2. DOMAIN Delivered = {}
    BY <2>1 DEF Delivered
  <2>3. \A e \in Emitters : answers[e] = <<>> /\ DOMAIN answers[e] = {} /\ Len(answers[e]) = 0
    OBVIOUS
  <2> QED BY <2>2, <2>3 DEF Booked, AcceptedIsDelivered
<1> QED BY <1>2, <1>3, <1>4, <1>5, <1>6 DEF ReaderInv

LEMMA ReaderInvariant == Spec => [](TypeOK /\ TerminalInv /\ ReaderInv)
<1>1. TypeOK /\ TypeOK' /\ TerminalInv /\ ReaderInv /\ [Next]_vars => ReaderInv'
  BY StepSingle, StepTorn, StepTime, StepUncollected, StepBooked DEF ReaderInv
<1> QED BY <1>1, TypeCorrect, InitTerminal, StepTerminal, InitReader, PTL DEF Spec

(* A run never leaves two answers, and exits without one only after a      *)
(* write that failed, also when its handler panicked.                      *)
THEOREM OneTerminalLine == Spec => []OneAnswer
<1>1. ReaderInv => OneAnswer
  BY DEF ReaderInv, Single, OneAnswer
<1> QED BY <1>1, ReaderInvariant, PTL

(* No event reaches stdout after a line that a failed write tore.          *)
THEOREM NothingBehindATear == Spec => []NoEventAfterPartial
<1>1. ReaderInv => NoEventAfterPartial
  BY DEF ReaderInv, TornInv
<1> QED BY <1>1, ReaderInvariant, PTL

(* An emit answered Ok delivers one whole line, also one the close moved   *)
(* into the Execution, and a refused one delivers nothing.                 *)
THEOREM AcceptedEventsArrive == Spec => []AcceptedIsDelivered
<1>1. ReaderInv => AcceptedIsDelivered
  BY DEF ReaderInv, Booked
<1> QED BY <1>1, ReaderInvariant, PTL

(* No line of a run that returned is stamped after its answer.             *)
THEOREM AnswerIsYoungest == Spec => []AnswerIsStampedLast
<1>1. ASSUME TypeOK, TerminalInv, ReaderInv PROVE AnswerIsStampedLast
  <2> SUFFICES ASSUME outcome # "panic", NEW i \in Answered, NEW j \in DOMAIN wire
               PROVE  wire[j].ts <= wire[i].ts
    BY DEF AnswerIsStampedLast
  <2>1. wire[i].ts = stamp
    BY <1>1 DEF ReaderInv, TimeInv
  <2>2. phase \in {"printed", "exited"}
    BY <1>1 DEF TerminalInv, NoAnswerYet
  <2>3. outcome \in Returns
    BY <1>1, <2>2 DEF TypeOK, TerminalInv, Lifecycle
  <2> QED BY <1>1, <2>1, <2>2, <2>3 DEF ReaderInv, TimeInv, StampedBy
<1> QED BY <1>1, ReaderInvariant, PTL
-----------------------------------------------------------------------------
(* The promise. *)

KindsOf(lines) == [i \in DOMAIN lines |-> lines[i].kind]

LEMMA KindsTyped ==
  ASSUME NEW lines \in Seq(Item)
  PROVE  /\ KindsOf(lines) \in Seq(Kinds) /\ Len(KindsOf(lines)) = Len(lines)
         /\ \A i \in 1..Len(lines) : KindsOf(lines)[i] = lines[i].kind
<1>1. Len(lines) \in Nat /\ DOMAIN lines = 1..Len(lines)
  BY LenProperties
<1>2. \A i \in 1..Len(lines) : lines[i].kind \in Kinds
  <2>1. \A i \in 1..Len(lines) : lines[i] \in Item
    BY ElementOfSeq
  <2> QED BY <2>1 DEF Item
<1>3. KindsOf(lines) \in [1..Len(lines) -> Kinds]
  BY <1>1, <1>2 DEF KindsOf
<1>4. KindsOf(lines) \in Seq(Kinds)
  BY <1>1, <1>3, SeqDef
<1> QED BY <1>1, <1>3, <1>4, LenProperties DEF KindsOf

(* The kinds of lines that follow others follow theirs. *)
LEMMA KindsConcat ==
  ASSUME NEW lines \in Seq(Item), NEW rest \in Seq(Item)
  PROVE  KindsOf(lines \o rest) = KindsOf(lines) \o KindsOf(rest)
<1> DEFINE both == lines \o rest
           kinds == KindsOf(lines) \o KindsOf(rest)
<1>1. /\ both \in Seq(Item) /\ Len(both) = Len(lines) + Len(rest)
      /\ \A i \in 1..(Len(lines) + Len(rest)) :
           both[i] = IF i <= Len(lines) THEN lines[i] ELSE rest[i - Len(lines)]
      /\ Len(lines) \in Nat /\ Len(rest) \in Nat
  BY ConcatProperties, LenProperties
<1>2. /\ kinds \in Seq(Kinds) /\ Len(kinds) = Len(lines) + Len(rest)
      /\ \A i \in 1..(Len(lines) + Len(rest)) :
           kinds[i] = IF i <= Len(lines) THEN KindsOf(lines)[i] ELSE KindsOf(rest)[i - Len(lines)]
  <2>1. /\ KindsOf(lines) \in Seq(Kinds) /\ Len(KindsOf(lines)) = Len(lines)
        /\ KindsOf(rest) \in Seq(Kinds) /\ Len(KindsOf(rest)) = Len(rest)
    BY KindsTyped
  <2> DEFINE front == KindsOf(lines)
             back == KindsOf(rest)
  <2>2. front \in Seq(Kinds) /\ back \in Seq(Kinds)
    BY <2>1
  <2> HIDE DEF front, back
  <2>3. /\ front \o back \in Seq(Kinds) /\ Len(front \o back) = Len(front) + Len(back)
        /\ \A i \in 1..(Len(front) + Len(back)) :
             (front \o back)[i] = IF i <= Len(front) THEN front[i] ELSE back[i - Len(front)]
    BY <2>2, ConcatProperties
  <2> QED BY <2>1, <2>3 DEF front, back
<1>3. KindsOf(both) \in Seq(Kinds) /\ Len(KindsOf(both)) = Len(lines) + Len(rest)
  BY <1>1, KindsTyped
<1>4. ASSUME NEW i \in 1..(Len(lines) + Len(rest)) PROVE KindsOf(both)[i] = kinds[i]
  <2>1. KindsOf(both)[i] = both[i].kind
    BY <1>1, KindsTyped
  <2>2. CASE i <= Len(lines)
    <3>1. i \in 1..Len(lines)
      BY <1>1, <2>2
    <3> QED BY <1>1, <1>2, <2>1, <2>2, <3>1, KindsTyped
  <2>3. CASE ~(i <= Len(lines))
    <3>1. i - Len(lines) \in 1..Len(rest)
      BY <1>1, <2>3
    <3>2. KindsOf(rest)[i - Len(lines)] = rest[i - Len(lines)].kind
      BY <3>1, KindsTyped
    <3>3. both[i] = rest[i - Len(lines)] /\ kinds[i] = KindsOf(rest)[i - Len(lines)]
      BY <1>1, <1>2, <2>3
    <3> QED BY <2>1, <3>2, <3>3
  <2> QED BY <2>2, <2>3
<1> HIDE DEF both, kinds
<1>5. KindsOf(both) = kinds
  BY <1>2, <1>3, <1>4, SeqEqual
<1> QED BY <1>5 DEF both, kinds
-----------------------------------------------------------------------------
(* What the refinement mapping makes of a run. *)

PromiseOut == IF outcome = "panic" THEN <<>> ELSE [i \in DOMAIN Sent |-> Sent[i].kind]
PromiseState ==
  IF outcome = "panic" THEN "abandoned"
  ELSE IF phase \in {"printed", "exited"} THEN "ended"
  ELSE IF poisoned THEN "torn" ELSE "open"

LEMMA SentTyped ==
  ASSUME TypeOK
  PROVE  Sent \in Seq(Item)
<1>1. <<Terminal>> \in Seq(Item) /\ <<>> \in Seq(Item)
  BY TerminalTyped
<1>2. captured \o events \in Seq(Item)
  BY ConcatProperties DEF TypeOK
<1>3. captured \o events \o <<Terminal>> \in Seq(Item)
      /\ captured \o events \o <<>> \in Seq(Item)
  BY <1>1, <1>2, ConcatProperties
<1> QED BY <1>3 DEF Sent, TypeOK

LEMMA InitPromise == Init => Promise!Init
<1> SUFFICES ASSUME Init PROVE Promise!Init
  OBVIOUS
<1>1. <<>> \o <<>> = <<>>
  BY ConcatEmptySeq, EmptySeq
<1>2. Sent = <<>>
  BY <1>1 DEF Init, Sent
<1>3. [i \in DOMAIN Sent |-> Sent[i].kind] = <<>>
  BY <1>2
<1> QED BY <1>3 DEF Init, Promise!Init, Returns

(* A step that sends nothing and neither ends nor tears the stream.        *)
LEMMA Stutters ==
  ASSUME UNCHANGED <<outcome, poisoned, Sent>>,
         phase' \in {"printed", "exited"} <=> phase \in {"printed", "exited"}
  PROVE  UNCHANGED Promise!vars
BY DEF Promise!vars

(* Once the handler panicked, every step is a stutter. *)
LEMMA PanicStutters ==
  ASSUME outcome = "panic", outcome' = "panic"
  PROVE  UNCHANGED Promise!vars
BY DEF Promise!vars, Returns

(* What is sent reaches the reader of the promise as kinds.                *)
LEMMA OutGrows ==
  ASSUME TypeOK, outcome # "panic", UNCHANGED outcome,
         NEW rest \in Seq(Item), Sent' = Sent \o rest
  PROVE  /\ PromiseOut \in Seq(Kinds)
         /\ PromiseOut' = PromiseOut \o KindsOf(rest)
<1>1. KindsOf(Sent) \in Seq(Kinds) /\ KindsOf(Sent \o rest) = KindsOf(Sent) \o KindsOf(rest)
  BY SentTyped, KindsTyped, KindsConcat
<1>2. PromiseOut = KindsOf(Sent) /\ PromiseOut' = KindsOf(Sent')
  BY DEF PromiseOut, KindsOf
<1> QED BY <1>1, <1>2

(* The kinds of one event line, whole or torn. *)
LEMMA EventKinds ==
  ASSUME TypeOK, NEW e \in Emitters
  PROVE  /\ KindsOf(<<EventLine(e)>>) = <<"event">>
         /\ \A rest \in Seq(Item) :
              /\ Len(rest) \in {0, 1}
              /\ \A i \in 1..Len(rest) :
                   rest[i] \in {EventLine(e), [EventLine(e) EXCEPT !.kind = "partial"]}
              => KindsOf(rest) \in {<<>>, <<"partial">>, <<"event">>}
<1>1. ASSUME NEW line \in Item PROVE KindsOf(<<line>>) = <<line.kind>>
  BY DEF KindsOf
<1>2. EventLine(e).kind = "event" /\ [EventLine(e) EXCEPT !.kind = "partial"].kind = "partial"
      /\ EventLine(e) \in Item /\ [EventLine(e) EXCEPT !.kind = "partial"] \in Item
  BY EventLineTyped DEF EventLine, Item, Kinds
<1>3. ASSUME NEW rest \in Seq(Item), Len(rest) \in {0, 1},
             \A i \in 1..Len(rest) :
               rest[i] \in {EventLine(e), [EventLine(e) EXCEPT !.kind = "partial"]}
      PROVE  KindsOf(rest) \in {<<>>, <<"partial">>, <<"event">>}
  <2>1. CASE Len(rest) = 0
    <3>1. rest = <<>>
      BY <2>1, EmptySeq
    <3> QED BY <3>1 DEF KindsOf
  <2>2. CASE Len(rest) = 1
    <3>1. rest = <<rest[1]>>
      BY <2>2
    <3>2. rest[1] \in {EventLine(e), [EventLine(e) EXCEPT !.kind = "partial"]}
      BY <1>3, <2>2
    <3>3. rest = <<EventLine(e)>> \/ rest = <<[EventLine(e) EXCEPT !.kind = "partial"]>>
      BY <3>1, <3>2
    <3> QED BY <1>1, <1>2, <3>3
  <2> QED BY <1>3, <2>1, <2>2
<1> QED BY <1>1, <1>2, <1>3
-----------------------------------------------------------------------------
LEMMA StepPromise ==
  ASSUME TypeOK, TypeOK', TerminalInv, TornInv, Uncollected, [Next]_vars
  PROVE  [Promise!Next]_(Promise!vars)
<1> USE DEF run, emits, stream, output
<1>1. CASE outcome = "panic"
  <2>1. phase # "running"
    BY <1>1 DEF TerminalInv, Lifecycle
  <2>2. outcome' = "panic"
    BY <1>1, <2>1 DEF Next, Emit, Framework, Settled, Stamp, SerializeFails, Refuse, Capture,
         WriteEvent, WriteEventFails, Return, Close, BuildEnvelope, Exit, Panic,
         PrintAnswer, HookPrint, HookStamp, Tick, vars
  <2> QED BY <1>1, <2>2, PanicStutters
<1>2. ASSUME outcome # "panic",
             \/ \E e \in Emitters : Stamp(e) \/ SerializeFails(e) \/ Refuse(e)
             \/ BuildEnvelope \/ Exit \/ HookStamp \/ Tick \/ UNCHANGED vars
      PROVE  UNCHANGED Promise!vars
  <2>1. UNCHANGED <<outcome, poisoned, Sent>>
        /\ (phase' \in {"printed", "exited"} <=> phase \in {"printed", "exited"})
    BY <1>2 DEF Stamp, SerializeFails, Refuse, BuildEnvelope, Exit, HookStamp, Tick, vars,
                Sent, Terminal
  <2> QED BY <2>1, Stutters
<1>3. ASSUME outcome # "panic", NEW e \in Emitters, Capture(e) \/ WriteEvent(e)
      PROVE  Promise!Accept
  <2> DEFINE rest == <<EventLine(e)>>
  <2>1. ~poisoned /\ ~closed /\ UNCHANGED <<outcome, poisoned, phase>>
    BY <1>3 DEF Capture, WriteEvent, Refused
  <2>2. phase \notin {"printed", "exited"}
    BY <1>3, <2>1 DEF TerminalInv, Lifecycle, TypeOK
  <2>3. rest \in Seq(Item)
    BY EventLineTyped
  <2>4. Sent' = Sent \o rest
    <3>1. CASE Capture(e)
      <4>1. events = <<>> /\ UNCHANGED events /\ mode = "inprocess" /\ UNCHANGED mode
            /\ captured' = Append(captured, EventLine(e))
        BY <2>1, <3>1 DEF Capture, Uncollected
      <4>2. captured' = captured \o rest
        BY <4>1, EventLineTyped, AppendIsConcat DEF TypeOK
      <4>3. /\ captured \o <<>> = captured /\ captured' \o <<>> = captured'
        BY ConcatEmptySeq DEF TypeOK
      <4>4. Sent = captured /\ Sent' = captured'
        BY <2>1, <2>2, <4>1, <4>3 DEF Sent
      <4> QED BY <4>2, <4>4
    <3>2. CASE WriteEvent(e)
      BY <3>2 DEF WriteEvent, WriteWhole, Sent
    <3> QED BY <1>3, <3>1, <3>2
  <2>5. PromiseOut \in Seq(Kinds) /\ PromiseOut' = PromiseOut \o <<"event">>
    BY <1>3, <2>1, <2>3, <2>4, OutGrows, EventKinds
  <2>6. PromiseOut' = Append(PromiseOut, "event")
    BY <2>5, AppendIsConcat DEF Kinds
  <2> QED BY <1>3, <2>1, <2>2, <2>6 DEF Promise!Accept, Promise!EventKind, PromiseOut
<1>4. ASSUME outcome # "panic", NEW e \in Emitters, WriteEventFails(e)
      PROVE  Promise!Tear
  <2>1. /\ ~poisoned /\ ~closed /\ UNCHANGED <<mode, outcome, phase>> /\ poisoned' = TRUE
        /\ mode = "process" /\ WriteLine(<<EventLine(e)>>)
    BY <1>4 DEF WriteEventFails, Refused, WriteLine
  <2>2. phase \notin {"printed", "exited"}
    BY <1>4, <2>1 DEF TerminalInv, Lifecycle, TypeOK
  <2>3. PICK rest \in Seq(Item) :
          /\ wire' = wire \o rest /\ Len(rest) \in {0, 1}
          /\ \A i \in 1..Len(rest) :
               rest[i] \in {EventLine(e), [EventLine(e) EXCEPT !.kind = "partial"]}
    BY <2>1, EventRest
  <2>4. Sent' = Sent \o rest
    BY <2>1, <2>3 DEF Sent
  <2>5. /\ PromiseOut' = PromiseOut \o KindsOf(rest)
        /\ KindsOf(rest) \in {<<>>, <<"partial">>, <<"event">>}
    BY <1>4, <2>1, <2>3, <2>4, OutGrows, EventKinds
  <2> QED
    BY <1>4, <2>1, <2>2, <2>5 DEF Promise!Tear, Promise!EventKind, Promise!TornKind, PromiseOut
<1>5. CASE Return
  <2>1. outcome = "none" /\ outcome' \in Returns /\ UNCHANGED <<poisoned, Sent>>
        /\ phase = "running" /\ phase' = "returned"
    BY <1>5 DEF Return, TerminalInv, Lifecycle, Sent
  <2> QED BY <2>1 DEF Promise!Next, Promise!Answer, Returns
<1>6. ASSUME outcome # "panic", Close PROVE UNCHANGED Promise!vars
  <2>1. events = <<>> /\ events' = captured /\ captured' = <<>>
        /\ UNCHANGED <<mode, wire, outcome, poisoned>>
        /\ phase = "returned" /\ phase' = "closed"
    BY <1>6 DEF Close, Uncollected
  <2>2. captured \o <<>> = captured /\ <<>> \o captured = captured
    BY ConcatEmptySeq DEF TypeOK
  <2>3. UNCHANGED Sent
    BY <2>1, <2>2 DEF Sent
  <2> QED BY <2>1, <2>3, Stutters
<1>7. ASSUME outcome # "panic", PrintAnswer PROVE Promise!End
  <2>1. /\ phase = "built" /\ phase' = "printed"
        /\ UNCHANGED <<mode, outcome, stamp, poisoned, captured, events>>
        /\ WriteLine(Append(events, Terminal))
    BY <1>7 DEF PrintAnswer
  <2>2. outcome \in Returns
    BY <1>7, <2>1 DEF TerminalInv, Lifecycle, TypeOK
  <2>3. Terminal \in Item /\ Terminal.kind \in {"result", "error"} /\ Terminal' = Terminal
    BY <2>1, TerminalTyped DEF Terminal
  <2>4. <<Terminal>> \in Seq(Item) /\ <<>> \in Seq(Item)
    BY <2>3
  <2>5. PICK rest \in Seq(Item) :
          /\ Sent' = Sent \o rest
          /\ \/ rest = <<>>
             \/ rest = <<Terminal>>
             \/ rest = <<[Terminal EXCEPT !.kind = "partial"]>>
    <3>1. CASE mode = "inprocess"
      <4>1. Sent = captured \o events \o <<>> /\ Sent' = captured \o events \o <<Terminal>>
        BY <2>1, <2>3, <3>1 DEF Sent
      <4>2. captured \o events \in Seq(Item)
        BY ConcatProperties DEF TypeOK
      <4>3. captured \o events \o <<>> = captured \o events
        BY <4>2, ConcatEmptySeq
      <4> QED BY <2>4, <4>1, <4>3
    <3>2. CASE mode = "process"
      <4>1. WriteLine(<<Terminal>>)
        BY <2>1, <3>2 DEF TornInv
      <4>2. PICK rest \in Seq(Item) : wire' = wire \o rest /\ PartOf(rest, <<Terminal>>)
        BY <2>4, <4>1, WriteAppends
      <4>3. Len(rest) \in {0, 1}
        BY <4>2, LenProperties DEF PartOf
      <4>4. CASE Len(rest) = 0
        <5>1. rest = <<>>
          BY <4>4, EmptySeq
        <5> QED BY <2>1, <3>2, <4>2, <5>1 DEF Sent
      <4>5. CASE Len(rest) = 1
        <5>1. rest = <<rest[1]>>
          BY <4>5
        <5>2. rest[1] = Terminal \/ rest[1] = [Terminal EXCEPT !.kind = "partial"]
          BY <4>2, <4>5 DEF PartOf
        <5> QED BY <2>1, <3>2, <4>2, <5>1, <5>2 DEF Sent
      <4> QED BY <4>3, <4>4, <4>5
    <3> QED BY <3>1, <3>2 DEF TypeOK
  <2>6. KindsOf(rest) \in {<<>>, <<"partial">>, <<"result">>, <<"error">>}
    <3>1. ASSUME NEW line \in Item PROVE KindsOf(<<line>>) = <<line.kind>>
      BY DEF KindsOf
    <3>2. KindsOf(<<>>) = <<>>
      BY DEF KindsOf
    <3>3. /\ [Terminal EXCEPT !.kind = "partial"] \in Item
          /\ [Terminal EXCEPT !.kind = "partial"].kind = "partial"
      BY <2>3 DEF Item, Kinds
    <3> QED BY <2>3, <2>5, <3>1, <3>2, <3>3
  <2>7. PromiseOut' = PromiseOut \o KindsOf(rest)
    BY <1>7, <2>1, <2>5, OutGrows
  <2> QED
    BY <1>7, <2>1, <2>2, <2>6, <2>7
    DEF Promise!End, Promise!TornKind, Promise!AnswerKinds, PromiseOut, Returns
<1>8. ASSUME outcome # "panic", HookPrint PROVE FALSE
  BY <1>8 DEF HookPrint, TerminalInv, Lifecycle, TypeOK
<1>9. CASE Panic
  <2>1. outcome = "none" /\ outcome' = "panic" /\ phase = "running"
    BY <1>9 DEF Panic, TerminalInv, Lifecycle
  <2> QED BY <2>1 DEF Promise!Next, Promise!Abandon, Returns
<1> QED
  BY <1>1, <1>2, <1>3, <1>4, <1>5, <1>6, <1>7, <1>8, <1>9
     DEF Next, Emit, Framework, Settled, Promise!Next

(* A streaming run implements the safety part of NdjsonStream: its lines   *)
(* are events, at most one torn line that no event follows, and one        *)
(* terminal line that ends them, unless the handler panics.                *)
THEOREM ImplementsPromise == Spec => Promise!Init /\ [][Promise!Next]_(Promise!vars)
<1>1. TypeOK /\ TypeOK' /\ TerminalInv /\ ReaderInv /\ [Next]_vars
        => [Promise!Next]_(Promise!vars)
  BY StepPromise DEF ReaderInv
<1> QED BY <1>1, InitPromise, ReaderInvariant, PTL DEF Spec
=============================================================================
