--------------------------- MODULE TruncateProofs ---------------------------
(***************************************************************************)
(* What Truncate's runs check, for any number of calls, names and attempts *)
(* and any way two calls' names overlap. Held is the inductive heart: the  *)
(* directory keeps a call's file for it from its creation to its cleanup,  *)
(* because create_new takes only free names and a first cleanup removes    *)
(* only the file of its own call.                                          *)
(***************************************************************************)
EXTENDS Truncate, TLAPS

(* What a call has by the place it is at. *)
Progress ==
  \A c \in Calls :
    /\ pc[c] \in {"called", "naming"} => file[c] = None /\ wrote[c] = 0
    /\ pc[c] = "naming" => stem[c] \in Stems
    /\ pc[c] \in {"writing", "cut"} => file[c] # None
    /\ pc[c] = "cut" => wrote[c] = Total(c)
    /\ pc[c] # "cut" => cleaned[c] = 0

(* A call that writes, or whose result nobody cleaned up, has its file. *)
Held ==
  \A c \in Calls : pc[c] = "writing" \/ Live(c) =>
    \/ dir[file[c]] = c
    \/ \E d \in Calls \ {c} : file[d] = file[c] /\ cleaned[d] > 1

Inv == TypeOK /\ Progress /\ Held /\ OrphansComeFromFailure

LEMMA InitInv == Init => Inv
  BY RequestsAssumption, NameOfAssumption, NoneAssumption, SettingsAssumption
  DEF Init, Inv, TypeOK, Places, Progress, Held, Live, OrphansComeFromFailure, Total
-----------------------------------------------------------------------------
(* Every step keeps the types. *)
LEMMA NextTypeOK == TypeOK /\ Progress /\ [Next]_vars => TypeOK'
<1> SUFFICES ASSUME TypeOK, Progress, [Next]_vars PROVE TypeOK'
  OBVIOUS
<1> USE RequestsAssumption, NameOfAssumption, NoneAssumption, SettingsAssumption
<1>1. ASSUME NEW c \in Calls, Reject(c) \/ KeepAll(c) \/ GiveUp(c) \/ OpenFails(c) \/ Kill(c)
      PROVE TypeOK'
  BY <1>1 DEF TypeOK, Places, Reject, KeepAll, GiveUp, OpenFails, Kill, Goto, Total
<1>2. ASSUME NEW c \in Calls, ReadClock(c) PROVE TypeOK'
  BY <1>2 DEF TypeOK, Places, ReadClock, Goto, Total
<1>3. ASSUME NEW c \in Calls, Create(c) PROVE TypeOK'
  <2>1. Candidate(c) \in Names
    BY <1>3 DEF TypeOK, Progress, Create, Trying, Candidate, Tries
  <2> QED BY <1>3, <2>1 DEF TypeOK, Places, Create, Goto, Total
<1>4. ASSUME NEW c \in Calls, Taken(c) PROVE TypeOK'
  BY <1>4 DEF TypeOK, Taken, Trying, Total
<1>5. ASSUME NEW c \in Calls, Spill(c) PROVE TypeOK'
  BY <1>5 DEF TypeOK, Spill, Total
<1>6. ASSUME NEW c \in Calls, Flush(c) PROVE TypeOK'
  BY <1>6 DEF TypeOK, Places, Flush, Goto, Total
<1>7. ASSUME NEW c \in Calls, WriteFails(c) PROVE TypeOK'
  BY <1>7 DEF TypeOK, Places, WriteFails, Goto, Total
<1>8. ASSUME NEW c \in Calls, Cleanup(c) PROVE TypeOK'
  BY <1>8 DEF TypeOK, Cleanup, Total
<1>9. CASE UNCHANGED vars
  BY <1>9 DEF TypeOK, vars, Total
<1> QED
  BY <1>1, <1>2, <1>3, <1>4, <1>5, <1>6, <1>7, <1>8, <1>9 DEF Next, Advance

(* Every step keeps what a call has by its place. *)
LEMMA NextProgress == TypeOK /\ Progress /\ [Next]_vars => Progress'
<1> SUFFICES ASSUME TypeOK, Progress, [Next]_vars PROVE Progress'
  OBVIOUS
<1> USE RequestsAssumption, NameOfAssumption, NoneAssumption, SettingsAssumption
<1>1. ASSUME NEW c \in Calls, Reject(c) \/ KeepAll(c) \/ GiveUp(c) \/ OpenFails(c) \/ Kill(c)
      PROVE Progress'
  BY <1>1
  DEF TypeOK, Progress, Reject, KeepAll, GiveUp, OpenFails, Kill, Trying, Goto, Total
<1>2. ASSUME NEW c \in Calls, ReadClock(c) PROVE Progress'
  BY <1>2 DEF TypeOK, Progress, ReadClock, Goto, Total
<1>3. ASSUME NEW c \in Calls, Create(c) PROVE Progress'
  <2>1. Candidate(c) \in Names
    BY <1>3 DEF TypeOK, Progress, Create, Trying, Candidate, Tries
  <2> QED BY <1>3, <2>1 DEF TypeOK, Progress, Create, Trying, Goto, Total
<1>4. ASSUME NEW c \in Calls, Taken(c) PROVE Progress'
  BY <1>4 DEF TypeOK, Progress, Taken, Total
<1>5. ASSUME NEW c \in Calls, Spill(c) PROVE Progress'
  BY <1>5 DEF TypeOK, Progress, Spill, Total
<1>6. ASSUME NEW c \in Calls, Flush(c) PROVE Progress'
  BY <1>6 DEF TypeOK, Progress, Flush, Goto, Total
<1>7. ASSUME NEW c \in Calls, WriteFails(c) PROVE Progress'
  BY <1>7 DEF TypeOK, Progress, WriteFails, Goto, Total
<1>8. ASSUME NEW c \in Calls, Cleanup(c) PROVE Progress'
  BY <1>8 DEF TypeOK, Progress, Cleanup, Total
<1>9. CASE UNCHANGED vars
  BY <1>9 DEF Progress, vars, Total
<1> QED
  BY <1>1, <1>2, <1>3, <1>4, <1>5, <1>6, <1>7, <1>8, <1>9 DEF Next, Advance
-----------------------------------------------------------------------------
(* A step that leaves the directory, the names and the cleanups alone      *)
(* keeps both invariants of the directory if it moves no call from where   *)
(* it has no file to where it has one, nor from Live or writing to nowhere *)
(* but failure.                                                            *)
LEMMA QuietStep ==
  ASSUME TypeOK, NEW c \in Calls,
         UNCHANGED <<dir, file, cleaned>>,
         \/ UNCHANGED pc
         \/ \E there \in {"invalid", "whole", "naming", "exhausted", "failed", "killed"} :
              pc[c] \in {"called", "naming"} /\ Goto(c, there)
         \/ \E there \in {"cut", "failed", "killed"} : pc[c] = "writing" /\ Goto(c, there)
  PROVE  /\ Held => Held'
         /\ Progress /\ OrphansComeFromFailure => OrphansComeFromFailure'
<1>1. Held => Held'
  BY DEF TypeOK, Held, Live, Goto
<1>2. ASSUME Progress, OrphansComeFromFailure PROVE OrphansComeFromFailure'
  BY <1>2, NoneAssumption, SettingsAssumption DEF TypeOK, Progress, OrphansComeFromFailure, Live, Goto
<1> QED BY <1>1, <1>2

(* Where the temp directory's path is UTF-8, every step keeps Held and     *)
(* lets no other file lose its call.                                       *)
LEMMA NextDirectory ==
  ASSUME Utf8TempDir
  PROVE  Inv /\ [Next]_vars => Held' /\ OrphansComeFromFailure'
<1> SUFFICES ASSUME Inv, [Next]_vars PROVE Held' /\ OrphansComeFromFailure'
  OBVIOUS
<1> USE DEF Inv
<1>1. ASSUME NEW c \in Calls,
             \/ Reject(c) \/ KeepAll(c) \/ ReadClock(c) \/ GiveUp(c) \/ OpenFails(c)
             \/ Taken(c) \/ Spill(c) \/ Flush(c) \/ WriteFails(c) \/ Kill(c)
      PROVE Held' /\ OrphansComeFromFailure'
  BY <1>1, QuietStep
  DEF Reject, KeepAll, ReadClock, GiveUp, OpenFails, Taken, Spill, Flush, WriteFails,
      Kill, Trying
<1>2. ASSUME NEW c \in Calls, Create(c) PROVE Held' /\ OrphansComeFromFailure'
  <2>1. Candidate(c) \in Names /\ file[c] = None
    BY <1>2, NameOfAssumption DEF TypeOK, Progress, Create, Trying, Candidate, Tries
  <2>2. Held'
    <3> SUFFICES ASSUME NEW e \in Calls, (pc[e] = "writing" \/ Live(e))'
                 PROVE  \/ (dir[file[e]] = e)'
                        \/ \E d \in Calls \ {e} : (file[d] = file[e] /\ cleaned[d] > 1)'
      BY DEF Held
    <3>1. CASE e = c
      BY <1>2, <2>1, <3>1 DEF TypeOK, Create
    <3>2. CASE e # c /\ dir[file[e]] = e
      BY <1>2, <2>1, <3>2, NoneAssumption DEF TypeOK, Create, Goto, Live, Progress
    <3>3. CASE e # c /\ \E d \in Calls \ {e} : file[d] = file[e] /\ cleaned[d] > 1
      <4>1. PICK d \in Calls \ {e} : file[d] = file[e] /\ cleaned[d] > 1
        BY <3>3
      <4>2. d # c
        BY <1>2, <4>1 DEF Create, Trying, Progress
      <4> QED BY <1>2, <3>3, <4>1, <4>2 DEF TypeOK, Create
    <3> QED
      BY <1>2, <3>1, <3>2, <3>3 DEF Held, Live, Create, Goto, TypeOK
  <2>3. OrphansComeFromFailure'
    BY <1>2, <2>1, NoneAssumption
    DEF TypeOK, OrphansComeFromFailure, Create, Trying, Goto, Live
  <2> QED BY <2>2, <2>3
<1>3. ASSUME NEW c \in Calls, Cleanup(c) PROVE Held' /\ OrphansComeFromFailure'
  <2>1. file[c] \in Names /\ Shown(c) = file[c]
    BY <1>3, SettingsAssumption DEF TypeOK, Progress, Cleanup, Shown
  <2>2. Held'
    <3> SUFFICES ASSUME NEW e \in Calls, (pc[e] = "writing" \/ Live(e))'
                 PROVE  \/ (dir[file[e]] = e)'
                        \/ \E d \in Calls \ {e} : (file[d] = file[e] /\ cleaned[d] > 1)'
      BY DEF Held
    <3>1. e # c /\ (pc[e] = "writing" \/ Live(e)) /\ file[e] \in Names
      BY <1>3 DEF TypeOK, Progress, Cleanup, Live
    <3>2. CASE dir[file[e]] = e /\ file[e] # file[c]
      BY <1>3, <2>1, <3>1, <3>2 DEF TypeOK, Cleanup
    <3>3. CASE dir[file[e]] = e /\ file[e] = file[c]
      <4>1. CASE cleaned[c] = 0
        <5>1. PICK d \in Calls \ {c} : file[d] = file[c] /\ cleaned[d] > 1
          BY <1>3, <3>1, <3>3, <4>1 DEF Held, Live, Cleanup
        <5>2. d # e
          BY <3>1, <5>1 DEF Progress, Live
        <5> QED BY <1>3, <3>3, <5>1, <5>2 DEF TypeOK, Cleanup
      <4>2. CASE cleaned[c] > 0
        <5>1. cleaned'[c] > 1
          BY <1>3, <4>2, SettingsAssumption DEF TypeOK, Cleanup
        <5> QED BY <1>3, <3>1, <3>3, <5>1 DEF TypeOK, Cleanup
      <4> QED BY <4>1, <4>2, SettingsAssumption DEF TypeOK
    <3>4. CASE \E d \in Calls \ {e} : file[d] = file[e] /\ cleaned[d] > 1
      BY <1>3, <3>4, SettingsAssumption DEF TypeOK, Cleanup
    <3> QED BY <3>1, <3>2, <3>3, <3>4 DEF Held
  <2>3. OrphansComeFromFailure'
    BY <1>3, <2>1, NoneAssumption, SettingsAssumption
    DEF TypeOK, OrphansComeFromFailure, Cleanup, Live
  <2> QED BY <2>2, <2>3
<1>4. CASE UNCHANGED vars
  BY <1>4 DEF vars, Held, OrphansComeFromFailure, Live
<1> QED
  BY <1>1, <1>2, <1>3, <1>4 DEF Next, Advance
-----------------------------------------------------------------------------
(* What a call did with its lines: it kept all of them only where they fit,*)
(* and named a file only where they do not.                                *)
Sized ==
  \A c \in Calls :
    /\ pc[c] = "whole" => Fits(c)
    /\ pc[c] \in {"naming", "writing", "cut"} => ~Fits(c)

LEMMA NextSized == TypeOK /\ Sized /\ [Next]_vars => Sized'
<1> SUFFICES ASSUME TypeOK, Sized, [Next]_vars PROVE Sized'
  OBVIOUS
<1> USE DEF TypeOK, Sized, Fits, Total
<1>1. ASSUME NEW c \in Calls,
             \/ Reject(c) \/ KeepAll(c) \/ ReadClock(c) \/ GiveUp(c) \/ OpenFails(c) \/ Kill(c)
      PROVE Sized'
  BY <1>1 DEF Reject, KeepAll, ReadClock, GiveUp, OpenFails, Kill, Trying, Goto
<1>2. ASSUME NEW c \in Calls,
             Create(c) \/ Taken(c) \/ Spill(c) \/ Flush(c) \/ WriteFails(c) \/ Cleanup(c)
      PROVE Sized'
  BY <1>2 DEF Create, Taken, Spill, Flush, WriteFails, Cleanup, Trying, Goto
<1>3. CASE UNCHANGED vars
  BY <1>3 DEF vars
<1> QED BY <1>1, <1>2, <1>3 DEF Next, Advance

(* Wherever a call kept or cut its lines by their number, what it returns  *)
(* has a shape its reader accepts.                                         *)
LEMMA SizedDecodes == TypeOK /\ Sized => ResultDecodes
<1> SUFFICES ASSUME TypeOK, Sized, NEW c \in Calls, pc[c] \in {"cut", "whole"}
             PROVE  Decodes(Result(c))
  BY DEF ResultDecodes
<1>1. Total(c) \in Nat /\ given[c].max \in Nat
  BY RequestsAssumption DEF TypeOK, Total
<1> DEFINE r == Result(c)
<1>2. CASE pc[c] = "whole"
  <2>1. r.lines = Total(c) /\ r.total = Total(c) /\ r.from = Total(c) - Total(c) + 1
        /\ r.dropped = Total(c) - Total(c)
    BY <1>2 DEF Result
  <2>2. ~r.truncated /\ ~r.pointed
    BY <1>2 DEF Result
  <2>3. /\ r.lines = r.total - r.from + 1
        /\ r.total >= r.lines /\ r.dropped = r.total - r.lines
        /\ ~(r.dropped > 0)
    BY <1>1, <2>1
  <2> QED BY <2>2, <2>3, Zenon DEF Decodes
<1>3. CASE pc[c] = "cut"
  <2>1. Total(c) > given[c].max
    BY <1>1, <1>3 DEF Sized, Fits
  <2>2. Min2(Total(c), given[c].max) = given[c].max
    BY <1>1, <2>1 DEF Min2
  <2>3. r.lines = given[c].max /\ r.total = Total(c)
        /\ r.from = Total(c) - given[c].max + 1 /\ r.dropped = Total(c) - given[c].max
    BY <1>3, <2>2 DEF Result
  <2>4. r.truncated /\ r.pointed
    BY <1>3 DEF Result
  <2>5. /\ r.lines = r.total - r.from + 1
        /\ r.total >= r.lines /\ r.dropped = r.total - r.lines
        /\ r.dropped > 0
    BY <1>1, <2>1, <2>3
  <2> QED BY <2>4, <2>5, Zenon DEF Decodes
<1> QED BY <1>2, <1>3
-----------------------------------------------------------------------------
(* A file in the directory is the one its call created. *)
Owned == \A n \in Names : \A c \in Calls : dir[n] = c => file[c] = n

(* Every name a call gave up was given to another call. *)
Rivals ==
  \A c \in Calls :
    /\ pc[c] = "called" => attempt[c] = 0
    /\ pc[c] = "exhausted" => attempt[c] = Attempts
    /\ pc[c] \in {"naming", "exhausted"} =>
         /\ stem[c] \in Stems
         /\ \A a \in Tries : a < attempt[c] => \E d \in Calls \ {c} : file[d] = NameOf[stem[c]][a]

(* A step that gives no call a file and no call an attempt keeps the rivals*)
(* of every call it does not bring to the naming loop.                     *)
LEMMA StillRivals ==
  ASSUME TypeOK, Rivals, UNCHANGED <<file, attempt, stem>>,
         \A c \in Calls : pc'[c] \in {"called", "naming", "exhausted"} =>
           \/ pc'[c] = pc[c]
           \/ pc'[c] = "exhausted" /\ pc[c] = "naming" /\ attempt[c] = Attempts
  PROVE  Rivals'
  BY DEF Rivals

LEMMA NextRivals ==
  TypeOK /\ Progress /\ Owned /\ Rivals /\ [Next]_vars => Owned' /\ Rivals'
<1> SUFFICES ASSUME TypeOK, Progress, Owned, Rivals, [Next]_vars PROVE Owned' /\ Rivals'
  OBVIOUS
<1> USE NameOfAssumption, NoneAssumption
<1>1. ASSUME NEW c \in Calls,
             \/ Reject(c) \/ KeepAll(c) \/ GiveUp(c) \/ OpenFails(c)
             \/ Spill(c) \/ Flush(c) \/ WriteFails(c) \/ Kill(c)
      PROVE Owned' /\ Rivals'
  <2>1. UNCHANGED <<file, attempt, stem, dir>>
    BY <1>1 DEF Reject, KeepAll, GiveUp, OpenFails, Spill, Flush, WriteFails, Kill
  <2>2. \A e \in Calls : pc'[e] \in {"called", "naming", "exhausted"} =>
           \/ pc'[e] = pc[e]
           \/ pc'[e] = "exhausted" /\ pc[e] = "naming" /\ attempt[e] = Attempts
    BY <1>1
    DEF TypeOK, Goto, Reject, KeepAll, GiveUp, OpenFails, Spill, Flush, WriteFails, Kill
  <2> QED BY <2>1, <2>2, StillRivals DEF Owned
<1>2. ASSUME NEW c \in Calls, ReadClock(c) PROVE Owned' /\ Rivals'
  <2>1. \A e \in Calls \ {c} : pc'[e] = pc[e] /\ stem'[e] = stem[e]
    BY <1>2 DEF TypeOK, ReadClock, Goto
  <2>2. stem'[c] \in Stems /\ pc'[c] = "naming" /\ attempt'[c] = 0
    BY <1>2 DEF TypeOK, Rivals, ReadClock, Goto
  <2>3. UNCHANGED <<file, attempt, dir>>
    BY <1>2 DEF ReadClock
  <2> QED BY <2>1, <2>2, <2>3 DEF Owned, Rivals, Tries
<1>3. ASSUME NEW c \in Calls, Create(c) PROVE Owned' /\ Rivals'
  <2>1. Candidate(c) \in Names /\ file[c] = None
    BY <1>3 DEF TypeOK, Progress, Create, Trying, Candidate, Tries
  <2>2. Owned'
    BY <1>3, <2>1 DEF TypeOK, Owned, Create
  <2>3. ASSUME NEW e \in Calls, pc'[e] \in {"naming", "exhausted"},
               NEW a \in Tries, a < attempt[e]
        PROVE  \E d \in Calls \ {e} : file'[d] = NameOf[stem[e]][a]
    <3>1. e # c /\ pc[e] \in {"naming", "exhausted"}
      BY <1>3, <2>3 DEF TypeOK, Create, Goto
    <3>2. PICK d \in Calls \ {e} : file[d] = NameOf[stem[e]][a]
      BY <2>3, <3>1 DEF Rivals
    <3>3. NameOf[stem[e]][a] \in Names
      BY <2>3, <3>1 DEF Rivals
    <3>4. d # c
      BY <2>1, <3>2, <3>3
    <3> QED BY <1>3, <3>2, <3>4 DEF TypeOK, Create
  <2>4. Rivals'
    BY <1>3, <2>3 DEF TypeOK, Rivals, Create, Goto
  <2> QED BY <2>2, <2>4
<1>4. ASSUME NEW c \in Calls, Taken(c) PROVE Owned' /\ Rivals'
  <2>1. Candidate(c) \in Names /\ file[c] = None /\ attempt[c] \in Tries
    BY <1>4 DEF TypeOK, Progress, Taken, Trying, Candidate, Tries
  <2>2. dir[Candidate(c)] \in Calls
    BY <1>4, <2>1 DEF TypeOK, Taken
  <2>3. \E d \in Calls \ {c} : file[d] = NameOf[stem[c]][attempt[c]]
    BY <2>1, <2>2 DEF Owned, Candidate
  <2>4. \A a \in Tries : a < attempt[c] + 1 => a < attempt[c] \/ a = attempt[c]
    BY <2>1 DEF Tries
  <2>5. ASSUME NEW a \in Tries, a < attempt'[c]
        PROVE  \E d \in Calls \ {c} : file[d] = NameOf[stem[c]][a]
    BY <1>4, <2>3, <2>4, <2>5 DEF TypeOK, Rivals, Taken, Trying
  <2>6. \A e \in Calls \ {c} : attempt'[e] = attempt[e]
    BY <1>4 DEF TypeOK, Taken
  <2>7. pc[c] = "naming" /\ UNCHANGED <<pc, stem, file, dir>>
    BY <1>4 DEF Taken, Trying
  <2> QED BY <2>5, <2>6, <2>7 DEF Owned, Rivals
<1>5. ASSUME NEW c \in Calls, Cleanup(c) PROVE Owned' /\ Rivals'
  <2>1. Owned'
    BY <1>5 DEF TypeOK, Owned, Cleanup
  <2>2. UNCHANGED <<pc, stem, attempt, file>>
    BY <1>5 DEF Cleanup
  <2> QED BY <2>1, <2>2 DEF Rivals
<1>6. CASE UNCHANGED vars
  BY <1>6 DEF vars, Owned, Rivals
<1> QED
  BY <1>1, <1>2, <1>3, <1>4, <1>5, <1>6 DEF Next, Advance
-----------------------------------------------------------------------------
(* Truncate's variables keep their types, wherever the temp directory is:  *)
(* no file holds more lines than its call has, and the loop ends.          *)
THEOREM TypeCorrect == Spec => []TypeOK
<1>1. Init => TypeOK /\ Progress
  BY InitInv DEF Inv
<1>2. TypeOK /\ Progress /\ [Next]_vars => (TypeOK /\ Progress)'
  BY NextTypeOK, NextProgress
<1> QED BY <1>1, <1>2, PTL DEF Spec

(* Where the temp directory's path is UTF-8, Inv is an invariant.          *)
LEMMA Invariance == ASSUME Utf8TempDir PROVE Spec => []Inv
<1>1. Inv /\ [Next]_vars => Inv'
  BY NextTypeOK, NextProgress, NextDirectory DEF Inv
<1> QED BY <1>1, InitInv, PTL DEF Spec

(* A result's file holds all its lines until it is cleaned up, unless      *)
(* another result of the same path was cleaned up twice.                   *)
THEOREM FullOutputIsSafe ==
  ASSUME Utf8TempDir PROVE Spec => []LostOnlyToSecondCleanup
<1>1. Inv => LostOnlyToSecondCleanup
  BY SettingsAssumption
  DEF Inv, TypeOK, Progress, Held, LostOnlyToSecondCleanup, Holds, Live, Shown
<1> QED BY <1>1, Invariance, PTL

(* Only a call that failed or was killed while it wrote leaves a file that *)
(* no result points at.                                                    *)
THEOREM OrphansAreFailures ==
  ASSUME Utf8TempDir PROVE Spec => []OrphansComeFromFailure
<1>1. Inv => OrphansComeFromFailure
  BY DEF Inv
<1> QED BY <1>1, Invariance, PTL
(* A TruncatedEntries always decodes: its counts, its first line's number  *)
(* and its pointer agree at every total and every limit.                   *)
THEOREM ResultsDecode == Spec => []ResultDecodes
<1>1. Init => TypeOK /\ Progress /\ Sized
  BY InitInv DEF Inv, Init, Sized
<1>2. TypeOK /\ Progress /\ Sized /\ [Next]_vars => (TypeOK /\ Progress /\ Sized)'
  BY NextTypeOK, NextProgress, NextSized
<1> QED BY <1>1, <1>2, SizedDecodes, PTL DEF Spec

(* AlreadyExists means that every one of the call's names was another      *)
(* call's, wherever the temp directory is and whatever was cleaned up.     *)
THEOREM OnlyRivalsExhaust == Spec => []ExhaustedByRivals
<1> DEFINE I == TypeOK /\ Progress /\ Owned /\ Rivals
<1>1. Init => I
  BY InitInv, NoneAssumption DEF Inv, Init, Owned, Rivals
<1>2. I /\ [Next]_vars => I'
  BY NextTypeOK, NextProgress, NextRivals
<1>3. I => ExhaustedByRivals
  BY NameOfAssumption DEF Rivals, ExhaustedByRivals, Tries
<1> QED BY <1>1, <1>2, <1>3, PTL DEF Spec
=============================================================================
