-------------------------- MODULE PanicHookProofs --------------------------
(***************************************************************************)
(* Proofs about PanicHook, for any number of threads, handlers and tasks,  *)
(* and polls nested as deep as MaxDepth allows.                            *)
(*                                                                         *)
(* The stacks of the threads change in two ways only, a push and a Leave,  *)
(* so each part of the invariant is carried through these two, and through *)
(* the steps that keep the stacks.                                         *)
(***************************************************************************)
EXTENDS PanicHook, SequenceTheorems, TLAPS

(* mark is the innermost handler of run_env among the first n frames. *)
MarkedUpTo(frames, n, mark) ==
  \/ mark = NoRun /\ \A j \in 1..n : frames[j].of \notin Guarded
  \/ \E i \in 1..n :
       /\ frames[i].of = mark /\ mark \in Guarded
       /\ \A j \in (i + 1)..n : frames[j].of \notin Guarded

InReading(frames, n) == \E i \in 1..n : frames[i].of = Clock

Marks ==
  \A t \in Threads :
    /\ MarkedUpTo(stack[t], Len(stack[t]), active[t])
    /\ \A n \in 1..Len(stack[t]) : MarkedUpTo(stack[t], n - 1, stack[t][n].mark)

Reads ==
  \A t \in Threads :
    /\ reading[t] <=> InReading(stack[t], Len(stack[t]))
    /\ \A n \in 1..Len(stack[t]) : stack[t][n].read <=> InReading(stack[t], n - 1)

(* A future is polled by one thread at a time, in one frame. *)
Polled ==
  /\ \A t \in Threads : \A i \in 1..Len(stack[t]) :
       stack[t][i].of # Clock => future[stack[t][i].of] = "polled"
  /\ \A t, u \in Threads : \A i \in 1..Len(stack[t]), j \in 1..Len(stack[u]) :
       stack[t][i].of # Clock /\ stack[t][i].of = stack[u][j].of => t = u /\ i = j

(* Where the hook is, there is a frame that panicked, and a mark if it     *)
(* found one.                                                              *)
Hooked ==
  \A t \in Threads :
    /\ hook[t] # "none" => stack[t] # <<>>
    /\ hook[t] \in {"marked", "stamped", "written"} => active[t] # NoRun

(* A thread that wrote an envelope does nothing else until the exit. *)
Wrote ==
  /\ \A i \in 1..Len(written) :
       /\ hook[written[i].by] = "written"
       /\ written[i].run = active[written[i].by]
       /\ written[i].in = stack[written[i].by]
  /\ \A i, j \in 1..Len(written) : written[i].by = written[j].by => i = j

(* A task is at the bottom of its thread unless it is polled locally. *)
TasksBelow ==
  LocalTasks \/ \A t \in Threads : \A i \in 1..Len(stack[t]) : stack[t][i].of \in Tasks => i = 1

Inv == TypeOK /\ Marks /\ Reads /\ Polled /\ Hooked /\ Wrote /\ TasksBelow

-----------------------------------------------------------------------------
(* The two ways a stack changes.                                           *)

LEMMA PushFacts ==
  ASSUME NEW frames \in Seq(Frame), NEW frame \in Frame
  PROVE  /\ Append(frames, frame) \in Seq(Frame)
         /\ Len(Append(frames, frame)) = Len(frames) + 1 /\ Len(frames) \in Nat
         /\ \A i \in 1..Len(frames) : Append(frames, frame)[i] = frames[i]
         /\ Append(frames, frame)[Len(frames) + 1] = frame
         /\ Append(frames, frame) # <<>>
  BY AppendProperties, LenProperties

LEMMA BelowFacts ==
  ASSUME NEW frames \in Seq(Frame), frames # <<>>
  PROVE  /\ Below(frames) \in Seq(Frame)
         /\ Len(Below(frames)) = Len(frames) - 1 /\ Len(frames) \in Nat \ {0}
         /\ \A i \in 1..(Len(frames) - 1) : Below(frames)[i] = frames[i]
         /\ \A i \in 1..Len(frames) : frames[i] \in Frame
         /\ Top(frames) = frames[Len(frames)] /\ Top(frames) \in Frame
<1>1. Len(frames) \in Nat /\ Len(frames) # 0
  BY EmptySeq, LenProperties
<1>2. Len(frames) - 1 \in 0..Len(frames) /\ 1 \in 1..(Len(frames) + 1)
  BY <1>1, SMT
<1>3. \A i \in 1..Len(frames) : frames[i] \in Frame
  BY ElementOfSeq
<1>4. /\ Below(frames) \in Seq(Frame)
      /\ Len(Below(frames)) = Len(frames) - 1
      /\ \A i \in 1..(Len(frames) - 1) : Below(frames)[i] = frames[i]
  <2>1. Len(frames) - 1 \in Int /\ 1 \in Int
    BY <1>1
  <2>2. \A i \in 1..(Len(frames) - 1) : frames[i] \in Frame
    BY <1>1, <1>3
  <2> DEFINE last == Len(frames) - 1
  <2>3. /\ SubSeq(frames, 1, last) \in Seq(Frame)
        /\ Len(SubSeq(frames, 1, last)) = IF 1 <= last THEN last - 1 + 1 ELSE 0
        /\ \A i \in 1..(last - 1 + 1) : SubSeq(frames, 1, last)[i] = frames[1 + i - 1]
    <3> HIDE DEF last
    <3> QED BY <2>1, <2>2, SubSeqProperties DEF last
  <2>4. last - 1 + 1 = last /\ \A i \in 1..last : 1 + i - 1 = i
    BY <1>1
  <2>5. Len(SubSeq(frames, 1, last)) = last
    <3>1. last \in Nat
      BY <1>1
    <3> HIDE DEF last
    <3>2. CASE 1 <= last
      BY <2>3, <2>4, <3>2
    <3>3. CASE last = 0
      BY <2>3, <3>3
    <3>4. QED BY <3>1, <3>2, <3>3
  <2>6. \A i \in 1..last : SubSeq(frames, 1, last)[i] = frames[i]
    BY <2>3, <2>4
  <2>7. QED BY <2>3, <2>5, <2>6 DEF Below
<1>5. QED BY <1>1, <1>3, <1>4 DEF Top

(* A stack is marked alike by another that has the same first frames. *)
LEMMA SameFrames ==
  ASSUME NEW n \in Nat, NEW mark, NEW old, NEW new,
         \A i \in 1..n : new[i] = old[i]
  PROVE  /\ MarkedUpTo(new, n, mark) <=> MarkedUpTo(old, n, mark)
         /\ InReading(new, n) <=> InReading(old, n)
<1>1. \A i \in 1..n : \A j \in (i + 1)..n : j \in 1..n
  OBVIOUS
<1>2. QED BY <1>1 DEF MarkedUpTo, InReading

(* One frame more, and one frame less. *)
LEMMA OneMoreFrame ==
  ASSUME NEW n \in Nat, NEW mark, NEW frames
  PROVE  /\ frames[n + 1].of \in Guarded
              => MarkedUpTo(frames, n + 1, frames[n + 1].of)
         /\ frames[n + 1].of \notin Guarded
              => (MarkedUpTo(frames, n + 1, mark) <=> MarkedUpTo(frames, n, mark))
         /\ InReading(frames, n + 1) <=> (frames[n + 1].of = Clock \/ InReading(frames, n))
<1>1. \A i : i \in 1..(n + 1) <=> (i \in 1..n \/ i = n + 1)
  OBVIOUS
<1>2. \A i \in 1..n : \A j : j \in (i + 1)..(n + 1) <=> (j \in (i + 1)..n \/ j = n + 1)
  OBVIOUS
<1>3. (n + 1 + 1)..(n + 1) = {}
  OBVIOUS
<1>4. ASSUME frames[n + 1].of \in Guarded
      PROVE  MarkedUpTo(frames, n + 1, frames[n + 1].of)
  BY <1>1, <1>3, <1>4 DEF MarkedUpTo
<1>5. ASSUME frames[n + 1].of \notin Guarded
      PROVE  MarkedUpTo(frames, n + 1, mark) <=> MarkedUpTo(frames, n, mark)
  BY <1>1, <1>2, <1>5 DEF MarkedUpTo
<1>6. QED BY <1>1, <1>4, <1>5 DEF InReading

-----------------------------------------------------------------------------
LEMMA FrameOf ==
  ASSUME Inv
  PROVE  \A u \in Threads : \A i \in 1..Len(stack[u]) :
           stack[u][i] \in Frame /\ stack[u][i].of \in Futures \cup {Clock}
<1>1. \A u \in Threads : stack[u] \in Seq(Frame)
  BY DEF Inv, TypeOK
<1>2. \A u \in Threads : \A i \in 1..Len(stack[u]) : stack[u][i] \in Frame
  BY <1>1, ElementOfSeq
<1>3. \A frame \in Frame : frame.of \in Futures \cup {Clock}
  BY DEF Frame
<1>4. QED BY <1>2, <1>3

(* A push keeps what the stacks say: Poll of a pending future, and the     *)
(* reading of the clock.                                                   *)

LEMMA PushKeeps ==
  ASSUME Inv, NEW t \in Threads, NEW f \in Futures \cup {Clock}, Push(t, f),
         active' = [active EXCEPT ![t] = IF f \in Guarded THEN f ELSE @],
         reading' = [reading EXCEPT ![t] = IF f = Clock THEN TRUE ELSE @],
         f # Clock => future[f] = "pending" /\ future' = [future EXCEPT ![f] = "polled"],
         f = Clock => future' = future,
         f \in Tasks /\ ~LocalTasks => stack[t] = <<>>
  PROVE  Marks' /\ Reads' /\ Polled' /\ TasksBelow'
<1> DEFINE F == stack[t]
           G == stack'[t]
           n == Len(F)
           frame == [of |-> f, mark |-> active[t], read |-> reading[t]]
<1>1. F \in Seq(Frame) /\ frame \in Frame
  BY DEF Inv, TypeOK, Frame
<1>2. G = Append(F, frame) /\ \A u \in Threads : u # t => stack'[u] = stack[u]
  BY DEF Push, Inv, TypeOK
<1>3. /\ n \in Nat /\ Len(G) = n + 1 /\ G[n + 1] = frame
      /\ \A i \in 1..n : G[i] = F[i]
  BY <1>1, <1>2, PushFacts
<1>4. /\ active'[t] = IF f \in Guarded THEN f ELSE active[t]
      /\ reading'[t] = IF f = Clock THEN TRUE ELSE reading[t]
      /\ \A u \in Threads : u # t => active'[u] = active[u] /\ reading'[u] = reading[u]
  BY DEF Inv, TypeOK
<1>5. \A m \in 1..Len(G) : m = n + 1 \/ m \in 1..n
  BY <1>3
<1>6. ASSUME NEW m \in 0..n, NEW mark
      PROVE  /\ MarkedUpTo(G, m, mark) <=> MarkedUpTo(F, m, mark)
             /\ InReading(G, m) <=> InReading(F, m)
  <2>1. m \in Nat /\ \A i \in 1..m : G[i] = F[i]
    BY <1>3
  <2>2. QED BY <2>1, SameFrames
<1>7. n \in 0..n /\ \A m \in 1..n : m - 1 \in 0..n
  BY <1>3
<1>8. Marks'
  <2>1. MarkedUpTo(G, n, active[t])
    BY <1>6, <1>7 DEF Inv, Marks
  <2>2. MarkedUpTo(G, n + 1, active'[t])
    BY <1>3, <1>4, <2>1, OneMoreFrame
  <2>3. \A m \in 1..n : MarkedUpTo(G, m - 1, G[m].mark)
    BY <1>3, <1>6, <1>7 DEF Inv, Marks
  <2>4. n + 1 - 1 = n
    BY <1>3
  <2>5. \A m \in 1..Len(G) : MarkedUpTo(G, m - 1, G[m].mark)
    BY <1>3, <1>5, <2>1, <2>3, <2>4
  <2>6. MarkedUpTo(G, Len(G), active'[t])
    BY <1>3, <2>2
  <2>7. ASSUME NEW u \in Threads
        PROVE  /\ MarkedUpTo(stack'[u], Len(stack'[u]), active'[u])
               /\ \A m \in 1..Len(stack'[u]) : MarkedUpTo(stack'[u], m - 1, stack'[u][m].mark)
    <3>1. CASE u = t
      BY <3>1, <2>5, <2>6
    <3>2. CASE u # t
      BY <3>2, <1>2, <1>4 DEF Inv, Marks
    <3>3. QED BY <3>1, <3>2
  <2>8. QED BY <2>7 DEF Marks, MarkedUpTo
<1>9. Reads'
  <2>1. InReading(G, n) <=> reading[t]
    BY <1>6, <1>7 DEF Inv, Reads
  <2>2. InReading(G, n + 1) <=> reading'[t]
    <3>1. InReading(G, n + 1) <=> (f = Clock \/ InReading(G, n))
      <4>1. G[n + 1].of = f
        BY <1>3
      <4>2. InReading(G, n + 1) <=> (G[n + 1].of = Clock \/ InReading(G, n))
        BY <1>3, OneMoreFrame
      <4>3. QED BY <4>1, <4>2
    <3>2. CASE f = Clock
      BY <1>4, <3>1, <3>2
    <3>3. CASE f # Clock
      BY <1>4, <2>1, <3>1, <3>3
    <3>4. QED BY <3>2, <3>3
  <2>3. \A m \in 1..n : G[m].read <=> InReading(G, m - 1)
    BY <1>3, <1>6, <1>7 DEF Inv, Reads
  <2>4. n + 1 - 1 = n
    BY <1>3
  <2>5. \A m \in 1..Len(G) : G[m].read <=> InReading(G, m - 1)
    BY <1>3, <1>5, <2>1, <2>3, <2>4
  <2>6. reading'[t] <=> InReading(G, Len(G))
    BY <1>3, <2>2
  <2>7. ASSUME NEW u \in Threads
        PROVE  /\ reading'[u] <=> InReading(stack'[u], Len(stack'[u]))
               /\ \A m \in 1..Len(stack'[u]) : stack'[u][m].read <=> InReading(stack'[u], m - 1)
    <3>1. CASE u = t
      BY <3>1, <2>5, <2>6
    <3>2. CASE u # t
      BY <3>2, <1>2, <1>4 DEF Inv, Reads
    <3>3. QED BY <3>1, <3>2
  <2>8. QED BY <2>7 DEF Reads, InReading
<1>10. Polled'
  <2>1. \A g \in Futures : future[g] = "polled" => future'[g] = "polled" /\ g # f
    BY FuturesAssumption DEF Inv, TypeOK
  <2> \A u \in Threads : \A i \in 1..Len(stack[u]) :
        stack[u][i].of # Clock => stack[u][i].of \in Futures
    BY FrameOf
  <2>2. ASSUME NEW u \in Threads, NEW i \in 1..Len(stack'[u]), ~(u = t /\ i = n + 1)
        PROVE  stack'[u][i] = stack[u][i] /\ i \in 1..Len(stack[u])
    BY <1>2, <1>3, <1>5, <2>2
  <2>3. f # Clock => future'[f] = "polled"
    BY DEF Inv, TypeOK
  <2>4. ASSUME NEW u \in Threads, NEW i \in 1..Len(stack'[u]), stack'[u][i].of # Clock
        PROVE  future'[stack'[u][i].of] = "polled"
    BY <1>3, <2>1, <2>2, <2>3, <2>4 DEF Inv, Polled
  <2>5. ASSUME NEW u \in Threads, NEW i \in 1..Len(stack'[u]), stack'[u][i].of # Clock,
               ~(u = t /\ i = n + 1)
        PROVE  stack'[u][i].of # f
    BY <2>1, <2>2, <2>5 DEF Inv, Polled
  <2>6. ASSUME NEW u \in Threads, NEW v \in Threads,
               NEW i \in 1..Len(stack'[u]), NEW j \in 1..Len(stack'[v]),
               stack'[u][i].of # Clock, stack'[u][i].of = stack'[v][j].of
        PROVE  u = v /\ i = j
    <3> stack'[t][n + 1].of = f
      BY <1>3
    <3>1. CASE u = t /\ i = n + 1
      <4>1. stack'[v][j].of = f /\ stack'[v][j].of # Clock
        BY <2>6, <3>1
      <4>2. QED BY <2>5, <3>1, <4>1
    <3>2. CASE v = t /\ j = n + 1
      <4>1. stack'[u][i].of = f /\ stack'[u][i].of # Clock
        BY <2>6, <3>2
      <4>2. QED BY <2>5, <3>2, <4>1
    <3>3. CASE ~(u = t /\ i = n + 1) /\ ~(v = t /\ j = n + 1)
      BY <2>2, <2>6, <3>3 DEF Inv, Polled
    <3>4. QED BY <3>1, <3>2, <3>3
  <2>7. QED BY <2>4, <2>6 DEF Polled
<1>11. TasksBelow'
  <2>1. CASE LocalTasks
    BY <2>1 DEF TasksBelow
  <2>2. CASE ~LocalTasks
    <3>1. f \in Tasks => n = 0
      BY <2>2, EmptySeq
    <3>2. ASSUME NEW u \in Threads, NEW i \in 1..Len(stack'[u]), stack'[u][i].of \in Tasks
          PROVE  i = 1
      <4>1. CASE u = t /\ i = n + 1
        BY <1>3, <3>1, <3>2, <4>1
      <4>2. CASE u = t /\ i # n + 1
        BY <1>3, <1>5, <2>2, <3>2, <4>2 DEF Inv, TasksBelow
      <4>3. CASE u # t
        BY <1>2, <2>2, <3>2, <4>3 DEF Inv, TasksBelow
      <4>4. QED BY <4>1, <4>2, <4>3
    <3>3. QED BY <3>2 DEF TasksBelow
  <2>3. QED BY <2>1, <2>2
<1>12. QED BY <1>8, <1>9, <1>10, <1>11

(* So does Leave, whatever becomes of the future it leaves. *)
LEMMA LeaveKeeps ==
  ASSUME Inv, NEW t \in Threads, stack[t] # <<>>, Leave(t),
         \A g \in Futures : g # Top(stack[t]).of => future'[g] = future[g]
  PROVE  Marks' /\ Reads' /\ Polled' /\ TasksBelow'
<1> DEFINE F == stack[t]
           G == stack'[t]
           n == Len(F) - 1
<1>1. F \in Seq(Frame)
  BY DEF Inv, TypeOK
<1>2. G = Below(F) /\ \A u \in Threads : u # t => stack'[u] = stack[u]
  BY DEF Leave, Inv, TypeOK
<1>3. /\ n \in Nat /\ Len(F) = n + 1 /\ Len(G) = n /\ Top(F) = F[n + 1]
      /\ \A i \in 1..n : G[i] = F[i]
  BY <1>1, <1>2, BelowFacts
<1>4. /\ active'[t] = IF Top(F).of \in Guarded THEN Top(F).mark ELSE active[t]
      /\ reading'[t] = Top(F).read
      /\ \A u \in Threads : u # t => active'[u] = active[u] /\ reading'[u] = reading[u]
  BY DEF Leave, Inv, TypeOK
<1>5. ASSUME NEW m \in 0..n, NEW mark
      PROVE  /\ MarkedUpTo(G, m, mark) <=> MarkedUpTo(F, m, mark)
             /\ InReading(G, m) <=> InReading(F, m)
  <2>1. m \in Nat /\ \A i \in 1..m : G[i] = F[i]
    BY <1>3
  <2>2. QED BY <2>1, SameFrames
<1>6. n \in 0..n /\ (\A m \in 1..n : m - 1 \in 0..n /\ m \in 1..(n + 1))
        /\ n + 1 - 1 = n /\ n + 1 \in 1..(n + 1)
  BY <1>3
<1>7. Marks'
  <2>1. /\ MarkedUpTo(F, n + 1, active[t]) /\ MarkedUpTo(F, n, Top(F).mark)
        /\ \A m \in 1..n : MarkedUpTo(F, m - 1, F[m].mark)
    BY <1>3, <1>6 DEF Inv, Marks
  <2>2. MarkedUpTo(F, n, active'[t])
    BY <1>3, <1>4, <2>1, OneMoreFrame
  <2>3. MarkedUpTo(G, Len(G), active'[t])
    BY <1>3, <1>5, <1>6, <2>2
  <2>4. \A m \in 1..Len(G) : MarkedUpTo(G, m - 1, G[m].mark)
    BY <1>3, <1>5, <1>6, <2>1
  <2>5. ASSUME NEW u \in Threads
        PROVE  /\ MarkedUpTo(stack'[u], Len(stack'[u]), active'[u])
               /\ \A m \in 1..Len(stack'[u]) : MarkedUpTo(stack'[u], m - 1, stack'[u][m].mark)
    <3>1. CASE u = t
      BY <3>1, <2>3, <2>4
    <3>2. CASE u # t
      BY <3>2, <1>2, <1>4 DEF Inv, Marks
    <3>3. QED BY <3>1, <3>2
  <2>6. QED BY <2>5 DEF Marks, MarkedUpTo
<1>8. Reads'
  <2>1. /\ Top(F).read <=> InReading(F, n)
        /\ \A m \in 1..n : F[m].read <=> InReading(F, m - 1)
    BY <1>3, <1>6 DEF Inv, Reads
  <2>2. reading'[t] <=> InReading(G, Len(G))
    BY <1>3, <1>4, <1>5, <1>6, <2>1
  <2>3. \A m \in 1..Len(G) : G[m].read <=> InReading(G, m - 1)
    BY <1>3, <1>5, <1>6, <2>1
  <2>4. ASSUME NEW u \in Threads
        PROVE  /\ reading'[u] <=> InReading(stack'[u], Len(stack'[u]))
               /\ \A m \in 1..Len(stack'[u]) : stack'[u][m].read <=> InReading(stack'[u], m - 1)
    <3>1. CASE u = t
      BY <3>1, <2>2, <2>3
    <3>2. CASE u # t
      BY <3>2, <1>2, <1>4 DEF Inv, Reads
    <3>3. QED BY <3>1, <3>2
  <2>5. QED BY <2>4 DEF Reads, InReading
<1>9. Polled'
  <2>1. ASSUME NEW u \in Threads, NEW i \in 1..Len(stack'[u])
        PROVE  /\ stack'[u][i] = stack[u][i] /\ i \in 1..Len(stack[u])
               /\ ~(u = t /\ i = n + 1)
    BY <1>2, <1>3
  <2>2. n + 1 \in 1..Len(stack[t])
    BY <1>3
  <2>3. ASSUME NEW u \in Threads, NEW i \in 1..Len(stack'[u]), stack'[u][i].of # Clock
        PROVE  future'[stack'[u][i].of] = "polled"
    <3>1. stack[u][i].of # Top(stack[t]).of
      BY <1>3, <2>1, <2>2, <2>3 DEF Inv, Polled
    <3>2. stack[u][i].of \in Futures
      BY <2>1, <2>3, FrameOf
    <3>3. QED BY <2>1, <2>3, <3>1, <3>2 DEF Inv, Polled
  <2>4. ASSUME NEW u \in Threads, NEW v \in Threads,
               NEW i \in 1..Len(stack'[u]), NEW j \in 1..Len(stack'[v]),
               stack'[u][i].of # Clock, stack'[u][i].of = stack'[v][j].of
        PROVE  u = v /\ i = j
    <3>1. /\ stack[u][i].of # Clock /\ stack[u][i].of = stack[v][j].of
          /\ i \in 1..Len(stack[u]) /\ j \in 1..Len(stack[v])
      BY <2>1, <2>4
    <3>2. QED BY <3>1 DEF Inv, Polled
  <2>5. QED BY <2>3, <2>4 DEF Polled
<1>10. TasksBelow'
  BY <1>2, <1>3 DEF Inv, TasksBelow
<1>11. QED BY <1>7, <1>8, <1>9, <1>10

LEMMA SameStacks ==
  ASSUME Inv, UNCHANGED <<future, stack, active, reading>>
  PROVE  Marks' /\ Reads' /\ Polled' /\ TasksBelow'
<1>1. Marks'
  BY DEF Inv, Marks, MarkedUpTo
<1>2. Reads'
  BY DEF Inv, Reads, InReading
<1>3. Polled'
  BY DEF Inv, Polled
<1>4. TasksBelow'
  BY DEF Inv, TasksBelow
<1>5. QED BY <1>1, <1>2, <1>3, <1>4

-----------------------------------------------------------------------------
(* Each action, in the terms of the lemmas above.                          *)

LEMMA PollPushes ==
  ASSUME Inv, NEW t \in Threads, NEW f \in Futures, Poll(t, f)
  PROVE  Marks' /\ Reads' /\ Polled' /\ TasksBelow'
<1>1. f # Clock
  BY FuturesAssumption
<1>2. reading' = [reading EXCEPT ![t] = IF f = Clock THEN TRUE ELSE @]
  BY <1>1 DEF Poll, Inv, TypeOK
<1>3. f \in Tasks /\ ~LocalTasks => stack[t] = <<>>
  BY DEF Poll, MayPoll
<1>4. QED BY <1>1, <1>2, <1>3, PushKeeps DEF Poll

LEMMA ReadClockPushes ==
  ASSUME Inv, NEW t \in Threads, ReadClock(t)
  PROVE  Marks' /\ Reads' /\ Polled' /\ TasksBelow'
<1>1. Clock \notin Guarded /\ Clock \notin Tasks
  BY FuturesAssumption DEF Futures
<1>2. active' = [active EXCEPT ![t] = IF Clock \in Guarded THEN Clock ELSE @]
  BY <1>1 DEF ReadClock, Inv, TypeOK
<1>3. reading' = [reading EXCEPT ![t] = IF Clock = Clock THEN TRUE ELSE @]
  BY DEF ReadClock
<1>4. Push(t, Clock) /\ future' = future
  BY DEF ReadClock
<1>5. QED BY <1>1, <1>2, <1>3, <1>4, PushKeeps

LEMMA ActionKeepsStacks ==
  ASSUME Inv, NEW t \in Threads, PollEnds(t) \/ ClockRead(t) \/ Unwind(t)
  PROVE  Marks' /\ Reads' /\ Polled' /\ TasksBelow'
<1>1. stack[t] # <<>> /\ Leave(t)
  BY DEF PollEnds, ClockRead, Unwind, Inv, Hooked
<1>2. ASSUME NEW g \in Futures, g # Top(stack[t]).of PROVE future'[g] = future[g]
  BY <1>2 DEF PollEnds, ClockRead, Unwind, Inv, TypeOK
<1>3. QED BY <1>1, <1>2, LeaveKeeps

(* What a step of t leaves alone of the other threads. *)
Others(t) ==
  \A u \in Threads \ {t} :
    hook'[u] = hook[u] /\ stack'[u] = stack[u] /\ active'[u] = active[u]

LEMMA StepIsLocal ==
  ASSUME Inv, NEW t \in Threads, NEW f,
         (f \in Futures /\ Poll(t, f)) \/ PollEnds(t) \/ ReadClock(t) \/ ClockRead(t) \/ Panic(t)
           \/ Hook(t) \/ Unwind(t)
  PROVE  Others(t)
<1> USE DEF Inv, TypeOK, Others
<1>1. CASE f \in Futures /\ Poll(t, f)
  BY <1>1 DEF Poll, Push
<1>2. CASE PollEnds(t)
  BY <1>2 DEF PollEnds, Leave
<1>3. CASE ReadClock(t)
  BY <1>3 DEF ReadClock, Push
<1>4. CASE ClockRead(t)
  BY <1>4 DEF ClockRead, Leave
<1>5. CASE Panic(t)
  BY <1>5 DEF Panic
<1>6. CASE Hook(t)
  BY <1>6 DEF Hook, HookLooks, HookStamps, StampedBy, HookClockPanics, HookWrites, HookExits
<1>7. CASE Unwind(t)
  BY <1>7 DEF Unwind, Leave
<1>8. QED BY <1>1, <1>2, <1>3, <1>4, <1>5, <1>6, <1>7

(* No step of a thread that wrote its envelope but the exit; what the      *)
(* others do is no concern of what it wrote.                               *)
LEMMA WroteKept ==
  ASSUME Inv, NEW t \in Threads, hook[t] # "written", Others(t), written' = written
  PROVE  Wrote'
<1>1. \A i \in 1..Len(written) : written[i].by \in Threads \ {t}
  <2>1. \A i \in 1..Len(written) :
          written[i] \in [run : Guarded, by : Threads, in : Seq(Frame)]
    BY ElementOfSeq DEF Inv, TypeOK
  <2>2. QED BY <2>1 DEF Inv, Wrote
<1>2. QED BY <1>1 DEF Inv, Wrote, Others

LEMMA HookWritesOnce ==
  ASSUME Inv, NEW t \in Threads, HookWrites(t), Others(t)
  PROVE  Wrote' /\ written' \in Seq([run : Guarded, by : Threads, in : Seq(Frame)])
<1> DEFINE Envelope == [run : Guarded, by : Threads, in : Seq(Frame)]
           new == [run |-> active[t], by |-> t, in |-> stack[t]]
           n == Len(written)
<1>1. new \in Envelope /\ written \in Seq(Envelope)
  BY DEF HookWrites, Inv, TypeOK, Hooked
<1>2. written' = Append(written, new)
  BY DEF HookWrites
<1>3. /\ n \in Nat /\ Len(written') = n + 1 /\ written'[n + 1] = new
      /\ \A i \in 1..n : written'[i] = written[i]
      /\ written' \in Seq(Envelope)
  <2> HIDE DEF new, Envelope
  <2>1. QED BY <1>1, <1>2, AppendProperties, LenProperties
<1>4. \A i \in 1..n : written[i].by \in Threads \ {t}
  <2>1. \A i \in 1..n : written[i] \in Envelope
    BY <1>1, ElementOfSeq
  <2>2. QED BY <2>1 DEF HookWrites, Inv, Wrote
<1>5. hook'[t] = "written" /\ active'[t] = active[t] /\ stack'[t] = stack[t]
  BY DEF HookWrites, Inv, TypeOK
<1>6. \A i \in 1..Len(written') : i = n + 1 \/ i \in 1..n
  BY <1>3
<1>7. ASSUME NEW i \in 1..Len(written')
      PROVE  /\ hook'[written'[i].by] = "written"
             /\ written'[i].run = active'[written'[i].by]
             /\ written'[i].in = stack'[written'[i].by]
  <2>1. CASE i = n + 1
    BY <1>3, <1>5, <2>1
  <2>2. CASE i \in 1..n
    <3>1. written'[i] = written[i] /\ written[i].by \in Threads \ {t}
      BY <1>3, <1>4, <2>2
    <3>2. /\ hook[written[i].by] = "written"
          /\ written[i].run = active[written[i].by]
          /\ written[i].in = stack[written[i].by]
      BY <2>2 DEF Inv, Wrote
    <3>3. QED BY <3>1, <3>2 DEF Others
  <2>3. QED BY <1>6, <2>1, <2>2
<1>8. ASSUME NEW i \in 1..Len(written'), NEW j \in 1..Len(written'),
             written'[i].by = written'[j].by
      PROVE  i = j
  <2>1. CASE i = n + 1
    BY <1>3, <1>4, <1>6, <1>8, <2>1
  <2>2. CASE j = n + 1
    BY <1>3, <1>4, <1>6, <1>8, <2>2
  <2>3. CASE i \in 1..n /\ j \in 1..n
    <3>1. written[i].by = written[j].by
      BY <1>3, <1>8, <2>3
    <3>2. QED BY <2>3, <3>1 DEF Inv, Wrote
  <2>4. QED BY <1>6, <2>1, <2>2, <2>3
<1>9. QED BY <1>3, <1>7, <1>8 DEF Wrote

-----------------------------------------------------------------------------
(* The invariant.                                                          *)

LEMMA InitInv == Init => Inv
<1> SUFFICES ASSUME Init PROVE Inv
  OBVIOUS
<1>1. Len(<<>>) = 0 /\ <<>> \in Seq(Frame)
        /\ <<>> \in Seq([run : Guarded, by : Threads, in : Seq(Frame)])
  BY EmptySeq
<1>2. 1..0 = {}
  OBVIOUS
<1>3. TypeOK
  BY <1>1 DEF Init, TypeOK, HookSteps
<1>4. Marks
  BY <1>1, <1>2 DEF Init, Marks, MarkedUpTo
<1>5. Reads
  BY <1>1, <1>2 DEF Init, Reads, InReading
<1>6. Polled /\ TasksBelow
  BY <1>1, <1>2 DEF Init, Polled, TasksBelow
<1>7. Hooked /\ Wrote
  BY <1>1, <1>2 DEF Init, Hooked, Wrote
<1>8. QED BY <1>3, <1>4, <1>5, <1>6, <1>7 DEF Inv

(* A Leave, and a push, keep the types of what they change. *)
LEMMA LeaveTyped ==
  ASSUME Inv, NEW t \in Threads, stack[t] # <<>>, Leave(t)
  PROVE  /\ stack' \in [Threads -> Seq(Frame)]
         /\ active' \in [Threads -> Guarded \cup {NoRun}]
         /\ reading' \in [Threads -> BOOLEAN]
         /\ Top(stack[t]).of \in Futures \cup {Clock}
<1>1. stack[t] \in Seq(Frame)
  BY DEF Inv, TypeOK
<1>2. Below(stack[t]) \in Seq(Frame) /\ Top(stack[t]) \in Frame
  BY <1>1, BelowFacts
<1>3. /\ Top(stack[t]).mark \in Guarded \cup {NoRun} /\ Top(stack[t]).read \in BOOLEAN
      /\ Top(stack[t]).of \in Futures \cup {Clock}
  BY <1>2 DEF Frame
<1>4. QED BY <1>2, <1>3 DEF Leave, Inv, TypeOK

LEMMA PushTyped ==
  ASSUME Inv, NEW t \in Threads, NEW f \in Futures \cup {Clock}, Push(t, f)
  PROVE  stack' \in [Threads -> Seq(Frame)]
<1>1. [of |-> f, mark |-> active[t], read |-> reading[t]] \in Frame /\ stack[t] \in Seq(Frame)
  BY DEF Inv, TypeOK, Frame
<1>2. Append(stack[t], [of |-> f, mark |-> active[t], read |-> reading[t]]) \in Seq(Frame)
  BY <1>1, AppendProperties
<1>3. QED BY <1>2 DEF Push, Inv, TypeOK

LEMMA StepTyped ==
  ASSUME Inv, NEW t \in Threads, NEW f,
         (f \in Futures /\ Poll(t, f)) \/ PollEnds(t) \/ ReadClock(t) \/ ClockRead(t) \/ Panic(t)
           \/ Hook(t) \/ Unwind(t)
  PROVE  TypeOK' /\ Hooked'
<1> USE DEF Inv, TypeOK, HookSteps
<1>1. CASE f \in Futures /\ Poll(t, f)
  <2>1. stack' \in [Threads -> Seq(Frame)] /\ hook[t] = "none"
    BY <1>1, PushTyped DEF Poll, Runs
  <2>2. TypeOK'
    BY <1>1, <2>1 DEF Poll
  <2>3. \A u \in Threads : u # t => stack'[u] = stack[u] /\ active'[u] = active[u]
    BY <1>1 DEF Poll, Push
  <2>4. QED BY <1>1, <2>1, <2>2, <2>3 DEF Poll, Hooked
<1>2. CASE PollEnds(t)
  <2>1. stack[t] # <<>> /\ Leave(t) /\ hook[t] = "none"
    BY <1>2 DEF PollEnds, Runs
  <2>2. TypeOK'
    BY <1>2, <2>1, LeaveTyped DEF PollEnds
  <2>3. \A u \in Threads : u # t => stack'[u] = stack[u] /\ active'[u] = active[u]
    BY <2>1 DEF Leave
  <2>4. QED BY <1>2, <2>1, <2>2, <2>3 DEF PollEnds, Hooked
<1>3. CASE ReadClock(t)
  <2>1. stack' \in [Threads -> Seq(Frame)] /\ hook[t] = "none"
    BY <1>3, PushTyped DEF ReadClock, Runs
  <2>2. TypeOK'
    BY <1>3, <2>1 DEF ReadClock
  <2>3. \A u \in Threads : u # t => stack'[u] = stack[u] /\ active'[u] = active[u]
    BY <1>3 DEF ReadClock, Push
  <2>4. QED BY <1>3, <2>1, <2>2, <2>3 DEF ReadClock, Hooked
<1>4. CASE ClockRead(t)
  <2>1. stack[t] # <<>> /\ Leave(t) /\ hook[t] = "none"
    BY <1>4 DEF ClockRead, Runs
  <2>2. TypeOK'
    BY <1>4, <2>1, LeaveTyped DEF ClockRead
  <2>3. \A u \in Threads : u # t => stack'[u] = stack[u] /\ active'[u] = active[u]
    BY <2>1 DEF Leave
  <2>4. QED BY <1>4, <2>1, <2>2, <2>3 DEF ClockRead, Hooked
<1>5. CASE Panic(t)
  BY <1>5 DEF Panic, Hooked
<1>6. CASE Hook(t)
  <2>1. CASE HookLooks(t)
    BY <2>1 DEF HookLooks, Hooked
  <2>2. CASE HookStamps(t)
    BY <2>2 DEF HookStamps, StampedBy, Hooked
  <2>3. CASE HookClockPanics(t)
    BY <2>3 DEF HookClockPanics, Hooked
  <2>4. CASE HookWrites(t)
    <3>1. Others(t)
      BY <2>4 DEF HookWrites, Others
    <3>2. written' \in Seq([run : Guarded, by : Threads, in : Seq(Frame)])
      BY <2>4, <3>1, HookWritesOnce
    <3>3. QED BY <2>4, <3>2 DEF HookWrites, Hooked
  <2>5. CASE HookExits(t)
    BY <2>5 DEF HookExits, Hooked
  <2>6. QED BY <1>6, <2>1, <2>2, <2>3, <2>4, <2>5 DEF Hook
<1>7. CASE Unwind(t)
  <2>1. stack[t] # <<>> /\ Leave(t) /\ hook[t] = "unwinding"
    BY <1>7 DEF Unwind, Hooked
  <2>2. TypeOK'
    BY <1>7, <2>1, LeaveTyped DEF Unwind
  <2>3. \A u \in Threads :
          u # t => stack'[u] = stack[u] /\ active'[u] = active[u] /\ hook'[u] = hook[u]
    BY <1>7, <2>1 DEF Leave, Unwind
  <2>4. hook'[t] \in {"none", "unwinding"} /\ (hook'[t] # "none" => Len(stack[t]) # 1)
    BY <1>7, <2>1 DEF Unwind
  <2>5. Len(stack[t]) # 1 => stack'[t] # <<>>
    <3>1. stack[t] \in Seq(Frame) /\ stack'[t] = Below(stack[t])
      BY <2>1 DEF Leave
    <3>2. Len(Below(stack[t])) = Len(stack[t]) - 1 /\ Len(stack[t]) \in Nat \ {0}
      BY <2>1, <3>1, BelowFacts
    <3>3. QED BY <3>1, <3>2, EmptySeq
  <2>6. QED BY <2>2, <2>3, <2>4, <2>5 DEF Hooked
<1>8. QED BY <1>1, <1>2, <1>3, <1>4, <1>5, <1>6, <1>7

LEMMA StepInv ==
  ASSUME Inv, NEW t \in Threads, NEW f,
         (f \in Futures /\ Poll(t, f)) \/ PollEnds(t) \/ ReadClock(t) \/ ClockRead(t) \/ Panic(t)
           \/ Hook(t) \/ Unwind(t)
  PROVE  Inv'
<1>1. TypeOK' /\ Hooked' /\ Others(t)
  BY StepTyped, StepIsLocal
<1>2. Marks' /\ Reads' /\ Polled' /\ TasksBelow'
  <2>1. CASE f \in Futures /\ Poll(t, f)
    BY <2>1, PollPushes
  <2>2. CASE ReadClock(t)
    BY <2>2, ReadClockPushes
  <2>3. CASE PollEnds(t) \/ ClockRead(t) \/ Unwind(t)
    BY <2>3, ActionKeepsStacks
  <2>4. CASE Panic(t) \/ Hook(t)
    <3>1. UNCHANGED <<future, stack, active, reading>>
      BY <2>4 DEF Panic, Hook, HookLooks, HookStamps, StampedBy, HookClockPanics,
                  HookWrites, HookExits
    <3>2. QED BY <3>1, SameStacks
  <2>5. QED BY <2>1, <2>2, <2>3, <2>4
<1>3. Wrote'
  <2>1. CASE HookWrites(t)
    BY <2>1, <1>1, HookWritesOnce
  <2>2. CASE HookExits(t)
    BY <2>2 DEF HookExits, Inv, Wrote
  <2>3. CASE ~HookWrites(t) /\ ~HookExits(t)
    <3>1. hook[t] # "written" /\ written' = written
      BY <2>3 DEF Poll, PollEnds, ReadClock, ClockRead, Panic, Hook, HookLooks, HookStamps,
                  StampedBy, HookClockPanics, Unwind, Runs
    <3>2. QED BY <3>1, <1>1, WroteKept
  <2>4. QED BY <2>1, <2>2, <2>3
<1>4. QED BY <1>1, <1>2, <1>3 DEF Inv

LEMMA NextInv == Inv /\ [Next]_vars => Inv'
<1> SUFFICES ASSUME Inv, [Next]_vars PROVE Inv'
  OBVIOUS
<1>1. CASE UNCHANGED vars
  <2>1. Marks' /\ Reads' /\ Polled' /\ TasksBelow'
    BY <1>1, SameStacks DEF vars
  <2>2. TypeOK'
    BY <1>1 DEF vars, Inv, TypeOK
  <2>3. Hooked' /\ Wrote'
    BY <1>1 DEF vars, Inv, Hooked, Wrote
  <2>4. QED BY <2>1, <2>2, <2>3 DEF Inv
<1>2. ASSUME NEW t \in Threads, NEW f \in Futures, Poll(t, f) PROVE Inv'
  BY <1>2, StepInv
<1>3. ASSUME NEW t \in Threads,
             PollEnds(t) \/ ReadClock(t) \/ ClockRead(t) \/ Panic(t) \/ Hook(t) \/ Unwind(t)
      PROVE  Inv'
  BY <1>3, StepInv
<1>4. QED BY <1>1, <1>2, <1>3 DEF Next, Quiet

LEMMA Invariance == Spec => []Inv
  BY InitInv, NextInv, PTL DEF Spec

-----------------------------------------------------------------------------
(* What the invariant says of the mark.                                    *)

LEMMA MarkedIsInnermost ==
  ASSUME NEW frames \in Seq(Frame), NEW mark, MarkedUpTo(frames, Len(frames), mark)
  PROVE  Innermost(frames) = mark
<1> DEFINE marked == {i \in DOMAIN frames : frames[i].of \in Guarded}
<1>1. DOMAIN frames = 1..Len(frames) /\ Len(frames) \in Nat
  BY LenProperties
<1>2. CASE mark = NoRun /\ \A j \in 1..Len(frames) : frames[j].of \notin Guarded
  BY <1>1, <1>2 DEF Innermost
<1>3. ASSUME NEW i \in 1..Len(frames),
             frames[i].of = mark, mark \in Guarded,
             \A j \in (i + 1)..Len(frames) : frames[j].of \notin Guarded
      PROVE  Innermost(frames) = mark
  <2>1. i \in marked /\ \A j \in marked : j <= i
    BY <1>1, <1>3
  <2>2. \A k \in marked : (\A j \in marked : j <= k) => k = i
    BY <1>1, <2>1
  <2>3. (CHOOSE k \in marked : \A j \in marked : j <= k) = i
    BY <2>1, <2>2
  <2>4. QED BY <1>3, <2>1, <2>3 DEF Innermost
<1>4. QED BY <1>2, <1>3 DEF MarkedUpTo

(* A thread whose hook wrote is in the run it answered. *)
LEMMA WriterIsInItsRun ==
  ASSUME Inv, NEW i \in 1..Len(written)
  PROVE  LET t == written[i].by
             run == written[i].run
         IN /\ t \in Threads /\ run \in Guarded /\ written[i].in = stack[t]
            /\ \E k \in 1..Len(stack[t]) : stack[t][k].of = run
<1>1. written[i] \in [run : Guarded, by : Threads, in : Seq(Frame)]
  BY ElementOfSeq DEF Inv, TypeOK
<1>2. /\ hook[written[i].by] = "written" /\ written[i].run = active[written[i].by]
      /\ written[i].in = stack[written[i].by]
  BY DEF Inv, Wrote
<1>3. active[written[i].by] # NoRun
  BY <1>1, <1>2 DEF Inv, Hooked
<1>4. \E k \in 1..Len(stack[written[i].by]) : stack[written[i].by][k].of = written[i].run
  BY <1>1, <1>2, <1>3 DEF Inv, Marks, MarkedUpTo
<1>5. QED BY <1>1, <1>2, <1>4

-----------------------------------------------------------------------------
(* Every state has the types of TypeOK. *)
THEOREM PanicTypeCorrect == Spec => []TypeOK
<1>1. Inv => TypeOK
  BY DEF Inv
<1>2. QED BY <1>1, Invariance, PTL

(* The mark on every thread is the innermost handler of run_env it is in,  *)
(* however deep polls nest, wherever futures move between polls, and while *)
(* panics unwind: marked's Restore puts back what the poll replaced.       *)
THEOREM MarkIsRight == Spec => []MarkIsInnermost
<1>1. ASSUME Inv PROVE MarkIsInnermost
  <2>1. ASSUME NEW t \in Threads PROVE active[t] = Innermost(stack[t])
    <3>1. stack[t] \in Seq(Frame) /\ MarkedUpTo(stack[t], Len(stack[t]), active[t])
      BY <1>1 DEF Inv, TypeOK, Marks
    <3>2. QED BY <3>1, MarkedIsInnermost
  <2>2. QED BY <2>1 DEF MarkIsInnermost
<1>2. QED BY <1>1, Invariance, PTL

(* READING_CUSTOM is set on a thread exactly while the thread is in a      *)
(* reading of the custom clock, also while a panic leaves it.              *)
THEOREM ReadingFlagIsRight == Spec => []ReadingIsCurrent
<1>1. ASSUME Inv PROVE ReadingIsCurrent
  <2>1. ASSUME NEW t \in Threads
        PROVE  reading[t] <=> \E i \in DOMAIN stack[t] : stack[t][i].of = Clock
    <3>1. DOMAIN stack[t] = 1..Len(stack[t])
      BY <1>1, LenProperties DEF Inv, TypeOK
    <3>2. QED BY <1>1, <3>1 DEF Inv, Reads, InReading
  <2>2. QED BY <2>1 DEF ReadingIsCurrent
<1>2. QED BY <1>1, Invariance, PTL

(* However many threads are in the hook, no run is answered twice: a       *)
(* future is polled by one thread, and that thread stops at its envelope.  *)
THEOREM AnsweredOnce == Spec => []OneEnvelopePerRun
<1>1. ASSUME Inv PROVE OneEnvelopePerRun
  <2>1. DOMAIN written = 1..Len(written)
    BY <1>1, LenProperties DEF Inv, TypeOK
  <2>2. ASSUME NEW i \in 1..Len(written), NEW j \in 1..Len(written),
               written[i].run = written[j].run
        PROVE  i = j
    <3>1. /\ written[i].by \in Threads /\ written[i].run \in Guarded
          /\ written[j].by \in Threads
      BY <1>1, WriterIsInItsRun
    <3>2. PICK a \in 1..Len(stack[written[i].by]) :
            stack[written[i].by][a].of = written[i].run
      BY <1>1, WriterIsInItsRun
    <3>3. PICK b \in 1..Len(stack[written[j].by]) :
            stack[written[j].by][b].of = written[j].run
      BY <1>1, WriterIsInItsRun
    <3>4. written[i].run # Clock
      BY <3>1, FuturesAssumption DEF Futures
    <3>5. written[i].by = written[j].by
      BY <1>1, <2>2, <3>1, <3>2, <3>3, <3>4 DEF Inv, Polled
    <3>6. QED BY <1>1, <3>5 DEF Inv, Wrote
  <2>3. QED BY <2>1, <2>2 DEF OneEnvelopePerRun
<1>2. QED BY <1>1, Invariance, PTL

(* A program that polls no task inside a handler's poll never ends for a   *)
(* panic of a task: the task is at the bottom of its thread, so a mark     *)
(* there is of a run the task itself drives.                               *)
THEOREM TasksLeftAlone ==
  ASSUME ~LocalTasks
  PROVE  Spec => []SpawnedPanicsLeftAlone
<1>1. ASSUME Inv, ~LocalTasks PROVE SpawnedPanicsLeftAlone
  <2>1. DOMAIN written = 1..Len(written)
    BY <1>1, LenProperties DEF Inv, TypeOK
  <2>2. ASSUME NEW i \in 1..Len(written), NEW k \in DOMAIN written[i].in,
               written[i].in[k].of \in Tasks
        PROVE  \E m \in DOMAIN written[i].in :
                 k < m /\ written[i].in[m].of = written[i].run
    <3>1. /\ written[i].by \in Threads /\ written[i].run \in Guarded
          /\ written[i].in = stack[written[i].by]
      BY <1>1, WriterIsInItsRun
    <3>2. DOMAIN written[i].in = 1..Len(written[i].in)
      BY <1>1, <3>1, LenProperties DEF Inv, TypeOK
    <3>3. PICK m \in 1..Len(stack[written[i].by]) :
            stack[written[i].by][m].of = written[i].run
      BY <1>1, WriterIsInItsRun
    <3>4. k = 1
      BY <1>1, <2>2, <3>1, <3>2 DEF Inv, TasksBelow
    <3>5. m # 1
      BY <2>2, <3>1, <3>3, <3>4, FuturesAssumption
    <3>6. QED BY <3>1, <3>2, <3>3, <3>4, <3>5
  <2>3. QED BY <2>1, <2>2 DEF SpawnedPanicsLeftAlone
<1>2. QED BY <1>1, Invariance, PTL
=============================================================================
