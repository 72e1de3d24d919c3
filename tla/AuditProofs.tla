---------------------------- MODULE AuditProofs ----------------------------
(***************************************************************************)
(* What the audit and the scanners of a usage string promise, for every    *)
(* usage string, tree and argv. The pieces of a usage string, and what is  *)
(* folded over them, are recursive functions: each is first shown to meet  *)
(* its equation, and what it holds follows by induction.                   *)
(***************************************************************************)
EXTENDS Audit, RedactionProofs

-----------------------------------------------------------------------------
(* Pieces. *)

(* Each piece ends in the string, not before it starts. *)
Ends(u, last) == \A i \in DOMAIN u : last[i] \in i..Len(u)

(* From i on u is cut into p, and s says where each piece starts, and where *)
(* the string ends.                                                        *)
Cut(u, last, i, p, s) ==
  /\ s \in [1..(Len(p) + 1) -> 1..(Len(u) + 1)]
  /\ s[1] = i /\ s[Len(p) + 1] = Len(u) + 1
  /\ \A k \in 1..Len(p) :
       /\ s[k] \in DOMAIN u /\ s[k + 1] = last[s[k]] + 1
       /\ p[k] = SubSeq(u, s[k], last[s[k]])

LEMMA FromExists ==
  ASSUME NEW R, NEW u \in Seq(R), NEW last, Ends(u, last)
  PROVE  \E f : f = [i \in 1..(Len(u) + 1) |->
                       IF i > Len(u) THEN <<>> ELSE <<SubSeq(u, i, last[i])>> \o f[last[i] + 1]]
<1> DEFINE n == Len(u)
           Step(f, i) == IF i > n THEN <<>> ELSE <<SubSeq(u, i, last[i])>> \o f[last[i] + 1]
           Has(m) == \E f : f = [i \in (n + 1 - m)..(n + 1) |-> Step(f, i)]
           S == {m \in Nat : m <= n => Has(m)}
<1>0. n \in Nat /\ DOMAIN u = 1..n OBVIOUS
<1>1. Has(0)
  <2> DEFINE f == [j \in (n + 1)..(n + 1) |-> <<>>]
  <2>1. (n + 1 - 0)..(n + 1) = (n + 1)..(n + 1) BY <1>0
  <2>2. \A i \in (n + 1)..(n + 1) : Step(f, i) = <<>>
    <3> HIDE DEF f
    <3> QED BY <1>0
  <2>3. f = [i \in (n + 1)..(n + 1) |-> Step(f, i)]
    BY <2>2
  <2> HIDE DEF f, Step
  <2> QED BY <2>1, <2>3
<1>2. ASSUME NEW m \in Nat, m + 1 <= n, Has(m) PROVE Has(m + 1)
  <2> DEFINE I == (n + 1 - (m + 1))..(n + 1)
             J == (n + 1 - m)..(n + 1)
  <2>1. PICK f : f = [i \in J |-> Step(f, i)]
    BY <1>2
  <2>2. ASSUME NEW i \in I PROVE i \in J \/ i = n - m
    <3> HIDE DEF n
    <3>1. i \in Int /\ n - m <= i /\ i <= n + 1 /\ n - m \in Int BY <1>0, <1>2
    <3>2. i = n - m \/ n + 1 - m <= i BY <3>1, <1>0, <1>2
    <3> QED BY <3>1, <3>2, <1>0, <1>2
  <2>3. \A i \in I : i <= n => last[i] + 1 \in J /\ last[i] + 1 # n - m
    <3> SUFFICES ASSUME NEW i \in I, i <= n PROVE last[i] + 1 \in J /\ last[i] + 1 # n - m
      OBVIOUS
    <3>1. i \in 1..n BY <1>0, <1>2
    <3>2. last[i] \in i..n BY <3>1, <1>0 DEF Ends
    <3> QED BY <1>0, <1>2, <3>1, <3>2
  <2>4. J \subseteq I /\ n - m \notin J /\ \A i \in I : i \in Int
    BY <1>0, <1>2
  <2> HIDE DEF I, J
  <2> DEFINE g == [i \in I |-> IF i = n - m THEN Step(f, i) ELSE f[i]]
  <2>5. ASSUME NEW i \in I PROVE Step(f, i) = Step(g, i)
    <3>1. CASE i > n BY <3>1
    <3>2. CASE ~(i > n)
      <4>1. i <= n BY <3>2, <1>0, <2>4
      <4>2. f[last[i] + 1] = g[last[i] + 1] BY <4>1, <2>3, <2>4
      <4> HIDE DEF g
      <4> QED BY <3>2, <4>2
    <3> QED BY <3>1, <3>2
  <2>6. ASSUME NEW i \in I PROVE g[i] = Step(g, i)
    <3> HIDE DEF Step
    <3>1. CASE i = n - m
      BY <3>1, <2>5
    <3>2. CASE i \in J
      <4>1. f[i] = Step(f, i) BY <2>1, <3>2
      <4>2. g[i] = f[i] BY <3>2, <2>4
      <4> QED BY <4>1, <4>2, <2>5
    <3> QED BY <3>1, <3>2, <2>2
  <2> HIDE DEF g, Step
  <2>7. g = [i \in I |-> Step(g, i)]
    BY <2>6 DEF g
  <2> QED BY <2>7 DEF I
<1> HIDE DEF Has, n
<1>3. S = Nat
  <2>1. 0 \in S BY <1>1
  <2>2. ASSUME NEW m \in S PROVE m + 1 \in S
    <3>1. m \in Nat /\ m + 1 \in Nat BY <2>2
    <3>2. m + 1 <= n => m <= n BY <3>1, <1>0
    <3> QED BY <3>1, <3>2, <2>2, <1>2
  <2>3. S \in SUBSET Nat OBVIOUS
  <2> HIDE DEF S
  <2> QED BY <2>1, <2>2, <2>3, UpFromZero
<1>4. Has(n) BY <1>0, <1>3
<1>5. (n + 1 - n)..(n + 1) = 1..(n + 1) BY <1>0
<1> QED BY <1>4, <1>5 DEF n, Has

LEMMA PiecesCut ==
  ASSUME NEW R, NEW u \in Seq(R), NEW last, Ends(u, last)
  PROVE  Pieces(u, last) \in Seq(Seq(R)) /\ \E s : Cut(u, last, 1, Pieces(u, last), s)
<1> DEFINE n == Len(u)
           from == CHOOSE f : f = [i \in 1..(Len(u) + 1) |->
                     IF i > Len(u) THEN <<>> ELSE <<SubSeq(u, i, last[i])>> \o f[last[i] + 1]]
           Held(i) == from[i] \in Seq(Seq(R)) /\ \E s : Cut(u, last, i, from[i], s)
           S == {m \in Nat : \A i \in (n + 1 - m)..(n + 1) : i \in 1..(n + 1) => Held(i)}
<1>0. n \in Nat /\ DOMAIN u = 1..n OBVIOUS
<1> DEFINE Step(f, i) == IF i > n THEN <<>> ELSE <<SubSeq(u, i, last[i])>> \o f[last[i] + 1]
<1>1. from = [i \in 1..(n + 1) |-> Step(from, i)]
  <2>1. PICK f : f = [i \in 1..(Len(u) + 1) |->
                       IF i > Len(u) THEN <<>> ELSE <<SubSeq(u, i, last[i])>> \o f[last[i] + 1]]
    BY FromExists
  <2> QED BY <2>1
<1> HIDE DEF from
<1>2. from[n + 1] = <<>>
  <2>1. from[n + 1] = Step(from, n + 1) BY <1>0, <1>1
  <2> QED BY <2>1, <1>0
<1>3. ASSUME NEW i \in 1..n PROVE from[i] = <<SubSeq(u, i, last[i])>> \o from[last[i] + 1]
  <2>1. i \in 1..(n + 1) BY <1>0
  <2>2. from[i] = Step(from, i)
    <3> HIDE DEF Step
    <3> QED BY <2>1, <1>1
  <2>3. ~(i > n) BY <1>0
  <2> QED BY <2>2, <2>3
<1>4. Held(n + 1)
  <2> DEFINE s == [k \in 1..1 |-> n + 1]
  <2>1. Cut(u, last, n + 1, <<>>, s)
    BY <1>0 DEF Cut
  <2> QED BY <1>2, <2>1
<1>5. ASSUME NEW i \in 1..n, Held(last[i] + 1) PROVE Held(i)
  <2> DEFINE e == last[i]
             p == from[e + 1]
             q == from[i]
             x == SubSeq(u, i, e)
  <2>1. e \in i..n BY <1>0 DEF Ends
  <2>2. x \in Seq(R) BY <2>1, <1>0
  <2>3. PICK s : Cut(u, last, e + 1, p, s) BY <1>5
  <2>4. p \in Seq(Seq(R)) BY <1>5
  <2>5. q = <<x>> \o p BY <1>3
  <2> HIDE DEF p, q, x, e
  <2>6. q \in Seq(Seq(R)) /\ Len(q) = Len(p) + 1 /\ Len(p) \in Nat
    BY <2>2, <2>4, <2>5
  <2>7. q[1] = x /\ \A k \in 1..Len(p) : q[k + 1] = p[k]
    BY <2>2, <2>4, <2>5
  <2> DEFINE t == [k \in 1..(Len(q) + 1) |-> IF k = 1 THEN i ELSE s[k - 1]]
  <2>8. Cut(u, last, i, q, t)
    <3>1. s \in [1..(Len(p) + 1) -> 1..(n + 1)] /\ s[1] = e + 1 /\ s[Len(p) + 1] = n + 1
      BY <2>3 DEF Cut
    <3>2. t \in [1..(Len(q) + 1) -> 1..(n + 1)]
      <4>1. ASSUME NEW k \in 1..(Len(q) + 1) PROVE t[k] \in 1..(n + 1)
        <5>1. CASE k = 1 BY <5>1, <1>0
        <5>2. CASE k # 1
          <6>1. k - 1 \in 1..(Len(p) + 1) BY <5>2, <2>6
          <6>2. s[k - 1] \in 1..(n + 1) BY <6>1, <3>1
          <6> QED BY <6>2, <5>2
        <5> QED BY <5>1, <5>2
      <4> QED BY <4>1
    <3>3. t[1] = i /\ t[Len(q) + 1] = n + 1
      BY <2>6, <3>1
    <3>4. ASSUME NEW k \in 1..Len(q)
          PROVE  t[k] \in DOMAIN u /\ t[k + 1] = last[t[k]] + 1 /\ q[k] = SubSeq(u, t[k], last[t[k]])
      <4>1. CASE k = 1
        <5>1. t[2] = s[1] /\ t[1] = i BY <2>6
        <5>2. t[k + 1] = e + 1 /\ t[k] = i /\ q[k] = x BY <4>1, <5>1, <3>1, <2>7
        <5> HIDE DEF t
        <5> QED BY <5>2, <1>0 DEF e, x
      <4>2. CASE k # 1
        <5>1. PICK j \in 1..Len(p) : k = j + 1
          BY <4>2, <2>6
        <5>2. t[k] = s[j] /\ t[k + 1] = s[j + 1] /\ q[k] = p[j]
          BY <5>1, <2>6, <2>7
        <5>3. s[j] \in DOMAIN u /\ s[j + 1] = last[s[j]] + 1 /\ p[j] = SubSeq(u, s[j], last[s[j]])
          BY <5>1, <2>3 DEF Cut
        <5> QED BY <5>2, <5>3
      <4> QED BY <4>1, <4>2
    <3> QED BY <3>2, <3>3, <3>4 DEF Cut
  <2> QED BY <2>6, <2>8 DEF q
<1> HIDE DEF n, Held
<1>6. 0 \in S BY <1>0, <1>4
<1>7. ASSUME NEW m \in S PROVE m + 1 \in S
  <2> SUFFICES ASSUME NEW i \in (n + 1 - (m + 1))..(n + 1), i \in 1..(n + 1) PROVE Held(i)
    OBVIOUS
  <2>1. CASE i \in (n + 1 - m)..(n + 1)
    BY <1>7, <2>1
  <2>2. CASE i = n - m
    <3>1. i \in 1..n BY <2>2, <1>0, <1>7
    <3>2. last[i] \in i..n BY <3>1, <1>0 DEF Ends, n
    <3>3. last[i] + 1 \in (n + 1 - m)..(n + 1) /\ last[i] + 1 \in 1..(n + 1)
      BY <3>1, <3>2, <2>2, <1>0, <1>7
    <3>4. Held(last[i] + 1) BY <3>3, <1>7
    <3> QED BY <3>1, <3>4, <1>5
  <2> QED BY <2>1, <2>2, <1>0, <1>7
<1>8. S = Nat
  <2> HIDE DEF S
  <2>1. S \in SUBSET Nat BY DEF S
  <2> QED BY <1>6, <1>7, <2>1, UpFromZero
<1>9. Held(1)
  <2>1. n \in S BY <1>0, <1>8
  <2>2. 1 \in (n + 1 - n)..(n + 1) BY <1>0
  <2> QED BY <2>1, <2>2, <1>0
<1>10. Pieces(u, last) = from[1] BY DEF Pieces, from
<1> QED BY <1>9, <1>10 DEF Held

(* A piece has a token, and its tokens are those of the string from where   *)
(* it starts.                                                              *)
LEMMA CutPieces ==
  ASSUME NEW R, NEW u \in Seq(R), NEW last, Ends(u, last), NEW p \in Seq(Seq(R)), NEW s,
         Cut(u, last, 1, p, s), NEW k \in DOMAIN p
  PROVE  /\ s[k] \in DOMAIN u /\ last[s[k]] \in s[k]..Len(u)
         /\ p[k] \in Seq(R) /\ Len(p[k]) = last[s[k]] - s[k] + 1
         /\ 1 \in DOMAIN p[k] /\ p[k][1] = u[s[k]]
         /\ \A j \in DOMAIN p[k] : s[k] + j - 1 \in DOMAIN u /\ p[k][j] = u[s[k] + j - 1]
<1>1. k \in 1..Len(p) OBVIOUS
<1>2. s[k] \in DOMAIN u /\ p[k] = SubSeq(u, s[k], last[s[k]]) BY <1>1 DEF Cut
<1>3. last[s[k]] \in s[k]..Len(u) BY <1>2 DEF Ends
<1>4. DOMAIN u = 1..Len(u) /\ Len(u) \in Nat OBVIOUS
<1> DEFINE a == s[k]
           e == last[s[k]]
<1>5. a \in 1..Len(u) /\ e \in a..Len(u) /\ p[k] = SubSeq(u, a, e)
  BY <1>2, <1>3, <1>4
<1>6. s[k] \in DOMAIN u /\ last[s[k]] \in s[k]..Len(u) /\ s[k] = a /\ last[s[k]] = e
  BY <1>2, <1>3
<1> HIDE DEF a, e
<1>7. SubSeq(u, a, e) \in Seq(R) /\ Len(SubSeq(u, a, e)) = e - a + 1
  BY <1>5, <1>4
<1>8. DOMAIN SubSeq(u, a, e) = 1..(e - a + 1)
  BY <1>7
<1>9. \A j \in 1..(e - a + 1) : SubSeq(u, a, e)[j] = u[a + j - 1] /\ a + j - 1 \in 1..Len(u)
  BY <1>5, <1>4
<1>10. 1 \in 1..(e - a + 1) /\ a + 1 - 1 = a
  BY <1>5, <1>4
<1> QED BY <1>4, <1>5, <1>6, <1>7, <1>8, <1>9, <1>10

(* A piece ends before a later one starts.                                 *)
LEMMA CutApart ==
  ASSUME NEW R, NEW u \in Seq(R), NEW last, Ends(u, last), NEW p \in Seq(Seq(R)), NEW s,
         Cut(u, last, 1, p, s)
  PROVE  \A m \in 1..(Len(p) + 1) : \A k \in 1..(m - 1) : last[s[k]] < s[m]
<1> DEFINE S == {m \in Nat : m \in 1..(Len(p) + 1) => \A k \in 1..(m - 1) : last[s[k]] < s[m]}
<1>0. Len(p) \in Nat /\ DOMAIN u = 1..Len(u) /\ Len(u) \in Nat OBVIOUS
<1>1. 0 \in S OBVIOUS
<1>2. ASSUME NEW m \in S PROVE m + 1 \in S
  <2> SUFFICES ASSUME m + 1 \in 1..(Len(p) + 1), NEW k \in 1..m PROVE last[s[k]] < s[m + 1]
    BY <1>2
  <2>1. m \in 1..Len(p) BY <1>0, <1>2
  <2>2. s[m] \in 1..Len(u) /\ s[m + 1] = last[s[m]] + 1 /\ s[k] \in 1..Len(u)
    BY <2>1, <1>0 DEF Cut
  <2>3. last[s[m]] \in s[m]..Len(u) /\ last[s[k]] \in s[k]..Len(u)
    BY <2>2, <1>0 DEF Ends
  <2>4. CASE k = m BY <2>2, <2>3, <2>4
  <2>5. CASE k # m
    <3>1. k \in 1..(m - 1) /\ m \in 1..(Len(p) + 1) BY <2>1, <2>5, <1>0
    <3>2. last[s[k]] < s[m] BY <3>1, <1>2
    <3> QED BY <3>2, <2>2, <2>3
  <2> QED BY <2>4, <2>5
<1>3. S = Nat
  <2> HIDE DEF S
  <2>1. S \in SUBSET Nat BY DEF S
  <2> QED BY <1>1, <1>2, <2>1, UpFromZero
<1>4. \A m \in 1..(Len(p) + 1) : m \in S
  <2> HIDE DEF S
  <2> QED BY <1>3, <1>0
<1> QED BY <1>4

(* Every token is in a piece.                                              *)
LEMMA CutCovers ==
  ASSUME NEW R, NEW u \in Seq(R), NEW last, Ends(u, last), NEW p \in Seq(Seq(R)), NEW s,
         Cut(u, last, 1, p, s), NEW i \in DOMAIN u
  PROVE  \E k \in DOMAIN p : s[k] <= i /\ i <= last[s[k]]
<1> DEFINE S == {k \in 1..(Len(p) + 1) : i < s[k]}
<1>0. /\ Len(p) \in Nat /\ DOMAIN u = 1..Len(u) /\ Len(u) \in Nat /\ i \in 1..Len(u)
      /\ DOMAIN p = 1..Len(p)
  OBVIOUS
<1>1. s[Len(p) + 1] = Len(u) + 1 /\ s[1] = 1 /\ \A k \in 1..(Len(p) + 1) : s[k] \in 1..(Len(u) + 1)
  BY DEF Cut
<1>2. Len(p) + 1 \in S /\ S \in SUBSET Nat BY <1>0, <1>1
<1>3. PICK m \in S : \A k \in S : m <= k BY <1>2, LeastNat
<1>4. m # 1 BY <1>1, <1>0
<1>5. m - 1 \in 1..Len(p) /\ m - 1 \notin S BY <1>3, <1>4, <1>0
<1>6. PICK k \in DOMAIN p : k = m - 1 BY <1>5, <1>0
<1>7. s[k] <= i
  <2>1. k \in 1..(Len(p) + 1) /\ ~(i < s[k]) BY <1>5, <1>6, <1>0
  <2>2. s[k] \in 1..(Len(u) + 1) BY <2>1, <1>1
  <2> QED BY <2>1, <2>2, <1>0
<1>8. s[k] \in DOMAIN u /\ s[k + 1] = last[s[k]] + 1 BY <1>6, <1>0 DEF Cut
<1>9. last[s[k]] \in s[k]..Len(u) BY <1>8 DEF Ends
<1>10. i < last[s[k]] + 1
  <2>1. k + 1 = m BY <1>6, <1>0
  <2> QED BY <2>1, <1>8, <1>3
<1>11. i <= last[s[k]] BY <1>10, <1>9, <1>0, <1>8
<1> QED BY <1>7, <1>11

LEMMA LeastIs ==
  ASSUME NEW S \in SUBSET Nat, S # {}
  PROVE  Least(S) \in S /\ \A k \in S : Least(S) <= k
<1>1. \E n \in S : \A k \in S : n <= k BY LeastNat
<1> QED BY <1>1 DEF Least

(* Where the pieces end. *)
TokenLast(u) ==
  [i \in DOMAIN u |->
    IF u[i].open THEN Least({j \in i..Len(u) : u[j].close = "end"} \cup {Len(u)}) ELSE i]
ByteLast(u) ==
  [i \in DOMAIN u |->
    IF u[i].open /\ \E j \in i..Len(u) : u[j].close # "no"
    THEN Least({j \in i..Len(u) : u[j].close # "no"}) ELSE i]

LEMMA TokenEnds ==
  ASSUME NEW R, NEW u \in Seq(R)
  PROVE  /\ Ends(u, TokenLast(u))
         /\ \A i \in DOMAIN u :
              /\ ~u[i].open => TokenLast(u)[i] = i
              /\ u[i].open => \A j \in i..Len(u) : u[j].close = "end" => TokenLast(u)[i] <= j
              /\ u[i].open => u[TokenLast(u)[i]].close = "end" \/ TokenLast(u)[i] = Len(u)
<1> SUFFICES ASSUME NEW i \in DOMAIN u
             PROVE  /\ TokenLast(u)[i] \in i..Len(u)
                    /\ ~u[i].open => TokenLast(u)[i] = i
                    /\ u[i].open => \A j \in i..Len(u) : u[j].close = "end" => TokenLast(u)[i] <= j
                    /\ u[i].open => u[TokenLast(u)[i]].close = "end" \/ TokenLast(u)[i] = Len(u)
  BY DEF Ends
<1>1. i \in 1..Len(u) /\ Len(u) \in Nat OBVIOUS
<1> DEFINE S == {j \in i..Len(u) : u[j].close = "end"} \cup {Len(u)}
<1>2. S \in SUBSET Nat /\ Len(u) \in S /\ S \subseteq i..Len(u) BY <1>1
<1>3. Least(S) \in S /\ \A k \in S : Least(S) <= k
  <2> HIDE DEF S
  <2> QED BY <1>2, LeastIs
<1>4. CASE u[i].open
  <2>1. TokenLast(u)[i] = Least(S) BY <1>4 DEF TokenLast
  <2>2. \A j \in i..Len(u) : u[j].close = "end" => j \in S OBVIOUS
  <2>3. u[Least(S)].close = "end" \/ Least(S) = Len(u) BY <1>3
  <2> HIDE DEF S
  <2> QED BY <1>2, <1>3, <1>4, <2>1, <2>2, <2>3
<1>5. CASE ~u[i].open
  BY <1>1, <1>5 DEF TokenLast
<1> QED BY <1>4, <1>5

LEMMA ByteEnds ==
  ASSUME NEW R, NEW u \in Seq(R)
  PROVE  /\ Ends(u, ByteLast(u))
         /\ \A i \in DOMAIN u :
              /\ ~u[i].open => ByteLast(u)[i] = i
              /\ ByteLast(u)[i] # i => u[i].open
              /\ u[i].open => \A j \in i..Len(u) : u[j].close # "no" =>
                   ByteLast(u)[i] <= j /\ u[ByteLast(u)[i]].close # "no"
<1> SUFFICES ASSUME NEW i \in DOMAIN u
             PROVE  /\ ByteLast(u)[i] \in i..Len(u)
                    /\ ~u[i].open => ByteLast(u)[i] = i
                    /\ ByteLast(u)[i] # i => u[i].open
                    /\ u[i].open => \A j \in i..Len(u) : u[j].close # "no" =>
                         ByteLast(u)[i] <= j /\ u[ByteLast(u)[i]].close # "no"
  BY DEF Ends
<1>1. i \in 1..Len(u) /\ Len(u) \in Nat OBVIOUS
<1> DEFINE S == {j \in i..Len(u) : u[j].close # "no"}
<1>4. CASE u[i].open /\ S # {}
  <2>1. ByteLast(u)[i] = Least(S) BY <1>4 DEF ByteLast
  <2>2. S \in SUBSET Nat /\ S \subseteq i..Len(u) BY <1>1
  <2>3. Least(S) \in S /\ \A k \in S : Least(S) <= k
    <3> HIDE DEF S
    <3> QED BY <2>2, <1>4, LeastIs
  <2>4. u[Least(S)].close # "no" /\ \A j \in i..Len(u) : u[j].close # "no" => j \in S
    BY <2>3
  <2> HIDE DEF S
  <2> QED BY <1>4, <2>1, <2>2, <2>3, <2>4
<1>5. CASE ~(u[i].open /\ S # {})
  BY <1>1, <1>5 DEF ByteLast
<1> QED BY <1>4, <1>5

LEMMA TokenCut ==
  ASSUME NEW R, NEW u \in Seq(R)
  PROVE  /\ TokenPieces(u) \in Seq(Seq(R))
         /\ \E s : Cut(u, TokenLast(u), 1, TokenPieces(u), s)
BY TokenEnds, PiecesCut DEF TokenPieces, TokenLast

LEMMA ByteCut ==
  ASSUME NEW R, NEW u \in Seq(R)
  PROVE  /\ BytePieces(u) \in Seq(Seq(R))
         /\ \E s : Cut(u, ByteLast(u), 1, BytePieces(u), s)
BY ByteEnds, PiecesCut DEF BytePieces, ByteLast

-----------------------------------------------------------------------------
(* Folds over the pieces. *)

Foldable(V, base, n, step) ==
  \E f \in [0..n -> V] : f[0] = base /\ \A k \in 1..n : f[k] = step[k][f[k - 1]]

LEMMA FoldExists ==
  ASSUME NEW V, NEW base \in V, NEW n \in Nat, NEW step \in [1..n -> [V -> V]]
  PROVE  Foldable(V, base, n, step)
<1> DEFINE Has(m) == \E f \in [0..m -> V] :
                       f[0] = base /\ \A k \in 1..m : f[k] = step[k][f[k - 1]]
           S == {m \in 0..n : Has(m)}
<1>1. Has(0)
  <2> DEFINE f == [k \in 0..0 |-> base]
  <2>1. f \in [0..0 -> V] /\ f[0] = base /\ 1..0 = {} OBVIOUS
  <2> QED BY <2>1
<1>2. ASSUME NEW m \in 0..(n - 1), Has(m) PROVE Has(m + 1)
  <2>1. PICK f \in [0..m -> V] : f[0] = base /\ \A k \in 1..m : f[k] = step[k][f[k - 1]]
    BY <1>2
  <2>2. m \in Nat /\ m \in 0..m /\ m + 1 \in 1..n /\ (m + 1) - 1 = m OBVIOUS
  <2>3. step[m + 1][f[m]] \in V BY <2>1, <2>2
  <2> DEFINE g == [k \in 0..(m + 1) |-> IF k = m + 1 THEN step[m + 1][f[m]] ELSE f[k]]
  <2>4. \A k \in 0..(m + 1) : k # m + 1 => k \in 0..m OBVIOUS
  <2>5. g \in [0..(m + 1) -> V] BY <2>1, <2>3, <2>4
  <2>6. \A k \in 0..m : g[k] = f[k]
    <3>1. \A k \in 0..m : k \in 0..(m + 1) /\ k # m + 1 BY <2>2
    <3> QED BY <3>1
  <2>7. 0 \in 0..m BY <2>2
  <2>8. g[m + 1] = step[m + 1][f[m]] BY <2>2
  <2> HIDE DEF g
  <2>9. ASSUME NEW k \in 1..(m + 1) PROVE g[k] = step[k][g[k - 1]]
    <3>1. CASE k = m + 1 BY <3>1, <2>2, <2>6, <2>8
    <3>2. CASE k # m + 1
      <4>1. k \in 1..m /\ k \in 0..m /\ k - 1 \in 0..m BY <3>2
      <4> QED BY <4>1, <2>1, <2>6
    <3> QED BY <3>1, <3>2
  <2> QED BY <2>1, <2>5, <2>6, <2>7, <2>9
<1> HIDE DEF Has
<1>3. 0 \in S BY <1>1
<1>4. \A m \in 0..(n - 1) : m \in S => m + 1 \in S BY <1>2
<1>5. \A k \in 0..n : k \in S
  <2> HIDE DEF S
  <2> QED BY <1>3, <1>4, UpTo
<1>6. Has(n) BY <1>5
<1> QED BY <1>6 DEF Has, Foldable

(* Counting. *)
LEMMA SumExists ==
  ASSUME NEW n \in Nat, NEW add \in [1..n -> Nat]
  PROVE  \E f : f = [k \in 0..n |-> IF k = 0 THEN 0 ELSE f[k - 1] + add[k]]
<1> DEFINE step == [k \in 1..n |-> [x \in Nat |-> x + add[k]]]
<1>1. step \in [1..n -> [Nat -> Nat]] /\ 0 \in Nat OBVIOUS
<1>2. Foldable(Nat, 0, n, step)
  <2> HIDE DEF step
  <2> QED BY <1>1, FoldExists
<1>3. PICK f \in [0..n -> Nat] : f[0] = 0 /\ \A k \in 1..n : f[k] = step[k][f[k - 1]]
  BY <1>2 DEF Foldable
<1>4. ASSUME NEW k \in 0..n PROVE f[k] = IF k = 0 THEN 0 ELSE f[k - 1] + add[k]
  <2>1. k # 0 => k \in 1..n /\ f[k - 1] \in Nat OBVIOUS
  <2>2. k # 0 => step[k][f[k - 1]] = f[k - 1] + add[k] BY <2>1
  <2> QED BY <1>3, <2>1, <2>2
<1>5. f = [k \in 0..n |-> IF k = 0 THEN 0 ELSE f[k - 1] + add[k]] BY <1>4
<1> QED BY <1>5

(* Gathering. *)
Gathered(T, n, part) ==
  \E f \in [0..n -> Seq(T)] : f = [k \in 0..n |-> IF k = 0 THEN <<>> ELSE f[k - 1] \o part[k]]

LEMMA ConcatExists ==
  ASSUME NEW T, NEW n \in Nat, NEW part \in [1..n -> Seq(T)]
  PROVE  Gathered(T, n, part)
<1> DEFINE step == [k \in 1..n |-> [x \in Seq(T) |-> x \o part[k]]]
<1>1. step \in [1..n -> [Seq(T) -> Seq(T)]] /\ <<>> \in Seq(T) OBVIOUS
<1>2. Foldable(Seq(T), <<>>, n, step)
  <2> HIDE DEF step
  <2> QED BY <1>1, FoldExists
<1>3. PICK f \in [0..n -> Seq(T)] : f[0] = <<>> /\ \A k \in 1..n : f[k] = step[k][f[k - 1]]
  BY <1>2 DEF Foldable
<1>4. ASSUME NEW k \in 0..n PROVE f[k] = IF k = 0 THEN <<>> ELSE f[k - 1] \o part[k]
  <2>1. k # 0 => k \in 1..n /\ f[k - 1] \in Seq(T) OBVIOUS
  <2>2. k # 0 => step[k][f[k - 1]] = f[k - 1] \o part[k] BY <2>1
  <2> QED BY <1>3, <2>1, <2>2
<1>5. f = [k \in 0..n |-> IF k = 0 THEN <<>> ELSE f[k - 1] \o part[k]] BY <1>4
<1> QED BY <1>5 DEF Gathered

(* A count is the size of what it counts. *)
LEMMA CountIs ==
  ASSUME NEW n \in Nat, NEW K, NEW f, f[0] = 0,
         \A k \in 1..n : f[k] = f[k - 1] + IF k \in K THEN 1 ELSE 0
  PROVE  f[n] = Cardinality(K \cap (1..n))
<1> DEFINE S == {m \in 0..n : f[m] = Cardinality(K \cap (1..m)) /\ f[m] \in Nat}
<1>1. 0 \in S
  <2>1. K \cap (1..0) = {} OBVIOUS
  <2> QED BY <2>1, FS_EmptySet
<1>2. ASSUME NEW m \in 0..(n - 1), m \in S PROVE m + 1 \in S
  <2>1. m + 1 \in 1..n /\ (m + 1) - 1 = m /\ m \in Nat OBVIOUS
  <2>2. f[m + 1] = f[m] + IF m + 1 \in K THEN 1 ELSE 0 BY <2>1
  <2>3. IsFiniteSet(K \cap (1..m)) /\ m + 1 \notin K \cap (1..m)
    <3>1. IsFiniteSet(1..m) BY <2>1, FS_Interval
    <3> QED BY <3>1, <2>1, FS_Subset
  <2>4. CASE m + 1 \in K
    <3>1. K \cap (1..(m + 1)) = (K \cap (1..m)) \cup {m + 1} BY <2>4, <2>1
    <3>2. Cardinality(K \cap (1..(m + 1))) = Cardinality(K \cap (1..m)) + 1
      BY <3>1, <2>3, FS_AddElement
    <3> QED BY <3>2, <2>2, <2>4, <1>2, <2>1
  <2>5. CASE m + 1 \notin K
    <3>1. K \cap (1..(m + 1)) = K \cap (1..m) BY <2>5, <2>1
    <3> QED BY <3>1, <2>2, <2>5, <1>2, <2>1
  <2> QED BY <2>4, <2>5
<1>3. \A m \in 0..n : m \in S
  <2> HIDE DEF S
  <2> QED BY <1>1, <1>2, UpTo
<1> QED BY <1>3

(* positional_arity counts the positional pieces. *)
LEMMA RequiredIs ==
  ASSUME NEW R, NEW u \in Seq(R)
  PROVE  RequiredCount(u) = Cardinality({k \in 1..Len(TokenPieces(u)) :
           IsPositional(TokenPieces(u), k) /\ ~TokenPieces(u)[k][1].open})
<1> DEFINE pieces == TokenPieces(u)
           n == Len(pieces)
           K == {k \in 1..n : IsPositional(pieces, k) /\ ~pieces[k][1].open}
           add == [k \in 1..n |-> IF k \in K THEN 1 ELSE 0]
           f == CHOOSE f : f = [k \in 0..Len(TokenPieces(u)) |->
                  IF k = 0 THEN 0
                  ELSE f[k - 1] + IF /\ IsPositional(TokenPieces(u), k)
                                     /\ ~TokenPieces(u)[k][1].open THEN 1 ELSE 0]
<1>1. RequiredCount(u) = f[n] BY DEF RequiredCount
<1>2. n \in Nat BY TokenCut
<1>3. add \in [1..n -> Nat] OBVIOUS
<1>4. PICK g : g = [k \in 0..n |-> IF k = 0 THEN 0 ELSE g[k - 1] + add[k]]
  <2> HIDE DEF add, n
  <2> QED BY <1>2, <1>3, SumExists
<1>5. \A k \in 1..n : add[k] = IF IsPositional(pieces, k) /\ ~pieces[k][1].open THEN 1 ELSE 0
  OBVIOUS
<1>6. g = [k \in 0..n |-> IF k = 0 THEN 0
            ELSE g[k - 1] + IF IsPositional(pieces, k) /\ ~pieces[k][1].open THEN 1 ELSE 0]
  <2> HIDE DEF add, n
  <2>1. ASSUME NEW k \in 0..n
        PROVE  (IF k = 0 THEN 0 ELSE g[k - 1] + add[k])
                 = IF k = 0 THEN 0
                   ELSE g[k - 1] + IF IsPositional(pieces, k) /\ ~pieces[k][1].open THEN 1 ELSE 0
    <3>1. k # 0 => k \in 1..n BY <1>2
    <3> QED BY <3>1, <1>5
  <2> QED BY <2>1, <1>4
<1>7. f = [k \in 0..n |-> IF k = 0 THEN 0
            ELSE f[k - 1] + IF IsPositional(pieces, k) /\ ~pieces[k][1].open THEN 1 ELSE 0]
  BY <1>6
<1> HIDE DEF f
<1>8. f[0] = 0 BY <1>7, <1>2
<1>9. \A k \in 1..n : f[k] = f[k - 1] + IF k \in K THEN 1 ELSE 0
  <2>1. \A k \in 1..n : k \in 0..n /\ k # 0 BY <1>2
  <2> QED BY <2>1, <1>7
<1>10. K \cap (1..n) = K OBVIOUS
<1>11. f[n] = Cardinality(K \cap (1..n))
  <2> HIDE DEF K, n
  <2> QED BY <1>2, <1>8, <1>9, CountIs
<1> QED BY <1>1, <1>10, <1>11

LEMMA OptionalIs ==
  ASSUME NEW R, NEW u \in Seq(R)
  PROVE  OptionalCount(u) = Cardinality({k \in 1..Len(TokenPieces(u)) :
           IsPositional(TokenPieces(u), k) /\ TokenPieces(u)[k][1].open})
<1> DEFINE pieces == TokenPieces(u)
           n == Len(pieces)
           K == {k \in 1..n : IsPositional(pieces, k) /\ pieces[k][1].open}
           add == [k \in 1..n |-> IF k \in K THEN 1 ELSE 0]
           f == CHOOSE f : f = [k \in 0..Len(TokenPieces(u)) |->
                  IF k = 0 THEN 0
                  ELSE f[k - 1] + IF /\ IsPositional(TokenPieces(u), k)
                                     /\ TokenPieces(u)[k][1].open THEN 1 ELSE 0]
<1>1. OptionalCount(u) = f[n] BY DEF OptionalCount
<1>2. n \in Nat BY TokenCut
<1>3. add \in [1..n -> Nat] OBVIOUS
<1>4. PICK g : g = [k \in 0..n |-> IF k = 0 THEN 0 ELSE g[k - 1] + add[k]]
  <2> HIDE DEF add, n
  <2> QED BY <1>2, <1>3, SumExists
<1>5. \A k \in 1..n : add[k] = IF IsPositional(pieces, k) /\ pieces[k][1].open THEN 1 ELSE 0
  OBVIOUS
<1>6. g = [k \in 0..n |-> IF k = 0 THEN 0
            ELSE g[k - 1] + IF IsPositional(pieces, k) /\ pieces[k][1].open THEN 1 ELSE 0]
  <2> HIDE DEF add, n
  <2>1. ASSUME NEW k \in 0..n
        PROVE  (IF k = 0 THEN 0 ELSE g[k - 1] + add[k])
                 = IF k = 0 THEN 0
                   ELSE g[k - 1] + IF IsPositional(pieces, k) /\ pieces[k][1].open THEN 1 ELSE 0
    <3>1. k # 0 => k \in 1..n BY <1>2
    <3> QED BY <3>1, <1>5
  <2> QED BY <2>1, <1>4
<1>7. f = [k \in 0..n |-> IF k = 0 THEN 0
            ELSE f[k - 1] + IF IsPositional(pieces, k) /\ pieces[k][1].open THEN 1 ELSE 0]
  BY <1>6
<1> HIDE DEF f
<1>8. f[0] = 0 BY <1>7, <1>2
<1>9. \A k \in 1..n : f[k] = f[k - 1] + IF k \in K THEN 1 ELSE 0
  <2>1. \A k \in 1..n : k \in 0..n /\ k # 0 BY <1>2
  <2> QED BY <2>1, <1>7
<1>10. K \cap (1..n) = K OBVIOUS
<1>11. f[n] = Cardinality(K \cap (1..n))
  <2> HIDE DEF K, n
  <2> QED BY <1>2, <1>8, <1>9, CountIs
<1> QED BY <1>1, <1>10, <1>11

(* positional_names gives the positional pieces a name each, in order: the *)
(* p-th name is that of the piece at[p].                                   *)
Enumerates(at, names, pieces, n) ==
  /\ names \in Seq({ToPositional(pieces[k]) : k \in 1..n})
  /\ at \in [1..Len(names) -> 1..n]
  /\ \A p \in 1..Len(names) :
       IsPositional(pieces, at[p]) /\ names[p] = ToPositional(pieces[at[p]])
  /\ \A p, q \in 1..Len(names) : p < q => at[p] < at[q]
  /\ \A k \in 1..n : IsPositional(pieces, k) => \E p \in 1..Len(names) : at[p] = k

LEMMA NamesEquation ==
  ASSUME NEW R, NEW u \in Seq(R), NEW pieces, pieces = TokenPieces(u), NEW n, n = Len(pieces)
  PROVE  \E f : /\ PositionalNames(u) = f[n] /\ f[0] = <<>>
                /\ \A k \in 1..n :
                     f[k] = IF IsPositional(pieces, k) THEN Append(f[k - 1], ToPositional(pieces[k]))
                            ELSE f[k - 1]
<1> DEFINE T == {ToPositional(pieces[k]) : k \in 1..n}
           Part(k) == IF IsPositional(pieces, k) THEN <<ToPositional(pieces[k])>> ELSE <<>>
           part == [k \in 1..n |-> Part(k)]
           Next0(g, k) == IF IsPositional(pieces, k) THEN Append(g[k - 1], ToPositional(pieces[k]))
                          ELSE g[k - 1]
           f == CHOOSE f : f = [k \in 0..Len(pieces) |-> IF k = 0 THEN <<>>
                  ELSE IF IsPositional(pieces, k) THEN Append(f[k - 1], ToPositional(pieces[k]))
                  ELSE f[k - 1]]
<1>1. PositionalNames(u) = f[n] BY DEF PositionalNames
<1>2. n \in Nat BY TokenCut
<1>3. part \in [1..n -> Seq(T)]
  <2>1. ASSUME NEW k \in 1..n PROVE Part(k) \in Seq(T)
    <3>1. ToPositional(pieces[k]) \in T OBVIOUS
    <3> HIDE DEF T
    <3>2. <<ToPositional(pieces[k])>> \in Seq(T) /\ <<>> \in Seq(T) BY <3>1
    <3> QED BY <3>2
  <2> HIDE DEF T, Part
  <2> QED BY <2>1
<1>11. Gathered(T, n, part)
  <2> HIDE DEF part, T
  <2> QED BY <1>2, <1>3, ConcatExists
<1>4. PICK g \in [0..n -> Seq(T)] : g = [k \in 0..n |-> IF k = 0 THEN <<>> ELSE g[k - 1] \o part[k]]
  <2> HIDE DEF part, T
  <2> QED BY <1>11 DEF Gathered
<1>5. ASSUME NEW k \in 1..n PROVE g[k - 1] \o part[k] = Next0(g, k)
  <2>1. g[k - 1] \in Seq(T)
    <3>1. k - 1 \in 0..n BY <1>2
    <3> HIDE DEF T
    <3> QED BY <3>1, <1>4
  <2>2. ToPositional(pieces[k]) \in T OBVIOUS
  <2> HIDE DEF T
  <2>3. g[k - 1] \o <<>> = g[k - 1] BY <2>1
  <2>4. g[k - 1] \o <<ToPositional(pieces[k])>> = Append(g[k - 1], ToPositional(pieces[k]))
    BY <2>1, <2>2
  <2>5. part[k] = Part(k) OBVIOUS
  <2> HIDE DEF part
  <2> QED BY <2>3, <2>4, <2>5
<1>6. g = [k \in 0..n |-> IF k = 0 THEN <<>> ELSE Next0(g, k)]
  <2> HIDE DEF part, Next0, T
  <2>1. ASSUME NEW k \in 0..n
        PROVE  (IF k = 0 THEN <<>> ELSE g[k - 1] \o part[k]) = IF k = 0 THEN <<>> ELSE Next0(g, k)
    <3>1. k # 0 => k \in 1..n BY <1>2
    <3> QED BY <3>1, <1>5
  <2> QED BY <2>1, <1>4
<1>7. f = [k \in 0..n |-> IF k = 0 THEN <<>> ELSE Next0(f, k)]
  BY <1>6
<1> HIDE DEF f
<1>8. f[0] = <<>> BY <1>7, <1>2
<1>9. \A k \in 1..n : f[k] = Next0(f, k)
  <2>1. \A k \in 1..n : k \in 0..n /\ k # 0 BY <1>2
  <2> HIDE DEF Next0
  <2> QED BY <2>1, <1>7
<1> QED BY <1>1, <1>8, <1>9

LEMMA NamesEnumerate ==
  ASSUME NEW R, NEW u \in Seq(R), NEW pieces, pieces = TokenPieces(u), NEW n, n = Len(pieces)
  PROVE  \E at : Enumerates(at, PositionalNames(u), pieces, n)
<1>1. PICK f : /\ PositionalNames(u) = f[n] /\ f[0] = <<>>
               /\ \A k \in 1..n :
                    f[k] = IF IsPositional(pieces, k) THEN Append(f[k - 1], ToPositional(pieces[k]))
                           ELSE f[k - 1]
  BY NamesEquation
<1>2. n \in Nat BY TokenCut
<1> DEFINE S == {m \in 0..n : \E at : Enumerates(at, f[m], pieces, m)}
<1>3. 0 \in S
  <2> DEFINE at == [p \in 1..0 |-> 0]
  <2>1. Enumerates(at, <<>>, pieces, 0) BY DEF Enumerates
  <2> QED BY <2>1, <1>1, <1>2
<1>4. ASSUME NEW m \in 0..(n - 1), m \in S PROVE m + 1 \in S
  <2>1. m + 1 \in 1..n /\ (m + 1) - 1 = m /\ m \in Nat BY <1>2
  <2>2. PICK at : Enumerates(at, f[m], pieces, m) BY <1>4
  <2> DEFINE T == {ToPositional(pieces[k]) : k \in 1..m}
             Q == {ToPositional(pieces[k]) : k \in 1..(m + 1)}
             names == f[m]
             x == ToPositional(pieces[m + 1])
  <2>3. names \in Seq(T) /\ at \in [1..Len(names) -> 1..m]
    BY <2>2 DEF Enumerates
  <2>4. T \subseteq Q /\ x \in Q BY <2>1
  <2>5. /\ \A p \in 1..Len(names) :
             IsPositional(pieces, at[p]) /\ names[p] = ToPositional(pieces[at[p]])
        /\ \A p, q \in 1..Len(names) : p < q => at[p] < at[q]
        /\ \A k \in 1..m : IsPositional(pieces, k) => \E p \in 1..Len(names) : at[p] = k
    BY <2>2 DEF Enumerates
  <2>6. f[m + 1] = IF IsPositional(pieces, m + 1) THEN Append(names, x) ELSE names
    BY <1>1, <2>1
  <2> HIDE DEF T, Q, names, x
  <2>7. names \in Seq(Q) /\ Len(names) \in Nat BY <2>3, <2>4
  <2>8. \A p \in 1..Len(names) : at[p] \in 1..m /\ at[p] \in 1..(m + 1) /\ at[p] < m + 1
    BY <2>3, <2>1
  <2>9. \A k \in 1..(m + 1) : k \in 1..m \/ k = m + 1 BY <2>1
  <2>10. CASE ~IsPositional(pieces, m + 1)
    <3>1. at \in [1..Len(names) -> 1..(m + 1)] BY <2>3, <2>8
    <3>2. Enumerates(at, names, pieces, m + 1)
      BY <3>1, <2>5, <2>7, <2>9, <2>10 DEF Enumerates, Q
    <3> QED BY <3>2, <2>6, <2>10, <2>1
  <2>11. CASE IsPositional(pieces, m + 1)
    <3> DEFINE more == Append(names, x)
               L == Len(names)
               to == [p \in 1..(L + 1) |-> IF p = L + 1 THEN m + 1 ELSE at[p]]
    <3>1. more \in Seq(Q) /\ Len(more) = L + 1 /\ more[L + 1] = x
          /\ \A p \in 1..L : more[p] = names[p]
      BY <2>4, <2>7
    <3>2. L \in Nat /\ \A p \in 1..(L + 1) : p \in 1..L \/ p = L + 1 BY <2>7
    <3> HIDE DEF more
    <3>3. /\ to[L + 1] = m + 1 /\ L + 1 \in 1..(L + 1)
          /\ \A p \in 1..L : to[p] = at[p] /\ p # L + 1 /\ p \in 1..(L + 1)
      BY <3>2
    <3>4. to \in [1..(L + 1) -> 1..(m + 1)]
      <4>1. m + 1 \in 1..(m + 1) BY <2>1
      <4> HIDE DEF L
      <4> QED BY <4>1, <3>2, <3>3, <2>8 DEF L
    <3> HIDE DEF to
    <3>5. \A p \in 1..(L + 1) :
            IsPositional(pieces, to[p]) /\ more[p] = ToPositional(pieces[to[p]])
      BY <3>1, <3>2, <3>3, <2>5, <2>11 DEF x
    <3>6. ASSUME NEW p \in 1..(L + 1), NEW q \in 1..(L + 1), p < q PROVE to[p] < to[q]
      <4>1. p \in 1..L BY <3>2, <3>6
      <4>2. CASE q = L + 1 BY <4>1, <4>2, <3>3, <2>8
      <4>3. CASE q \in 1..L BY <4>1, <4>3, <3>3, <3>6, <2>5
      <4> QED BY <4>2, <4>3, <3>2
    <3>7. \A k \in 1..(m + 1) : IsPositional(pieces, k) => \E p \in 1..(L + 1) : to[p] = k
      BY <3>3, <2>5, <2>9
    <3>8. Enumerates(to, more, pieces, m + 1)
      BY <3>1, <3>4, <3>5, <3>6, <3>7 DEF Enumerates, Q
    <3>9. f[m + 1] = more BY <2>6, <2>11 DEF more
    <3>10. m + 1 \in 0..n BY <2>1, <1>2
    <3> QED BY <3>8, <3>9, <3>10
  <2> QED BY <2>10, <2>11
<1>5. \A m \in 0..n : m \in S
  <2> HIDE DEF S
  <2> QED BY <1>2, <1>3, <1>4, UpTo
<1>6. n \in 0..n BY <1>2
<1> QED BY <1>1, <1>5, <1>6

LEMMA SameSize ==
  ASSUME NEW A, NEW B, NEW g \in [A -> B], IsFiniteSet(A),
         \A x, y \in A : g[x] = g[y] => x = y, \A b \in B : \E a \in A : g[a] = b
  PROVE  Cardinality(A) = Cardinality(B)
<1>1. g \in Bijection(A, B) BY DEF Bijection, Injection, Surjection, IsInjective
<1>2. ExistsBijection(A, B) BY <1>1 DEF ExistsBijection
<1> QED BY <1>2, FS_Bijection

(* There are as many names, of each kind, as positional_arity counts.      *)
LEMMA NamesCounted ==
  ASSUME NEW R, NEW u \in Seq(R)
  PROVE  LET names == PositionalNames(u) IN
         /\ Cardinality({p \in DOMAIN names : ~names[p].optional}) = RequiredCount(u)
         /\ Cardinality({p \in DOMAIN names : names[p].optional}) = OptionalCount(u)
<1> DEFINE pieces == TokenPieces(u)
           n == Len(pieces)
           names == PositionalNames(u)
           L == Len(names)
<1>1. PICK at : Enumerates(at, names, pieces, n) BY NamesEnumerate
<1>2. /\ DOMAIN names = 1..L /\ L \in Nat /\ at \in [1..L -> 1..n]
      /\ \A p \in 1..L : IsPositional(pieces, at[p]) /\ names[p] = ToPositional(pieces[at[p]])
      /\ \A p, q \in 1..L : p < q => at[p] < at[q]
      /\ \A k \in 1..n : IsPositional(pieces, k) => \E p \in 1..L : at[p] = k
  BY <1>1 DEF Enumerates
<1> HIDE DEF pieces, n, names, L
<1>3. \A p \in 1..L : names[p].optional = pieces[at[p]][1].open
  BY <1>2 DEF ToPositional
<1>4. \A p \in 1..L : at[p] \in 1..n BY <1>2
<1>5. \A p, q \in 1..L : at[p] = at[q] => p = q
  <2> SUFFICES ASSUME NEW p \in 1..L, NEW q \in 1..L, at[p] = at[q], p # q PROVE FALSE
    OBVIOUS
  <2>1. p < q \/ q < p OBVIOUS
  <2>2. at[p] \in Int /\ at[q] \in Int BY <1>4
  <2> QED BY <2>1, <2>2, <1>2
<1>6. IsFiniteSet(1..L) BY <1>2, FS_Interval
<1>7. Cardinality({p \in 1..L : ~names[p].optional})
        = Cardinality({k \in 1..n : IsPositional(pieces, k) /\ ~pieces[k][1].open})
  <2> DEFINE A == {p \in 1..L : ~names[p].optional}
             B == {k \in 1..n : IsPositional(pieces, k) /\ ~pieces[k][1].open}
             g == [p \in A |-> at[p]]
  <2>1. g \in [A -> B] BY <1>2, <1>3, <1>4
  <2>2. \A x, y \in A : g[x] = g[y] => x = y BY <1>5
  <2>3. \A b \in B : \E a \in A : g[a] = b BY <1>2, <1>3
  <2>4. IsFiniteSet(A) BY <1>6, FS_Subset
  <2> HIDE DEF A, B, g
  <2>5. Cardinality(A) = Cardinality(B) BY <2>1, <2>2, <2>3, <2>4, SameSize
  <2> QED BY <2>5 DEF A, B
<1>8. Cardinality({p \in 1..L : names[p].optional})
        = Cardinality({k \in 1..n : IsPositional(pieces, k) /\ pieces[k][1].open})
  <2> DEFINE A == {p \in 1..L : names[p].optional}
             B == {k \in 1..n : IsPositional(pieces, k) /\ pieces[k][1].open}
             g == [p \in A |-> at[p]]
  <2>1. g \in [A -> B] BY <1>2, <1>3, <1>4
  <2>2. \A x, y \in A : g[x] = g[y] => x = y BY <1>5
  <2>3. \A b \in B : \E a \in A : g[a] = b BY <1>2, <1>3
  <2>4. IsFiniteSet(A) BY <1>6, FS_Subset
  <2> HIDE DEF A, B, g
  <2>5. Cardinality(A) = Cardinality(B) BY <2>1, <2>2, <2>3, <2>4, SameSize
  <2> QED BY <2>5 DEF A, B
<1>9. RequiredCount(u) = Cardinality({k \in 1..n : IsPositional(pieces, k) /\ ~pieces[k][1].open})
  BY RequiredIs DEF n, pieces
<1>10. OptionalCount(u) = Cardinality({k \in 1..n : IsPositional(pieces, k) /\ pieces[k][1].open})
  BY OptionalIs DEF n, pieces
<1> QED BY <1>2, <1>7, <1>8, <1>9, <1>10 DEF names

(* None of them takes the rest of the line, where the arity is bounded.    *)
LEMMA NamesBounded ==
  ASSUME NEW R, NEW u \in Seq(R), ~Unbounded(u), NEW p \in DOMAIN PositionalNames(u)
  PROVE  ~PositionalNames(u)[p].variadic
<1> DEFINE pieces == TokenPieces(u)
           n == Len(pieces)
           names == PositionalNames(u)
<1>1. PICK at : Enumerates(at, names, pieces, n) BY NamesEnumerate
<1>2. DOMAIN names = 1..Len(names) BY <1>1 DEF Enumerates
<1>3. at[p] \in 1..n /\ IsPositional(pieces, at[p]) /\ names[p] = ToPositional(pieces[at[p]])
  BY <1>1, <1>2 DEF Enumerates
<1>4. DOMAIN pieces = 1..n BY TokenCut
<1>5. ~TakenByFlag(pieces, at[p]) BY <1>3 DEF IsPositional, TakenByFlag
<1>6. ~\E j \in DOMAIN pieces[at[p]] : pieces[at[p]][j].dots
  BY <1>3, <1>4, <1>5 DEF Unbounded
<1> QED BY <1>3, <1>6 DEF ToPositional
-----------------------------------------------------------------------------
(* What an answer advertises. *)

(* A token that stands on its own where the string is read token by token  *)
(* stands on its own where it is read byte by byte.                        *)
LEMMA StandsAlone ==
  ASSUME NEW R, NEW u \in Seq(R), NEW s, Cut(u, TokenLast(u), 1, TokenPieces(u), s),
         NEW k \in DOMAIN TokenPieces(u), ~u[s[k]].open
  PROVE  \E m \in DOMAIN BytePieces(u) :
           Len(BytePieces(u)[m]) = 1 /\ BytePieces(u)[m][1] = u[s[k]]
<1> DEFINE i == s[k]
           tl == TokenLast(u)
           bl == ByteLast(u)
           pieces == BytePieces(u)
           tokens == TokenPieces(u)
<1>1. PICK b : Cut(u, bl, 1, pieces, b) BY ByteCut
<1>2. tokens \in Seq(Seq(R)) /\ pieces \in Seq(Seq(R)) BY TokenCut, ByteCut
<1>3. Ends(u, tl) /\ Ends(u, bl) /\ Cut(u, tl, 1, tokens, s) BY TokenEnds, ByteEnds
<1> HIDE DEF tl, bl, pieces, tokens
<1>4. i \in DOMAIN u /\ tl[i] \in i..Len(u)
  BY <1>2, <1>3, CutPieces DEF tl, tokens
<1> HIDE DEF i
<1>5. DOMAIN u = 1..Len(u) /\ Len(u) \in Nat OBVIOUS
<1>6. PICK m \in DOMAIN pieces : b[m] <= i /\ i <= bl[b[m]]
  BY <1>1, <1>2, <1>3, <1>4, CutCovers
<1>7. /\ b[m] \in DOMAIN u /\ bl[b[m]] \in b[m]..Len(u) /\ pieces[m] \in Seq(R)
      /\ Len(pieces[m]) = bl[b[m]] - b[m] + 1 /\ pieces[m][1] = u[b[m]]
  BY <1>1, <1>2, <1>3, CutPieces
<1>8. b[m] = i
  <2> DEFINE j == b[m]
  <2> SUFFICES ASSUME j # i PROVE FALSE OBVIOUS
  <2> HIDE DEF j
  <2>1. j \in DOMAIN u /\ j < i /\ i <= bl[j] BY <1>4, <1>5, <1>6, <1>7 DEF j
  <2>2. u[j].open BY <2>1, <1>4, <1>5, ByteEnds DEF bl
  <2>3. PICK q \in DOMAIN tokens : s[q] <= j /\ j <= tl[s[q]]
    BY <2>1, <1>2, <1>3, CutCovers
  <2>4. s[q] \in DOMAIN u /\ tl[s[q]] \in s[q]..Len(u)
    BY <1>2, <1>3, CutPieces
  <2>5. u[s[q]].open
    <3> SUFFICES ASSUME ~u[s[q]].open PROVE FALSE OBVIOUS
    <3>1. tl[s[q]] = s[q] BY <2>4, TokenEnds DEF tl
    <3>2. s[q] = j BY <3>1, <2>1, <2>3, <2>4, <1>5
    <3> QED BY <3>2, <2>2
  <2>6. tl[s[q]] < i
    <3>1. \A x \in 1..(Len(tokens) + 1) : \A y \in 1..(x - 1) : tl[s[y]] < s[x]
      BY <1>2, <1>3, CutApart DEF tl, tokens
    <3>2. DOMAIN tokens = 1..Len(tokens) /\ Len(tokens) \in Nat BY <1>2
    <3>3. k \in 1..Len(tokens) /\ q \in 1..Len(tokens) BY <3>2 DEF tokens
    <3>4. q # k BY <2>1, <2>3, <2>4, <1>4, <1>5 DEF i
    <3>5. CASE k < q
      <4>1. q \in 1..(Len(tokens) + 1) /\ k \in 1..(q - 1) BY <3>5, <3>3, <3>2
      <4>2. tl[i] < s[q] BY <4>1, <3>1 DEF i
      <4> QED BY <4>2, <2>1, <2>3, <2>4, <1>4, <1>5
    <3>6. CASE q < k
      <4>1. k \in 1..(Len(tokens) + 1) /\ q \in 1..(k - 1) BY <3>6, <3>3, <3>2
      <4> QED BY <4>1, <3>1 DEF i
    <3> QED BY <3>3, <3>4, <3>5, <3>6
  <2>7. u[tl[s[q]]].close = "end"
    <3>1. tl[s[q]] # Len(u) BY <2>6, <2>4, <1>4, <1>5
    <3> QED BY <3>1, <2>4, <2>5, TokenEnds DEF tl
  <2>8. tl[s[q]] \in j..Len(u) BY <2>1, <2>3, <2>4, <1>5
  <2>9. bl[j] <= tl[s[q]]
    BY <2>1, <2>2, <2>7, <2>8, ByteEnds DEF bl
  <2>10. bl[j] \in j..Len(u) BY <1>7 DEF j
  <2> QED BY <2>1, <2>6, <2>9, <2>10, <2>4, <1>4, <1>5
<1>9. bl[i] = i BY <1>4, ByteEnds DEF bl, i
<1>10. Len(pieces[m]) = 1 BY <1>7, <1>8, <1>9, <1>5
<1> QED BY <1>7, <1>8, <1>10 DEF pieces, i

(* The name of a piece that holds a placeholder.                           *)
LEMMA HolderIs ==
  ASSUME NEW R, NEW piece \in Seq(R), Holders(piece) # {}
  PROVE  \E j \in DOMAIN piece : piece[j].holder # NoHolder /\ Holder(piece) = piece[j].holder
<1>1. Holders(piece) \in SUBSET Nat BY DEF Holders
<1>2. Least(Holders(piece)) \in Holders(piece) BY <1>1, LeastIs
<1> QED BY <1>2 DEF Holders, Holder

LEMMA ParamsAre ==
  ASSUME NEW u, NEW m \in DOMAIN BytePieces(u), Holders(BytePieces(u)[m]) # {}
  PROVE  Holder(BytePieces(u)[m]) \in DOMAIN Params(u)
<1> DEFINE pieces == BytePieces(u)
           holding == {k \in DOMAIN pieces : Holders(pieces[k]) # {}}
<1>1. DOMAIN Params(u) = {Holder(pieces[k]) : k \in holding} BY DEF Params
<1>2. m \in holding OBVIOUS
<1> HIDE DEF holding, pieces
<1>3. Holder(pieces[m]) \in {Holder(pieces[k]) : k \in holding} BY <1>2
<1> QED BY <1>1, <1>3 DEF pieces

(* A required positional is advertised as a parameter.                     *)
LEMMA RequiredAdvertised ==
  ASSUME NEW u, IsUsage(u), NEW p \in DOMAIN PositionalNames(u), ~PositionalNames(u)[p].optional
  PROVE  PositionalNames(u)[p].name \in DOMAIN Params(u)
<1> DEFINE R == [open : BOOLEAN, close : {"no", "mid", "end"}, dots : BOOLEAN,
                 kind : {"long", "short", "slot", "word"}, flags : SUBSET STRING,
                 eq : BOOLEAN, holder : STRING, text : STRING]
           tokens == TokenPieces(u)
           pieces == BytePieces(u)
           n == Len(tokens)
           names == PositionalNames(u)
<1>1. u \in Seq(R) /\ \A i \in DOMAIN u : u[i].kind = "slot" => u[i].holder # NoHolder
  BY DEF IsUsage
<1> HIDE DEF R
<1>2. PICK at : Enumerates(at, names, tokens, n) BY <1>1, NamesEnumerate
<1>3. DOMAIN names = 1..Len(names) BY <1>2 DEF Enumerates
<1>4. at[p] \in 1..n /\ IsPositional(tokens, at[p]) /\ names[p] = ToPositional(tokens[at[p]])
  BY <1>2, <1>3 DEF Enumerates
<1>5. PICK s : Cut(u, TokenLast(u), 1, tokens, s) BY <1>1, TokenCut
<1>6. tokens \in Seq(Seq(R)) /\ pieces \in Seq(Seq(R)) BY <1>1, TokenCut, ByteCut
<1>7. PICK k \in DOMAIN tokens : k = at[p] BY <1>4, <1>6
<1>8. /\ s[k] \in DOMAIN u /\ tokens[k][1] = u[s[k]] /\ tokens[k] \in Seq(R)
      /\ Len(tokens[k]) = TokenLast(u)[s[k]] - s[k] + 1
  BY <1>1, <1>5, <1>6, TokenEnds, CutPieces
<1>9. names[p].optional = tokens[k][1].open BY <1>4, <1>7 DEF ToPositional
<1>10. ~u[s[k]].open BY <1>8, <1>9
<1>11. u[s[k]].kind = "slot" BY <1>4, <1>7, <1>8, <1>10 DEF IsPositional
<1>12. TokenLast(u)[s[k]] = s[k] BY <1>1, <1>8, <1>10, TokenEnds
<1>13. Len(tokens[k]) = 1
  <2>1. s[k] \in Nat BY <1>1, <1>8
  <2> QED BY <2>1, <1>8, <1>12
<1>14. names[p].name = u[s[k]].holder
  <2>1. names[p].name = IF Len(tokens[k]) > 1 THEN NoHolder
            ELSE IF tokens[k][1].kind = "slot" THEN tokens[k][1].holder ELSE tokens[k][1].text
    BY <1>4, <1>7 DEF ToPositional
  <2>2. ~(Len(tokens[k]) > 1) BY <1>13
  <2> QED BY <2>1, <2>2, <1>8, <1>11
<1>15. PICK m \in DOMAIN pieces : Len(pieces[m]) = 1 /\ pieces[m][1] = u[s[k]]
  BY <1>1, <1>5, <1>10, StandsAlone
<1>16. u[s[k]].holder # NoHolder BY <1>1, <1>8, <1>11
<1>17. pieces[m] \in Seq(R) /\ DOMAIN pieces[m] = 1..1
  <2>1. pieces[m] \in Seq(R) BY <1>6
  <2> HIDE DEF pieces
  <2> QED BY <2>1, <1>15
<1>18. Holders(pieces[m]) # {} BY <1>15, <1>16, <1>17 DEF Holders
<1>19. Holder(pieces[m]) = u[s[k]].holder
  <2>1. PICK j \in DOMAIN pieces[m] : Holder(pieces[m]) = pieces[m][j].holder
    BY <1>17, <1>18, HolderIs
  <2>2. j = 1 BY <1>17
  <2> QED BY <2>1, <2>2, <1>15
<1> QED BY <1>14, <1>18, <1>19, ParamsAre

(* Without parameters there is no placeholder.                             *)
LEMMA NoPlaceholder ==
  ASSUME NEW R, NEW u \in Seq(R), DOMAIN Params(u) = {}, NEW i \in DOMAIN u
  PROVE  u[i].holder = NoHolder
<1> DEFINE pieces == BytePieces(u)
           bl == ByteLast(u)
<1>1. PICK b : Cut(u, bl, 1, pieces, b) BY ByteCut
<1>2. pieces \in Seq(Seq(R)) /\ Ends(u, bl) BY ByteCut, ByteEnds
<1>3. ASSUME NEW m \in DOMAIN pieces, Holders(pieces[m]) # {} PROVE FALSE
  <2>1. Holder(pieces[m]) \in DOMAIN Params(u) BY <1>3, ParamsAre
  <2> QED BY <2>1
<1> HIDE DEF bl, pieces
<1>4. PICK m \in DOMAIN pieces : b[m] <= i /\ i <= bl[b[m]] BY <1>1, <1>2, CutCovers
<1>5. /\ b[m] \in DOMAIN u /\ bl[b[m]] \in b[m]..Len(u) /\ pieces[m] \in Seq(R)
      /\ Len(pieces[m]) = bl[b[m]] - b[m] + 1
      /\ \A j \in DOMAIN pieces[m] : pieces[m][j] = u[b[m] + j - 1]
  BY <1>1, <1>2, CutPieces
<1>6. DOMAIN u = 1..Len(u) /\ Len(u) \in Nat OBVIOUS
<1> DEFINE x == pieces[m]
           j == i - b[m] + 1
<1>7. j \in 1..Len(x) /\ b[m] + j - 1 = i BY <1>4, <1>5, <1>6
<1>8. DOMAIN x = 1..Len(x) BY <1>5
<1>9. x[j] = u[i] BY <1>5, <1>7, <1>8
<1>10. Holders(x) = {} BY <1>3
<1> QED BY <1>7, <1>8, <1>9, <1>10 DEF Holders

(* And so nothing is required.                                             *)
LEMMA NothingRequired ==
  ASSUME NEW u, IsUsage(u), DOMAIN Params(u) = {}
  PROVE  RequiredCount(u) = 0
<1> DEFINE R == [open : BOOLEAN, close : {"no", "mid", "end"}, dots : BOOLEAN,
                 kind : {"long", "short", "slot", "word"}, flags : SUBSET STRING,
                 eq : BOOLEAN, holder : STRING, text : STRING]
           tokens == TokenPieces(u)
<1>1. u \in Seq(R) /\ \A i \in DOMAIN u : u[i].kind = "slot" => u[i].holder # NoHolder
  BY DEF IsUsage
<1> HIDE DEF R
<1>2. tokens \in Seq(Seq(R)) BY <1>1, TokenCut
<1>3. PICK s : Cut(u, TokenLast(u), 1, tokens, s) BY <1>1, TokenCut
<1>4. ASSUME NEW k \in 1..Len(tokens), IsPositional(tokens, k), ~tokens[k][1].open PROVE FALSE
  <2>1. k \in DOMAIN tokens BY <1>2
  <2>2. s[k] \in DOMAIN u /\ tokens[k][1] = u[s[k]]
    BY <1>1, <1>2, <1>3, <2>1, TokenEnds, CutPieces
  <2>3. tokens[k][1].kind = "slot" BY <1>4 DEF IsPositional
  <2>4. u[s[k]].holder = NoHolder BY <1>1, <2>2, NoPlaceholder
  <2> QED BY <1>1, <2>2, <2>3, <2>4
<1>5. {k \in 1..Len(tokens) : IsPositional(tokens, k) /\ ~tokens[k][1].open} = {} BY <1>4
<1> QED BY <1>1, <1>5, RequiredIs, FS_EmptySet

(* Where brackets pair, a piece that is no group is one token without an   *)
(* opening bracket.                                                        *)
LEMMA PlainPieces ==
  ASSUME NEW R, NEW u \in Seq(R), WellPaired(u),
         NEW k \in DOMAIN BytePieces(u), ~IsGroup(BytePieces(u)[k])
  PROVE  /\ BytePieces(u)[k] \in Seq(R)
         /\ \A j \in DOMAIN BytePieces(u)[k] : ~BytePieces(u)[k][j].open
<1> DEFINE pieces == BytePieces(u)
           bl == ByteLast(u)
<1>1. PICK b : Cut(u, bl, 1, pieces, b) BY ByteCut
<1>2. pieces \in Seq(Seq(R)) /\ Ends(u, bl) BY ByteCut, ByteEnds
<1> HIDE DEF pieces, bl
<1>3. /\ b[k] \in DOMAIN u /\ bl[b[k]] \in b[k]..Len(u) /\ pieces[k] \in Seq(R)
      /\ Len(pieces[k]) = bl[b[k]] - b[k] + 1
      /\ pieces[k][1] = u[b[k]]
      /\ \A j \in DOMAIN pieces[k] : pieces[k][j] = u[b[k] + j - 1]
  BY <1>1, <1>2, CutPieces DEF pieces
<1> DEFINE a == b[k]
           x == pieces[k]
<1>4. a \in 1..Len(u) /\ Len(u) \in Nat /\ DOMAIN u = 1..Len(u) /\ DOMAIN x = 1..Len(x) BY <1>3
<1>5. ~u[a].open
  <2> SUFFICES ASSUME u[a].open PROVE FALSE OBVIOUS
  <2>1. PICK j \in a..Len(u) : u[j].close # "no" BY <1>4 DEF WellPaired
  <2>2. u[bl[a]].close # "no" BY <2>1, <1>3, ByteEnds DEF bl
  <2>3. Len(x) \in DOMAIN x /\ a + Len(x) - 1 = bl[a] BY <1>3, <1>4
  <2>4. x[Len(x)].close # "no" BY <1>3, <2>2, <2>3
  <2>5. IsGroup(x) BY <1>3, <2>3, <2>4 DEF IsGroup
  <2> QED BY <2>5 DEF pieces
<1>6. bl[a] = a BY <1>3, <1>5, ByteEnds DEF bl
<1>7. DOMAIN x = 1..1 BY <1>3, <1>4, <1>6
<1>8. \A j \in DOMAIN x : ~x[j].open
  <2>1. \A j \in 1..1 : j = 1 OBVIOUS
  <2> QED BY <2>1, <1>3, <1>5, <1>7
<1> QED BY <1>3, <1>8 DEF pieces

(* There, what an answer advertises in place of a usage string without     *)
(* placeholders has no group left.                                         *)
LEMMA NothingOptional ==
  ASSUME NEW R, NEW u \in Seq(R), WellPaired(u)
  PROVE  \A i \in DOMAIN WithoutOptional(u) : ~WithoutOptional(u)[i].open
<1> DEFINE T == {r \in R : ~r.open}
           pieces == BytePieces(u)
           n == Len(pieces)
           Part(k) == IF IsGroup(pieces[k]) THEN <<>> ELSE pieces[k]
           part == [k \in 1..n |-> Part(k)]
           Next0(g, k) == IF IsGroup(pieces[k]) THEN g[k - 1] ELSE g[k - 1] \o pieces[k]
           f == CHOOSE f : f = [k \in 0..Len(BytePieces(u)) |-> IF k = 0 THEN <<>>
                  ELSE IF IsGroup(BytePieces(u)[k]) THEN f[k - 1] ELSE f[k - 1] \o BytePieces(u)[k]]
<1>1. WithoutOptional(u) = f[n] BY DEF WithoutOptional
<1>2. n \in Nat /\ DOMAIN pieces = 1..n
  <2>1. pieces \in Seq(Seq(R)) BY ByteCut
  <2> HIDE DEF pieces
  <2> QED BY <2>1
<1>3. part \in [1..n -> Seq(T)]
  <2>1. ASSUME NEW k \in 1..n PROVE Part(k) \in Seq(T)
    <3>1. CASE IsGroup(pieces[k]) BY <3>1
    <3>2. CASE ~IsGroup(pieces[k])
      <4>1. pieces[k] \in Seq(R) /\ \A j \in DOMAIN pieces[k] : ~pieces[k][j].open
        BY <1>2, <3>2, PlainPieces
      <4> HIDE DEF pieces
      <4>2. \A j \in DOMAIN pieces[k] : pieces[k][j] \in T BY <4>1
      <4> HIDE DEF T
      <4>3. pieces[k] \in Seq(T) BY <4>1, <4>2
      <4> QED BY <3>2, <4>3
    <3> QED BY <3>1, <3>2
  <2> HIDE DEF T, Part
  <2> QED BY <2>1
<1>4. Gathered(T, n, part)
  <2> HIDE DEF part, T
  <2> QED BY <1>2, <1>3, ConcatExists
<1>5. PICK g \in [0..n -> Seq(T)] : g = [k \in 0..n |-> IF k = 0 THEN <<>> ELSE g[k - 1] \o part[k]]
  <2> HIDE DEF part, T
  <2> QED BY <1>4 DEF Gathered
<1>6. ASSUME NEW k \in 1..n PROVE g[k - 1] \o part[k] = Next0(g, k)
  <2>1. g[k - 1] \in Seq(T)
    <3>1. k - 1 \in 0..n BY <1>2
    <3> HIDE DEF T
    <3> QED BY <3>1, <1>5
  <2> HIDE DEF T, pieces
  <2>2. g[k - 1] \o <<>> = g[k - 1] BY <2>1
  <2>3. part[k] = Part(k) OBVIOUS
  <2> HIDE DEF part
  <2> QED BY <2>2, <2>3
<1>7. g = [k \in 0..n |-> IF k = 0 THEN <<>> ELSE Next0(g, k)]
  <2> HIDE DEF part, Next0, T
  <2>1. ASSUME NEW k \in 0..n
        PROVE  (IF k = 0 THEN <<>> ELSE g[k - 1] \o part[k]) = IF k = 0 THEN <<>> ELSE Next0(g, k)
    <3>1. k # 0 => k \in 1..n BY <1>2
    <3> QED BY <3>1, <1>6
  <2> QED BY <2>1, <1>5
<1>8. f = [k \in 0..n |-> IF k = 0 THEN <<>> ELSE Next0(f, k)]
  BY <1>7
<1> HIDE DEF f
<1>9. f[0] = <<>> BY <1>8, <1>2
<1>10. \A k \in 1..n : f[k] = Next0(f, k)
  <2>1. \A k \in 1..n : k \in 0..n /\ k # 0 BY <1>2
  <2> HIDE DEF Next0
  <2> QED BY <2>1, <1>8
<1> DEFINE S == {m \in 0..n : f[m] \in Seq(T)}
<1>11. 0 \in S BY <1>2, <1>9
<1>12. ASSUME NEW m \in 0..(n - 1), m \in S PROVE m + 1 \in S
  <2>1. m + 1 \in 1..n /\ m + 1 \in 0..n /\ (m + 1) - 1 = m BY <1>2
  <2>2. f[m] \in Seq(T) BY <1>12
  <2>3. f[m + 1] = Next0(f, m + 1) BY <1>10, <2>1
  <2>4. part[m + 1] \in Seq(T) /\ part[m + 1] = Part(m + 1)
    <3>1. part[m + 1] = Part(m + 1) BY <2>1
    <3> HIDE DEF part, T, Part
    <3> QED BY <3>1, <1>3, <2>1
  <2> HIDE DEF T, pieces, part
  <2>5. Next0(f, m + 1) \in Seq(T)
    <3>1. CASE IsGroup(pieces[m + 1]) BY <3>1, <2>1, <2>2
    <3>2. CASE ~IsGroup(pieces[m + 1])
      <4>1. pieces[m + 1] \in Seq(T) BY <2>4, <3>2
      <4>2. Next0(f, m + 1) = f[m] \o pieces[m + 1] BY <3>2, <2>1
      <4> QED BY <4>1, <4>2, <2>2
    <3> QED BY <3>1, <3>2
  <2> QED BY <2>1, <2>3, <2>5
<1>13. \A m \in 0..n : m \in S
  <2> HIDE DEF S
  <2> QED BY <1>2, <1>11, <1>12, UpTo
<1>14. f[n] \in Seq(T)
  <2>1. n \in 0..n BY <1>2
  <2> QED BY <2>1, <1>13
<1>15. \A i \in DOMAIN f[n] : f[n][i] \in T
  <2> HIDE DEF T, n
  <2> QED BY <1>14
<1> QED BY <1>1, <1>15
-----------------------------------------------------------------------------
(* Whatever the usage string, its scanners agree: positional_names finds   *)
(* what positional_arity counts, next_action_from_usage advertises every   *)
(* required one, and what it prints without parameters has no group left.  *)
THEOREM PositionalsAgree ==
  ASSUME NEW u, IsUsage(u)
  PROVE  LET names == PositionalNames(u) IN
         /\ Cardinality({p \in DOMAIN names : ~names[p].optional}) = RequiredCount(u)
         /\ Cardinality({p \in DOMAIN names : names[p].optional}) = OptionalCount(u)
         /\ ~Unbounded(u) => \A p \in DOMAIN names : ~names[p].variadic
         /\ \A p \in DOMAIN names : ~names[p].optional =>
              names[p].name \in DOMAIN NextAction(u).params
         /\ WellPaired(u) /\ DOMAIN NextAction(u).params = {} =>
              /\ RequiredCount(u) = 0
              /\ \A i \in DOMAIN NextAction(u).command : ~NextAction(u).command[i].open
<1> DEFINE R == [open : BOOLEAN, close : {"no", "mid", "end"}, dots : BOOLEAN,
                 kind : {"long", "short", "slot", "word"}, flags : SUBSET STRING,
                 eq : BOOLEAN, holder : STRING, text : STRING]
           names == PositionalNames(u)
<1>1. u \in Seq(R) BY DEF IsUsage
<1> HIDE DEF R
<1>2. /\ Cardinality({p \in DOMAIN names : ~names[p].optional}) = RequiredCount(u)
      /\ Cardinality({p \in DOMAIN names : names[p].optional}) = OptionalCount(u)
  BY <1>1, NamesCounted
<1>3. ~Unbounded(u) => \A p \in DOMAIN names : ~names[p].variadic
  BY <1>1, NamesBounded
<1>4. NextAction(u).params = Params(u) /\
      (DOMAIN Params(u) = {} => NextAction(u).command = WithoutOptional(u))
  BY DEF NextAction
<1>5. \A p \in DOMAIN names : ~names[p].optional => names[p].name \in DOMAIN Params(u)
  BY RequiredAdvertised
<1>6. WellPaired(u) /\ DOMAIN Params(u) = {} =>
        RequiredCount(u) = 0 /\ \A i \in DOMAIN WithoutOptional(u) : ~WithoutOptional(u)[i].open
  BY <1>1, NothingRequired, NothingOptional
<1> HIDE DEF names
<1> QED BY <1>2, <1>3, <1>4, <1>5, <1>6 DEF names

(* The template a line is said to be made from is a usage string. *)
TemplateRead == given.from = "template" => IsUsage(given.template)

LEMMA TemplateStays == Spec => []TemplateRead
<1>1. Init => TemplateRead
  BY TemplatesAssumption DEF Init, Called, TemplateRead, given
<1>2. TemplateRead /\ [Next]_vars => TemplateRead'
  BY InputStays DEF TemplateRead, given, input
<1> QED BY <1>1, <1>2, PTL DEF Spec

(* So do those of the template of every line of every run.                 *)
THEOREM ScannersAlwaysAgree == Spec => []ScannersAgree
<1>1. TemplateRead => ScannersAgree
  <2> SUFFICES ASSUME given.from = "template", IsUsage(given.template) PROVE ScannersAgree
    BY DEF TemplateRead, ScannersAgree
  <2> QED BY PositionalsAgree DEF ScannersAgree
<1> QED BY <1>1, TemplateStays, PTL
-----------------------------------------------------------------------------
(* The lines a template makes. *)

(* A line of f[k] is one of f[k - 1] with what the k-th piece becomes.     *)
Builds(f, pieces, n) ==
  /\ f[0] = {<<>>}
  /\ \A k \in 1..n : f[k] = Joined(f[k - 1], PieceFilled(pieces, k))

LEMMA JoinedIs ==
  ASSUME NEW X, NEW Y, NEW x
  PROVE  x \in Joined(X, Y) <=> \E s \in X : \E t \in Y : x = s \o t
BY DEF Joined

LEMMA PieceFilledSeq ==
  ASSUME NEW R, NEW pieces \in Seq(Seq(R)), NEW k \in DOMAIN pieces,
         NEW U, \A j \in Nat : Filling(pieces, k, j) \in U
  PROVE  PieceFilled(pieces, k) \in SUBSET Seq(U)
<1> DEFINE once == [j \in DOMAIN pieces[k] |-> Filling(pieces, k, j)]
<1>1. pieces[k] \in Seq(R) OBVIOUS
<1>2. DOMAIN pieces[k] = 1..Len(pieces[k]) /\ Len(pieces[k]) \in Nat BY <1>1
<1>3. once \in Seq(U)
  <2>1. \A j \in 1..Len(pieces[k]) : Filling(pieces, k, j) \in U OBVIOUS
  <2>2. once \in [1..Len(pieces[k]) -> U] BY <2>1, <1>2
  <2> HIDE DEF once
  <2> QED BY <2>2, <1>2
<1>4. PieceFilled(pieces, k) \subseteq {once, once \o once, <<>>}
  BY DEF PieceFilled
<1> HIDE DEF once
<1>5. once \o once \in Seq(U) /\ <<>> \in Seq(U) BY <1>3
<1> QED BY <1>3, <1>4, <1>5

LEMMA FilledEquation ==
  ASSUME NEW R, NEW u \in Seq(R), NEW pieces, pieces = BytePieces(u), NEW n, n = Len(pieces)
  PROVE  \E f : Filled(u) = f[n] /\ Builds(f, pieces, n)
<1> DEFINE U == {Filling(pieces, k, j) : k \in 1..n, j \in Nat}
           V == SUBSET Seq(U)
           Step(X, k) == Joined(X, PieceFilled(pieces, k))
           step == [k \in 1..n |-> [X \in V |-> Step(X, k)]]
           f == CHOOSE f : f = [k \in 0..Len(pieces) |-> IF k = 0 THEN {<<>>}
                  ELSE Joined(f[k - 1], PieceFilled(pieces, k))]
<1>1. Filled(u) = f[n] BY DEF Filled
<1>2. n \in Nat /\ pieces \in Seq(Seq(R)) BY ByteCut
<1>3. ASSUME NEW k \in 1..n, NEW X \in V PROVE Step(X, k) \in V
  <2>1. \A j \in Nat : Filling(pieces, k, j) \in U OBVIOUS
  <2>2. k \in DOMAIN pieces BY <1>2
  <2> HIDE DEF U
  <2>3. PieceFilled(pieces, k) \in SUBSET Seq(U) BY <1>2, <2>1, <2>2, PieceFilledSeq
  <2>4. \A s \in X, t \in PieceFilled(pieces, k) : s \o t \in Seq(U) BY <2>3
  <2>5. ASSUME NEW x \in Step(X, k) PROVE x \in Seq(U)
    <3>1. x \in Joined(X, PieceFilled(pieces, k)) OBVIOUS
    <3>2. PICK s \in X : \E t \in PieceFilled(pieces, k) : x = s \o t BY <3>1, JoinedIs
    <3> QED BY <3>2, <2>4
  <2> HIDE DEF Step
  <2> QED BY <2>5
<1>4. step \in [1..n -> [V -> V]]
  <2> HIDE DEF V, Step
  <2> QED BY <1>3
<1>5. {<<>>} \in V
  <2> HIDE DEF U
  <2> QED OBVIOUS
<1>6. Foldable(V, {<<>>}, n, step)
  <2> HIDE DEF step, V
  <2> QED BY <1>2, <1>4, <1>5, FoldExists
<1>7. PICK g \in [0..n -> V] : g[0] = {<<>>} /\ \A k \in 1..n : g[k] = step[k][g[k - 1]]
  <2> HIDE DEF step, V
  <2> QED BY <1>6 DEF Foldable
<1>8. ASSUME NEW k \in 1..n PROVE g[k] = Step(g[k - 1], k)
  <2>1. k - 1 \in 0..n BY <1>2
  <2> HIDE DEF V, Step
  <2>2. g[k - 1] \in V BY <2>1, <1>7
  <2>3. step[k][g[k - 1]] = Step(g[k - 1], k) BY <2>2
  <2> HIDE DEF step
  <2> QED BY <2>3, <1>7
<1>9. g = [k \in 0..n |-> IF k = 0 THEN {<<>>} ELSE Joined(g[k - 1], PieceFilled(pieces, k))]
  <2> HIDE DEF V, step
  <2>1. ASSUME NEW k \in 0..n PROVE g[k] = IF k = 0 THEN {<<>>} ELSE Joined(g[k - 1], PieceFilled(pieces, k))
    <3>1. k # 0 => k \in 1..n BY <1>2
    <3> QED BY <3>1, <1>7, <1>8
  <2> QED BY <2>1, <1>7
<1>10. f = [k \in 0..n |-> IF k = 0 THEN {<<>>} ELSE Joined(f[k - 1], PieceFilled(pieces, k))]
  <2> DEFINE F(h) == [k \in 0..Len(pieces) |-> IF k = 0 THEN {<<>>}
                        ELSE Joined(h[k - 1], PieceFilled(pieces, k))]
  <2>1. f = CHOOSE h : h = F(h) OBVIOUS
  <2> HIDE DEF f
  <2>2. \A h : F(h) = [k \in 0..n |-> IF k = 0 THEN {<<>>}
                         ELSE Joined(h[k - 1], PieceFilled(pieces, k))]
    OBVIOUS
  <2> HIDE DEF F
  <2> HIDE DEF V, U, step, Step
  <2>3. g = F(g) BY <1>9, <2>2
  <2>4. f = F(f) BY <2>1, <2>3
  <2> QED BY <2>2, <2>4
<1> HIDE DEF f
<1>11. f[0] = {<<>>} BY <1>10, <1>2
<1>12. \A k \in 1..n : f[k] = Step(f[k - 1], k)
  <2>1. \A k \in 1..n : k \in 0..n /\ k # 0 BY <1>2
  <2> HIDE DEF Step
  <2> QED BY <2>1, <1>10
<1>13. Builds(f, pieces, n) BY <1>11, <1>12 DEF Builds
<1> QED BY <1>1, <1>13

AllFillings(pieces) == {Filling(pieces, k, j) : k \in 1..Len(pieces), j \in Nat}

(* The pieces a template starts with that become one token each are the    *)
(* tokens its lines start with.                                            *)
StartsWith(s, pieces, m, k) ==
  /\ k <= m => Len(s) = k
  /\ m <= k => m <= Len(s)
  /\ \A i \in 1..m : i <= k => <<s[i]>> \in PieceFilled(pieces, i)

LEMMA FilledStarts ==
  ASSUME NEW R, NEW u \in Seq(R), NEW pieces, pieces = BytePieces(u), NEW n, n = Len(pieces),
         NEW m \in 0..n, \A i \in 1..m : \A t \in PieceFilled(pieces, i) : Len(t) = 1,
         NEW s \in Filled(u)
  PROVE  s \in Seq(AllFillings(pieces)) /\ StartsWith(s, pieces, m, n)
<1> DEFINE U == AllFillings(pieces)
<1>1. n \in Nat /\ pieces \in Seq(Seq(R)) BY ByteCut
<1>2. PICK f : Filled(u) = f[n] /\ Builds(f, pieces, n) BY FilledEquation
<1>3. ASSUME NEW k \in 1..n PROVE PieceFilled(pieces, k) \in SUBSET Seq(U)
  <2>1. \A j \in Nat : Filling(pieces, k, j) \in U BY DEF AllFillings
  <2>2. k \in DOMAIN pieces BY <1>1
  <2> HIDE DEF U
  <2> QED BY <1>1, <2>1, <2>2, PieceFilledSeq
<1> HIDE DEF U
<1> DEFINE Holds(k) == \A x \in f[k] : x \in Seq(U) /\ StartsWith(x, pieces, m, k)
           S == {k \in 0..n : Holds(k)}
<1>4. Holds(0)
  <2> SUFFICES ASSUME NEW x \in f[0] PROVE x \in Seq(U) /\ StartsWith(x, pieces, m, 0)
    OBVIOUS
  <2>1. x = <<>> BY <1>2 DEF Builds
  <2> QED BY <2>1 DEF StartsWith
<1>5. ASSUME NEW k \in 0..(n - 1), Holds(k) PROVE Holds(k + 1)
  <2> SUFFICES ASSUME NEW x \in f[k + 1]
               PROVE  x \in Seq(U) /\ StartsWith(x, pieces, m, k + 1)
    OBVIOUS
  <2>1. k + 1 \in 1..n /\ (k + 1) - 1 = k /\ k \in Nat BY <1>1
  <2>2. f[k + 1] = Joined(f[k], PieceFilled(pieces, k + 1))
    BY <1>2, <2>1 DEF Builds
  <2>3. PICK y \in f[k], t \in PieceFilled(pieces, k + 1) : x = y \o t
    BY <2>2, JoinedIs
  <2>4. y \in Seq(U) /\ StartsWith(y, pieces, m, k) BY <1>5
  <2>5. t \in Seq(U) BY <1>3, <2>1
  <2>6. x \in Seq(U) /\ Len(x) = Len(y) + Len(t) /\ Len(y) \in Nat /\ Len(t) \in Nat
        /\ \A i \in 1..Len(y) : x[i] = y[i]
    BY <2>3, <2>4, <2>5
  <2>7. CASE m <= k
    <3>1. m <= Len(y) BY <2>4, <2>7 DEF StartsWith
    <3>2. \A i \in 1..m : i <= k /\ x[i] = y[i] BY <2>6, <2>7, <3>1, <2>1
    <3>3. \A i \in 1..m : <<x[i]>> \in PieceFilled(pieces, i)
      BY <2>4, <3>2 DEF StartsWith
    <3>4. ~(k + 1 <= m) /\ m <= Len(x) BY <2>1, <2>6, <2>7, <3>1
    <3> QED BY <2>6, <3>3, <3>4 DEF StartsWith
  <2>8. CASE k < m
    <3>1. k + 1 \in 1..m BY <2>1, <2>8
    <3>2. Len(t) = 1 /\ Len(y) = k BY <2>1, <2>4, <2>8, <3>1 DEF StartsWith
    <3>3. x[k + 1] = t[1]
      <4>1. k + 1 = Len(y) + 1 /\ 1 \in 1..Len(t) BY <3>2, <2>1
      <4>2. \A j \in 1..Len(t) : x[Len(y) + j] = t[j] BY <2>3, <2>4, <2>5
      <4> QED BY <4>1, <4>2
    <3>6. t = <<t[1]>> BY <2>5, <3>2
    <3>4. ASSUME NEW i \in 1..m, i <= k + 1 PROVE <<x[i]>> \in PieceFilled(pieces, i)
      <4>1. CASE i = k + 1 BY <4>1, <3>3, <3>6
      <4>2. CASE i # k + 1
        <5>1. i <= k /\ i \in 1..Len(y) BY <4>2, <3>2, <3>4, <2>1
        <5> QED BY <5>1, <2>4, <2>6 DEF StartsWith
      <4> QED BY <4>1, <4>2
    <3>5. Len(x) = k + 1 BY <2>6, <3>2, <2>1
    <3> QED BY <2>6, <3>4, <3>5 DEF StartsWith
  <2> QED BY <2>1, <2>7, <2>8
<1> HIDE DEF Holds
<1>6. 0 \in S BY <1>1, <1>4
<1>7. \A k \in 0..(n - 1) : k \in S => k + 1 \in S BY <1>1, <1>5
<1>8. \A k \in 0..n : k \in S
  <2> HIDE DEF S
  <2> QED BY <1>1, <1>6, <1>7, UpTo
<1>9. Holds(n) BY <1>1, <1>8
<1> QED BY <1>2, <1>9 DEF Holds, U

LEMMA OneItem ==
  ASSUME NEW R, NEW t \in Seq(R), Len(t) = 1
  PROVE  t = <<t[1]>>
OBVIOUS

LEMMA OneItemSeq ==
  ASSUME NEW R, NEW t \in [1..1 -> R]
  PROVE  t \in Seq(R) /\ Len(t) = 1 /\ t = <<t[1]>>
<1>1. t \in Seq(R) /\ Len(t) = 1 OBVIOUS
<1> QED BY <1>1, OneItem

(* Tokens that open no bracket are pieces of their own. *)
LEMMA LoosePieces ==
  ASSUME NEW R, NEW u \in Seq(R), NEW pieces, pieces = BytePieces(u), NEW n, n = Len(pieces),
         NEW m \in 0..Len(u), \A i \in 1..m : ~u[i].open
  PROVE  /\ m <= n /\ (m = Len(u) => n = m)
         /\ \A i \in 1..m : pieces[i] = <<u[i]>>
<1> DEFINE last == ByteLast(u)
<1>1. Ends(u, last) /\ \A i \in 1..m : last[i] = i
  <2>1. \A i \in 1..m : i \in DOMAIN u OBVIOUS
  <2> HIDE DEF last
  <2> QED BY <2>1, ByteEnds DEF last
<1>2. PICK s : Cut(u, last, 1, pieces, s) BY ByteCut
<1> HIDE DEF last
<1>3. pieces \in Seq(Seq(R)) /\ n \in Nat /\ Len(u) \in Nat BY ByteCut
<1>4. /\ s[1] = 1 /\ s[n + 1] = Len(u) + 1
      /\ \A k \in 1..n : /\ s[k] \in 1..Len(u) /\ s[k + 1] = last[s[k]] + 1
                         /\ pieces[k] = SubSeq(u, s[k], last[s[k]])
  BY <1>2, <1>3 DEF Cut
<1> DEFINE S == {k \in 0..m : k <= n /\ s[k + 1] = k + 1}
<1>5. 0 \in S BY <1>3, <1>4
<1>6. ASSUME NEW k \in 0..(m - 1), k \in S PROVE k + 1 \in S
  <2>1. k <= n /\ s[k + 1] = k + 1 /\ k + 1 \in 1..m /\ k + 1 <= Len(u) BY <1>6, <1>3
  <2>2. k # n BY <2>1, <1>3, <1>4
  <2>3. k + 1 \in 1..n BY <2>1, <2>2, <1>3
  <2>4. s[(k + 1) + 1] = last[s[k + 1]] + 1 BY <2>3, <1>4
  <2>5. last[k + 1] = k + 1 BY <2>1, <1>1
  <2>6. s[(k + 1) + 1] = (k + 1) + 1 BY <2>1, <2>4, <2>5
  <2> QED BY <2>1, <2>3, <2>6
<1>11. \A k \in 0..m : k \in S
  <2>1. \A k \in 0..(m - 1) : k \in S => k + 1 \in S BY <1>6
  <2>2. m \in Nat OBVIOUS
  <2> HIDE DEF S
  <2> QED BY <1>5, <2>1, <2>2, UpTo
<1>7. \A k \in 0..m : k <= n /\ s[k + 1] = k + 1 BY <1>11
<1>8. m <= n /\ s[m + 1] = m + 1 BY <1>7
<1>9. m = Len(u) => n = m
  <2> SUFFICES ASSUME m = Len(u), m < n PROVE FALSE BY <1>3, <1>8
  <2>1. m + 1 \in 1..n BY <1>3
  <2> QED BY <2>1, <1>4, <1>8
<1>10. ASSUME NEW i \in 1..m PROVE pieces[i] = <<u[i]>>
  <2>1. i - 1 \in 0..m /\ (i - 1) + 1 = i OBVIOUS
  <2>7. s[(i - 1) + 1] = (i - 1) + 1 BY <2>1, <1>7
  <2>2. s[i] = i /\ last[i] = i /\ i \in 1..n BY <2>1, <2>7, <1>1, <1>3, <1>8
  <2>3. pieces[i] = SubSeq(u, i, i) BY <2>2, <1>4
  <2>4. i \in 1..Len(u) OBVIOUS
  <2>6. SubSeq(u, i, i) \in Seq(R) /\ Len(SubSeq(u, i, i)) = 1 /\ SubSeq(u, i, i)[1] = u[i]
    BY <2>4
  <2>5. SubSeq(u, i, i) = <<u[i]>> BY <2>6, OneItem
  <2> QED BY <2>3, <2>5
<1> QED BY <1>8, <1>9, <1>10

(* What a loose word or placeholder becomes: one text, a word.             *)
LEMMA LooseFilling ==
  ASSUME NEW R, NEW u \in Seq(R), Worded(u), NEW pieces, NEW k \in DOMAIN pieces,
         NEW i \in DOMAIN u, pieces[k] = <<u[i]>>,
         u[i].kind \in {"word", "slot"}, ~u[i].open, u[i].kind = "slot" => ~u[i].dots,
         NEW t \in PieceFilled(pieces, k)
  PROVE  /\ Len(t) = 1 /\ t[1].text \in DOMAIN Shape /\ Shape[t[1].text].kind = "word"
         /\ u[i].kind = "word" => t[1].text = u[i].text
<1> DEFINE x == Filling(pieces, k, 1)
<1>1. pieces[k][1] = u[i] /\ DOMAIN pieces[k] = {1} /\ Len(pieces[k]) = 1 OBVIOUS
<1>2. ~IsFlag(u[i]) BY DEF IsFlag
<1>3. ~IsGroup(pieces[k]) BY <1>1 DEF IsGroup
<1>4. ~(IsPositional(pieces, k) /\ \E j \in DOMAIN pieces[k] : pieces[k][j].dots)
  BY <1>1 DEF IsPositional
<1>5. t = [j \in DOMAIN pieces[k] |-> Filling(pieces, k, j)]
  BY <1>3, <1>4 DEF PieceFilled
<1>6. t = <<x>>
  <2> HIDE DEF x
  <2>1. t \in [1..1 -> {x}] BY <1>1, <1>5 DEF x
  <2>2. t[1] = x BY <2>1
  <2>3. t = <<t[1]>> BY <2>1, OneItemSeq
  <2> QED BY <2>2, <2>3
<1>7. x.text = IF u[i].kind = "slot" THEN Filler[u[i].holder] ELSE u[i].text
  <2>1. CASE u[i].kind = "word"
    <3>1. ~IsPositional(pieces, k) /\ ~TakenByFlag(pieces, k)
      BY <1>1, <2>1 DEF IsPositional, TakenByFlag
    <3> QED BY <1>1, <1>2, <2>1, <3>1 DEF Filling, Item
  <2>2. CASE u[i].kind = "slot"
    <3>1. IsPositional(pieces, k) \/ TakenByFlag(pieces, k)
      BY <1>1, <2>2 DEF IsPositional
    <3> QED BY <1>1, <1>2, <2>2, <3>1 DEF Filling, Item
  <2> QED BY <2>1, <2>2
<1> HIDE DEF x
<1> QED BY <1>6, <1>7 DEF Worded

(* A line starts with the loose words and placeholders its template starts *)
(* with, one word each; and it is them, where the template is.             *)
LEMMA MadeStarts ==
  ASSUME NEW R, NEW u \in Seq(R), Worded(u), NEW fills \in Filled(u),
         NEW texts \in Seq(DOMAIN Shape), texts = Argv(fills), NEW m \in 0..Len(u),
         \A i \in 1..m : /\ u[i].kind \in {"word", "slot"} /\ ~u[i].open
                         /\ u[i].kind = "slot" => ~u[i].dots
  PROVE  /\ m <= Len(texts) /\ (m = Len(u) => Len(texts) = m)
         /\ \A i \in 1..m : /\ Shape[texts[i]].kind = "word"
                            /\ u[i].kind = "word" => texts[i] = u[i].text
<1> DEFINE pieces == BytePieces(u)
           n == Len(pieces)
           U == AllFillings(pieces)
<1>1. pieces \in Seq(Seq(R)) /\ n \in Nat BY ByteCut
<1>2. m <= n /\ (m = Len(u) => n = m) /\ \A i \in 1..m : pieces[i] = <<u[i]>>
  BY LoosePieces
<1> HIDE DEF pieces
<1>3. ASSUME NEW i \in 1..m, NEW t \in PieceFilled(pieces, i)
      PROVE  /\ Len(t) = 1 /\ t[1].text \in DOMAIN Shape /\ Shape[t[1].text].kind = "word"
             /\ u[i].kind = "word" => t[1].text = u[i].text
  <2>1. i \in DOMAIN pieces /\ i \in DOMAIN u BY <1>1, <1>2
  <2>2. pieces[i] = <<u[i]>> BY <1>2
  <2>3. u[i].kind \in {"word", "slot"} /\ ~u[i].open /\ (u[i].kind = "slot" => ~u[i].dots)
    OBVIOUS
  <2> HIDE DEF n
  <2> QED BY ONLY u \in Seq(R), Worded(u), t \in PieceFilled(pieces, i), <2>1, <2>2, <2>3, LooseFilling
<1>4. fills \in Seq(U) /\ StartsWith(fills, pieces, m, n)
  <2>1. m \in 0..n BY <1>1, <1>2
  <2>2. \A i \in 1..m : \A t \in PieceFilled(pieces, i) : Len(t) = 1 BY <1>3
  <2>3. pieces = BytePieces(u) BY DEF pieces
  <2> QED BY <2>1, <2>2, <2>3, FilledStarts
<1> HIDE DEF U
<1>5. Len(texts) = Len(fills) /\ \A i \in 1..Len(fills) : texts[i] = fills[i].text
  <2>1. DOMAIN fills = 1..Len(fills) /\ Len(fills) \in Nat BY <1>4
  <2>2. DOMAIN texts = 1..Len(fills) BY <2>1 DEF Argv
  <2>3. Len(texts) = Len(fills) BY <2>1, <2>2
  <2> QED BY <2>1, <2>3 DEF Argv
<1>6. m <= Len(fills) /\ (n = m => Len(fills) = m)
  BY <1>1, <1>2, <1>4 DEF StartsWith
<1>7. ASSUME NEW i \in 1..m
      PROVE  Shape[texts[i]].kind = "word" /\ (u[i].kind = "word" => texts[i] = u[i].text)
  <2>1. <<fills[i]>> \in PieceFilled(pieces, i) BY <1>1, <1>2, <1>4 DEF StartsWith
  <2>2. <<fills[i]>>[1] = fills[i] OBVIOUS
  <2>3. /\ Shape[fills[i].text].kind = "word"
        /\ u[i].kind = "word" => fills[i].text = u[i].text
    BY <2>1, <2>2, <1>3
  <2>4. i \in 1..Len(fills) BY <1>6, <1>4
  <2> QED BY <2>3, <2>4, <1>5
<1> QED BY <1>2, <1>5, <1>6, <1>7

LEMMA SameSeq ==
  ASSUME NEW R, NEW s \in Seq(R), NEW t \in Seq(R), Len(s) = Len(t),
         \A i \in 1..Len(t) : s[i] = t[i]
  PROVE  s = t
OBVIOUS

(* The words a line starts with are its first positionals, and there are   *)
(* no others where it is made of words.                                    *)
LEMMA WordsFirst ==
  ASSUME NEW texts \in Seq(DOMAIN Shape), NEW bools, NEW p,
         HasRead(p, bools, texts, Len(texts)), NEW m \in 0..Len(texts),
         \A i \in 1..m : Shape[texts[i]].kind = "word"
  PROVE  /\ m <= Len(p.positionals) /\ \A i \in 1..m : p.positionals[i] = texts[i]
         /\ m = Len(texts) => p.positionals = texts /\ ~p.help /\ DOMAIN p.flags = {}
<1> DEFINE n == Len(texts)
<1>1. /\ WordsRead(p, texts, n) /\ RolesRead(p, texts, n) /\ n \in Nat
      /\ MarksRead(p, texts, n) /\ FlagsRead(p, texts, n)
  BY DEF HasRead
<1> HIDE DEF n
<1>2. /\ p.positionals \in Seq(DOMAIN Shape) /\ p.indices \in Seq(Nat)
      /\ Len(p.positionals) = Len(p.indices) /\ Len(p.indices) \in Nat
      /\ \A k \in 1..Len(p.indices) : p.indices[k] \in 1..n /\ p.positionals[k] = texts[p.indices[k]]
      /\ \A k, l \in 1..Len(p.indices) : k < l => p.indices[k] < p.indices[l]
      /\ \A i \in 1..n : p.roles[i] = "positional" => \E k \in 1..Len(p.indices) : p.indices[k] = i
  BY <1>1 DEF WordsRead
<1>3. \A i \in 1..m : i \in 1..n /\ i \in DOMAIN texts BY DEF n
<1>4. ASSUME NEW i \in 1..m PROVE p.roles[i] = "positional" /\ i \in Tokens(texts, n)
  <2>1. \A j \in 1..i : Shape[texts[j]].kind = "word"
    <3>1. \A j \in 1..i : j \in 1..m OBVIOUS
    <3> QED BY <3>1
  <2>2. i \in Tokens(texts, n)
    <3>1. \A j \in 1..(i - 1) : j \in 1..i OBVIOUS
    <3> QED BY <1>3, <2>1, <3>1 DEF Tokens
  <2>3. p.roles[i] \in {"positional", "value"} BY <1>1, <1>3, <2>1, <2>2 DEF RolesRead
  <2>4. ASSUME p.roles[i] = "value" PROVE FALSE
    <3>1. i - 1 \in Tokens(texts, n) /\ Shape[texts[i - 1]].kind = "flag"
      BY <1>1, <1>3, <2>4 DEF RolesRead
    <3>2. i - 1 \in 1..n BY <3>1 DEF Tokens
    <3>3. i - 1 \in 1..i BY <3>2
    <3> QED BY <2>1, <3>1, <3>3
  <2> QED BY <2>2, <2>3, <2>4
<1> DEFINE S == {k \in 0..m : k <= Len(p.indices) /\ \A i \in 1..k : p.indices[i] = i}
<1>5. 0 \in S BY <1>2
<1>6. ASSUME NEW k \in 0..(m - 1), k \in S PROVE k + 1 \in S
  <2>1. k + 1 \in 1..m /\ k <= Len(p.indices) /\ \A i \in 1..k : p.indices[i] = i
    BY <1>6
  <2>2. PICK l \in 1..Len(p.indices) : p.indices[l] = k + 1
    BY <2>1, <1>2, <1>3, <1>4
  <2>3. l \notin 1..k
    <3>1. l \in 1..k => p.indices[l] = l BY <2>1
    <3> QED BY <3>1, <2>2
  <2>4. k + 1 <= l /\ k + 1 \in 1..Len(p.indices) BY <2>3, <2>2, <2>1, <1>2
  <2>5. p.indices[k + 1] \in Nat /\ p.indices[k + 1] >= 1 /\ (k + 1 < l => p.indices[k + 1] < k + 1)
    BY <2>2, <2>4, <1>2
  <2>6. p.indices[k + 1] = k + 1
    <3> SUFFICES ASSUME k + 1 < l PROVE FALSE BY <2>2, <2>4
    <3>1. p.indices[k + 1] \in 1..k BY <2>5
    <3>2. p.indices[p.indices[k + 1]] = p.indices[k + 1] BY <3>1, <2>1
    <3>3. p.indices[p.indices[k + 1]] < p.indices[k + 1]
      <4>1. p.indices[k + 1] \in 1..Len(p.indices) /\ p.indices[k + 1] < k + 1 BY <3>1, <2>4, <1>2
      <4> QED BY <4>1, <2>4, <1>2
    <3> QED BY <3>2, <3>3, <2>5
  <2>7. \A i \in 1..(k + 1) : p.indices[i] = i
    <3>1. \A i \in 1..(k + 1) : i = k + 1 \/ i \in 1..k OBVIOUS
    <3> QED BY <3>1, <2>1, <2>6
  <2> QED BY <2>1, <2>4, <2>7
<1>7. \A k \in 0..m : k \in S
  <2>1. \A k \in 0..(m - 1) : k \in S => k + 1 \in S BY <1>6
  <2>2. m \in Nat OBVIOUS
  <2> HIDE DEF S
  <2> QED BY <1>5, <2>1, <2>2, UpTo
<1>8. m <= Len(p.indices) /\ \A i \in 1..m : p.indices[i] = i
  <2>1. m \in S BY <1>7
  <2> QED BY <2>1
<1>9. m <= Len(p.positionals) /\ \A i \in 1..m : p.positionals[i] = texts[i]
  <2>1. \A i \in 1..m : i \in 1..Len(p.indices) BY <1>2, <1>8
  <2> QED BY <1>2, <1>8, <2>1
<1>10. ASSUME m = n PROVE p.positionals = texts /\ ~p.help /\ DOMAIN p.flags = {}
  <2>1. Len(p.indices) = m
    <3> SUFFICES ASSUME m < Len(p.indices) PROVE FALSE BY <1>2, <1>8
    <3>1. m + 1 \in 1..Len(p.indices) BY <1>2
    <3>2. p.indices[m + 1] \in 1..m BY <3>1, <1>2, <1>10
    <3>3. p.indices[m + 1] \in 1..Len(p.indices) /\ p.indices[m + 1] < m + 1 BY <3>2, <1>2
    <3>4. p.indices[p.indices[m + 1]] < p.indices[m + 1] BY <3>1, <3>3, <1>2
    <3> QED BY <3>2, <3>4, <1>8
  <2>7. /\ p.positionals \in Seq(DOMAIN Shape) /\ Len(p.positionals) = Len(texts)
        /\ \A i \in 1..Len(texts) : p.positionals[i] = texts[i]
    BY <1>2, <1>9, <1>10, <2>1 DEF n
  <2>2. p.positionals = texts BY <2>7, SameSeq
  <2>3. \A i \in Tokens(texts, n) : Shape[texts[i]].kind = "word"
    BY <1>10 DEF Tokens
  <2>4. ~p.help
    BY <1>1, <2>3 DEF MarksRead
  <2>5. \A i \in Tokens(texts, n) : Names(texts[i]) = {}
    BY <2>3 DEF Names
  <2>6. \A flag : flag \notin DOMAIN p.flags
    BY <1>1, <2>5 DEF FlagsRead
  <2> QED BY <2>2, <2>4, <2>6
<1> QED BY <1>9, <1>10 DEF n

(* More words may walk further down the tree, but no other way.            *)
LEMMA ResolveMore ==
  ASSUME IsTree(tree), NEW a \in Seq(DOMAIN Shape), NEW b \in Seq(DOMAIN Shape),
         Len(a) <= Len(b), \A i \in 1..Len(a) : b[i] = a[i]
  PROVE  /\ Len(Resolve(tree, a)) <= Len(Resolve(tree, b))
         /\ SubSeq(Resolve(tree, b), 1, Len(Resolve(tree, a))) = Resolve(tree, a)
         /\ Len(Resolve(tree, a)) < Len(a) => Resolve(tree, b) = Resolve(tree, a)
<1> DEFINE p == Resolve(tree, a)
           q == Resolve(tree, b)
<1>1. /\ Len(p) \in 0..Len(a) /\ p = SubSeq(a, 1, Len(p)) /\ p \in Seq(DOMAIN Shape)
      /\ \A k \in 1..Len(a) : SubSeq(a, 1, k) \in DOMAIN tree <=> k <= Len(p)
  BY ResolveIs
<1>2. /\ Len(q) \in 0..Len(b) /\ q = SubSeq(b, 1, Len(q)) /\ q \in Seq(DOMAIN Shape)
      /\ \A k \in 1..Len(b) : SubSeq(b, 1, k) \in DOMAIN tree <=> k <= Len(q)
  BY ResolveIs
<1> HIDE DEF p, q
<1>3. ASSUME NEW k \in 0..Len(a) PROVE SubSeq(b, 1, k) = SubSeq(a, 1, k)
  <2>1. /\ SubSeq(b, 1, k) \in Seq(DOMAIN Shape) /\ SubSeq(a, 1, k) \in Seq(DOMAIN Shape)
        /\ Len(SubSeq(b, 1, k)) = k /\ Len(SubSeq(a, 1, k)) = k
        /\ \A i \in 1..k : SubSeq(b, 1, k)[i] = b[i] /\ SubSeq(a, 1, k)[i] = a[i]
    OBVIOUS
  <2>2. \A i \in 1..k : i \in 1..Len(a) OBVIOUS
  <2> QED BY <2>1, <2>2, SameSeq
<1>4. \A k \in 1..Len(a) : k <= Len(p) <=> k <= Len(q)
  <2> SUFFICES ASSUME NEW k \in 1..Len(a) PROVE k <= Len(p) <=> k <= Len(q)
    OBVIOUS
  <2>1. k \in 1..Len(b) /\ k \in 0..Len(a) OBVIOUS
  <2>2. SubSeq(b, 1, k) = SubSeq(a, 1, k) BY <2>1, <1>3
  <2> QED BY <2>1, <2>2, <1>1, <1>2
<1>5. Len(p) <= Len(q)
  <2>1. Len(p) = 0 \/ Len(p) \in 1..Len(a) BY <1>1
  <2> QED BY <2>1, <1>1, <1>2, <1>4
<1>6. SubSeq(q, 1, Len(p)) = p
  <2>1. SubSeq(SubSeq(b, 1, Len(q)), 1, Len(p)) = SubSeq(b, 1, Len(p))
    <3>1. Len(q) \in 0..Len(b) /\ Len(p) \in 0..Len(q) BY <1>1, <1>2, <1>5
    <3> QED BY <3>1, SubSeqOfSubSeq
  <2> QED BY <2>1, <1>1, <1>2, <1>3
<1>7. ASSUME Len(p) < Len(a) PROVE q = p
  <2>1. Len(p) + 1 \in 1..Len(a) BY <1>1, <1>7
  <2>2. ~(Len(p) + 1 <= Len(q)) BY <2>1, <1>1, <1>4
  <2>4. Len(p) \in Nat /\ Len(q) \in Nat BY <1>1, <1>2
  <2>3. Len(q) = Len(p) BY <2>2, <2>4, <1>5
  <2> QED BY <2>3, <1>1, <1>2, <1>3
<1> QED BY <1>5, <1>6, <1>7 DEF p, q

(* The tokens before the first of a kind. *)
LEMMA Before ==
  ASSUME NEW R, NEW u \in Seq(R), NEW S \in SUBSET DOMAIN u
  PROVE  LET m == Least(S \cup {Len(u) + 1}) - 1 IN
         /\ m \in 0..Len(u) /\ \A i \in 1..m : i \notin S
         /\ m < Len(u) => m + 1 \in S
<1> DEFINE l == Least(S \cup {Len(u) + 1})
<1>1. Len(u) \in Nat /\ S \cup {Len(u) + 1} \in SUBSET (1..(Len(u) + 1)) OBVIOUS
<1>2. S \cup {Len(u) + 1} \in SUBSET Nat BY <1>1
<1>3. l \in S \cup {Len(u) + 1} /\ \A k \in S \cup {Len(u) + 1} : l <= k
  BY <1>2, LeastIs
<1> HIDE DEF l
<1>4. l \in 1..(Len(u) + 1) BY <1>1, <1>3
<1>5. \A i \in 1..(l - 1) : i \notin S BY <1>3, <1>4
<1>6. l - 1 < Len(u) => (l - 1) + 1 \in S BY <1>3, <1>4
<1>7. l - 1 \in 0..Len(u) BY <1>4, <1>1
<1> QED BY <1>7, <1>5, <1>6, Zenon DEF l

Makes(u, fills) == IsUsage(u) /\ Worded(u) /\ fills \in Filled(u) /\ args = Argv(fills)

(* The words a template starts with are those its lines start with.        *)
LEMMA CommandWords ==
  ASSUME args \in Seq(DOMAIN Shape), NEW u, NEW fills, Makes(u, fills)
  PROVE  LET m == Len(CommandTokens(u)) IN
         /\ m \in 0..Len(u) /\ m <= Len(args) /\ CommandTokens(u) = SubSeq(args, 1, m)
         /\ \A i \in 1..m : /\ ~u[i].open /\ u[i].kind = "word"
                            /\ Shape[args[i]].kind = "word" /\ args[i] = u[i].text
         /\ m < Len(u) => u[m + 1].open \/ u[m + 1].kind # "word"
<1> DEFINE S == {i \in DOMAIN u : u[i].open \/ u[i].kind # "word"}
           m == Least(S \cup {Len(u) + 1}) - 1
<1>1. PICK R : u \in Seq(R) BY Zenon DEF Makes, IsUsage
<1>2. m \in 0..Len(u) /\ (\A i \in 1..m : i \notin S) /\ (m < Len(u) => m + 1 \in S)
  <2>1. S \in SUBSET DOMAIN u OBVIOUS
  <2> HIDE DEF S
  <2> QED BY <1>1, <2>1, Before
<1>3. CommandTokens(u) = [i \in 1..m |-> u[i].text]
  BY DEF CommandTokens
<1> HIDE DEF m
<1>4. Len(u) \in Nat /\ DOMAIN u = 1..Len(u) BY <1>1
<1>5. \A i \in 1..m : i \in DOMAIN u /\ ~u[i].open /\ u[i].kind = "word"
  BY <1>2, <1>4
<1>6. m < Len(u) => u[m + 1].open \/ u[m + 1].kind # "word" BY <1>2
<1> HIDE DEF S
<1>7. /\ m <= Len(args)
      /\ \A i \in 1..m : Shape[args[i]].kind = "word" /\ args[i] = u[i].text
  <2>1. Worded(u) /\ fills \in Filled(u) /\ args = Argv(fills) BY DEF Makes
  <2>2. \A i \in 1..m : /\ u[i].kind \in {"word", "slot"} /\ ~u[i].open
                        /\ u[i].kind = "slot" => ~u[i].dots
    BY <1>5
  <2>3. m \in 0..Len(u) BY <1>2
  <2>4. /\ m <= Len(args)
        /\ \A i \in 1..m : /\ Shape[args[i]].kind = "word"
                           /\ u[i].kind = "word" => args[i] = u[i].text
    BY <1>1, <2>1, <2>2, <2>3, MadeStarts
  <2> QED BY <2>4, <1>5
<1>8. CommandTokens(u) = SubSeq(args, 1, m) /\ Len(SubSeq(args, 1, m)) = m
  <2>1. m \in Nat /\ m <= Len(args) BY <1>2, <1>7
  <2>2. /\ SubSeq(args, 1, m) = [i \in 1..m |-> SubSeq(args, 1, m)[i]]
        /\ Len(SubSeq(args, 1, m)) = m /\ \A i \in 1..m : SubSeq(args, 1, m)[i] = args[i]
    BY <2>1
  <2>3. SubSeq(args, 1, m) = [i \in 1..m |-> u[i].text]
    BY <2>2, <1>7
  <2> QED BY <2>2, <2>3, <1>3
<1> QED BY <1>2, <1>5, <1>6, <1>7, <1>8

(* What next_action_resolves says of a template whose first n tokens are   *)
(* its leading literals.                                                   *)
Advised(u, n) ==
  LET path == Resolve(tree, SubSeq(args, 1, n)) IN
  IF Len(path) = n THEN path # <<>> \/ u = <<>>
  ELSE /\ path # <<>> /\ tree[path].handler \notin {None, "skill"}
       /\ Bounded(path) => ArgumentsFrom(u, Len(path) + 1) <= tree[path].arity

LEMMA LiteralWords ==
  ASSUME args \in Seq(DOMAIN Shape), NEW u, NEW fills, Makes(u, fills), NextActionResolves(u)
  PROVE  \E n \in 0..Len(u) :
           /\ n <= Len(args) /\ Advised(u, n)
           /\ \A i \in 1..n : IsLiteral(u[i]) /\ Shape[args[i]].kind = "word"
           /\ n < Len(u) => ~IsLiteral(u[n + 1])
<1> DEFINE S == {i \in DOMAIN u : ~IsLiteral(u[i])}
           n == Least(S \cup {Len(u) + 1}) - 1
           m == Len(CommandTokens(u))
<1>1. PICK R : u \in Seq(R) BY Zenon DEF Makes, IsUsage
<1>2. n \in 0..Len(u) /\ (\A i \in 1..n : i \notin S) /\ (n < Len(u) => n + 1 \in S)
  <2>1. S \in SUBSET DOMAIN u OBVIOUS
  <2> HIDE DEF S
  <2> QED BY <1>1, <2>1, Before
<1>3. NextActionResolves(u) =
        LET path == Resolve(tree, [i \in 1..n |-> u[i].text]) IN
        IF Len(path) = n THEN path # <<>> \/ u = <<>>
        ELSE /\ path # <<>> /\ tree[path].handler \notin {None, "skill"}
             /\ Bounded(path) => ArgumentsFrom(u, Len(path) + 1) <= tree[path].arity
  BY Zenon DEF NextActionResolves
<1> HIDE DEF n
<1>4. /\ \A i \in 1..n : i \in DOMAIN u /\ IsLiteral(u[i])
      /\ n < Len(u) => ~IsLiteral(u[n + 1])
  BY <1>1, <1>2
<1>5. \A i \in 1..n : ~u[i].open /\ u[i].kind = "word" BY <1>4 DEF IsLiteral, IsArgument
<1> HIDE DEF S
<1>6. /\ m \in 0..Len(u) /\ m <= Len(args)
      /\ \A i \in 1..m : Shape[args[i]].kind = "word" /\ args[i] = u[i].text
      /\ m < Len(u) => u[m + 1].open \/ u[m + 1].kind # "word"
  BY CommandWords
<1> HIDE DEF m
<1>7. n <= m
  <2> SUFFICES ASSUME m < n PROVE FALSE BY <1>2, <1>6
  <2>1. m + 1 \in 1..n /\ m < Len(u) BY <1>2, <1>6, <1>1
  <2> QED BY <2>1, <1>5, <1>6
<1>8. /\ n <= Len(args) /\ n \in Nat
      /\ \A i \in 1..n : Shape[args[i]].kind = "word" /\ args[i] = u[i].text
  <2>1. n \in Nat /\ m \in Nat /\ Len(args) \in Nat BY <1>2, <1>6
  <2>2. \A i \in 1..n : i \in 1..m BY <2>1, <1>7
  <2> QED BY <2>1, <2>2, <1>6, <1>7
<1>9. SubSeq(args, 1, n) = [i \in 1..n |-> u[i].text]
  <2>1. /\ SubSeq(args, 1, n) = [i \in 1..n |-> SubSeq(args, 1, n)[i]]
        /\ \A i \in 1..n : SubSeq(args, 1, n)[i] = args[i]
    BY <1>8
  <2> QED BY <2>1, <1>8
<1>10. Advised(u, n) BY <1>3, <1>9, Zenon DEF Advised
<1> QED BY <1>2, <1>4, <1>8, <1>10

(* A template without flags or groups makes one line, of as many words.    *)
LEMMA AllWords ==
  ASSUME args \in Seq(DOMAIN Shape), NEW u, NEW fills, Makes(u, fills),
         \A i \in DOMAIN u : IsArgument(u[i]) /\ (u[i].kind = "slot" => ~u[i].dots)
  PROVE  /\ Len(args) = Len(u) /\ Len(u) \in Nat /\ DOMAIN u = 1..Len(u)
         /\ \A i \in 1..Len(args) : Shape[args[i]].kind = "word"
<1> DEFINE R == [open : BOOLEAN, close : {"no", "mid", "end"}, dots : BOOLEAN,
                 kind : {"long", "short", "slot", "word"}, flags : SUBSET STRING,
                 eq : BOOLEAN, holder : STRING, text : STRING]
<1>1. u \in Seq(R) BY DEF Makes, IsUsage
<1>2. Len(u) \in Nat /\ DOMAIN u = 1..Len(u)
  <2> HIDE DEF R
  <2> QED BY <1>1
<1>3. \A i \in 1..Len(u) : u[i].kind \in {"long", "short", "slot", "word"}
  <2>1. \A i \in 1..Len(u) : u[i] \in R
    <3> HIDE DEF R
    <3> QED BY <1>1
  <2> QED BY <2>1
<1> HIDE DEF R
<1>4. \A i \in 1..Len(u) : /\ u[i].kind \in {"word", "slot"} /\ ~u[i].open
                           /\ u[i].kind = "slot" => ~u[i].dots
  BY <1>2, <1>3 DEF IsArgument, IsFlag
<1>5. Worded(u) /\ fills \in Filled(u) /\ args = Argv(fills) BY DEF Makes
<1>6. Len(u) \in 0..Len(u) BY <1>2
<1>7. Len(args) = Len(u) /\ \A i \in 1..Len(u) : Shape[args[i]].kind = "word"
  BY <1>1, <1>4, <1>5, <1>6, MadeStarts
<1> QED BY <1>2, <1>7

(* A line of a template that resolves is empty, or names a command first.  *)
NamesCommandFirst ==
  1 \in DOMAIN args /\ Shape[args[1]].kind = "word" /\ <<args[1]>> \in DOMAIN tree

LEMMA NamesFirst ==
  ASSUME IsTree(tree), args \in Seq(DOMAIN Shape), NEW u, NEW fills, Makes(u, fills),
         NextActionResolves(u)
  PROVE  args = <<>> \/ NamesCommandFirst
<1>1. PICK n \in 0..Len(u) :
        n <= Len(args) /\ Advised(u, n) /\ \A i \in 1..n : Shape[args[i]].kind = "word"
  BY LiteralWords
<1>2. PICK R : u \in Seq(R) BY Zenon DEF Makes, IsUsage
<1> DEFINE words == SubSeq(args, 1, n)
           path == Resolve(tree, words)
<1>3. n \in Nat /\ Len(args) \in Nat /\ Len(u) \in Nat BY <1>1, <1>2
<1>4. words \in Seq(DOMAIN Shape) /\ Len(words) = n /\ \A i \in 1..n : words[i] = args[i]
  BY <1>1, <1>3
<1> HIDE DEF words
<1>5. /\ Len(path) \in 0..n /\ path \in Seq(DOMAIN Shape)
      /\ \A k \in 1..n : SubSeq(words, 1, k) \in DOMAIN tree <=> k <= Len(path)
  BY <1>4, ResolveIs
<1>6. path # <<>> \/ u = <<>> BY <1>1, Zenon DEF Advised, words
<1> HIDE DEF path
<1>7. CASE u = <<>>
  <2>1. \A i \in DOMAIN u : IsArgument(u[i]) /\ (u[i].kind = "slot" => ~u[i].dots) BY <1>7
  <2>2. Len(args) = 0 BY <2>1, <1>7, AllWords
  <2> QED BY <2>2
<1>8. CASE path # <<>>
  <2>1. 1 <= Len(path) /\ 1 \in 1..n BY <1>3, <1>5, <1>8
  <2>2. SubSeq(words, 1, 1) \in DOMAIN tree BY <2>1, <1>5
  <2>3. SubSeq(words, 1, 1) \in Seq(DOMAIN Shape) /\ Len(SubSeq(words, 1, 1)) = 1
        /\ SubSeq(words, 1, 1)[1] = args[1]
    BY <2>1, <1>4
  <2>4. SubSeq(words, 1, 1) = <<args[1]>> BY <2>3, OneItem
  <2>5. 1 \in DOMAIN args BY <2>1, <1>1, <1>3
  <2> QED BY <2>1, <2>2, <2>4, <2>5, <1>1 DEF NamesCommandFirst
<1> QED BY <1>6, <1>7, <1>8

LEMMA WholeSubSeq ==
  ASSUME NEW R, NEW s \in Seq(R)
  PROVE  SubSeq(s, 1, Len(s)) = s
OBVIOUS

(* A line of literals names a command to its end, or one that runs.        *)
LEMMA LiteralsRun ==
  ASSUME IsTree(tree), args \in Seq(DOMAIN Shape), NEW u, NEW fills, Makes(u, fills),
         NextActionResolves(u), \A i \in DOMAIN u : IsLiteral(u[i])
  PROVE  /\ \A i \in 1..Len(args) : Shape[args[i]].kind = "word"
         /\ LET path == Resolve(tree, args) IN
            Len(path) = Len(args) \/ tree[path].handler # None
<1>1. PICK n \in 0..Len(u) :
        n <= Len(args) /\ Advised(u, n) /\ (n < Len(u) => ~IsLiteral(u[n + 1]))
  BY LiteralWords
<1>2. /\ Len(args) = Len(u) /\ Len(u) \in Nat /\ DOMAIN u = 1..Len(u)
      /\ \A i \in 1..Len(args) : Shape[args[i]].kind = "word"
  <2>1. \A i \in DOMAIN u : IsArgument(u[i]) /\ (u[i].kind = "slot" => ~u[i].dots)
    BY DEF IsLiteral
  <2> QED BY <2>1, AllWords
<1>3. n = Len(args)
  <2> SUFFICES ASSUME n < Len(u) PROVE FALSE BY <1>1, <1>2
  <2>1. n + 1 \in DOMAIN u BY <1>2
  <2> QED BY <2>1, <1>1
<1>4. SubSeq(args, 1, n) = args BY <1>3, WholeSubSeq
<1>5. LET path == Resolve(tree, args) IN
      Len(path) = Len(args) \/ tree[path].handler # None
  BY <1>1, <1>3, <1>4 DEF Advised
<1> QED BY <1>2, <1>5

(* One of arguments alone has as many as its command takes.                *)
LEMMA ArgumentsFitLine ==
  ASSUME IsTree(tree), args \in Seq(DOMAIN Shape), NEW u, NEW fills, Makes(u, fills),
         NextActionResolves(u), CommandTokens(u) \notin DOMAIN tree,
         \A i \in DOMAIN u : IsArgument(u[i]) /\ ~u[i].dots,
         Resolve(tree, args) # <<>>, Bounded(Resolve(tree, args))
  PROVE  Len(args) - Len(Resolve(tree, args)) <= tree[Resolve(tree, args)].arity
<1>1. PICK n \in 0..Len(u) :
        /\ n <= Len(args) /\ Advised(u, n) /\ (n < Len(u) => ~IsLiteral(u[n + 1]))
        /\ \A i \in 1..n : IsLiteral(u[i])
  BY LiteralWords
<1>2. Len(args) = Len(u) /\ Len(u) \in Nat /\ DOMAIN u = 1..Len(u)
  BY AllWords
<1> DEFINE m == Len(CommandTokens(u))
           words == SubSeq(args, 1, n)
           start == Resolve(tree, words)
           path == Resolve(tree, args)
<1>3. /\ m \in 0..Len(u) /\ CommandTokens(u) = SubSeq(args, 1, m)
      /\ \A i \in 1..m : u[i].kind = "word"
      /\ m < Len(u) => u[m + 1].open \/ u[m + 1].kind # "word"
  BY CommandWords
<1> HIDE DEF m
<1>4. m = n
  <2>1. n \in Nat /\ m \in Nat BY <1>1, <1>2, <1>3
  <2>2. ASSUME n < m PROVE FALSE
    <3>1. n + 1 \in 1..m /\ n + 1 \in DOMAIN u /\ n < Len(u) BY <2>1, <2>2, <1>2, <1>3
    <3> QED BY <3>1, <1>1, <1>3 DEF IsLiteral
  <2>3. ASSUME m < n PROVE FALSE
    <3>1. m + 1 \in 1..n /\ m < Len(u) BY <2>1, <2>3, <1>1, <1>2
    <3> QED BY <3>1, <1>1, <1>3 DEF IsLiteral, IsArgument
  <2> QED BY <2>1, <2>2, <2>3
<1>5. words \in Seq(DOMAIN Shape) /\ Len(words) = n /\ \A i \in 1..n : args[i] = words[i]
  BY <1>1, <1>2
<1>6. words \notin DOMAIN tree BY <1>3, <1>4
<1> HIDE DEF words
<1>7. /\ Len(start) \in 0..n /\ start = SubSeq(words, 1, Len(start))
      /\ start # <<>> => start \in DOMAIN tree
  BY <1>5, ResolveIs
<1>8. IF Len(start) = n THEN start # <<>> \/ u = <<>>
      ELSE Bounded(start) => ArgumentsFrom(u, Len(start) + 1) <= tree[start].arity
  BY <1>1, Zenon DEF Advised, words
<1>9. Len(start) < Len(words) => path = start
  BY <1>1, <1>5, ResolveMore
<1>10. path # <<>> /\ Bounded(path) OBVIOUS
<1>11. Len(path) \in 0..Len(args) BY ResolveIs
<1> HIDE DEF start, path
<1>12. Len(start) # n
  <2> SUFFICES ASSUME Len(start) = n PROVE FALSE OBVIOUS
  <2>1. start = words BY <1>5, <1>7, WholeSubSeq
  <2>2. u = <<>> BY <2>1, <1>6, <1>7, <1>8
  <2>3. args = <<>> BY <2>2, <1>2
  <2>4. path = <<>> BY <2>3, NoWords DEF path
  <2> QED BY <2>4, <1>10
<1>13. path = start /\ ArgumentsFrom(u, Len(path) + 1) <= tree[path].arity
  <2>2. Len(start) \in 0..n /\ n \in Nat BY <1>1, <1>2, <1>7
  <2>1. Len(start) < Len(words) BY <1>5, <1>12, <2>2
  <2> QED BY <2>1, <1>8, <1>9, <1>10, <1>12
<1>14. ArgumentsFrom(u, Len(path) + 1) = Len(args) - Len(path)
  <2> DEFINE l == Len(path) + 1
             T == {i \in l..Len(u) : ~IsArgument(u[i])} \cup {Len(u) + 1}
  <2>1. l \in 1..(Len(u) + 1) BY <1>2, <1>11
  <2>2. T = {Len(u) + 1} BY <2>1, <1>2
  <2>3. ArgumentsFrom(u, l) = Least(T) - l BY DEF ArgumentsFrom
  <2> HIDE DEF T
  <2>5. Least(T) = Len(u) + 1 BY <2>2, <1>2 DEF Least
  <2>6. ArgumentsFrom(u, l) = Len(u) + 1 - l BY <2>3, <2>5
  <2>7. Len(u) + 1 - (Len(path) + 1) = Len(args) - Len(path) BY <1>2, <1>11
  <2> QED BY <2>6, <2>7
<1> QED BY <1>13, <1>14 DEF path

(* The tokens a line was read from: all, or those before a raw command's.  *)
LineOf(k) ==
  /\ k \in 0..Len(args) /\ (claim = NoClaim => k = Len(args)) /\ (args # <<>> => 1 <= k)
  /\ HasRead(line, LineBools, SubSeq(args, 1, k), k)

LEMMA LineIsRead ==
  ASSUME LineInv, stage \in Gates
  PROVE  \E k \in 0..Len(args) : LineOf(k)
<1>1. InputsHold /\ args \in Seq(DOMAIN Shape) /\ Len(args) \in Nat
  BY DEF LineInv, InputsHold
<1>2. CASE claim = NoClaim /\ WholeRead
  <2>1. line = Parse(tree, LineBools, args) /\ line.error = None
    BY <1>2 DEF WholeRead, Whole
  <2>2. HasRead(line, LineBools, args, Len(args))
    BY <1>1, <2>1, ParseRead DEF Reading
  <2>3. SubSeq(args, 1, Len(args)) = args BY <1>1, WholeSubSeq
  <2>4. args # <<>> => 1 <= Len(args) BY <1>1
  <2>6. HasRead(line, LineBools, SubSeq(args, 1, Len(args)), Len(args)) BY ONLY <2>2, <2>3
  <2>7. Len(args) \in 0..Len(args) BY <1>1
  <2>5. LineOf(Len(args)) BY <2>4, <2>6, <2>7, Zenon DEF LineOf
  <2> QED BY <1>1, <2>5
<1>3. CASE claim # NoClaim /\ PrefixRead
  <2>1. IsClaim(claim) BY <1>1, <1>3, FoundIsClaim DEF PrefixRead
  <2>2. PICK m \in 1..Len(args) : claim.start = m + 1 BY <2>1 DEF IsClaim
  <2>3. HasRead(line, LineBools, SubSeq(args, 1, m), m)
    BY <1>1, <1>3, <2>2, PrefixLine
  <2>4. m \in 0..Len(args) /\ 1 <= m OBVIOUS
  <2>5. LineOf(m) BY <1>3, <2>3, <2>4 DEF LineOf
  <2> QED BY <2>4, <2>5
<1> QED BY <1>2, <1>3 DEF LineInv

(* The words argv starts with, in the line that was read. *)
LEMMA LineStarts ==
  ASSUME args \in Seq(DOMAIN Shape), NEW k \in 0..Len(args), LineOf(k),
         NEW m \in 0..k, \A i \in 1..m : Shape[args[i]].kind = "word"
  PROVE  /\ m <= Len(line.positionals) /\ \A i \in 1..m : line.positionals[i] = args[i]
         /\ line.positionals \in Seq(DOMAIN Shape)
         /\ m = k => /\ line.positionals = SubSeq(args, 1, k)
                     /\ ~line.help /\ DOMAIN line.flags = {}
<1> DEFINE texts == SubSeq(args, 1, k)
<1>1. /\ texts \in Seq(DOMAIN Shape) /\ Len(texts) = k
      /\ \A i \in 1..k : texts[i] = args[i]
  OBVIOUS
<1>2. HasRead(line, LineBools, texts, Len(texts)) BY <1>1 DEF LineOf
<1> HIDE DEF texts
<1>3. m \in 0..Len(texts) BY <1>1
<1>4. \A i \in 1..m : i \in 1..k OBVIOUS
<1>5. \A i \in 1..m : Shape[texts[i]].kind = "word" BY <1>1, <1>4
<1>6. /\ m <= Len(line.positionals) /\ \A i \in 1..m : line.positionals[i] = texts[i]
      /\ m = Len(texts) => line.positionals = texts /\ ~line.help /\ DOMAIN line.flags = {}
  BY <1>1, <1>2, <1>3, <1>5, WordsFirst
<1>7. line.positionals \in Seq(DOMAIN Shape) BY <1>2 DEF HasRead, WordsRead
<1> QED BY <1>1, <1>4, <1>6, <1>7 DEF texts

(* A line that names a command first is no alias, and resolves.            *)
LEMMA CommandFirst ==
  ASSUME LineInv, stage \in Gates, NamesCommandFirst
  PROVE  Path # <<>> /\ ~Alias("help") /\ ~Alias("version")
<1>1. args \in Seq(DOMAIN Shape) /\ IsTree(tree) BY DEF LineInv, InputsHold
<1>2. PICK k \in 0..Len(args) : LineOf(k) BY LineIsRead
<1>3. 1 \in 1..Len(args) /\ Shape[args[1]].kind = "word" /\ <<args[1]>> \in DOMAIN tree
  BY <1>1 DEF NamesCommandFirst
<1>4. 1 \in 0..k
  <2>1. args # <<>> BY <1>1, <1>3
  <2> QED BY <1>2, <2>1 DEF LineOf
<1>5. /\ 1 <= Len(line.positionals) /\ line.positionals[1] = args[1]
      /\ line.positionals \in Seq(DOMAIN Shape)
  <2>1. \A i \in 1..1 : Shape[args[i]].kind = "word" BY <1>3
  <2> QED BY <1>1, <1>2, <1>4, <2>1, LineStarts
<1>6. SubSeq(line.positionals, 1, 1) = <<args[1]>>
  <2>1. /\ SubSeq(line.positionals, 1, 1) \in Seq(DOMAIN Shape)
        /\ Len(SubSeq(line.positionals, 1, 1)) = 1
        /\ SubSeq(line.positionals, 1, 1)[1] = args[1]
    BY <1>5
  <2> QED BY <2>1, OneItem
<1>7. Path # <<>>
  <2>1. 1 \in 1..Len(line.positionals) BY <1>5
  <2>2. 1 <= Len(Path) BY <1>1, <1>3, <1>5, <1>6, <2>1, ResolveIs DEF Path
  <2> QED BY <2>2
<1>8. ~Alias("help") /\ ~Alias("version") BY <1>3, <1>5 DEF Alias
<1> QED BY <1>7, <1>8

(* One of words alone holds nothing else. *)
LEMMA WordLine ==
  ASSUME LineInv, stage \in Gates, \A i \in 1..Len(args) : Shape[args[i]].kind = "word"
  PROVE  ~HelpWanted /\ (claim = NoClaim => line.positionals = args)
<1>1. args \in Seq(DOMAIN Shape) BY DEF LineInv, InputsHold
<1>2. PICK k \in 0..Len(args) : LineOf(k) BY LineIsRead
<1>3. k \in 0..k /\ \A i \in 1..k : Shape[args[i]].kind = "word" OBVIOUS
<1>4. line.positionals = SubSeq(args, 1, k) /\ ~line.help /\ DOMAIN line.flags = {}
  BY <1>1, <1>2, <1>3, LineStarts
<1>5. claim = NoClaim => line.positionals = args
  BY <1>1, <1>2, <1>4, WholeSubSeq DEF LineOf
<1> QED BY <1>4, <1>5 DEF HelpWanted, On

(* A line that is said to be made from a next action is one of its lines.  *)
Made ==
  /\ given.from = "action" => Makes(given.template, given.fills)
  /\ \A path \in DOMAIN tree : tree[path].arity \in Nat

LEMMA MadeStays == Spec => []Made
<1>1. Init => Made
  BY TemplatesAssumption, ArityAssumption DEF Init, Called, Made, Makes, given, tree
<1>2. Made /\ [Next]_vars => Made'
  BY InputStays DEF Made, Makes, given, input, tree
<1> QED BY <1>1, <1>2, PTL DEF Spec

(* What a line of a next action that resolves may be answered.             *)
Resolved == given.from = "action" /\ NextActionResolves(given.template)

Allowed(code) ==
  Resolved =>
    LET u == given.template IN
    /\ code # "UNKNOWN_COMMAND"
    /\ code = "UNKNOWN_SUBCOMMAND" => \E i \in DOMAIN u : ~IsLiteral(u[i])
    /\ code = "EXTRA_ARG" =>
         \/ \E i \in DOMAIN u : ~IsArgument(u[i]) \/ u[i].dots
         \/ CommandTokens(u) \in DOMAIN tree

AnsweredWell == stage = "answered" => Allowed(answer.code)

LEMMA Harmless ==
  ASSUME NEW code, code \notin {"UNKNOWN_COMMAND", "UNKNOWN_SUBCOMMAND", "EXTRA_ARG"}
  PROVE  Allowed(code)
BY DEF Allowed

LEMMA EmptyLine ==
  ASSUME LineInv, stage \in Gates, args = <<>>
  PROVE  line.positionals = <<>> /\ ~Alias("help") /\ ~Alias("version")
<1>1. args \in Seq(DOMAIN Shape) BY DEF LineInv, InputsHold
<1>2. PICK k \in 0..Len(args) : LineOf(k) BY LineIsRead
<1>3. k = 0 BY <1>1
<1>4. \A i \in 1..0 : Shape[args[i]].kind = "word" OBVIOUS
<1>5. line.positionals = SubSeq(args, 1, 0) BY <1>1, <1>2, <1>3, <1>4, LineStarts
<1>6. line.positionals = <<>> BY <1>1, <1>5
<1> QED BY <1>6 DEF Alias

(* The line of such an action names a command first, or nothing at all.    *)
LEMMA ResolvedLine ==
  ASSUME LineInv, Made, stage \in Gates, Resolved
  PROVE  /\ line.positionals = <<>> \/ (line.positionals # <<>> /\ Path # <<>>)
         /\ ~Alias("help") /\ ~Alias("version")
<1>1. args \in Seq(DOMAIN Shape) /\ IsTree(tree) BY DEF LineInv, InputsHold
<1>2. args = <<>> \/ NamesCommandFirst BY <1>1, NamesFirst DEF Made, Resolved
<1>3. CASE args = <<>> BY <1>3, EmptyLine
<1>4. CASE NamesCommandFirst
  <2>1. Path # <<>> /\ ~Alias("help") /\ ~Alias("version") BY <1>4, CommandFirst
  <2> QED BY <2>1, EmptyPath
<1> QED BY <1>2, <1>3, <1>4

(* Of literals alone, it is read as they are. *)
LEMMA LiteralLine ==
  ASSUME LineInv, Made, stage \in Gates, Resolved,
         \A i \in DOMAIN given.template : IsLiteral(given.template[i])
  PROVE  /\ ~HelpWanted
         /\ claim = NoClaim => Remaining = <<>> \/ Leaf.handler # None
<1>1. args \in Seq(DOMAIN Shape) /\ IsTree(tree) BY DEF LineInv, InputsHold
<1>2. /\ \A i \in 1..Len(args) : Shape[args[i]].kind = "word"
      /\ LET path == Resolve(tree, args) IN
         Len(path) = Len(args) \/ tree[path].handler # None
  BY <1>1, LiteralsRun DEF Made, Resolved
<1>3. ~HelpWanted /\ (claim = NoClaim => line.positionals = args) BY <1>2, WordLine
<1>4. ASSUME claim = NoClaim, Len(Resolve(tree, args)) = Len(args) PROVE Remaining = <<>>
  <2>1. Path = Resolve(tree, args) /\ line.positionals = args BY <1>3, <1>4 DEF Path
  <2>2. Len(Path) = Len(line.positionals) BY <1>4, <2>1
  <2>3. SubSeq(args, Len(args) + 1, Len(args)) = <<>> BY <1>1
  <2> QED BY <2>1, <2>2, <2>3 DEF Remaining
<1>5. ASSUME claim = NoClaim, tree[Resolve(tree, args)].handler # None
      PROVE  Leaf.handler # None
  BY <1>3, <1>5 DEF Path, Leaf
<1> QED BY <1>2, <1>3, <1>4, <1>5

LEMMA RouteAllowed ==
  ASSUME LineInv, Made, FrameworkRoute, stage' = "answered"
  PROVE  Allowed(answer'.code)
<1> SUFFICES ASSUME Resolved PROVE Allowed(answer'.code)
  BY DEF Allowed
<1>1. stage \in Gates BY DEF FrameworkRoute, Gates, Unrouted
<1>2. /\ line.positionals = <<>> \/ (line.positionals # <<>> /\ Path # <<>>)
      /\ ~Alias("help") /\ ~Alias("version")
  BY <1>1, ResolvedLine
<1>3. CASE HelpWanted /\ Answer(HelpCode(line.positionals))
  <2>1. answer'.code = HelpCode(line.positionals) BY <1>3 DEF Answer, AnswerAs
  <2>2. \/ HelpCode(line.positionals) \in {"UNKNOWN_FLAG", "root", "tree"}
        \/ HelpCode(line.positionals) = "UNKNOWN_SUBCOMMAND"
    BY <1>2 DEF HelpCode, RootCode, TreeCode, Path
  <2>3. \E i \in DOMAIN given.template : ~IsLiteral(given.template[i])
    BY <1>1, <1>3, LiteralLine
  <2>4. CASE HelpCode(line.positionals) \in {"UNKNOWN_FLAG", "root", "tree"}
    BY <2>1, <2>4, Harmless
  <2>5. CASE HelpCode(line.positionals) = "UNKNOWN_SUBCOMMAND"
    BY <2>1, <2>3, <2>5 DEF Allowed
  <2> QED BY <2>2, <2>4, <2>5
<1>4. CASE VersionWanted /\ Answer(VersionCode)
  <2>1. answer'.code = VersionCode BY <1>4 DEF Answer, AnswerAs
  <2>2. VersionCode \in {"UNKNOWN_FLAG", "version"} BY <1>2 DEF VersionCode
  <2> QED BY <2>1, <2>2, Harmless
<1>5. \/ HelpWanted /\ Answer(HelpCode(line.positionals))
      \/ VersionWanted /\ Answer(VersionCode)
  BY <1>2 DEF FrameworkRoute, Reaches
<1> QED BY <1>3, <1>4, <1>5

LEMMA ResolveAllowed ==
  ASSUME Inv, LineInv, Made, ResolveCommand, stage' = "answered"
  PROVE  Allowed(answer'.code)
<1> SUFFICES ASSUME Resolved PROVE Allowed(answer'.code)
  BY DEF Allowed
<1>1. stage \in Gates /\ claim = NoClaim
  BY DEF ResolveCommand, Gates, Unrouted, Routed, Inv, Passed
<1>2. line.positionals = <<>> \/ (line.positionals # <<>> /\ Path # <<>>)
  BY <1>1, ResolvedLine
<1>3. CASE answer'.code \in {RootCode, TreeCode(Path)}
  <2>1. answer'.code \in {"UNKNOWN_FLAG", "root", "tree"} BY <1>3 DEF RootCode, TreeCode
  <2> QED BY <2>1, Harmless
<1>4. CASE Leaf.handler = None /\ Remaining # <<>> /\ answer'.code = "UNKNOWN_SUBCOMMAND"
  <2>1. \E i \in DOMAIN given.template : ~IsLiteral(given.template[i])
    BY <1>1, <1>4, LiteralLine
  <2> QED BY <1>4, <2>1 DEF Allowed
<1> QED BY <1>2, <1>3, <1>4, EmptyPath DEF ResolveCommand, Reaches, Answer, AnswerAs

LEMMA ExtraAllowed ==
  ASSUME Inv, LineInv, Made, RejectExtraArgs, stage' = "answered"
  PROVE  Allowed(answer'.code)
<1>1. /\ stage = "extra" /\ stage \in Gates /\ claim = NoClaim /\ Path # <<>>
  BY DEF RejectExtraArgs, Gate, Gates, Unrouted, Routed, Walked, Inv, Passed, LineInv
<1>2. Bounded(Path) /\ Len(Remaining) > Leaf.arity /\ answer'.code = "EXTRA_ARG"
  BY DEF RejectExtraArgs, Gate, Reaches, AnswerAs
<1> SUFFICES ASSUME Resolved, CommandTokens(given.template) \notin DOMAIN tree,
                    \A i \in DOMAIN given.template :
                      IsArgument(given.template[i]) /\ ~given.template[i].dots
             PROVE  FALSE
  BY <1>2 DEF Allowed
<1>3. args \in Seq(DOMAIN Shape) /\ IsTree(tree) BY DEF LineInv, InputsHold
<1>4. Makes(given.template, given.fills) /\ NextActionResolves(given.template)
  BY DEF Made, Resolved
<1>5. \A i \in 1..Len(args) : Shape[args[i]].kind = "word"
  BY <1>3, <1>4, AllWords
<1>6. line.positionals = args BY <1>1, <1>5, WordLine
<1>7. Path = Resolve(tree, args) BY <1>6 DEF Path
<1>8. Len(args) - Len(Path) <= tree[Path].arity
  BY <1>1, <1>2, <1>3, <1>4, <1>7, ArgumentsFitLine
<1>9. Len(Path) \in 0..Len(args) /\ Path \in DOMAIN tree
  BY <1>1, <1>3, <1>7, ResolveIs
<1>10. tree[Path].arity \in Nat BY <1>9 DEF Made
<1>11. Len(Remaining) = Len(args) - Len(Path)
  <2>1. Remaining = SubSeq(args, Len(Path) + 1, Len(args)) BY <1>6 DEF Remaining
  <2> QED BY <2>1, <1>3, <1>9
<1> QED BY <1>2, <1>3, <1>8, <1>9, <1>10, <1>11 DEF Leaf

LEMMA AllowedStays ==
  ASSUME UNCHANGED cli, NEW code
  PROVE  Allowed(code)' = Allowed(code)
<1>1. tree' = tree /\ given' = given BY DEF tree, given
<1>2. \A path : Bounded(path)' = Bounded(path) BY <1>1 DEF Bounded
<1>3. NextActionResolves(given.template)' = NextActionResolves(given.template)
  BY <1>1, <1>2 DEF NextActionResolves
<1> QED BY <1>1, <1>3 DEF Allowed, Resolved

LEMMA StepAllowed ==
  ASSUME Inv, LineInv, Made, AnsweredWell, [Next]_vars
  PROVE  AnsweredWell'
<1>1. UNCHANGED cli BY InputStays DEF input
<1>2. ASSUME stage' = "answered" => Allowed(answer'.code) PROVE AnsweredWell'
  <2>1. CASE stage' = "answered"
    <3>1. Allowed(answer'.code) BY <1>2, <2>1
    <3>2. \A code : Allowed(code)' = Allowed(code) BY <1>1, AllowedStays
    <3> QED BY <3>1, <3>2 DEF AnsweredWell
  <2> QED BY <2>1 DEF AnsweredWell
<1>3. CASE UNCHANGED vars BY <1>2, <1>3 DEF vars, AnsweredWell
<1> USE DEF Answer, AnswerAs, Reaches
<1>4. CASE BadClock \/ NonUtf8Argument \/ GoodClock \/ ClaimLead \/ NoLead
  BY <1>2, <1>4, Harmless DEF BadClock, NonUtf8Argument, GoodClock, ClaimLead, NoLead
<1>5. CASE ParseLine BY <1>2, <1>5, Harmless DEF ParseLine, RawClaim
<1>6. CASE \/ CheckBools \/ RejectUnknownFlags \/ RejectDryRun
           \/ RejectPrefixUnknown \/ RejectPrefixDeclared
  BY <1>2, <1>6, Harmless DEF CheckBools, RejectUnknownFlags, RejectDryRun,
     RejectPrefixUnknown, RejectPrefixDeclared, Gate
<1>7. CASE FrameworkRoute BY <1>2, <1>7, RouteAllowed
<1>8. CASE ResolveCommand BY <1>2, <1>8, ResolveAllowed
<1>9. CASE RejectExtraArgs BY <1>2, <1>9, ExtraAllowed
<1>10. CASE RejectPrefixReserved \/ AnswerItself \/ RunHandler \/ RunRaw
  BY <1>2, <1>10, Harmless DEF RejectPrefixReserved, AnswerItself, RunHandler, RunRaw
<1> QED BY <1>3, <1>4, <1>5, <1>6, <1>7, <1>8, <1>9, <1>10 DEF Next, Done

(* A handler that runs is at or below the command the leading words name.  *)
LEMMA HandlerBelow ==
  ASSUME LineInv, Made, given.from = "action", Handled
  PROVE  LET named == Resolve(tree, CommandTokens(given.template)) IN
         SubSeq(ran.path, 1, Len(named)) = named
<1> DEFINE words == CommandTokens(given.template)
           m == Len(words)
<1>1. args \in Seq(DOMAIN Shape) /\ IsTree(tree) BY DEF LineInv, InputsHold
<1>2. ran # NothingRan /\ ran.handler # "raw" BY DEF Handled, NothingRan, None
<1>3. ran = OwnRun /\ HasRead(line, LineBools, args, Len(args)) BY <1>2, OwnLine
<1>4. ran.path = Path BY <1>3 DEF OwnRun
<1>5. /\ m \in 0..Len(given.template) /\ m <= Len(args) /\ words = SubSeq(args, 1, m)
      /\ \A i \in 1..m : Shape[args[i]].kind = "word"
  BY <1>1, CommandWords DEF Made
<1> HIDE DEF words, m
<1>6. m \in 0..Len(args)
  <2>1. m \in Nat BY <1>5
  <2> QED BY <2>1, <1>1, <1>5
<1>7. m <= Len(line.positionals) /\ \A i \in 1..m : line.positionals[i] = args[i]
  BY <1>1, <1>3, <1>5, <1>6, WordsFirst
<1>8. line.positionals \in Seq(DOMAIN Shape) BY <1>3 DEF HasRead, WordsRead
<1>9. words \in Seq(DOMAIN Shape) /\ Len(words) = m /\ \A i \in 1..m : words[i] = args[i]
  BY <1>1, <1>5, <1>6
<1>10. SubSeq(Resolve(tree, line.positionals), 1, Len(Resolve(tree, words))) = Resolve(tree, words)
  BY <1>1, <1>7, <1>8, <1>9, ResolveMore
<1> QED BY <1>4, <1>10 DEF Path, words

(* A next action the audit resolves is advice that can be followed,        *)
(* whatever the tree, the template and what fills it.                      *)
THEOREM ResolvedActionsAlwaysRun == Spec => []ResolvedActionsRun
<1>1. Spec => []AnsweredWell
  <2>1. Init => AnsweredWell BY DEF Init, Called, AnsweredWell
  <2> QED BY <2>1, StepAllowed, LineInvariant, MadeStays, PTL DEF Spec
<1>2. LineInv /\ Made /\ AnsweredWell => ResolvedActionsRun
  <2> SUFFICES ASSUME LineInv, Made, AnsweredWell, stage = "answered", given.from = "action",
                      NextActionResolves(given.template)
               PROVE  ResolvedActionsRun
    BY DEF ResolvedActionsRun
  <2>1. Allowed(answer.code) /\ Resolved BY DEF AnsweredWell, Resolved
  <2>2. LET named == Resolve(tree, CommandTokens(given.template)) IN
        Handled => SubSeq(ran.path, 1, Len(named)) = named
    BY HandlerBelow
  <2> QED BY <2>1, <2>2, Zenon DEF Allowed, ResolvedActionsRun
<1> QED BY <1>1, <1>2, LineInvariant, MadeStays, PTL
=============================================================================
