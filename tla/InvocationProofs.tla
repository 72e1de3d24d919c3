------------------------- MODULE InvocationProofs -------------------------
(***************************************************************************)
(* What the parser makes of a line, for every tree, every set of booleans  *)
(* and every argv. Fed is a recursive function of the tokens read; what it *)
(* holds after n of them (Reading) is shown by induction on n, and the     *)
(* induction by the least number at which it would fail.                   *)
(***************************************************************************)
EXTENDS Invocation, FiniteSetTheorems, WellFoundedInduction, TLAPS

LessNat == {pair \in Nat \X Nat : pair[1] < pair[2]}

(* The order of the naturals has no endless descent, so that a set of them *)
(* has a least one, and one closed under the successor has them all.       *)
LEMMA LessNatWF == IsWellFoundedOn(LessNat, Nat)
BY NatLessThanWellFounded DEF OpToRel, LessNat

LEMMA LeastNat ==
  ASSUME NEW S \in SUBSET Nat, S # {}
  PROVE  \E n \in S : \A m \in S : n <= m
<1>1. PICK n \in S : \A m \in S : ~(<<m, n>> \in LessNat)
  BY LessNatWF, WFMin
<1>2. \A m \in S : ~(m < n)
  BY <1>1 DEF LessNat
<1> QED BY <1>2

LEMMA UpFromZero ==
  ASSUME NEW S \in SUBSET Nat, 0 \in S, \A n \in S : n + 1 \in S
  PROVE  S = Nat
<1> SUFFICES ASSUME Nat \ S # {} PROVE FALSE  OBVIOUS
<1>1. PICK n \in Nat \ S : \A m \in Nat \ S : n <= m
  <2>1. Nat \ S \in SUBSET Nat OBVIOUS
  <2> QED BY <2>1, LeastNat
<1>2. n # 0 /\ n - 1 \in Nat /\ n - 1 \in S BY <1>1
<1>3. (n - 1) + 1 \in S BY <1>2
<1> QED BY <1>1, <1>2, <1>3

-----------------------------------------------------------------------------
(* The parser after each token is what the recursion says of it.           *)
LEMMA FedExists ==
  ASSUME NEW tree, NEW bools, NEW args, NEW k \in Nat
  PROVE  \E f : f = [n \in 0..k |-> IF n = 0 THEN NewParser(args)
                                    ELSE Feed(tree, bools, f[n - 1], n, args[n])]
<1> DEFINE Step(f, n) == IF n = 0 THEN NewParser(args)
                          ELSE Feed(tree, bools, f[n - 1], n, args[n])
           S == {m \in Nat : \E f : f = [n \in 0..m |-> Step(f, n)]}
<1>1. 0 \in S
  <2>1. [n \in 0..0 |-> NewParser(args)] = [n \in 0..0 |-> Step([i \in 0..0 |-> NewParser(args)], n)]
    OBVIOUS
  <2> QED BY <2>1
<1>2. ASSUME NEW m \in S PROVE m + 1 \in S
  <2>1. PICK f : f = [n \in 0..m |-> Step(f, n)]
    BY <1>2
  <2> HIDE DEF Step
  <2> DEFINE g == [n \in 0..(m + 1) |-> IF n = m + 1 THEN Step(f, n) ELSE f[n]]
  <2>2. ASSUME NEW n \in 0..(m + 1) PROVE Step(f, n) = Step(g, n)
    BY DEF Step
  <2>3. ASSUME NEW n \in 0..(m + 1) PROVE g[n] = Step(g, n)
    <3>1. CASE n = m + 1
      BY <3>1, <2>2
    <3>2. CASE n \in 0..m
      <4>1. f[n] = Step(f, n) BY <2>1, <3>2
      <4> QED BY <4>1, <3>2, <2>2
    <3> QED BY <3>1, <3>2
  <2> HIDE DEF g
  <2>4. g = [n \in 0..(m + 1) |-> Step(g, n)]
    BY <2>3 DEF g
  <2> QED BY <2>4
<1>3. S = Nat
  <2> HIDE DEF S
  <2>1. S \in SUBSET Nat BY DEF S
  <2> QED BY <1>1, <1>2, <2>1, UpFromZero
<1> QED BY <1>3

(* Fed is met as the CHOOSE of its equation, which therefore holds of it.  *)
LEMMA FedEquation ==
  ASSUME NEW tree, NEW bools, NEW args, Len(args) \in Nat
  PROVE  /\ Fed(tree, bools, args)[0] = NewParser(args)
         /\ \A n \in 1..Len(args) :
              Fed(tree, bools, args)[n] = Feed(tree, bools, Fed(tree, bools, args)[n - 1], n, args[n])
<1> DEFINE fed == Fed(tree, bools, args)
<1>1. fed = [n \in 0..Len(args) |-> IF n = 0 THEN NewParser(args)
                                    ELSE Feed(tree, bools, fed[n - 1], n, args[n])]
  BY FedExists DEF Fed
<1> QED BY <1>1
-----------------------------------------------------------------------------
(* What a parser is, and what its operations do to each of its fields.     *)

IsParser(p) ==
  /\ p = [flags |-> p.flags, bare |-> p.bare, positionals |-> p.positionals,
          indices |-> p.indices, help |-> p.help, only |-> p.only,
          pending |-> p.pending, error |-> p.error, roles |-> p.roles]
  /\ p.flags = [key \in DOMAIN p.flags |-> p.flags[key]]
  /\ p.roles = [i \in DOMAIN p.roles |-> p.roles[i]]

(* The fields of p that q has too. *)
SameMarks(p, q) == q.help = p.help /\ q.only = p.only
SameWords(p, q) == q.positionals = p.positionals /\ q.indices = p.indices

(* The record a change of one field makes of a parser. *)
LEMMA Except ==
  ASSUME NEW p, IsParser(p), NEW x
  PROVE  /\ [p EXCEPT !.bare = x] =
           [flags |-> p.flags, bare |-> x, positionals |-> p.positionals, indices |-> p.indices,
            help |-> p.help, only |-> p.only, pending |-> p.pending, error |-> p.error, roles |-> p.roles]
         /\ [p EXCEPT !.positionals = x] =
           [flags |-> p.flags, bare |-> p.bare, positionals |-> x, indices |-> p.indices,
            help |-> p.help, only |-> p.only, pending |-> p.pending, error |-> p.error, roles |-> p.roles]
         /\ [p EXCEPT !.indices = x] =
           [flags |-> p.flags, bare |-> p.bare, positionals |-> p.positionals, indices |-> x,
            help |-> p.help, only |-> p.only, pending |-> p.pending, error |-> p.error, roles |-> p.roles]
         /\ [p EXCEPT !.help = x] =
           [flags |-> p.flags, bare |-> p.bare, positionals |-> p.positionals, indices |-> p.indices,
            help |-> x, only |-> p.only, pending |-> p.pending, error |-> p.error, roles |-> p.roles]
         /\ [p EXCEPT !.only = x] =
           [flags |-> p.flags, bare |-> p.bare, positionals |-> p.positionals, indices |-> p.indices,
            help |-> p.help, only |-> x, pending |-> p.pending, error |-> p.error, roles |-> p.roles]
         /\ [p EXCEPT !.pending = x] =
           [flags |-> p.flags, bare |-> p.bare, positionals |-> p.positionals, indices |-> p.indices,
            help |-> p.help, only |-> p.only, pending |-> x, error |-> p.error, roles |-> p.roles]
         /\ [p EXCEPT !.error = x] =
           [flags |-> p.flags, bare |-> p.bare, positionals |-> p.positionals, indices |-> p.indices,
            help |-> p.help, only |-> p.only, pending |-> p.pending, error |-> x, roles |-> p.roles]
         /\ [p EXCEPT !.roles = x] =
           [flags |-> p.flags, bare |-> p.bare, positionals |-> p.positionals, indices |-> p.indices,
            help |-> p.help, only |-> p.only, pending |-> p.pending, error |-> p.error, roles |-> x]
BY DEF IsParser

LEMMA SetFlagFields ==
  ASSUME NEW p, IsParser(p), NEW key, NEW value
  PROVE  LET q == SetFlag(p, key, value) IN
         /\ IsParser(q)
         /\ SameMarks(p, q) /\ SameWords(p, q) /\ q.roles = p.roles
         /\ q.pending = p.pending /\ q.bare = p.bare
         /\ q.error = IF key \in DOMAIN p.flags THEN "repeated" ELSE p.error
         /\ q.flags = IF key \in DOMAIN p.flags THEN p.flags
                      ELSE [k \in DOMAIN p.flags \cup {key} |->
                              IF k = key THEN value ELSE p.flags[k]]
BY DEF IsParser, SetFlag, SameMarks, SameWords

LEMMA SetBareFlagFields ==
  ASSUME NEW p, IsParser(p), NEW key
  PROVE  LET q == SetBareFlag(p, key) IN
         /\ IsParser(q)
         /\ SameMarks(p, q) /\ SameWords(p, q) /\ q.roles = p.roles
         /\ q.pending = p.pending /\ q.bare = p.bare \cup {key}
         /\ q.error = IF key \in DOMAIN p.flags THEN "repeated" ELSE p.error
         /\ q.flags = IF key \in DOMAIN p.flags THEN p.flags
                      ELSE [k \in DOMAIN p.flags \cup {key} |->
                              IF k = key THEN "true" ELSE p.flags[k]]
<1> DEFINE r == [p EXCEPT !.bare = p.bare \cup {key}]
<1>0. r = [flags |-> p.flags, bare |-> p.bare \cup {key}, positionals |-> p.positionals,
           indices |-> p.indices, help |-> p.help, only |-> p.only,
           pending |-> p.pending, error |-> p.error, roles |-> p.roles]
  BY Except
<1>2. SetBareFlag(p, key) = SetFlag(r, key, "true")
  BY DEF SetBareFlag
<1> HIDE DEF r
<1>1. /\ IsParser(r) /\ SameMarks(p, r) /\ SameWords(p, r) /\ r.roles = p.roles
      /\ r.pending = p.pending /\ r.error = p.error /\ r.flags = p.flags
      /\ r.bare = p.bare \cup {key}
  BY <1>0 DEF IsParser, SameMarks, SameWords
<1> QED BY <1>1, <1>2, SetFlagFields DEF SameMarks, SameWords

LEMMA FlushFields ==
  ASSUME NEW p, IsParser(p)
  PROVE  LET q == FlushPending(p) IN
         /\ IsParser(q)
         /\ SameMarks(p, q) /\ SameWords(p, q) /\ q.roles = p.roles
         /\ q.pending = None
         /\ p.pending = None => q = p
         /\ p.pending # None /\ p.pending \notin DOMAIN p.flags =>
              /\ q.error = p.error
              /\ q.bare = p.bare \cup {p.pending}
              /\ q.flags = [k \in DOMAIN p.flags \cup {p.pending} |->
                              IF k = p.pending THEN "true" ELSE p.flags[k]]
<1>1. CASE p.pending = None
  BY <1>1 DEF FlushPending, SameMarks, SameWords
<1>2. CASE p.pending # None
  <2> DEFINE r == [p EXCEPT !.pending = None]
  <2>1. /\ IsParser(r) /\ SameMarks(p, r) /\ SameWords(p, r) /\ r.roles = p.roles
        /\ r.pending = None /\ r.error = p.error /\ r.flags = p.flags /\ r.bare = p.bare
    BY DEF IsParser, SameMarks, SameWords
  <2> HIDE DEF r
  <2>2. FlushPending(p) = SetBareFlag(r, p.pending)
    BY <1>2 DEF FlushPending, r
  <2> DEFINE q == SetBareFlag(r, p.pending)
  <2>3. /\ IsParser(q) /\ SameMarks(r, q) /\ SameWords(r, q) /\ q.roles = r.roles
        /\ q.pending = r.pending /\ q.bare = r.bare \cup {p.pending}
        /\ q.error = IF p.pending \in DOMAIN r.flags THEN "repeated" ELSE r.error
        /\ q.flags = IF p.pending \in DOMAIN r.flags THEN r.flags
                     ELSE [k \in DOMAIN r.flags \cup {p.pending} |->
                             IF k = p.pending THEN "true" ELSE r.flags[k]]
    BY <2>1, SetBareFlagFields
  <2> HIDE DEF q
  <2> QED BY <1>2, <2>1, <2>2, <2>3 DEF SameMarks, SameWords, q
<1> QED BY <1>1, <1>2

LEMMA PushFields ==
  ASSUME NEW p, IsParser(p), NEW i \in DOMAIN p.roles, NEW text
  PROVE  LET q == PushPositional(p, i, text) IN
         /\ IsParser(q)
         /\ SameMarks(p, q) /\ q.pending = p.pending /\ q.error = p.error
         /\ q.bare = p.bare /\ q.flags = p.flags
         /\ q.positionals = Append(p.positionals, text)
         /\ q.indices = Append(p.indices, i)
         /\ q.roles = [p.roles EXCEPT ![i] = "positional"]
<1> DEFINE roles == [p.roles EXCEPT ![i] = "positional"]
           r == [p EXCEPT !.roles = roles]
           s == [r EXCEPT !.positionals = Append(p.positionals, text)]
           t == [s EXCEPT !.indices = Append(p.indices, i)]
<1>1. r = [flags |-> p.flags, bare |-> p.bare, positionals |-> p.positionals,
           indices |-> p.indices, help |-> p.help, only |-> p.only,
           pending |-> p.pending, error |-> p.error, roles |-> roles]
  <2> HIDE DEF roles
  <2> QED BY Except
<1>2. IsParser(r) /\ r.positionals = p.positionals
  <2>1. roles = [j \in DOMAIN roles |-> roles[j]]
    OBVIOUS
  <2> HIDE DEF roles, r
  <2> QED BY <1>1, <2>1 DEF IsParser
<1>3. s = [flags |-> p.flags, bare |-> p.bare, positionals |-> Append(p.positionals, text),
           indices |-> p.indices, help |-> p.help, only |-> p.only,
           pending |-> p.pending, error |-> p.error, roles |-> roles]
  <2>1. [r EXCEPT !.positionals = Append(p.positionals, text)] =
          [flags |-> r.flags, bare |-> r.bare, positionals |-> Append(p.positionals, text),
           indices |-> r.indices, help |-> r.help, only |-> r.only,
           pending |-> r.pending, error |-> r.error, roles |-> r.roles]
    <3> HIDE DEF r
    <3> QED BY <1>2, Except
  <2> HIDE DEF r, roles
  <2> QED BY <1>1, <2>1
<1>4. IsParser(s) /\ s.indices = p.indices
  <2>1. roles = [j \in DOMAIN roles |-> roles[j]]
    OBVIOUS
  <2> HIDE DEF roles, s, r
  <2> QED BY <1>3, <2>1 DEF IsParser
<1>5. t = [flags |-> p.flags, bare |-> p.bare, positionals |-> Append(p.positionals, text),
           indices |-> Append(p.indices, i), help |-> p.help, only |-> p.only,
           pending |-> p.pending, error |-> p.error, roles |-> roles]
  <2>1. [s EXCEPT !.indices = Append(p.indices, i)] =
          [flags |-> s.flags, bare |-> s.bare, positionals |-> s.positionals,
           indices |-> Append(p.indices, i), help |-> s.help, only |-> s.only,
           pending |-> s.pending, error |-> s.error, roles |-> s.roles]
    <3> HIDE DEF s, r
    <3> QED BY <1>4, Except
  <2> HIDE DEF s, r, roles
  <2> QED BY <1>3, <2>1
<1>6. PushPositional(p, i, text) = t
  <2> HIDE DEF roles
  <2> QED BY <1>2, <1>4 DEF PushPositional, roles
<1>7. roles = [j \in DOMAIN roles |-> roles[j]]
  OBVIOUS
<1> HIDE DEF roles, r, s, t
<1>8. IsParser(t)
  BY <1>5, <1>7 DEF IsParser
<1> QED BY <1>5, <1>6, <1>8 DEF SameMarks, roles

LEMMA FlaggedFields ==
  ASSUME NEW p, IsParser(p), NEW i \in DOMAIN p.roles
  PROVE  LET q == Flagged(p, i)
             f == FlushPending(p) IN
         /\ IsParser(q)
         /\ SameMarks(f, q) /\ SameWords(f, q)
         /\ q.pending = None /\ q.error = f.error
         /\ q.bare = f.bare /\ q.flags = f.flags
         /\ q.roles = [p.roles EXCEPT ![i] = "flag"]
<1> DEFINE f == FlushPending(p)
<1>1. IsParser(f) /\ f.roles = p.roles /\ f.pending = None
  BY FlushFields
<1> HIDE DEF f
<1>2. Flagged(p, i) = [f EXCEPT !.roles[i] = "flag"]
  BY DEF Flagged, f
<1>3. LET q == [f EXCEPT !.roles[i] = "flag"] IN
      /\ IsParser(q)
      /\ SameMarks(f, q) /\ SameWords(f, q)
      /\ q.pending = f.pending /\ q.error = f.error
      /\ q.bare = f.bare /\ q.flags = f.flags
      /\ q.roles = [f.roles EXCEPT ![i] = "flag"]
  BY <1>1 DEF IsParser, SameMarks, SameWords
<1> QED BY <1>1, <1>2, <1>3 DEF f
LEMMA OnlyFields ==
  ASSUME NEW p, IsParser(p), NEW x
  PROVE  LET q == [p EXCEPT !.only = x] IN
         /\ IsParser(q) /\ SameWords(p, q) /\ q.roles = p.roles
         /\ q.help = p.help /\ q.only = x /\ q.pending = p.pending /\ q.error = p.error
         /\ q.bare = p.bare /\ q.flags = p.flags
BY DEF IsParser, SameWords, SameMarks

LEMMA HelpFields ==
  ASSUME NEW p, IsParser(p), NEW x
  PROVE  LET q == [p EXCEPT !.help = x] IN
         /\ IsParser(q) /\ SameWords(p, q) /\ q.roles = p.roles
         /\ q.help = x /\ q.only = p.only /\ q.pending = p.pending /\ q.error = p.error
         /\ q.bare = p.bare /\ q.flags = p.flags
BY DEF IsParser, SameWords, SameMarks

LEMMA ErrorFields ==
  ASSUME NEW p, IsParser(p), NEW x
  PROVE  LET q == [p EXCEPT !.error = x] IN
         /\ IsParser(q) /\ SameWords(p, q) /\ q.roles = p.roles
         /\ SameMarks(p, q) /\ q.pending = p.pending /\ q.error = x
         /\ q.bare = p.bare /\ q.flags = p.flags
BY DEF IsParser, SameWords, SameMarks

LEMMA PendingFields ==
  ASSUME NEW p, IsParser(p), NEW x
  PROVE  LET q == [p EXCEPT !.pending = x] IN
         /\ IsParser(q) /\ SameWords(p, q) /\ q.roles = p.roles
         /\ SameMarks(p, q) /\ q.pending = x /\ q.error = p.error
         /\ q.bare = p.bare /\ q.flags = p.flags
BY DEF IsParser, SameWords, SameMarks

LEMMA RoleFields ==
  ASSUME NEW p, IsParser(p), NEW x, x = [i \in DOMAIN x |-> x[i]]
  PROVE  LET q == [p EXCEPT !.roles = x] IN
         /\ IsParser(q) /\ SameWords(p, q) /\ SameMarks(p, q)
         /\ q.pending = p.pending /\ q.error = p.error
         /\ q.bare = p.bare /\ q.flags = p.flags /\ q.roles = x
BY DEF IsParser, SameMarks, SameWords

RoleSet(p, q, i, role) == q.roles = [p.roles EXCEPT ![i] = role]

(* The value of a pending flag. *)
ValuePut(p, q, i, text) ==
  /\ IsParser(q) /\ SameMarks(p, q) /\ SameWords(p, q) /\ RoleSet(p, q, i, "value")
  /\ q.pending = None /\ q.bare = p.bare
  /\ p.pending \notin DOMAIN p.flags =>
       /\ q.error = p.error
       /\ DOMAIN q.flags = DOMAIN p.flags \cup {p.pending} /\ q.flags[p.pending] = text
       /\ \A flag \in DOMAIN p.flags : q.flags[flag] = p.flags[flag]

LEMMA ValueFields ==
  ASSUME NEW p, IsParser(p), NEW i \in DOMAIN p.roles, NEW text
  PROVE  ValuePut(p, SetFlag([p EXCEPT !.pending = None, !.roles[i] = "value"], p.pending, text),
                  i, text)
<1> DEFINE roles == [p.roles EXCEPT ![i] = "value"]
           r == [p EXCEPT !.pending = None]
           s == [r EXCEPT !.roles = roles]
<1>1. /\ IsParser(r) /\ SameWords(p, r) /\ r.roles = p.roles /\ SameMarks(p, r)
      /\ r.pending = None /\ r.error = p.error /\ r.bare = p.bare /\ r.flags = p.flags
  BY PendingFields
<1>2. [p EXCEPT !.pending = None, !.roles[i] = "value"] = s
  OBVIOUS
<1>3. /\ IsParser(s) /\ SameWords(r, s) /\ SameMarks(r, s)
      /\ s.pending = None /\ s.error = r.error /\ s.bare = r.bare /\ s.flags = r.flags
      /\ s.roles = roles
  <2>1. roles = [j \in DOMAIN roles |-> roles[j]]
    OBVIOUS
  <2> HIDE DEF r, roles
  <2> QED BY <1>1, <2>1, RoleFields
<1> HIDE DEF s, r, roles
<1> DEFINE q == SetFlag(s, p.pending, text)
<1>4. /\ IsParser(q) /\ SameMarks(s, q) /\ SameWords(s, q) /\ q.roles = s.roles
      /\ q.pending = s.pending /\ q.bare = s.bare
      /\ q.error = IF p.pending \in DOMAIN s.flags THEN "repeated" ELSE s.error
      /\ q.flags = IF p.pending \in DOMAIN s.flags THEN s.flags
                   ELSE [k \in DOMAIN s.flags \cup {p.pending} |->
                           IF k = p.pending THEN text ELSE s.flags[k]]
  BY <1>3, SetFlagFields
<1> HIDE DEF q
<1>5. /\ IsParser(q) /\ SameMarks(p, q) /\ SameWords(p, q)
      /\ q.roles = [p.roles EXCEPT ![i] = "value"]
      /\ q.pending = None /\ q.bare = p.bare
      /\ q.error = IF p.pending \in DOMAIN p.flags THEN "repeated" ELSE p.error
      /\ q.flags = IF p.pending \in DOMAIN p.flags THEN p.flags
                   ELSE [k \in DOMAIN p.flags \cup {p.pending} |->
                           IF k = p.pending THEN text ELSE p.flags[k]]
  BY <1>1, <1>3, <1>4 DEF SameMarks, SameWords, roles
<1>6. p.pending \notin DOMAIN p.flags =>
       /\ q.error = p.error
       /\ DOMAIN q.flags = DOMAIN p.flags \cup {p.pending} /\ q.flags[p.pending] = text
       /\ \A flag \in DOMAIN p.flags : q.flags[flag] = p.flags[flag]
  BY <1>5
<1>7. SetFlag([p EXCEPT !.pending = None, !.roles[i] = "value"], p.pending, text) = q
  BY <1>2 DEF q
<1>8. ValuePut(p, q, i, text)
  BY <1>5, <1>6 DEF ValuePut, RoleSet
<1> QED BY <1>7, <1>8
-----------------------------------------------------------------------------
(* What the parser has made of the first n tokens of args.                 *)

(* The tokens of them it reads as tokens: those before a --, and the --.   *)
Tokens(args, n) == {i \in 1..n : \A j \in 1..(i - 1) : Shape[args[j]].kind # "dashes"}

(* Nothing in them to refuse: no unusable name, and no flag given twice.   *)
Clean(args, n) ==
  /\ \A i \in Tokens(args, n) :
       /\ Shape[args[i]].kind # "invalid"
       /\ Shape[args[i]].kind = "bundle" => Shape[args[i]].first # Shape[args[i]].second
  /\ \A i, j \in Tokens(args, n) : i # j => Names(args[i]) \cap Names(args[j]) = {}

Pending(p) == IF p.pending = None THEN {} ELSE {p.pending}

(* Whether a -- and whether --help came.                                   *)
MarksRead(p, args, n) ==
  /\ p.only <=> \E i \in 1..n : Shape[args[i]].kind = "dashes"
  /\ p.help <=> \E i \in Tokens(args, n) : Shape[args[i]].kind = "help"

(* Every flag it holds is named by a token, and every one named is held.   *)
FlagsRead(p, args, n) ==
  /\ \A flag : flag \in DOMAIN p.flags \/ flag \in Pending(p)
               <=> \E i \in Tokens(args, n) : flag \in Names(args[i])
  /\ DOMAIN p.flags \cap Pending(p) = {}

(* Only the last token may still wait for its value.                       *)
LastPends(p, bools, args, n) ==
  p.pending # None =>
    /\ n \in Tokens(args, n) /\ Shape[args[n]].kind = "flag"
    /\ Shape[args[n]].name = p.pending /\ p.pending \notin bools

(* Each flag has the value its token carries, the token after it, or none. *)
ValuesRead(p, bools, args, n) ==
  /\ \A flag \in p.bare : flag \in DOMAIN p.flags /\ p.flags[flag] = "true"
  /\ \A i \in Tokens(args, n) :
       LET token == Shape[args[i]] IN
       /\ token.kind = "valued" =>
            token.name \notin p.bare /\ p.flags[token.name] = token.value
       /\ token.kind = "bundle" => token.first \in p.bare /\ token.second \in p.bare
       /\ token.kind = "flag" =>
            \/ token.name \in Pending(p)
            \/ token.name \in p.bare
            \/ /\ token.name \notin bools \cup p.bare
               /\ i < n /\ p.roles[i + 1] = "value" /\ p.flags[token.name] = args[i + 1]

(* What each token is taken for.                                           *)
RolesRead(p, args, n) ==
  \A i \in DOMAIN args :
    /\ i > n => p.roles[i] = "plain"
    /\ i <= n /\ i \notin Tokens(args, n) => p.roles[i] = "positional"
    /\ i \in Tokens(args, n) =>
         /\ Shape[args[i]].kind \in {"flag", "valued"} => p.roles[i] = "flag"
         /\ Shape[args[i]].kind = "word" => p.roles[i] \in {"positional", "value"}
         /\ Shape[args[i]].kind \in {"dashes", "help", "bundle"} => p.roles[i] = "plain"
    /\ p.roles[i] = "value" =>
         i - 1 \in Tokens(args, n) /\ Shape[args[i - 1]].kind = "flag"
           /\ Shape[args[i - 1]].name \notin p.bare \cup Pending(p)

(* The positionals are the tokens taken for one, in their order.           *)
WordsRead(p, args, n) ==
  /\ p.positionals \in Seq(DOMAIN Shape) /\ p.indices \in Seq(Nat)
  /\ Len(p.positionals) = Len(p.indices)
  /\ \A k \in 1..Len(p.indices) :
       /\ p.indices[k] \in 1..n /\ p.roles[p.indices[k]] = "positional"
       /\ p.positionals[k] = args[p.indices[k]]
  /\ \A k, l \in 1..Len(p.indices) : k < l => p.indices[k] < p.indices[l]
  /\ \A i \in 1..n : p.roles[i] = "positional" => \E k \in 1..Len(p.indices) : p.indices[k] = i

(* The inductive invariant of the parser: it has refused the tokens read   *)
(* that are to be refused, and holds what the others say.                  *)
HasRead(p, bools, args, n) ==
  /\ MarksRead(p, args, n) /\ FlagsRead(p, args, n) /\ LastPends(p, bools, args, n)
  /\ ValuesRead(p, bools, args, n) /\ RolesRead(p, args, n) /\ WordsRead(p, args, n)

Reading(p, bools, args, n) ==
  /\ IsParser(p) /\ DOMAIN p.roles = DOMAIN args
  /\ p.error = None <=> Clean(args, n)
  /\ p.error = None => HasRead(p, bools, args, n)

LEMMA KindsOfNames ==
  ASSUME NEW text
  PROVE  /\ Shape[text].kind \in {"flag", "valued"} => Names(text) = {Shape[text].name}
         /\ Shape[text].kind = "bundle" => Names(text) = {Shape[text].first, Shape[text].second}
         /\ Shape[text].kind \notin {"flag", "valued", "bundle"} => Names(text) = {}
BY DEF Names

(* One more token is read as a token unless a -- came before it.           *)
LEMMA TokensGrow ==
  ASSUME NEW args, NEW n \in Nat
  PROVE  /\ Tokens(args, n) \subseteq 1..n
         /\ Tokens(args, n) \subseteq Tokens(args, n + 1)
         /\ Tokens(args, n + 1) =
              IF \E i \in 1..n : Shape[args[i]].kind = "dashes" THEN Tokens(args, n)
              ELSE Tokens(args, n) \cup {n + 1}
BY DEF Tokens

LEMMA DirtStays ==
  ASSUME NEW args, NEW n \in Nat, ~Clean(args, n)
  PROVE  ~Clean(args, n + 1)
BY TokensGrow DEF Clean

LEMMA CleanGrows ==
  ASSUME NEW args, NEW n \in Nat, NEW p, Clean(args, n), FlagsRead(p, args, n), p.pending = None,
         Tokens(args, n + 1) = Tokens(args, n) \cup {n + 1}
  PROVE  Clean(args, n + 1) <=>
           /\ Shape[args[n + 1]].kind # "invalid"
           /\ Shape[args[n + 1]].kind = "bundle" =>
                Shape[args[n + 1]].first # Shape[args[n + 1]].second
           /\ Names(args[n + 1]) \cap DOMAIN p.flags = {}
<1>1. n + 1 \notin Tokens(args, n)
  BY DEF Tokens
<1>2. \A flag : flag \in DOMAIN p.flags <=> \E i \in Tokens(args, n) : flag \in Names(args[i])
  BY DEF FlagsRead, Pending
<1>3. Names(args[n + 1]) \cap DOMAIN p.flags = {} <=>
        \A i \in Tokens(args, n) : Names(args[i]) \cap Names(args[n + 1]) = {}
  BY <1>2
<1> QED BY <1>1, <1>3 DEF Clean

LEMMA StartRead ==
  ASSUME NEW bools, NEW args \in Seq(DOMAIN Shape)
  PROVE  Reading(NewParser(args), bools, args, 0)
<1> DEFINE p == NewParser(args)
<1>1. Tokens(args, 0) = {}
  BY DEF Tokens
<1>2. IsParser(p) /\ DOMAIN p.roles = DOMAIN args /\ p.error = None
  BY DEF NewParser, IsParser, NoFlags
<1>3. Clean(args, 0)
  BY <1>1 DEF Clean
<1>4. MarksRead(p, args, 0) /\ FlagsRead(p, args, 0) /\ LastPends(p, bools, args, 0)
  BY <1>1 DEF NewParser, NoFlags, MarksRead, FlagsRead, LastPends, Pending
<1>5. ValuesRead(p, bools, args, 0)
  BY <1>1 DEF NewParser, ValuesRead
<1>6. RolesRead(p, args, 0)
  BY <1>1 DEF NewParser, RolesRead
<1>7. WordsRead(p, args, 0)
  BY DEF NewParser, WordsRead
<1> QED BY <1>2, <1>3, <1>4, <1>5, <1>6, <1>7 DEF Reading, HasRead

(* A flag that waits for its value and gets none is bare.                  *)
LEMMA FlushRead ==
  ASSUME NEW bools, NEW args \in Seq(DOMAIN Shape), NEW n \in 0..Len(args),
         NEW p, Reading(p, bools, args, n), p.error = None
  PROVE  LET q == FlushPending(p) IN
         /\ Reading(q, bools, args, n) /\ q.pending = None /\ q.error = None
         /\ p.bare \subseteq q.bare
<1> DEFINE q == FlushPending(p)
<1>1. CASE p.pending = None
  BY <1>1 DEF FlushPending
<1>2. CASE p.pending # None
  <2>1. HasRead(p, bools, args, n) /\ IsParser(p) /\ Clean(args, n) /\ DOMAIN p.roles = DOMAIN args
    BY DEF Reading
  <2>2. p.pending \notin DOMAIN p.flags
    BY <1>2, <2>1 DEF HasRead, FlagsRead, Pending
  <2>3. /\ IsParser(q) /\ SameMarks(p, q) /\ SameWords(p, q) /\ q.roles = p.roles
        /\ q.pending = None /\ q.error = p.error /\ q.bare = p.bare \cup {p.pending}
        /\ q.flags = [k \in DOMAIN p.flags \cup {p.pending} |->
                        IF k = p.pending THEN "true" ELSE p.flags[k]]
    BY <1>2, <2>1, <2>2, FlushFields
  <2> HIDE DEF q
  <2>4. MarksRead(q, args, n) /\ LastPends(q, bools, args, n)
    BY <2>1, <2>3 DEF HasRead, MarksRead, LastPends, SameMarks
  <2>5. FlagsRead(q, args, n)
    BY <1>2, <2>1, <2>3 DEF HasRead, FlagsRead, Pending
  <2>6. ValuesRead(q, bools, args, n)
    <3>1. \A flag \in q.bare : flag \in DOMAIN q.flags /\ q.flags[flag] = "true"
      BY <2>1, <2>3 DEF HasRead, ValuesRead
    <3>2. ASSUME NEW i \in Tokens(args, n), Shape[args[i]].kind \in {"valued", "flag"},
                 Shape[args[i]].name # p.pending
          PROVE  Shape[args[i]].name \in DOMAIN p.flags
                 /\ q.flags[Shape[args[i]].name] = p.flags[Shape[args[i]].name]
      BY <2>1, <2>3, <3>2, KindsOfNames DEF HasRead, FlagsRead, Pending
    <3>3. ASSUME NEW i \in Tokens(args, n), Shape[args[i]].kind = "valued"
          PROVE  Shape[args[i]].name # p.pending
      <4>1. n \in Tokens(args, n) /\ Shape[args[n]].kind = "flag" /\ Shape[args[n]].name = p.pending
        BY <1>2, <2>1 DEF HasRead, LastPends
      <4>2. i # n
        BY <3>3, <4>1
      <4> QED BY <2>1, <3>3, <4>1, <4>2, KindsOfNames DEF Clean
    <3>4. q.bare = p.bare \cup {p.pending} /\ Pending(p) = {p.pending} /\ q.roles = p.roles
      BY <1>2, <2>3 DEF Pending
    <3>5. ValuesRead(p, bools, args, n)
      BY <2>1 DEF HasRead
    <3>6. ASSUME NEW i \in Tokens(args, n), Shape[args[i]].kind = "valued"
          PROVE  /\ Shape[args[i]].name \notin q.bare
                 /\ q.flags[Shape[args[i]].name] = Shape[args[i]].value
      BY <3>2, <3>3, <3>4, <3>5, <3>6 DEF ValuesRead
    <3>7. ASSUME NEW i \in Tokens(args, n), Shape[args[i]].kind = "bundle"
          PROVE  Shape[args[i]].first \in q.bare /\ Shape[args[i]].second \in q.bare
      BY <3>4, <3>5, <3>7 DEF ValuesRead
    <3>8. ASSUME NEW i \in Tokens(args, n), Shape[args[i]].kind = "flag"
          PROVE  \/ Shape[args[i]].name \in q.bare
                 \/ /\ Shape[args[i]].name \notin bools \cup q.bare
                    /\ i < n /\ q.roles[i + 1] = "value" /\ q.flags[Shape[args[i]].name] = args[i + 1]
      BY <3>2, <3>4, <3>5, <3>8 DEF ValuesRead
    <3> QED BY <3>1, <3>6, <3>7, <3>8 DEF ValuesRead
  <2>7. RolesRead(q, args, n)
    <3>1. q.bare = p.bare \cup Pending(p) /\ Pending(q) = {} /\ q.roles = p.roles
      BY <1>2, <2>3 DEF Pending
    <3>2. RolesRead(p, args, n)
      BY <2>1 DEF HasRead
    <3> QED BY <3>1, <3>2 DEF RolesRead
  <2>8. WordsRead(q, args, n)
    <3>1. q.positionals = p.positionals /\ q.indices = p.indices /\ q.roles = p.roles
      BY <2>3 DEF SameWords
    <3>2. WordsRead(p, args, n)
      BY <2>1 DEF HasRead
    <3> QED BY <3>1, <3>2 DEF WordsRead
  <2> QED BY <2>1, <2>3, <2>4, <2>5, <2>6, <2>7, <2>8 DEF Reading, HasRead, q
<1> QED BY <1>1, <1>2

(* q keeps what p holds, and what it adds is new.                          *)
Extends(p, q, n) ==
  /\ \A flag \in DOMAIN p.flags : flag \in DOMAIN q.flags /\ q.flags[flag] = p.flags[flag]
  /\ \A flag \in p.bare : flag \in q.bare
  /\ \A flag \in q.bare :
       \/ flag \in p.bare
       \/ flag \notin DOMAIN p.flags /\ flag \in DOMAIN q.flags /\ q.flags[flag] = "true"
  /\ Pending(q) \cap DOMAIN p.flags = {}
  /\ \A i \in 1..n : q.roles[i] = p.roles[i]

LEMMA NamedFlagIsHeld ==
  ASSUME NEW args, NEW n \in Nat, NEW p, FlagsRead(p, args, n), NEW i \in Tokens(args, n),
         Shape[args[i]].kind \in {"flag", "valued"}
  PROVE  Shape[args[i]].name \in DOMAIN p.flags \/ Shape[args[i]].name \in Pending(p)
BY KindsOfNames DEF FlagsRead

(* No flag waits for its value.                                            *)
ValuesHeld(p, bools, args, n) ==
  /\ \A flag \in p.bare : flag \in DOMAIN p.flags /\ p.flags[flag] = "true"
  /\ \A i \in Tokens(args, n) :
       LET token == Shape[args[i]] IN
       /\ token.kind = "valued" =>
            token.name \notin p.bare /\ p.flags[token.name] = token.value
       /\ token.kind = "bundle" => token.first \in p.bare /\ token.second \in p.bare
       /\ token.kind = "flag" =>
            \/ token.name \in p.bare
            \/ /\ token.name \notin bools \cup p.bare
               /\ i < n /\ p.roles[i + 1] = "value" /\ p.flags[token.name] = args[i + 1]

(* The old tokens keep their values.                                       *)
LEMMA ValuesKept ==
  ASSUME NEW bools, NEW args, NEW n \in Nat, NEW p, NEW q,
         Extends(p, q, n), p.pending = None,
         FlagsRead(p, args, n), ValuesRead(p, bools, args, n)
  PROVE  ValuesHeld(q, bools, args, n)
<1>1. \A flag \in q.bare : flag \in DOMAIN q.flags /\ q.flags[flag] = "true"
  BY DEF Extends, ValuesRead
<1>2. ASSUME NEW i \in Tokens(args, n), Shape[args[i]].kind \in {"flag", "valued"}
      PROVE  Shape[args[i]].name \in DOMAIN p.flags
  BY <1>2, NamedFlagIsHeld DEF Pending
<1>3. ASSUME NEW i \in Tokens(args, n), Shape[args[i]].kind = "valued"
      PROVE  Shape[args[i]].name \notin q.bare
             /\ q.flags[Shape[args[i]].name] = Shape[args[i]].value
  BY <1>2, <1>3 DEF Extends, ValuesRead
<1>4. ASSUME NEW i \in Tokens(args, n), Shape[args[i]].kind = "bundle"
      PROVE  Shape[args[i]].first \in q.bare /\ Shape[args[i]].second \in q.bare
  BY <1>4 DEF Extends, ValuesRead
<1>5. ASSUME NEW i \in Tokens(args, n), Shape[args[i]].kind = "flag"
      PROVE  LET token == Shape[args[i]] IN
             \/ token.name \in q.bare
             \/ /\ token.name \notin bools \cup q.bare
                /\ i < n /\ q.roles[i + 1] = "value"
                /\ q.flags[token.name] = args[i + 1]
  <2> DEFINE name == Shape[args[i]].name
  <2>1. i \in 1..n
    BY DEF Tokens
  <2>2. \/ name \in p.bare
        \/ /\ name \notin bools \cup p.bare
           /\ i < n /\ p.roles[i + 1] = "value" /\ p.flags[name] = args[i + 1]
    BY <1>5 DEF ValuesRead, Pending
  <2>3. name \in DOMAIN p.flags
    BY <1>2, <1>5
  <2> QED BY <2>1, <2>2, <2>3 DEF Extends
<1> QED BY <1>1, <1>3, <1>4, <1>5 DEF ValuesHeld

LEMMA RolesKept ==
  ASSUME NEW args \in Seq(DOMAIN Shape), NEW n \in 0..(Len(args) - 1), NEW p, NEW q, NEW role,
         Extends(p, q, n), p.pending = None, IsParser(p), DOMAIN p.roles = DOMAIN args,
         FlagsRead(p, args, n), RolesRead(p, args, n),
         q.roles = [p.roles EXCEPT ![n + 1] = role],
         n + 1 \notin Tokens(args, n + 1) => role = "positional",
         n + 1 \in Tokens(args, n + 1) =>
           /\ Shape[args[n + 1]].kind \in {"flag", "valued"} => role = "flag"
           /\ Shape[args[n + 1]].kind = "word" => role = "positional"
           /\ Shape[args[n + 1]].kind \in {"dashes", "help", "bundle"} => role = "plain",
         role \in {"flag", "positional", "plain"}
  PROVE  RolesRead(q, args, n + 1)
<1>1. \A i \in 1..n : i \in Tokens(args, n + 1) <=> i \in Tokens(args, n)
  BY DEF Tokens
<1>2. ASSUME NEW i \in 1..n, q.roles[i] = "value"
      PROVE  /\ i - 1 \in Tokens(args, n + 1) /\ Shape[args[i - 1]].kind = "flag"
             /\ Shape[args[i - 1]].name \notin q.bare \cup Pending(q)
  <2>1. p.roles[i] = "value" /\ i \in DOMAIN args
    BY <1>2 DEF Extends
  <2>2. /\ i - 1 \in Tokens(args, n) /\ Shape[args[i - 1]].kind = "flag"
        /\ Shape[args[i - 1]].name \notin p.bare
    BY <2>1 DEF RolesRead
  <2>3. Shape[args[i - 1]].name \in DOMAIN p.flags
    <3>1. n \in Nat /\ Pending(p) = {}
      BY DEF Pending
    <3> DEFINE j == i - 1
    <3>2. j \in Tokens(args, n) /\ Shape[args[j]].kind = "flag"
      BY <2>2
    <3> HIDE DEF j
    <3>3. Shape[args[j]].name \in DOMAIN p.flags \/ Shape[args[j]].name \in Pending(p)
      BY <3>1, <3>2, NamedFlagIsHeld
    <3> QED BY <3>1, <3>3 DEF j
  <2>4. i - 1 \in Tokens(args, n + 1)
    <3>1. n \in Nat
      OBVIOUS
    <3>2. Tokens(args, n) \subseteq Tokens(args, n + 1)
      BY <3>1, TokensGrow
    <3> QED BY <2>2, <3>2
  <2> QED BY <2>2, <2>3, <2>4 DEF Extends
<1>3. q.roles[n + 1] = role /\ \A i \in DOMAIN args : i # n + 1 => q.roles[i] = p.roles[i]
  BY DEF IsParser
<1>4. ASSUME NEW i \in DOMAIN args, i > n + 1
      PROVE  q.roles[i] = "plain" /\ i \notin Tokens(args, n + 1)
  BY <1>3, <1>4 DEF RolesRead, Tokens
<1>5. ASSUME NEW i \in 1..n
      PROVE  /\ i \notin Tokens(args, n + 1) => q.roles[i] = "positional"
             /\ i \in Tokens(args, n + 1) =>
                  /\ Shape[args[i]].kind \in {"flag", "valued"} => q.roles[i] = "flag"
                  /\ Shape[args[i]].kind = "word" => q.roles[i] \in {"positional", "value"}
                  /\ Shape[args[i]].kind \in {"dashes", "help", "bundle"} => q.roles[i] = "plain"
  BY <1>1, <1>3, <1>5 DEF RolesRead
<1>6. \A i \in DOMAIN args : i \in 1..n \/ i = n + 1 \/ i > n + 1
  OBVIOUS
<1> HIDE DEF RolesRead
<1> QED BY <1>2, <1>3, <1>4, <1>5, <1>6 DEF RolesRead

(* A positional more, or none.                                             *)
LEMMA WordsKept ==
  ASSUME NEW args, NEW n \in Nat, NEW p, NEW q,
         WordsRead(p, args, n), SameWords(p, q),
         \A i \in 1..n : q.roles[i] = p.roles[i], q.roles[n + 1] # "positional"
  PROVE  WordsRead(q, args, n + 1)
<1>1. \A i \in 1..(n + 1) : i \in 1..n \/ i = n + 1
  OBVIOUS
<1>2. \A k \in 1..Len(p.indices) : q.roles[p.indices[k]] = "positional"
  BY DEF WordsRead
<1>3. q.positionals = p.positionals /\ q.indices = p.indices
  BY DEF SameWords
<1>4. ASSUME NEW k \in 1..Len(p.indices)
      PROVE  p.indices[k] \in 1..(n + 1) /\ p.positionals[k] = args[p.indices[k]]
  BY DEF WordsRead
<1>5. ASSUME NEW i \in 1..(n + 1), q.roles[i] = "positional"
      PROVE  \E k \in 1..Len(p.indices) : p.indices[k] = i
  BY <1>1, <1>5 DEF WordsRead
<1>6. /\ p.positionals \in Seq(DOMAIN Shape) /\ p.indices \in Seq(Nat)
      /\ Len(p.positionals) = Len(p.indices)
      /\ \A k, l \in 1..Len(p.indices) : k < l => p.indices[k] < p.indices[l]
  BY DEF WordsRead
<1> QED BY <1>2, <1>3, <1>4, <1>5, <1>6 DEF WordsRead

LEMMA WordPushed ==
  ASSUME NEW args, NEW n \in Nat, NEW p, NEW q,
         WordsRead(p, args, n), args[n + 1] \in DOMAIN Shape,
         q.positionals = Append(p.positionals, args[n + 1]), q.indices = Append(p.indices, n + 1),
         \A i \in 1..n : q.roles[i] = p.roles[i], q.roles[n + 1] = "positional"
  PROVE  WordsRead(q, args, n + 1)
<1> DEFINE m == Len(p.indices)
<1>1. /\ m \in Nat /\ Len(q.indices) = m + 1 /\ Len(q.positionals) = m + 1
      /\ q.positionals \in Seq(DOMAIN Shape) /\ q.indices \in Seq(Nat)
      /\ q.indices[m + 1] = n + 1 /\ q.positionals[m + 1] = args[n + 1]
      /\ \A k \in 1..m : q.indices[k] = p.indices[k] /\ q.positionals[k] = p.positionals[k]
  BY DEF WordsRead
<1>2. \A k \in 1..(m + 1) : k \in 1..m \/ k = m + 1
  BY <1>1
<1>3. \A k \in 1..m : q.indices[k] \in 1..n
  BY <1>1 DEF WordsRead
<1>4. \A k \in 1..Len(q.indices) :
        /\ q.indices[k] \in 1..(n + 1) /\ q.roles[q.indices[k]] = "positional"
        /\ q.positionals[k] = args[q.indices[k]]
  <2>1. ASSUME NEW k \in 1..m
        PROVE  /\ q.indices[k] \in 1..n /\ q.roles[q.indices[k]] = "positional"
               /\ q.positionals[k] = args[q.indices[k]]
    <3>1. /\ p.indices[k] \in 1..n /\ p.roles[p.indices[k]] = "positional"
          /\ p.positionals[k] = args[p.indices[k]]
      BY DEF WordsRead
    <3>2. q.indices[k] = p.indices[k] /\ q.positionals[k] = p.positionals[k]
      BY <1>1
    <3> QED BY <3>1, <3>2
  <2> QED BY <1>1, <1>2, <2>1
<1>5. \A k, l \in 1..Len(q.indices) : k < l => q.indices[k] < q.indices[l]
  BY <1>1, <1>2, <1>3 DEF WordsRead
<1>6. ASSUME NEW i \in 1..(n + 1), q.roles[i] = "positional"
      PROVE  \E k \in 1..Len(q.indices) : q.indices[k] = i
  <2>1. CASE i = n + 1
    BY <1>1, <2>1
  <2>2. CASE i \in 1..n
    BY <1>1, <1>6, <2>2 DEF WordsRead
  <2> QED BY <2>1, <2>2
<1> QED BY <1>1, <1>4, <1>5, <1>6 DEF WordsRead
-----------------------------------------------------------------------------
(* One token more.                                                         *)

Flushed(p, bools, args, n) ==
  Reading(p, bools, args, n) /\ p.error = None /\ p.pending = None

LEMMA FlushedIs ==
  ASSUME NEW p, NEW bools, NEW args, NEW n, Flushed(p, bools, args, n)
  PROVE  /\ IsParser(p) /\ DOMAIN p.roles = DOMAIN args /\ Clean(args, n)
         /\ p.error = None /\ p.pending = None
         /\ MarksRead(p, args, n) /\ FlagsRead(p, args, n) /\ ValuesRead(p, bools, args, n)
         /\ RolesRead(p, args, n) /\ WordsRead(p, args, n)
BY DEF Flushed, Reading, HasRead

(* What the parser reads once it has read a --, or before.                 *)
LEMMA OnlyTokens ==
  ASSUME NEW args, NEW n \in Nat, NEW p, MarksRead(p, args, n)
  PROVE  /\ p.only => Tokens(args, n + 1) = Tokens(args, n) /\ n + 1 \notin Tokens(args, n + 1)
         /\ ~p.only => Tokens(args, n + 1) = Tokens(args, n) \cup {n + 1}
BY TokensGrow DEF MarksRead, Tokens

(* A token that names no flag.                                             *)
LEMMA FlaglessRead ==
  ASSUME NEW bools, NEW args \in Seq(DOMAIN Shape), NEW n \in 0..(Len(args) - 1),
         NEW p, Flushed(p, bools, args, n), NEW q, IsParser(q), NEW role,
         q.flags = p.flags, q.bare = p.bare, q.pending = None, q.error = None,
         q.roles = [p.roles EXCEPT ![n + 1] = role],
         p.only \/ Shape[args[n + 1]].kind \in {"word", "dashes", "help"},
         p.only \/ Shape[args[n + 1]].kind = "word" => role = "positional",
         ~p.only /\ Shape[args[n + 1]].kind # "word" => role = "plain",
         MarksRead(q, args, n + 1), WordsRead(q, args, n + 1)
  PROVE  Reading(q, bools, args, n + 1)
<1>1. /\ IsParser(p) /\ DOMAIN p.roles = DOMAIN args /\ Clean(args, n) /\ p.pending = None
      /\ MarksRead(p, args, n) /\ FlagsRead(p, args, n) /\ ValuesRead(p, bools, args, n)
      /\ RolesRead(p, args, n)
  BY FlushedIs
<1>2. n \in Nat
  OBVIOUS
<1>3. \/ p.only /\ Tokens(args, n + 1) = Tokens(args, n) /\ n + 1 \notin Tokens(args, n + 1)
      \/ ~p.only /\ Tokens(args, n + 1) = Tokens(args, n) \cup {n + 1}
  BY <1>1, <1>2, OnlyTokens DEF MarksRead
<1>4. n + 1 \in Tokens(args, n + 1) =>
        ~p.only /\ Names(args[n + 1]) = {} /\ Shape[args[n + 1]].kind \in {"word", "dashes", "help"}
  BY <1>3, KindsOfNames
<1>5. Clean(args, n + 1)
  <2>1. CASE p.only
    BY <1>1, <1>3, <2>1 DEF Clean
  <2>2. CASE ~p.only
    <3>1. Tokens(args, n + 1) = Tokens(args, n) \cup {n + 1} /\ n + 1 \in Tokens(args, n + 1)
      BY <1>3, <2>2
    <3> QED BY <1>1, <1>2, <1>4, <3>1, CleanGrows
  <2> QED BY <2>1, <2>2
<1>6. FlagsRead(q, args, n + 1)
  <2>1. Tokens(args, n) \subseteq Tokens(args, n + 1)
    BY <1>3
  <2>2. \A i \in Tokens(args, n + 1) : i \in Tokens(args, n) \/ Names(args[i]) = {}
    BY <1>3, <1>4
  <2> QED BY <1>1, <2>1, <2>2 DEF FlagsRead, Pending
<1>7. \A i \in 1..n : q.roles[i] = p.roles[i]
  BY <1>1 DEF IsParser
<1>8. Extends(p, q, n)
  <2>1. Pending(q) = {}
    BY DEF Pending
  <2>2. q.flags = p.flags /\ q.bare = p.bare
    OBVIOUS
  <2> QED BY <1>7, <2>1, <2>2 DEF Extends
<1>9. ValuesRead(q, bools, args, n + 1)
  <2>1. \A i \in Tokens(args, n + 1) :
          i \in Tokens(args, n) \/ Shape[args[i]].kind \in {"word", "dashes", "help"}
    BY <1>3, <1>4
  <2>2. \A i \in Tokens(args, n + 1) : i < n => i < n + 1
    BY DEF Tokens
  <2>3. ValuesHeld(q, bools, args, n)
    BY <1>1, <1>2, <1>8, ValuesKept
  <2> QED BY <2>1, <2>2, <2>3 DEF ValuesHeld, ValuesRead
<1>10. RolesRead(q, args, n + 1)
  <2>1. role \in {"flag", "positional", "plain"}
    OBVIOUS
  <2>2. n + 1 \notin Tokens(args, n + 1) => role = "positional"
    BY <1>3
  <2>3. n + 1 \in Tokens(args, n + 1) =>
           /\ Shape[args[n + 1]].kind \in {"flag", "valued"} => role = "flag"
           /\ Shape[args[n + 1]].kind = "word" => role = "positional"
           /\ Shape[args[n + 1]].kind \in {"dashes", "help", "bundle"} => role = "plain"
    BY <1>4
  <2> QED BY <1>1, <1>8, <2>1, <2>2, <2>3, RolesKept
<1>11. LastPends(q, bools, args, n + 1) /\ DOMAIN q.roles = DOMAIN args
  BY <1>1 DEF LastPends
<1> QED BY <1>5, <1>6, <1>9, <1>10, <1>11 DEF Reading, HasRead

LEMMA PushRead ==
  ASSUME NEW bools, NEW args \in Seq(DOMAIN Shape), NEW n \in 0..(Len(args) - 1),
         NEW p, Flushed(p, bools, args, n),
         p.only \/ Shape[args[n + 1]].kind = "word"
  PROVE  Reading(PushPositional(p, n + 1, args[n + 1]), bools, args, n + 1)
<1> DEFINE q == PushPositional(p, n + 1, args[n + 1])
<1>1. /\ IsParser(p) /\ DOMAIN p.roles = DOMAIN args /\ p.error = None /\ p.pending = None
      /\ MarksRead(p, args, n) /\ WordsRead(p, args, n)
  BY FlushedIs
<1>2. n + 1 \in DOMAIN args /\ args[n + 1] \in DOMAIN Shape /\ n \in Nat
  OBVIOUS
<1>3. /\ IsParser(q) /\ SameMarks(p, q) /\ q.pending = p.pending /\ q.error = p.error
      /\ q.bare = p.bare /\ q.flags = p.flags
      /\ q.positionals = Append(p.positionals, args[n + 1])
      /\ q.indices = Append(p.indices, n + 1)
      /\ q.roles = [p.roles EXCEPT ![n + 1] = "positional"]
  BY <1>1, <1>2, PushFields
<1> HIDE DEF q
<1>4. q.roles[n + 1] = "positional" /\ \A i \in 1..n : q.roles[i] = p.roles[i]
  BY <1>1, <1>2, <1>3 DEF IsParser
<1>5. WordsRead(q, args, n + 1)
  BY <1>1, <1>2, <1>3, <1>4, WordPushed
<1>6. MarksRead(q, args, n + 1)
  <2>1. \/ p.only /\ Tokens(args, n + 1) = Tokens(args, n) /\ n + 1 \notin Tokens(args, n + 1)
        \/ ~p.only /\ Tokens(args, n + 1) = Tokens(args, n) \cup {n + 1}
    BY <1>1, <1>2, OnlyTokens DEF MarksRead
  <2>2. \A i \in 1..(n + 1) : i \in 1..n \/ i = n + 1
    OBVIOUS
  <2>3. 1..n \subseteq 1..(n + 1)
    OBVIOUS
  <2>4. q.only = p.only /\ q.help = p.help
    BY <1>3 DEF SameMarks
  <2>5. q.only <=> \E i \in 1..(n + 1) : Shape[args[i]].kind = "dashes"
    BY <1>1, <2>2, <2>3, <2>4 DEF MarksRead
  <2>6. q.help <=> \E i \in Tokens(args, n + 1) : Shape[args[i]].kind = "help"
    BY <1>1, <2>1, <2>4 DEF MarksRead
  <2> QED BY <2>5, <2>6 DEF MarksRead
<1>7. \E role : /\ role = "positional" /\ q.roles = [p.roles EXCEPT ![n + 1] = role]
  BY <1>3
<1> QED BY <1>1, <1>3, <1>5, <1>6, <1>7, FlaglessRead DEF q

LEMMA PlainRole ==
  ASSUME NEW args \in Seq(DOMAIN Shape), NEW n \in 0..(Len(args) - 1),
         NEW p, IsParser(p), DOMAIN p.roles = DOMAIN args, RolesRead(p, args, n)
  PROVE  p.roles = [p.roles EXCEPT ![n + 1] = "plain"]
<1>1. p.roles[n + 1] = "plain"
  BY DEF RolesRead
<1> QED BY <1>1 DEF IsParser

(* -- and --help. *)
Dashed(p) == [p EXCEPT !.only = TRUE]

Helped(p) == [p EXCEPT !.help = TRUE]

LEMMA MarkRead ==
  ASSUME NEW bools, NEW args \in Seq(DOMAIN Shape), NEW n \in 0..(Len(args) - 1),
         NEW p, Flushed(p, bools, args, n), ~p.only
  PROVE  /\ Shape[args[n + 1]].kind = "dashes" =>
              Reading(Dashed(p), bools, args, n + 1)
         /\ Shape[args[n + 1]].kind = "help" =>
              Reading(Helped(p), bools, args, n + 1)
<1>1. /\ IsParser(p) /\ DOMAIN p.roles = DOMAIN args /\ p.error = None /\ p.pending = None
      /\ MarksRead(p, args, n) /\ WordsRead(p, args, n) /\ RolesRead(p, args, n)
  BY FlushedIs
<1>2. n \in Nat
  OBVIOUS
<1>3. p.roles = [p.roles EXCEPT ![n + 1] = "plain"] /\ p.roles[n + 1] = "plain"
  BY <1>1, PlainRole DEF RolesRead
<1>4. Tokens(args, n + 1) = Tokens(args, n) \cup {n + 1}
  BY <1>1, <1>2, OnlyTokens
<1>5. 1..(n + 1) = 1..n \cup {n + 1}
  OBVIOUS
<1>6. ASSUME NEW q, IsParser(q), SameWords(p, q), q.roles = p.roles, q.flags = p.flags,
             q.bare = p.bare, q.pending = None, q.error = None,
             Shape[args[n + 1]].kind \in {"dashes", "help"}, MarksRead(q, args, n + 1)
      PROVE  Reading(q, bools, args, n + 1)
  <2>1. WordsRead(q, args, n + 1)
    BY <1>1, <1>2, <1>3, <1>6, WordsKept
  <2>2. \E role : role = "plain" /\ q.roles = [p.roles EXCEPT ![n + 1] = role]
    BY <1>3, <1>6
  <2> QED BY <1>6, <2>1, <2>2, FlaglessRead
<1>7. CASE Shape[args[n + 1]].kind = "dashes"
  <2> DEFINE q == Dashed(p)
  <2>1. /\ IsParser(q) /\ SameWords(p, q) /\ q.roles = p.roles
        /\ q.help = p.help /\ q.only = TRUE /\ q.pending = p.pending /\ q.error = p.error
        /\ q.bare = p.bare /\ q.flags = p.flags
    BY <1>1, OnlyFields DEF Dashed
  <2> HIDE DEF q
  <2>2. MarksRead(q, args, n + 1)
    BY <1>1, <1>4, <1>5, <1>7, <2>1 DEF MarksRead
  <2>3. Reading(q, bools, args, n + 1)
    BY <1>1, <1>6, <1>7, <2>1, <2>2
  <2> QED BY <1>7, <2>3 DEF q
<1>8. CASE Shape[args[n + 1]].kind = "help"
  <2> DEFINE q == Helped(p)
  <2>1. /\ IsParser(q) /\ SameWords(p, q) /\ q.roles = p.roles
        /\ q.help = TRUE /\ q.only = p.only /\ q.pending = p.pending /\ q.error = p.error
        /\ q.bare = p.bare /\ q.flags = p.flags
    BY <1>1, HelpFields DEF Helped
  <2> HIDE DEF q
  <2>2. MarksRead(q, args, n + 1)
    BY <1>1, <1>4, <1>5, <1>8, <2>1 DEF MarksRead
  <2>3. Reading(q, bools, args, n + 1)
    BY <1>1, <1>6, <1>8, <2>1, <2>2
  <2> QED BY <1>8, <2>3 DEF q
<1> QED BY <1>7, <1>8

(* A token that gives one flag, in whatever form: q holds it as value, or  *)
(* waits for its value.                                                    *)
LEMMA FlagTokenRead ==
  ASSUME NEW bools, NEW args \in Seq(DOMAIN Shape), NEW n \in 0..(Len(args) - 1),
         NEW p, Flushed(p, bools, args, n), ~p.only, NEW q, IsParser(q),
         Shape[args[n + 1]].kind \in {"flag", "valued"},
         Shape[args[n + 1]].name \notin DOMAIN p.flags,
         SameMarks(p, q), SameWords(p, q), q.error = None,
         RoleSet(p, q, n + 1, "flag"),
         \/ /\ q.pending = None
            /\ DOMAIN q.flags = DOMAIN p.flags \cup {Shape[args[n + 1]].name}
            /\ IF Shape[args[n + 1]].kind = "valued"
               THEN q.bare = p.bare /\ q.flags[Shape[args[n + 1]].name] = Shape[args[n + 1]].value
               ELSE /\ q.bare = p.bare \cup {Shape[args[n + 1]].name}
                    /\ q.flags[Shape[args[n + 1]].name] = "true"
         \/ /\ q.pending = Shape[args[n + 1]].name
            /\ Shape[args[n + 1]].kind = "flag" /\ Shape[args[n + 1]].name \notin bools
            /\ DOMAIN q.flags = DOMAIN p.flags /\ q.bare = p.bare,
         \A flag \in DOMAIN p.flags : q.flags[flag] = p.flags[flag]
  PROVE  Reading(q, bools, args, n + 1)
<1> DEFINE name == Shape[args[n + 1]].name
<1>1. /\ IsParser(p) /\ DOMAIN p.roles = DOMAIN args /\ Clean(args, n) /\ p.pending = None
      /\ MarksRead(p, args, n) /\ FlagsRead(p, args, n) /\ ValuesRead(p, bools, args, n)
      /\ RolesRead(p, args, n) /\ WordsRead(p, args, n)
  BY FlushedIs
<1>2. n \in Nat /\ args[n + 1] \in DOMAIN Shape
  OBVIOUS
<1>3. Tokens(args, n + 1) = Tokens(args, n) \cup {n + 1} /\ n + 1 \notin Tokens(args, n)
  BY <1>1, <1>2, OnlyTokens DEF Tokens
<1>4. Names(args[n + 1]) = {name} /\ name \notin DOMAIN p.flags
  BY KindsOfNames
<1>5. Clean(args, n + 1)
  BY <1>1, <1>2, <1>3, <1>4, CleanGrows
<1>6. /\ Pending(p) = {}
      /\ DOMAIN q.flags \cup Pending(q) = DOMAIN p.flags \cup {name}
      /\ DOMAIN q.flags \cap Pending(q) = {}
      /\ DOMAIN p.flags \subseteq DOMAIN q.flags
      /\ Pending(q) \subseteq {name}
      /\ q.bare \subseteq p.bare \cup {name} /\ p.bare \subseteq q.bare
      /\ name \in q.bare => name \in DOMAIN q.flags /\ q.flags[name] = "true"
  <2>1. Pending(p) = {}
    BY <1>1 DEF Pending
  <2>2. CASE q.pending = None
    <3>1. Pending(q) = {}
      BY <2>2 DEF Pending
    <3>2. name \notin p.bare
      BY <1>1 DEF ValuesRead
    <3>3. q.pending = name => Shape[args[n + 1]].kind # "flag"
      BY <1>2, <2>2, ShapeAssumption
    <3>4. /\ DOMAIN q.flags = DOMAIN p.flags \cup {name}
          /\ q.bare = p.bare \/ (q.bare = p.bare \cup {name} /\ q.flags[name] = "true")
      BY <3>3
    <3> QED BY <2>1, <3>1, <3>2, <3>4
  <2>3. CASE q.pending # None
    <3>1. Pending(q) = {name}
      BY <2>3 DEF Pending
    <3>2. name \notin p.bare
      BY <1>1 DEF ValuesRead
    <3> QED BY <2>1, <2>3, <3>1, <3>2
  <2> QED BY <2>2, <2>3
<1>7. FlagsRead(q, args, n + 1)
  <2>1. \A flag : flag \in DOMAIN p.flags <=> \E i \in Tokens(args, n) : flag \in Names(args[i])
    BY <1>1, <1>6 DEF FlagsRead
  <2>2. \A flag : flag \in DOMAIN q.flags \/ flag \in Pending(q)
                  <=> flag \in DOMAIN p.flags \/ flag = name
    BY <1>6
  <2>3. \A flag : (\E i \in Tokens(args, n + 1) : flag \in Names(args[i]))
                  <=> (\E i \in Tokens(args, n) : flag \in Names(args[i])) \/ flag = name
    BY <1>3, <1>4
  <2> HIDE DEF name
  <2>4. \A flag : flag \in DOMAIN q.flags \/ flag \in Pending(q)
                  <=> \E i \in Tokens(args, n + 1) : flag \in Names(args[i])
    BY <2>1, <2>2, <2>3
  <2> QED BY <1>6, <2>4 DEF FlagsRead
<1>8. q.roles = [p.roles EXCEPT ![n + 1] = "flag"] /\ \A i \in 1..n : q.roles[i] = p.roles[i]
  BY <1>1 DEF IsParser, RoleSet
<1>9. Extends(p, q, n)
  <2> HIDE DEF name
  <2>1. \A flag \in DOMAIN p.flags : flag \in DOMAIN q.flags /\ q.flags[flag] = p.flags[flag]
    BY <1>6
  <2>2. \A flag \in q.bare : flag \in p.bare \/ flag = name
    BY <1>6
  <2>3. Pending(q) \cap DOMAIN p.flags = {}
    BY <1>4, <1>6
  <2> QED BY <1>4, <1>6, <1>8, <2>1, <2>2, <2>3 DEF Extends
<1>10. ValuesRead(q, bools, args, n + 1)
  <2>1. ValuesHeld(q, bools, args, n)
    BY <1>1, <1>2, <1>9, ValuesKept
  <2>2. /\ Shape[args[n + 1]].kind = "valued" =>
             name \notin q.bare /\ q.flags[name] = Shape[args[n + 1]].value
        /\ Shape[args[n + 1]].kind = "flag" => name \in Pending(q) \/ name \in q.bare
    <3>1. name \notin p.bare
      BY <1>1 DEF ValuesRead
    <3>2. q.pending # None => q.pending \in Pending(q)
      BY DEF Pending
    <3>3. Shape[args[n + 1]].kind = "flag" => name # None
      BY <1>2, ShapeAssumption
    <3> QED BY <3>1, <3>2, <3>3
  <2>3. \A i \in Tokens(args, n + 1) : i \in Tokens(args, n) \/ i = n + 1
    BY <1>3
  <2>4. \A flag \in q.bare : flag \in DOMAIN q.flags /\ q.flags[flag] = "true"
    BY <2>1 DEF ValuesHeld
  <2>5. ASSUME NEW i \in Tokens(args, n + 1), Shape[args[i]].kind = "valued"
        PROVE  /\ Shape[args[i]].name \notin q.bare
               /\ q.flags[Shape[args[i]].name] = Shape[args[i]].value
    BY <2>1, <2>2, <2>3, <2>5 DEF ValuesHeld
  <2>6. ASSUME NEW i \in Tokens(args, n + 1), Shape[args[i]].kind = "bundle"
        PROVE  Shape[args[i]].first \in q.bare /\ Shape[args[i]].second \in q.bare
    BY <2>1, <2>3, <2>6 DEF ValuesHeld
  <2>7. ASSUME NEW i \in Tokens(args, n + 1), Shape[args[i]].kind = "flag"
        PROVE  LET token == Shape[args[i]] IN
               \/ token.name \in Pending(q)
               \/ token.name \in q.bare
               \/ /\ token.name \notin bools \cup q.bare
                  /\ i < n + 1 /\ q.roles[i + 1] = "value" /\ q.flags[token.name] = args[i + 1]
    <3>1. CASE i = n + 1
      BY <2>2, <2>7, <3>1
    <3>2. CASE i \in Tokens(args, n)
      <4>1. i < n => i < n + 1
        BY <3>2 DEF Tokens
      <4> QED BY <2>1, <2>7, <3>2, <4>1 DEF ValuesHeld
    <3> QED BY <2>3, <3>1, <3>2
  <2> QED BY <2>4, <2>5, <2>6, <2>7 DEF ValuesRead
<1>11. RolesRead(q, args, n + 1)
  <2>1. n + 1 \in Tokens(args, n + 1)
    BY <1>3
  <2>2. \E role \in {"flag", "positional", "plain"} :
          role = "flag" /\ q.roles = [p.roles EXCEPT ![n + 1] = role]
    BY <1>8
  <2> QED BY <1>1, <1>9, <2>1, <2>2, RolesKept
<1>12. q.roles[n + 1] = "flag" /\ DOMAIN q.roles = DOMAIN args
  BY <1>1, <1>8 DEF IsParser
<1>13. WordsRead(q, args, n + 1)
  BY <1>1, <1>2, <1>8, <1>12, WordsKept
<1>14. MarksRead(q, args, n + 1)
  <2>1. 1..(n + 1) = 1..n \cup {n + 1}
    OBVIOUS
  <2>2. q.only = p.only /\ q.help = p.help
    BY DEF SameMarks
  <2>3. Shape[args[n + 1]].kind \notin {"dashes", "help"}
    OBVIOUS
  <2> QED BY <1>1, <1>3, <2>1, <2>2, <2>3 DEF MarksRead
<1>15. LastPends(q, bools, args, n + 1)
  BY <1>3 DEF LastPends
<1> QED BY <1>5, <1>7, <1>10, <1>11, <1>12, <1>13, <1>14, <1>15 DEF Reading, HasRead

(* A token that is refused.                                                *)
LEMMA RefusedRead ==
  ASSUME NEW bools, NEW args, NEW n \in Nat,
         NEW q, IsParser(q), DOMAIN q.roles = DOMAIN args, q.error # None,
         NEW p, IsParser(p), Clean(args, n), MarksRead(p, args, n), ~p.only,
         \/ Shape[args[n + 1]].kind = "invalid"
         \/ /\ FlagsRead(p, args, n) /\ p.pending = None
            /\ \/ Names(args[n + 1]) \cap DOMAIN p.flags # {}
               \/ /\ Shape[args[n + 1]].kind = "bundle"
                  /\ Shape[args[n + 1]].first = Shape[args[n + 1]].second
  PROVE  Reading(q, bools, args, n + 1)
<1>1. Tokens(args, n + 1) = Tokens(args, n) \cup {n + 1}
  BY OnlyTokens
<1>2. ~Clean(args, n + 1)
  <2>1. CASE Shape[args[n + 1]].kind = "invalid"
    BY <1>1, <2>1 DEF Clean
  <2>2. CASE Shape[args[n + 1]].kind # "invalid"
    BY <1>1, <2>2, CleanGrows
  <2> QED BY <2>1, <2>2
<1> QED BY <1>2 DEF Reading

(* q is p with a flag more, or refused for it.                             *)
FlagPut(p, q, key, value) ==
  /\ IsParser(q) /\ SameMarks(p, q) /\ SameWords(p, q) /\ q.roles = p.roles
  /\ q.pending = p.pending
  /\ q.error = IF key \in DOMAIN p.flags THEN "repeated" ELSE p.error
  /\ key \notin DOMAIN p.flags =>
       /\ DOMAIN q.flags = DOMAIN p.flags \cup {key} /\ q.flags[key] = value
       /\ \A flag \in DOMAIN p.flags : q.flags[flag] = p.flags[flag]

LEMMA SetFlagPuts ==
  ASSUME NEW p, IsParser(p), NEW key, NEW value
  PROVE  FlagPut(p, SetFlag(p, key, value), key, value) /\ SetFlag(p, key, value).bare = p.bare
<1> DEFINE q == SetFlag(p, key, value)
<1>1. /\ IsParser(q)
      /\ SameMarks(p, q) /\ SameWords(p, q) /\ q.roles = p.roles
      /\ q.pending = p.pending /\ q.bare = p.bare
      /\ q.error = IF key \in DOMAIN p.flags THEN "repeated" ELSE p.error
      /\ q.flags = IF key \in DOMAIN p.flags THEN p.flags
                   ELSE [k \in DOMAIN p.flags \cup {key} |-> IF k = key THEN value ELSE p.flags[k]]
  BY SetFlagFields
<1> HIDE DEF q
<1>2. key \notin DOMAIN p.flags =>
        /\ DOMAIN q.flags = DOMAIN p.flags \cup {key} /\ q.flags[key] = value
        /\ \A flag \in DOMAIN p.flags : q.flags[flag] = p.flags[flag]
  BY <1>1
<1>3. FlagPut(p, q, key, value)
  BY <1>1, <1>2 DEF FlagPut
<1> QED BY <1>1, <1>3 DEF q

LEMMA SetBareFlagPuts ==
  ASSUME NEW p, IsParser(p), NEW key
  PROVE  FlagPut(p, SetBareFlag(p, key), key, "true")
         /\ SetBareFlag(p, key).bare = p.bare \cup {key}
<1> DEFINE q == SetBareFlag(p, key)
<1>1. /\ IsParser(q)
      /\ SameMarks(p, q) /\ SameWords(p, q) /\ q.roles = p.roles
      /\ q.pending = p.pending /\ q.bare = p.bare \cup {key}
      /\ q.error = IF key \in DOMAIN p.flags THEN "repeated" ELSE p.error
      /\ q.flags = IF key \in DOMAIN p.flags THEN p.flags
                   ELSE [k \in DOMAIN p.flags \cup {key} |-> IF k = key THEN "true" ELSE p.flags[k]]
  BY SetBareFlagFields
<1> HIDE DEF q
<1>2. key \notin DOMAIN p.flags =>
        /\ DOMAIN q.flags = DOMAIN p.flags \cup {key} /\ q.flags[key] = "true"
        /\ \A flag \in DOMAIN p.flags : q.flags[flag] = p.flags[flag]
  BY <1>1
<1>3. FlagPut(p, q, key, "true")
  BY <1>1, <1>2 DEF FlagPut
<1> QED BY <1>1, <1>3 DEF q

Pends(p, q, key) ==
  /\ IsParser(q) /\ SameWords(p, q) /\ q.roles = p.roles /\ SameMarks(p, q)
  /\ q.pending = key /\ q.error = p.error /\ q.bare = p.bare /\ q.flags = p.flags

LEMMA PendingPends ==
  ASSUME NEW p, IsParser(p), NEW key
  PROVE  Pends(p, [p EXCEPT !.pending = key], key)
BY PendingFields DEF Pends

(* f and g differ in the role of the token at hand only.                   *)
Marked(f, g, i) ==
  /\ IsParser(g) /\ SameMarks(f, g) /\ SameWords(f, g)
  /\ g.pending = None /\ g.error = None /\ g.bare = f.bare /\ g.flags = f.flags
  /\ RoleSet(f, g, i, "flag")

LEMMA RepeatedRead ==
  ASSUME NEW bools, NEW args \in Seq(DOMAIN Shape), NEW n \in 0..(Len(args) - 1),
         NEW f, Flushed(f, bools, args, n), ~f.only,
         NEW q, IsParser(q), q.error = "repeated", DOMAIN q.roles = DOMAIN args,
         Shape[args[n + 1]].kind \in {"flag", "valued"}, Shape[args[n + 1]].name \in DOMAIN f.flags
  PROVE  Reading(q, bools, args, n + 1)
<1>1. Names(args[n + 1]) \cap DOMAIN f.flags # {} /\ q.error # None
  BY KindsOfNames DEF None
<1>2. n \in Nat /\ IsParser(f) /\ Clean(args, n) /\ MarksRead(f, args, n) /\ FlagsRead(f, args, n)
      /\ f.pending = None
  <2>1. n \in Nat
    OBVIOUS
  <2> QED BY <2>1, FlushedIs
<1> QED BY <1>1, <1>2, RefusedRead

LEMMA MarkedRoles ==
  ASSUME NEW f, NEW args, IsParser(f), DOMAIN f.roles = DOMAIN args, NEW i, NEW g, NEW q,
         Marked(f, g, i), SameMarks(g, q), SameWords(g, q), q.roles = g.roles
  PROVE  /\ SameMarks(f, q) /\ SameWords(f, q) /\ RoleSet(f, q, i, "flag")
         /\ DOMAIN q.roles = DOMAIN args
BY DEF Marked, SameMarks, SameWords, RoleSet

LEMMA ValuedRead ==
  ASSUME NEW bools, NEW args \in Seq(DOMAIN Shape), NEW n \in 0..(Len(args) - 1),
         NEW f, Flushed(f, bools, args, n), ~f.only, NEW g, Marked(f, g, n + 1),
         Shape[args[n + 1]].kind = "valued",
         NEW name, name = Shape[args[n + 1]].name, NEW value, value = Shape[args[n + 1]].value
  PROVE  Reading(SetFlag(g, name, value), bools, args, n + 1)
<1> DEFINE q == SetFlag(g, name, value)
<1>1. IsParser(g) /\ IsParser(f) /\ DOMAIN f.roles = DOMAIN args
  BY DEF Flushed, Reading, Marked
<1>0. FlagPut(g, q, name, value) /\ q.bare = g.bare
  BY <1>1, SetFlagPuts
<1> HIDE DEF q
<1>2. /\ IsParser(q) /\ SameMarks(g, q) /\ SameWords(g, q) /\ q.roles = g.roles
      /\ q.pending = g.pending /\ q.bare = g.bare
      /\ q.error = IF name \in DOMAIN g.flags THEN "repeated" ELSE g.error
  BY <1>0 DEF FlagPut
<1>3. /\ SameMarks(f, q) /\ SameWords(f, q) /\ RoleSet(f, q, n + 1, "flag")
      /\ DOMAIN q.roles = DOMAIN args
  BY <1>1, <1>2, MarkedRoles
<1>4. CASE name \in DOMAIN f.flags
  <2>1. q.error = "repeated"
    BY <1>2, <1>4 DEF Marked
  <2>2. Shape[args[n + 1]].kind \in {"flag", "valued"} /\ Shape[args[n + 1]].name \in DOMAIN f.flags
    BY <1>4
  <2>3. Reading(q, bools, args, n + 1)
    BY <1>2, <1>3, <2>1, <2>2, RepeatedRead
  <2> QED BY <2>3 DEF q
<1>5. CASE name \notin DOMAIN f.flags
  <2>1. /\ DOMAIN q.flags = DOMAIN f.flags \cup {name} /\ q.flags[name] = value
        /\ \A flag \in DOMAIN f.flags : q.flags[flag] = f.flags[flag]
    BY <1>0, <1>5 DEF Marked, FlagPut
  <2>2. q.pending = None /\ q.error = None /\ q.bare = f.bare
    BY <1>2, <1>5 DEF Marked
  <2>3. Shape[args[n + 1]].kind \in {"flag", "valued"}
    OBVIOUS
  <2>4. Reading(q, bools, args, n + 1)
    BY <1>2, <1>3, <1>5, <2>1, <2>2, <2>3, FlagTokenRead
  <2> QED BY <2>4 DEF q
<1> QED BY <1>4, <1>5

LEMMA BareFlagRead ==
  ASSUME NEW bools, NEW args \in Seq(DOMAIN Shape), NEW n \in 0..(Len(args) - 1),
         NEW f, Flushed(f, bools, args, n), ~f.only, NEW g, Marked(f, g, n + 1),
         Shape[args[n + 1]].kind = "flag", NEW name, name = Shape[args[n + 1]].name
  PROVE  Reading(BareFlag(g, bools, name), bools, args, n + 1)
<1> DEFINE q == BareFlag(g, bools, name)
<1>1. /\ IsParser(g) /\ IsParser(f) /\ DOMAIN f.roles = DOMAIN args
      /\ g.flags = f.flags /\ g.bare = f.bare /\ g.pending = None /\ g.error = None
  BY DEF Flushed, Reading, Marked
<1>2. Shape[args[n + 1]].kind \in {"flag", "valued"}
  OBVIOUS
<1>3. CASE name \in bools
  <2> DEFINE s == SetBareFlag(g, name)
  <2>1. q = s
    BY <1>3 DEF BareFlag
  <2>0. FlagPut(g, s, name, "true") /\ s.bare = g.bare \cup {name}
    BY <1>1, SetBareFlagPuts
  <2> HIDE DEF s, q
  <2>2. /\ IsParser(s) /\ SameMarks(g, s) /\ SameWords(g, s) /\ s.roles = g.roles
        /\ s.pending = g.pending /\ s.bare = g.bare \cup {name}
        /\ s.error = IF name \in DOMAIN g.flags THEN "repeated" ELSE g.error
    BY <2>0 DEF FlagPut
  <2>3. /\ SameMarks(f, s) /\ SameWords(f, s) /\ RoleSet(f, s, n + 1, "flag")
        /\ DOMAIN s.roles = DOMAIN args
    BY <1>1, <2>2, MarkedRoles
  <2>4. CASE name \in DOMAIN f.flags
    <3>1. s.error = "repeated"
      BY <1>1, <2>2, <2>4
    <3>2. Reading(s, bools, args, n + 1)
      BY <1>2, <2>2, <2>3, <2>4, <3>1, RepeatedRead
    <3> QED BY <2>1, <3>2 DEF q
  <2>5. CASE name \notin DOMAIN f.flags
    <3>1. /\ DOMAIN s.flags = DOMAIN f.flags \cup {name} /\ s.flags[name] = "true"
          /\ \A flag \in DOMAIN f.flags : s.flags[flag] = f.flags[flag]
      BY <1>1, <2>0, <2>5 DEF FlagPut
    <3>2. s.pending = None /\ s.error = None /\ s.bare = f.bare \cup {name}
      BY <1>1, <2>2, <2>5
    <3>3. Reading(s, bools, args, n + 1)
      BY <1>2, <2>2, <2>3, <2>5, <3>1, <3>2, FlagTokenRead
    <3> QED BY <2>1, <3>3 DEF q
  <2> QED BY <2>4, <2>5
<1>4. CASE name \notin bools /\ name \in DOMAIN f.flags
  <2> DEFINE s == [g EXCEPT !.error = "repeated"]
  <2>1. q = s
    BY <1>1, <1>4 DEF BareFlag
  <2>2. IsParser(s) /\ SameMarks(g, s) /\ SameWords(g, s) /\ s.roles = g.roles
        /\ s.error = "repeated"
    BY <1>1, ErrorFields
  <2> HIDE DEF s, q
  <2>3. DOMAIN s.roles = DOMAIN args
    BY <1>1, <2>2, MarkedRoles
  <2>4. Reading(s, bools, args, n + 1)
    BY <1>2, <1>4, <2>2, <2>3, RepeatedRead
  <2> QED BY <2>1, <2>4 DEF q
<1>5. CASE name \notin bools /\ name \notin DOMAIN f.flags
  <2> DEFINE s == [g EXCEPT !.pending = name]
  <2>1. q = s
    BY <1>1, <1>5 DEF BareFlag
  <2>0. Pends(g, s, name)
    BY <1>1, PendingPends
  <2> HIDE DEF s, q
  <2>2. /\ IsParser(s) /\ SameWords(g, s) /\ s.roles = g.roles /\ SameMarks(g, s)
        /\ s.pending = name /\ s.error = g.error /\ s.bare = g.bare /\ s.flags = g.flags
    BY <2>0 DEF Pends
  <2>3. SameMarks(f, s) /\ SameWords(f, s) /\ RoleSet(f, s, n + 1, "flag")
    BY <1>1, <2>2, MarkedRoles
  <2>4. s.error = None /\ s.bare = f.bare /\ s.flags = f.flags
    BY <1>1, <2>2
  <2>5. Reading(s, bools, args, n + 1)
    BY <1>2, <1>5, <2>2, <2>3, <2>4, FlagTokenRead
  <2> QED BY <2>1, <2>5 DEF q
<1> QED BY <1>3, <1>4, <1>5

LEMMA GivenFlagRead ==
  ASSUME NEW bools, NEW args \in Seq(DOMAIN Shape), NEW n \in 0..(Len(args) - 1),
         NEW p, IsParser(p), DOMAIN p.roles = DOMAIN args,
         Flushed(FlushPending(p), bools, args, n), ~p.only
  PROVE  LET token == Shape[args[n + 1]]
             g == Flagged(p, n + 1) IN
         /\ token.kind = "valued" => Reading(SetFlag(g, token.name, token.value), bools, args, n + 1)
         /\ token.kind = "flag" => Reading(BareFlag(g, bools, token.name), bools, args, n + 1)
<1> DEFINE g == Flagged(p, n + 1)
           f == FlushPending(p)
<1>1. n + 1 \in DOMAIN p.roles
  OBVIOUS
<1>2. f.roles = p.roles /\ SameMarks(p, f)
  BY FlushFields
<1>3. Marked(f, g, n + 1)
  <2>1. f.error = None
    BY DEF Flushed
  <2> QED BY <1>1, <1>2, <2>1, FlaggedFields DEF Marked, RoleSet
<1>4. ~f.only
  BY <1>2 DEF SameMarks
<1>5. Flushed(f, bools, args, n)
  OBVIOUS
<1> HIDE DEF f, g
<1>6. CASE Shape[args[n + 1]].kind = "valued"
  BY <1>3, <1>4, <1>5, <1>6, ValuedRead DEF g
<1>7. CASE Shape[args[n + 1]].kind = "flag"
  BY <1>3, <1>4, <1>5, <1>7, BareFlagRead DEF g
<1> QED BY <1>6, <1>7 DEF g
-----------------------------------------------------------------------------
(* Two flags in one token.                                                 *)
LEMMA BundleTaken ==
  ASSUME NEW bools, NEW args \in Seq(DOMAIN Shape), NEW n \in 0..(Len(args) - 1),
         NEW p, Flushed(p, bools, args, n), ~p.only, NEW q, IsParser(q),
         Shape[args[n + 1]].kind = "bundle",
         NEW first, first = Shape[args[n + 1]].first, NEW second, second = Shape[args[n + 1]].second,
         first # second, first \notin DOMAIN p.flags, second \notin DOMAIN p.flags,
         SameMarks(p, q), SameWords(p, q), q.error = None, q.roles = p.roles, q.pending = None,
         DOMAIN q.flags = DOMAIN p.flags \cup {first, second},
         q.bare = p.bare \cup {first, second},
         q.flags[first] = "true", q.flags[second] = "true",
         \A flag \in DOMAIN p.flags : q.flags[flag] = p.flags[flag]
  PROVE  Reading(q, bools, args, n + 1)
<1>1. /\ IsParser(p) /\ DOMAIN p.roles = DOMAIN args /\ Clean(args, n) /\ p.pending = None
      /\ MarksRead(p, args, n) /\ FlagsRead(p, args, n) /\ ValuesRead(p, bools, args, n)
      /\ RolesRead(p, args, n) /\ WordsRead(p, args, n)
  BY FlushedIs
<1>2. n \in Nat
  OBVIOUS
<1>3. Tokens(args, n + 1) = Tokens(args, n) \cup {n + 1} /\ n + 1 \notin Tokens(args, n)
  BY <1>1, <1>2, OnlyTokens DEF Tokens
<1>4. Names(args[n + 1]) = {first, second}
  BY KindsOfNames
<1>5. Clean(args, n + 1)
  BY <1>1, <1>2, <1>3, <1>4, CleanGrows
<1>6. Pending(p) = {} /\ Pending(q) = {}
  BY <1>1 DEF Pending
<1>7. FlagsRead(q, args, n + 1)
  <2>1. \A flag : flag \in DOMAIN p.flags <=> \E i \in Tokens(args, n) : flag \in Names(args[i])
    BY <1>1, <1>6 DEF FlagsRead
  <2>2. \A flag : (\E i \in Tokens(args, n + 1) : flag \in Names(args[i]))
                  <=> (\E i \in Tokens(args, n) : flag \in Names(args[i])) \/ flag \in {first, second}
    BY <1>3, <1>4
  <2>3. \A flag : flag \in DOMAIN q.flags \/ flag \in Pending(q)
                  <=> \E i \in Tokens(args, n + 1) : flag \in Names(args[i])
    BY <1>6, <2>1, <2>2
  <2> QED BY <1>6, <2>3 DEF FlagsRead
<1>8. \A i \in 1..n : q.roles[i] = p.roles[i]
  OBVIOUS
<1>9. Extends(p, q, n)
  <2>1. \A flag \in q.bare :
          \/ flag \in p.bare
          \/ flag \notin DOMAIN p.flags /\ flag \in DOMAIN q.flags /\ q.flags[flag] = "true"
    OBVIOUS
  <2> QED BY <1>6, <1>8, <2>1 DEF Extends
<1>10. ValuesRead(q, bools, args, n + 1)
  <2>1. ValuesHeld(q, bools, args, n)
    BY <1>1, <1>2, <1>9, ValuesKept
  <2>2. \A i \in Tokens(args, n + 1) :
          i \in Tokens(args, n) \/ (Shape[args[i]].kind = "bundle" /\ i = n + 1)
    BY <1>3
  <2>3. \A i \in Tokens(args, n + 1) : i < n => i < n + 1
    BY DEF Tokens
  <2>4. first \in q.bare /\ second \in q.bare
    OBVIOUS
  <2>5. ASSUME NEW i \in Tokens(args, n + 1), Shape[args[i]].kind = "bundle"
        PROVE  Shape[args[i]].first \in q.bare /\ Shape[args[i]].second \in q.bare
    BY <2>1, <2>2, <2>4, <2>5 DEF ValuesHeld
  <2>6. ASSUME NEW i \in Tokens(args, n + 1), Shape[args[i]].kind \in {"valued", "flag"}
        PROVE  i \in Tokens(args, n) /\ (i < n => i < n + 1)
    BY <2>2, <2>3, <2>6
  <2> QED BY <2>1, <2>5, <2>6 DEF ValuesHeld, ValuesRead
<1>11. q.roles = [p.roles EXCEPT ![n + 1] = "plain"] /\ q.roles[n + 1] = "plain"
  BY <1>1, PlainRole DEF RolesRead
<1>12. RolesRead(q, args, n + 1)
  <2>1. n + 1 \in Tokens(args, n + 1)
    BY <1>3
  <2>2. \E role \in {"flag", "positional", "plain"} :
          role = "plain" /\ q.roles = [p.roles EXCEPT ![n + 1] = role]
    BY <1>11
  <2> QED BY <1>1, <1>9, <2>1, <2>2, RolesKept
<1>13. WordsRead(q, args, n + 1)
  BY <1>1, <1>2, <1>8, <1>11, WordsKept
<1>14. MarksRead(q, args, n + 1)
  <2>1. 1..(n + 1) = 1..n \cup {n + 1}
    OBVIOUS
  <2>2. q.only = p.only /\ q.help = p.help
    BY DEF SameMarks
  <2> QED BY <1>1, <1>3, <2>1, <2>2 DEF MarksRead
<1>15. LastPends(q, bools, args, n + 1) /\ DOMAIN q.roles = DOMAIN args
  BY <1>1 DEF LastPends
<1> QED BY <1>5, <1>7, <1>10, <1>12, <1>13, <1>14, <1>15 DEF Reading, HasRead

LEMMA BundleRead ==
  ASSUME NEW bools, NEW args \in Seq(DOMAIN Shape), NEW n \in 0..(Len(args) - 1),
         NEW p, Flushed(p, bools, args, n), ~p.only,
         Shape[args[n + 1]].kind = "bundle",
         NEW first, first = Shape[args[n + 1]].first, NEW second, second = Shape[args[n + 1]].second
  PROVE  Reading(SetBareFlag(SetBareFlag(p, first), second), bools, args, n + 1)
<1> DEFINE r == SetBareFlag(p, first)
           s == SetBareFlag(r, second)
<1>1. /\ IsParser(p) /\ DOMAIN p.roles = DOMAIN args /\ Clean(args, n) /\ p.pending = None
      /\ p.error = None /\ MarksRead(p, args, n) /\ FlagsRead(p, args, n)
  BY FlushedIs
<1>2. n \in Nat /\ Names(args[n + 1]) = {first, second}
  BY KindsOfNames
<1>3. FlagPut(p, r, first, "true") /\ r.bare = p.bare \cup {first} /\ IsParser(r)
  BY <1>1, SetBareFlagPuts DEF FlagPut
<1>4. FlagPut(r, s, second, "true") /\ s.bare = r.bare \cup {second}
  <2> HIDE DEF r
  <2> QED BY <1>3, SetBareFlagPuts
<1> HIDE DEF r, s
<1>5. IsParser(s) /\ SameMarks(p, s) /\ SameWords(p, s) /\ s.roles = p.roles /\ s.pending = None
  BY <1>1, <1>3, <1>4 DEF FlagPut, SameMarks, SameWords
<1>6. CASE first \in DOMAIN p.flags
  <2>1. r.error = "repeated"
    BY <1>3, <1>6 DEF FlagPut
  <2>2. s.error # None
    BY <1>4, <2>1 DEF FlagPut, None
  <2>3. Names(args[n + 1]) \cap DOMAIN p.flags # {} /\ DOMAIN s.roles = DOMAIN args
    BY <1>1, <1>2, <1>5, <1>6
  <2>4. Reading(s, bools, args, n + 1)
    BY <1>1, <1>2, <1>5, <2>2, <2>3, RefusedRead
  <2> QED BY <2>4 DEF r, s
<1>7. CASE first \notin DOMAIN p.flags
  <2>1. /\ DOMAIN r.flags = DOMAIN p.flags \cup {first} /\ r.flags[first] = "true"
        /\ \A flag \in DOMAIN p.flags : r.flags[flag] = p.flags[flag]
        /\ r.error = None
    BY <1>1, <1>3, <1>7 DEF FlagPut
  <2>2. CASE second \in DOMAIN r.flags
    <3>1. s.error # None
      BY <1>4, <2>2 DEF FlagPut, None
    <3>2. DOMAIN s.roles = DOMAIN args
      BY <1>1, <1>5
    <3>3. Names(args[n + 1]) \cap DOMAIN p.flags # {} \/ first = second
      BY <1>2, <2>1, <2>2
    <3>4. Reading(s, bools, args, n + 1)
      BY <1>1, <1>2, <1>5, <3>1, <3>2, <3>3, RefusedRead
    <3> QED BY <3>4 DEF r, s
  <2>3. CASE second \notin DOMAIN r.flags
    <3>1. /\ DOMAIN s.flags = DOMAIN r.flags \cup {second} /\ s.flags[second] = "true"
          /\ \A flag \in DOMAIN r.flags : s.flags[flag] = r.flags[flag]
          /\ s.error = None
      BY <1>4, <2>1, <2>3 DEF FlagPut
    <3>2. DOMAIN s.flags = DOMAIN p.flags \cup {first, second}
          /\ s.bare = p.bare \cup {first, second}
      BY <1>3, <1>4, <2>1, <3>1
    <3>3. /\ s.flags[first] = "true"
          /\ \A flag \in DOMAIN p.flags : s.flags[flag] = p.flags[flag]
      BY <2>1, <3>1
    <3>4. first # second /\ second \notin DOMAIN p.flags
      BY <2>1, <2>3
    <3>5. Reading(s, bools, args, n + 1)
      BY <1>5, <1>7, <3>1, <3>2, <3>3, <3>4, BundleTaken
    <3> QED BY <3>5 DEF r, s
  <2> QED BY <2>2, <2>3
<1> QED BY <1>6, <1>7

(* A flag without a usable name. *)
LEMMA InvalidRead ==
  ASSUME NEW bools, NEW args \in Seq(DOMAIN Shape), NEW n \in 0..(Len(args) - 1),
         NEW p, Reading(p, bools, args, n), p.error = None, ~p.only,
         Shape[args[n + 1]].kind = "invalid"
  PROVE  Reading([p EXCEPT !.error = "invalid"], bools, args, n + 1)
<1> DEFINE q == [p EXCEPT !.error = "invalid"]
<1>1. /\ IsParser(p) /\ DOMAIN p.roles = DOMAIN args /\ Clean(args, n)
      /\ MarksRead(p, args, n) /\ n \in Nat
  BY DEF Reading, HasRead
<1>2. IsParser(q) /\ q.roles = p.roles /\ q.error = "invalid"
  BY <1>1, ErrorFields
<1> HIDE DEF q
<1>3. q.error # None /\ DOMAIN q.roles = DOMAIN args
  BY <1>1, <1>2 DEF None
<1>4. Reading(q, bools, args, n + 1)
  BY <1>1, <1>2, <1>3, RefusedRead
<1> QED BY <1>4 DEF q
(* The value a flag waited for.                                            *)
LEMMA ValueTaken ==
  ASSUME NEW bools, NEW args \in Seq(DOMAIN Shape), NEW n \in 0..(Len(args) - 1),
         NEW p, Reading(p, bools, args, n), p.error = None, ~p.only,
         NEW name, name = p.pending, name # None,
         Shape[args[n + 1]].kind = "word", NEW q, IsParser(q),
         SameMarks(p, q), SameWords(p, q), q.error = None, q.pending = None, q.bare = p.bare,
         RoleSet(p, q, n + 1, "value"),
         DOMAIN q.flags = DOMAIN p.flags \cup {name}, q.flags[name] = args[n + 1],
         \A flag \in DOMAIN p.flags : q.flags[flag] = p.flags[flag]
  PROVE  Reading(q, bools, args, n + 1)
<1>1. /\ IsParser(p) /\ DOMAIN p.roles = DOMAIN args /\ Clean(args, n)
      /\ MarksRead(p, args, n) /\ FlagsRead(p, args, n) /\ ValuesRead(p, bools, args, n)
      /\ RolesRead(p, args, n) /\ WordsRead(p, args, n) /\ LastPends(p, bools, args, n)
  BY DEF Reading, HasRead
<1>2. n \in Nat /\ n + 1 \in DOMAIN args
  OBVIOUS
<1>3. Tokens(args, n + 1) = Tokens(args, n) \cup {n + 1} /\ n + 1 \notin Tokens(args, n)
  BY <1>1, <1>2, OnlyTokens DEF Tokens
<1>4. Names(args[n + 1]) = {} /\ Pending(p) = {name} /\ Pending(q) = {}
  BY KindsOfNames DEF Pending
<1>5. /\ n \in Tokens(args, n) /\ Shape[args[n]].kind = "flag"
      /\ Shape[args[n]].name = name /\ name \notin bools /\ Names(args[n]) = {name}
  BY <1>1, KindsOfNames DEF LastPends
<1>6. name \notin DOMAIN p.flags /\ name \notin p.bare
  BY <1>1, <1>4 DEF FlagsRead, ValuesRead
<1>7. Clean(args, n + 1)
  BY <1>1, <1>3, <1>4 DEF Clean
<1>8. /\ DOMAIN q.roles = DOMAIN args /\ q.roles[n + 1] = "value"
      /\ \A i \in DOMAIN args : i # n + 1 => q.roles[i] = p.roles[i]
  BY <1>1, <1>2 DEF RoleSet, IsParser
<1>9. FlagsRead(q, args, n + 1)
  BY <1>1, <1>3, <1>4 DEF FlagsRead
<1>10. ValuesRead(q, bools, args, n + 1)
  <2>1. \A flag \in q.bare : flag \in DOMAIN q.flags /\ q.flags[flag] = "true"
    BY <1>1 DEF ValuesRead
  <2>2. ASSUME NEW i \in Tokens(args, n + 1), Shape[args[i]].kind # "word"
        PROVE  i \in Tokens(args, n) /\ i \in 1..n
    BY <1>3, <2>2 DEF Tokens
  <2>3. ASSUME NEW i \in Tokens(args, n), Shape[args[i]].kind \in {"flag", "valued"}, i # n
        PROVE  /\ Shape[args[i]].name \in DOMAIN p.flags
               /\ q.flags[Shape[args[i]].name] = p.flags[Shape[args[i]].name]
    <3>1. Names(args[i]) = {Shape[args[i]].name}
      BY <2>3, KindsOfNames
    <3>2. Shape[args[i]].name # name
      BY <1>1, <1>5, <2>3, <3>1 DEF Clean
    <3>3. Shape[args[i]].name \in DOMAIN p.flags
      BY <1>1, <1>2, <1>4, <2>3, <3>2, NamedFlagIsHeld
    <3> QED BY <3>3
  <2>4. ASSUME NEW i \in Tokens(args, n + 1), Shape[args[i]].kind = "valued"
        PROVE  /\ Shape[args[i]].name \notin q.bare
               /\ q.flags[Shape[args[i]].name] = Shape[args[i]].value
    <3>1. i \in Tokens(args, n) /\ i # n
      BY <1>5, <2>2, <2>4
    <3> QED BY <1>1, <2>3, <2>4, <3>1 DEF ValuesRead
  <2>5. ASSUME NEW i \in Tokens(args, n + 1), Shape[args[i]].kind = "bundle"
        PROVE  Shape[args[i]].first \in q.bare /\ Shape[args[i]].second \in q.bare
    BY <1>1, <2>2, <2>5 DEF ValuesRead
  <2>6. ASSUME NEW i \in Tokens(args, n + 1), Shape[args[i]].kind = "flag"
        PROVE  LET token == Shape[args[i]] IN
               \/ token.name \in q.bare
               \/ /\ token.name \notin bools \cup q.bare
                  /\ i < n + 1 /\ q.roles[i + 1] = "value" /\ q.flags[token.name] = args[i + 1]
    <3>1. i \in Tokens(args, n) /\ i \in 1..n
      BY <2>2, <2>6
    <3>2. CASE i = n
      BY <1>5, <1>6, <1>8, <3>2
    <3>3. CASE i # n
      <4>1. /\ Shape[args[i]].name \in DOMAIN p.flags
            /\ q.flags[Shape[args[i]].name] = p.flags[Shape[args[i]].name]
        BY <2>3, <2>6, <3>1, <3>3
      <4>2. Shape[args[i]].name \notin Pending(p)
        BY <1>4, <1>6, <4>1
      <4>3. \/ Shape[args[i]].name \in p.bare
            \/ /\ Shape[args[i]].name \notin bools \cup p.bare
               /\ i < n /\ p.roles[i + 1] = "value" /\ p.flags[Shape[args[i]].name] = args[i + 1]
        BY <1>1, <2>6, <3>1, <4>2 DEF ValuesRead
      <4>4. i < n => i + 1 \in DOMAIN args /\ i + 1 # n + 1
        BY <1>2, <3>1
      <4> QED BY <1>8, <3>1, <4>1, <4>3, <4>4
    <3> QED BY <3>2, <3>3
  <2> QED BY <2>1, <2>4, <2>5, <2>6 DEF ValuesRead
<1>11. RolesRead(q, args, n + 1)
  <2>1. \A i \in 1..n : i \in Tokens(args, n + 1) <=> i \in Tokens(args, n)
    BY <1>3
  <2>2. ASSUME NEW i \in DOMAIN args, q.roles[i] = "value"
        PROVE  /\ i - 1 \in Tokens(args, n + 1) /\ Shape[args[i - 1]].kind = "flag"
               /\ Shape[args[i - 1]].name \notin q.bare \cup Pending(q)
    <3>1. CASE i = n + 1
      <4>1. i - 1 = n
        BY <3>1
      <4> QED BY <1>3, <1>4, <1>5, <1>6, <4>1
    <3>2. CASE i # n + 1
      BY <1>1, <1>3, <1>4, <1>8, <2>2, <3>2 DEF RolesRead
    <3> QED BY <3>1, <3>2
  <2>3. ASSUME NEW i \in DOMAIN args, i > n + 1
        PROVE  q.roles[i] = "plain" /\ i \notin Tokens(args, n + 1)
    BY <1>1, <1>8, <2>3 DEF RolesRead, Tokens
  <2>4. ASSUME NEW i \in 1..n
        PROVE  /\ i \notin Tokens(args, n + 1) => q.roles[i] = "positional"
               /\ i \in Tokens(args, n + 1) =>
                    /\ Shape[args[i]].kind \in {"flag", "valued"} => q.roles[i] = "flag"
                    /\ Shape[args[i]].kind = "word" => q.roles[i] \in {"positional", "value"}
                    /\ Shape[args[i]].kind \in {"dashes", "help", "bundle"} => q.roles[i] = "plain"
    BY <1>1, <1>8, <2>1 DEF RolesRead
  <2>5. n + 1 \in Tokens(args, n + 1)
    BY <1>3
  <2>6. \A i \in DOMAIN args : i \in 1..n \/ i = n + 1 \/ i > n + 1
    OBVIOUS
  <2> QED BY <1>8, <2>2, <2>3, <2>4, <2>5, <2>6 DEF RolesRead
<1>12. WordsRead(q, args, n + 1)
  <2>1. \A i \in 1..n : q.roles[i] = p.roles[i]
    BY <1>8
  <2> QED BY <1>1, <1>2, <1>8, <2>1, WordsKept
<1>13. MarksRead(q, args, n + 1)
  <2>1. 1..(n + 1) = 1..n \cup {n + 1}
    OBVIOUS
  <2>2. q.only = p.only /\ q.help = p.help
    BY DEF SameMarks
  <2> QED BY <1>1, <1>3, <2>1, <2>2 DEF MarksRead
<1>14. LastPends(q, bools, args, n + 1)
  BY DEF LastPends
<1> QED BY <1>7, <1>8, <1>9, <1>10, <1>11, <1>12, <1>13, <1>14 DEF Reading, HasRead

LEMMA ValueRead ==
  ASSUME NEW bools, NEW args \in Seq(DOMAIN Shape), NEW n \in 0..(Len(args) - 1),
         NEW p, Reading(p, bools, args, n), p.error = None, ~p.only, p.pending # None,
         Shape[args[n + 1]].kind = "word"
  PROVE  Reading(SetFlag([p EXCEPT !.pending = None, !.roles[n + 1] = "value"],
                         p.pending, args[n + 1]), bools, args, n + 1)
<1> DEFINE q == SetFlag([p EXCEPT !.pending = None, !.roles[n + 1] = "value"],
                        p.pending, args[n + 1])
<1>1. /\ IsParser(p) /\ DOMAIN p.roles = DOMAIN args /\ n + 1 \in DOMAIN args
      /\ FlagsRead(p, args, n)
  BY DEF Reading, HasRead
<1>2. p.pending \notin DOMAIN p.flags
  BY <1>1 DEF FlagsRead, Pending
<1>3. ValuePut(p, q, n + 1, args[n + 1])
  BY <1>1, ValueFields
<1> HIDE DEF q
<1>4. /\ DOMAIN q.flags = DOMAIN p.flags \cup {p.pending} /\ q.flags[p.pending] = args[n + 1]
      /\ \A flag \in DOMAIN p.flags : q.flags[flag] = p.flags[flag]
      /\ q.error = None
  BY <1>2, <1>3 DEF ValuePut
<1>5. RoleSet(p, q, n + 1, "value")
  BY <1>3 DEF ValuePut
<1>6. IsParser(q) /\ SameMarks(p, q) /\ SameWords(p, q) /\ q.pending = None /\ q.bare = p.bare
  BY <1>3 DEF ValuePut
<1>7. Reading(q, bools, args, n + 1)
  BY <1>4, <1>5, <1>6, ValueTaken
<1> QED BY <1>7 DEF q
-----------------------------------------------------------------------------
(* The whole parse.                                                        *)

LEMMA FeedRead ==
  ASSUME NEW tree, NEW bools, NEW args \in Seq(DOMAIN Shape), NEW n \in 0..(Len(args) - 1),
         NEW p, Reading(p, bools, args, n)
  PROVE  Reading(Feed(tree, bools, p, n + 1, args[n + 1]), bools, args, n + 1)
<1> DEFINE i == n + 1
           text == args[n + 1]
           kind == Shape[text].kind
           f == FlushPending(p)
<1>1. /\ IsParser(p) /\ DOMAIN p.roles = DOMAIN args /\ n \in Nat /\ text \in DOMAIN Shape
  BY DEF Reading
<1>2. CASE p.error # None
  <2>1. Feed(tree, bools, p, i, text) = p
    BY <1>2 DEF Feed
  <2>2. ~Clean(args, n + 1)
    BY <1>1, <1>2, DirtStays DEF Reading
  <2>3. Reading(p, bools, args, n + 1)
    BY <1>1, <1>2, <2>2 DEF Reading
  <2> QED BY <2>1, <2>3
<1>3. CASE p.error = None
  <2>1. Flushed(f, bools, args, n)
    <3>1. n \in 0..Len(args)
      OBVIOUS
    <3> QED BY <1>3, <3>1, FlushRead DEF Flushed
  <2>2. f.only = p.only
    BY <1>1, FlushFields DEF SameMarks
  <2>3. kind \in {"word", "dashes", "help", "invalid", "flag", "valued", "bundle"}
    BY <1>1, ShapeAssumption
  <2>4. CASE p.only
    <3>1. Feed(tree, bools, p, i, text) = PushPositional(f, i, text)
      BY <1>3, <2>4 DEF Feed
    <3> HIDE DEF f
    <3> QED BY <2>1, <2>2, <2>4, <3>1, PushRead
  <2>5. CASE ~p.only
    <3>1. CASE kind = "dashes"
      <4>1. Feed(tree, bools, p, i, text) = Dashed(f)
        BY <1>3, <2>5, <3>1 DEF Feed, Dashed
      <4> HIDE DEF f
      <4> QED BY <2>1, <2>2, <2>5, <3>1, <4>1, MarkRead
    <3>2. CASE kind = "help"
      <4>1. Feed(tree, bools, p, i, text) = Helped(f)
        BY <1>3, <2>5, <3>2 DEF Feed, Helped
      <4> HIDE DEF f
      <4> QED BY <2>1, <2>2, <2>5, <3>2, <4>1, MarkRead
    <3>3. CASE kind = "invalid"
      <4>1. Feed(tree, bools, p, i, text) = [p EXCEPT !.error = "invalid"]
        BY <1>3, <2>5, <3>3 DEF Feed
      <4> QED BY <1>3, <2>5, <3>3, <4>1, InvalidRead
    <3>4. CASE kind = "valued"
      <4>1. Feed(tree, bools, p, i, text) = SetFlag(Flagged(p, i), Shape[text].name, Shape[text].value)
        BY <1>3, <2>5, <3>4 DEF Feed
      <4> QED BY <1>1, <2>1, <2>5, <3>4, <4>1, GivenFlagRead
    <3>5. CASE kind = "flag"
      <4>1. Feed(tree, bools, p, i, text) = BareFlag(Flagged(p, i), bools, Shape[text].name)
        BY <1>3, <2>5, <3>5 DEF Feed
      <4> QED BY <1>1, <2>1, <2>5, <3>5, <4>1, GivenFlagRead
    <3>6. CASE kind = "bundle"
      <4>1. Feed(tree, bools, p, i, text) =
              SetBareFlag(SetBareFlag(f, Shape[text].first), Shape[text].second)
        BY <1>3, <2>5, <3>6 DEF Feed
      <4> HIDE DEF f
      <4> QED BY <2>1, <2>2, <2>5, <3>6, <4>1, BundleRead
    <3>7. CASE kind = "word"
      <4>1. Feed(tree, bools, p, i, text) = ValueOrPositional(tree, p, i, text)
        BY <1>3, <2>5, <3>7 DEF Feed
      <4>2. CASE p.pending = None
        <5>1. ValueOrPositional(tree, p, i, text) = PushPositional(p, i, text)
          BY <4>2 DEF ValueOrPositional
        <5>2. Flushed(p, bools, args, n)
          BY <1>3, <4>2 DEF Flushed
        <5> QED BY <3>7, <4>1, <5>1, <5>2, PushRead
      <4>3. CASE p.pending # None /\ NamesCommand(tree, p.positionals, text)
        <5>1. ValueOrPositional(tree, p, i, text) = PushPositional(f, i, text)
          BY <4>3 DEF ValueOrPositional
        <5> HIDE DEF f
        <5> QED BY <2>1, <3>7, <4>1, <5>1, PushRead
      <4>4. CASE p.pending # None /\ ~NamesCommand(tree, p.positionals, text)
        <5>1. ValueOrPositional(tree, p, i, text) =
                SetFlag([p EXCEPT !.pending = None, !.roles[i] = "value"], p.pending, text)
          BY <4>4 DEF ValueOrPositional
        <5> QED BY <1>3, <2>5, <3>7, <4>1, <4>4, <5>1, ValueRead
      <4> QED BY <4>2, <4>3, <4>4
    <3> HIDE DEF kind
    <3> QED BY <2>3, <3>1, <3>2, <3>3, <3>4, <3>5, <3>6, <3>7
  <2> QED BY <2>4, <2>5
<1> QED BY <1>2, <1>3

LEMMA FedRead ==
  ASSUME NEW tree, NEW bools, NEW args \in Seq(DOMAIN Shape)
  PROVE  \A n \in 0..Len(args) : Reading(Fed(tree, bools, args)[n], bools, args, n)
<1> DEFINE fed == Fed(tree, bools, args)
           S == {n \in Nat : n <= Len(args) => Reading(fed[n], bools, args, n)}
<1>1. Len(args) \in Nat
  OBVIOUS
<1>2. /\ fed[0] = NewParser(args)
      /\ \A n \in 1..Len(args) : fed[n] = Feed(tree, bools, fed[n - 1], n, args[n])
  BY <1>1, FedEquation
<1> HIDE DEF fed
<1>3. 0 \in S
  BY <1>2, StartRead
<1>4. ASSUME NEW n \in S
      PROVE  n + 1 \in S
  <2>1. CASE n + 1 <= Len(args)
    <3>1. n \in 0..(Len(args) - 1) /\ n + 1 \in 1..Len(args) /\ (n + 1) - 1 = n
      BY <1>1, <2>1
    <3>2. Reading(fed[n], bools, args, n)
      BY <1>1, <3>1
    <3>3. fed[n + 1] = Feed(tree, bools, fed[n], n + 1, args[n + 1])
      BY <1>2, <3>1
    <3>4. Reading(Feed(tree, bools, fed[n], n + 1, args[n + 1]), bools, args, n + 1)
      BY <3>1, <3>2, FeedRead
    <3> QED BY <3>3, <3>4
  <2>2. CASE ~(n + 1 <= Len(args))
    BY <2>2
  <2> QED BY <2>1, <2>2
<1>5. S = Nat
  <2> HIDE DEF S
  <2>1. S \in SUBSET Nat
    BY DEF S
  <2> QED BY <1>3, <1>4, <2>1, UpFromZero
<1>6. \A n \in 0..Len(args) : n \in S
  BY <1>1, <1>5
<1> QED BY <1>6 DEF fed

(* parse_in_tree refuses a line exactly for a flag without a usable name   *)
(* or one given twice before a --; of any other line it holds every flag   *)
(* named, with the value its token or the next one gives it, and every     *)
(* word it did not take for a value, in order, and all that follows a --.  *)
THEOREM ParseRead ==
  ASSUME NEW tree, NEW bools, NEW args \in Seq(DOMAIN Shape)
  PROVE  LET line == Parse(tree, bools, args) IN
         /\ Reading(line, bools, args, Len(args))
         /\ line.error = None => line.pending = None
<1> DEFINE p == Fed(tree, bools, args)[Len(args)]
<1>1. Len(args) \in 0..Len(args)
  OBVIOUS
<1>2. Reading(p, bools, args, Len(args))
  BY <1>1, FedRead
<1>3. Parse(tree, bools, args) = FlushPending(p)
  BY DEF Parse
<1> HIDE DEF p
<1>4. CASE p.error = None
  BY <1>1, <1>2, <1>3, <1>4, FlushRead
<1>5. CASE p.error # None
  <2> DEFINE q == FlushPending(p)
  <2>1. IsParser(p) /\ DOMAIN p.roles = DOMAIN args /\ ~Clean(args, Len(args))
    BY <1>2, <1>5 DEF Reading
  <2>2. IsParser(q) /\ q.roles = p.roles /\ q.error # None
    <3>1. CASE p.pending = None
      BY <1>5, <2>1, <3>1 DEF FlushPending
    <3>2. CASE p.pending # None
      <4> DEFINE r == [p EXCEPT !.pending = None]
                 s == SetBareFlag(r, p.pending)
      <4>1. q = s
        BY <3>2 DEF FlushPending
      <4>2. Pends(p, r, None)
        BY <2>1, PendingPends
      <4> HIDE DEF q, r
      <4>3. FlagPut(r, s, p.pending, "true")
        BY <4>2, SetBareFlagPuts DEF Pends
      <4> HIDE DEF s
      <4> QED BY <1>5, <4>1, <4>2, <4>3 DEF Pends, FlagPut, None
    <3> QED BY <3>1, <3>2
  <2> HIDE DEF q
  <2>3. Reading(q, bools, args, Len(args))
    BY <2>1, <2>2 DEF Reading
  <2> QED BY <1>3, <2>2, <2>3 DEF q
<1> QED BY <1>4, <1>5
-----------------------------------------------------------------------------
(* What one token does to the words read before it.                        *)

Keeps(p, q, n) == SameWords(p, q) /\ \A i \in 1..n : q.roles[i] = p.roles[i]

Pushes(p, q, n, text) ==
  /\ q.positionals = Append(p.positionals, text) /\ q.indices = Append(p.indices, n + 1)
  /\ q.roles[n + 1] = "positional"
  /\ \A i \in 1..n : q.roles[i] = p.roles[i]

(* The token goes to the words or leaves them alone; after a flag that     *)
(* waits for its value, it is a word if it names a command there.          *)
WordStep(tree, bools, p, q, args, n) ==
  /\ \/ Keeps(p, q, n) /\ q.roles[n + 1] # "positional"
     \/ Pushes(p, q, n, args[n + 1])
  /\ q.roles[n + 1] = "value" => ~NamesCommand(tree, p.positionals, args[n + 1])
  /\ q.roles[n + 1] = "positional" /\ ~p.only /\ p.pending # None =>
       NamesCommand(tree, p.positionals, args[n + 1])
  /\ ~p.only /\ Shape[args[n + 1]].kind = "flag" /\ Shape[args[n + 1]].name \notin bools =>
       q.pending # None

LEMMA KeepsAll ==
  ASSUME NEW p, NEW q, NEW n, SameWords(p, q), q.roles = p.roles
  PROVE  Keeps(p, q, n)
BY DEF Keeps

LEMMA KeepsTwice ==
  ASSUME NEW p, NEW q, NEW r, NEW n, Keeps(p, q, n), Keeps(q, r, n)
  PROVE  Keeps(p, r, n)
BY DEF Keeps, SameWords

LEMMA FlushKeeps ==
  ASSUME NEW p, IsParser(p), NEW n
  PROVE  IsParser(FlushPending(p)) /\ Keeps(p, FlushPending(p), n)
         /\ FlushPending(p).roles = p.roles
<1> DEFINE q == FlushPending(p)
<1>1. IsParser(q) /\ SameWords(p, q) /\ q.roles = p.roles
  BY FlushFields
<1> HIDE DEF q
<1> QED BY <1>1, KeepsAll DEF q

LEMMA SetFlagKeeps ==
  ASSUME NEW p, IsParser(p), NEW n, NEW key, NEW value
  PROVE  /\ IsParser(SetFlag(p, key, value)) /\ Keeps(p, SetFlag(p, key, value), n)
         /\ IsParser(SetBareFlag(p, key)) /\ Keeps(p, SetBareFlag(p, key), n)
BY SetFlagPuts, SetBareFlagPuts, KeepsAll DEF FlagPut

LEMMA FlaggedKeeps ==
  ASSUME NEW p, IsParser(p), NEW n \in Nat, n + 1 \in DOMAIN p.roles
  PROVE  /\ IsParser(Flagged(p, n + 1)) /\ Keeps(p, Flagged(p, n + 1), n)
         /\ Flagged(p, n + 1).pending = None
<1> DEFINE q == Flagged(p, n + 1)
           f == FlushPending(p)
<1>1. /\ IsParser(q) /\ SameWords(f, q) /\ q.roles = [p.roles EXCEPT ![n + 1] = "flag"]
      /\ q.pending = None
  BY FlaggedFields
<1>2. SameWords(p, f)
  BY FlushFields
<1> HIDE DEF q, f
<1>3. \A i \in 1..n : q.roles[i] = p.roles[i]
  BY <1>1 DEF IsParser
<1> QED BY <1>1, <1>2, <1>3 DEF Keeps, SameWords, q

LEMMA PushPushes ==
  ASSUME NEW p, IsParser(p), NEW n \in Nat, n + 1 \in DOMAIN p.roles, NEW text
  PROVE  Pushes(p, PushPositional(p, n + 1, text), n, text)
<1> DEFINE q == PushPositional(p, n + 1, text)
<1>1. /\ q.positionals = Append(p.positionals, text) /\ q.indices = Append(p.indices, n + 1)
      /\ q.roles = [p.roles EXCEPT ![n + 1] = "positional"]
  BY PushFields
<1> HIDE DEF q
<1>2. q.roles[n + 1] = "positional" /\ \A i \in 1..n : q.roles[i] = p.roles[i]
  BY <1>1 DEF IsParser
<1> QED BY <1>1, <1>2 DEF Pushes, q

LEMMA BareFlagWaits ==
  ASSUME NEW g, IsParser(g), NEW n, NEW bools, NEW name, name # None
  PROVE  LET q == BareFlag(g, bools, name) IN
         /\ IsParser(q) /\ Keeps(g, q, n)
         /\ q.error = None /\ name \notin bools => q.pending # None
<1> DEFINE q == BareFlag(g, bools, name)
<1>1. CASE name \in bools
  <2>1. q = SetBareFlag(g, name)
    BY <1>1 DEF BareFlag
  <2> HIDE DEF q
  <2> QED BY <1>1, <2>1, SetFlagKeeps DEF q
<1>2. CASE name \notin bools /\ name \in DOMAIN g.flags
  <2> DEFINE s == [g EXCEPT !.error = "repeated"]
  <2>1. q = s
    BY <1>2 DEF BareFlag
  <2>2. IsParser(s) /\ SameWords(g, s) /\ s.roles = g.roles /\ s.error = "repeated"
    BY ErrorFields
  <2> HIDE DEF s, q
  <2>3. Keeps(g, s, n) /\ s.error # None
    BY <2>2, KeepsAll DEF None
  <2> QED BY <2>1, <2>2, <2>3 DEF q
<1>3. CASE name \notin bools /\ name \notin DOMAIN g.flags
  <2> DEFINE s == [g EXCEPT !.pending = name]
  <2>1. q = s
    BY <1>3 DEF BareFlag
  <2>2. Pends(g, s, name)
    BY PendingPends
  <2> HIDE DEF s, q
  <2>3. IsParser(s) /\ Keeps(g, s, n) /\ s.pending = name
    BY <2>2, KeepsAll DEF Pends
  <2> QED BY <2>1, <2>3 DEF q
<1> QED BY <1>1, <1>2, <1>3

LEMMA MarkKeeps ==
  ASSUME NEW p, IsParser(p), NEW n
  PROVE  Keeps(p, Dashed(p), n) /\ Keeps(p, Helped(p), n)
<1>1. SameWords(p, Dashed(p)) /\ Dashed(p).roles = p.roles
  BY OnlyFields DEF Dashed
<1>2. SameWords(p, Helped(p)) /\ Helped(p).roles = p.roles
  BY HelpFields DEF Helped
<1> QED BY <1>1, <1>2, KeepsAll

LEMMA FeedWords ==
  ASSUME NEW tree, NEW bools, NEW args \in Seq(DOMAIN Shape), NEW n \in 0..(Len(args) - 1),
         NEW p, Reading(p, bools, args, n), NEW q,
         q = Feed(tree, bools, p, n + 1, args[n + 1]), q.error = None
  PROVE  p.error = None /\ WordStep(tree, bools, p, q, args, n)
<1> DEFINE i == n + 1
           text == args[n + 1]
           kind == Shape[text].kind
           f == FlushPending(p)
<1>1. /\ IsParser(p) /\ DOMAIN p.roles = DOMAIN args /\ n \in Nat /\ text \in DOMAIN Shape
      /\ i \in DOMAIN p.roles
  BY DEF Reading
<1>2. Reading(q, bools, args, n + 1)
  BY FeedRead
<1>3. p.error = None
  BY <1>1, <1>2, DirtStays DEF Reading
<1>4. /\ i \in DOMAIN args /\ RolesRead(q, args, n + 1)
      /\ ~p.only => i \in Tokens(args, n + 1)
  <2>1. MarksRead(p, args, n) /\ RolesRead(q, args, n + 1)
    BY <1>2, <1>3 DEF Reading, HasRead
  <2> QED BY <1>1, <2>1, OnlyTokens
<1>5. kind \in {"word", "dashes", "help", "invalid", "flag", "valued", "bundle"}
  BY <1>1, ShapeAssumption
<1>11. ~p.only => kind # "invalid"
  BY <1>2, <1>4 DEF Reading, Clean
<1>6. /\ IsParser(f) /\ Keeps(p, f, n) /\ f.roles = p.roles /\ i \in DOMAIN f.roles
  BY <1>1, FlushKeeps
<1>7. ASSUME NEW r, Pushes(f, r, n, text) PROVE Pushes(p, r, n, text)
  BY <1>6, <1>7 DEF Pushes, Keeps, SameWords
<1> HIDE DEF f
<1>8. CASE p.only
  <2>1. q = PushPositional(f, i, text)
    BY <1>3, <1>8 DEF Feed, f
  <2>2. Pushes(p, q, n, text)
    BY <1>1, <1>6, <1>7, <2>1, PushPushes
  <2>3. q.roles[n + 1] = "positional"
    BY <2>2 DEF Pushes
  <2> QED BY <1>3, <1>8, <2>2, <2>3 DEF WordStep
<1>9. CASE ~p.only /\ kind # "word"
  <2>1. Keeps(p, q, n) /\ (kind = "flag" /\ Shape[text].name \notin bools => q.pending # None)
    <3>1. CASE kind = "dashes"
      <4>1. q = Dashed(f)
        BY <1>3, <1>9, <3>1 DEF Feed, Dashed, f
      <4> QED BY <1>6, <3>1, <4>1, MarkKeeps, KeepsTwice
    <3>2. CASE kind = "help"
      <4>1. q = Helped(f)
        BY <1>3, <1>9, <3>2 DEF Feed, Helped, f
      <4> QED BY <1>6, <3>2, <4>1, MarkKeeps, KeepsTwice
    <3>3. CASE kind = "invalid"
      BY <1>9, <1>11, <3>3
    <3>4. CASE kind = "valued"
      <4>1. q = SetFlag(Flagged(p, i), Shape[text].name, Shape[text].value)
        BY <1>3, <1>9, <3>4 DEF Feed
      <4>2. IsParser(Flagged(p, i)) /\ Keeps(p, Flagged(p, i), n)
        BY <1>1, FlaggedKeeps
      <4>3. Keeps(Flagged(p, i), q, n)
        BY <4>1, <4>2, SetFlagKeeps
      <4> QED BY <3>4, <4>2, <4>3, KeepsTwice
    <3>5. CASE kind = "flag"
      <4>1. q = BareFlag(Flagged(p, i), bools, Shape[text].name)
        BY <1>3, <1>9, <3>5 DEF Feed
      <4>2. IsParser(Flagged(p, i)) /\ Keeps(p, Flagged(p, i), n)
        BY <1>1, FlaggedKeeps
      <4>3. Shape[text].name # None
        BY <1>1, <3>5, ShapeAssumption
      <4>4. Keeps(Flagged(p, i), q, n) /\ (Shape[text].name \notin bools => q.pending # None)
        BY <4>1, <4>2, <4>3, BareFlagWaits
      <4> QED BY <4>2, <4>4, KeepsTwice
    <3>6. CASE kind = "bundle"
      <4> DEFINE r == SetBareFlag(f, Shape[text].first)
      <4>1. q = SetBareFlag(r, Shape[text].second)
        BY <1>3, <1>9, <3>6 DEF Feed, f
      <4>2. IsParser(r) /\ Keeps(f, r, n)
        BY <1>6, SetFlagKeeps
      <4> HIDE DEF r
      <4>3. Keeps(r, q, n)
        BY <4>1, <4>2, SetFlagKeeps
      <4> QED BY <1>6, <3>6, <4>2, <4>3, KeepsTwice
    <3> HIDE DEF kind
    <3> QED BY <1>5, <1>9, <3>1, <3>2, <3>3, <3>4, <3>5, <3>6
  <2>2. q.roles[n + 1] \in {"flag", "plain"}
    BY <1>4, <1>5, <1>9, <1>11 DEF RolesRead
  <2> QED BY <1>3, <1>9, <2>1, <2>2 DEF WordStep
<1>10. CASE ~p.only /\ kind = "word"
  <2>1. q = ValueOrPositional(tree, p, i, text)
    BY <1>3, <1>10 DEF Feed
  <2>2. CASE p.pending = None
    <3>1. q = PushPositional(p, i, text)
      BY <2>1, <2>2 DEF ValueOrPositional
    <3>2. Pushes(p, q, n, text)
      BY <1>1, <3>1, PushPushes
    <3>3. q.roles[n + 1] = "positional"
      BY <3>2 DEF Pushes
    <3> QED BY <1>3, <1>10, <2>2, <3>2, <3>3 DEF WordStep
  <2>3. CASE p.pending # None /\ NamesCommand(tree, p.positionals, text)
    <3>1. q = PushPositional(f, i, text)
      BY <2>1, <2>3 DEF ValueOrPositional, f
    <3>2. Pushes(p, q, n, text)
      BY <1>1, <1>6, <1>7, <3>1, PushPushes
    <3>3. q.roles[n + 1] = "positional"
      BY <3>2 DEF Pushes
    <3> QED BY <1>3, <1>10, <2>3, <3>2, <3>3 DEF WordStep
  <2>4. CASE p.pending # None /\ ~NamesCommand(tree, p.positionals, text)
    <3>1. q = SetFlag([p EXCEPT !.pending = None, !.roles[i] = "value"], p.pending, text)
      BY <2>1, <2>4 DEF ValueOrPositional
    <3>2. ValuePut(p, q, i, text)
      BY <1>1, <3>1, ValueFields
    <3>3. SameWords(p, q) /\ RoleSet(p, q, i, "value")
      BY <3>2 DEF ValuePut
    <3>4. q.roles[n + 1] = "value" /\ \A k \in 1..n : q.roles[k] = p.roles[k]
      BY <1>1, <3>3 DEF RoleSet, IsParser
    <3>5. Keeps(p, q, n)
      BY <3>3, <3>4 DEF Keeps
    <3> QED BY <1>3, <1>10, <2>4, <3>4, <3>5 DEF WordStep
  <2> QED BY <2>2, <2>3, <2>4
<1> HIDE DEF kind
<1> QED BY <1>4, <1>8, <1>9, <1>10

LEMMA FeedWordsOf ==
  ASSUME NEW tree, NEW bools, NEW args \in Seq(DOMAIN Shape), NEW n \in 0..(Len(args) - 1),
         NEW p, Reading(p, bools, args, n),
         Feed(tree, bools, p, n + 1, args[n + 1]).error = None
  PROVE  /\ p.error = None
         /\ WordStep(tree, bools, p, Feed(tree, bools, p, n + 1, args[n + 1]), args, n)
<1> DEFINE q == Feed(tree, bools, p, n + 1, args[n + 1])
<1>1. \E r : r = q /\ r = Feed(tree, bools, p, n + 1, args[n + 1]) /\ r.error = None
  OBVIOUS
<1> HIDE DEF q
<1>2. p.error = None /\ WordStep(tree, bools, p, q, args, n)
  BY <1>1, FeedWords
<1> QED BY <1>2 DEF q
-----------------------------------------------------------------------------
(* From the first token to the last.                                       *)
LEMMA UpTo ==
  ASSUME NEW last \in Nat, NEW S, 0 \in S, \A n \in 0..(last - 1) : n \in S => n + 1 \in S
  PROVE  \A n \in 0..last : n \in S
<1> DEFINE T == {n \in Nat : n <= last => n \in S}
<1>1. 0 \in T
  OBVIOUS
<1>2. ASSUME NEW n \in T PROVE n + 1 \in T
  <2>1. n + 1 <= last => n \in 0..(last - 1) /\ n \in S
    BY <1>2
  <2> QED BY <2>1
<1>3. T = Nat
  <2> HIDE DEF T
  <2>1. T \in SUBSET Nat
    BY DEF T
  <2> QED BY <1>1, <1>2, <2>1, UpFromZero
<1> QED BY <1>3

LEMMA FedSteps ==
  ASSUME NEW tree, NEW bools, NEW args \in Seq(DOMAIN Shape), NEW n \in 0..(Len(args) - 1),
         Fed(tree, bools, args)[n + 1].error = None
  PROVE  /\ Fed(tree, bools, args)[n].error = None
         /\ WordStep(tree, bools, Fed(tree, bools, args)[n], Fed(tree, bools, args)[n + 1], args, n)
<1> DEFINE p == Fed(tree, bools, args)[n]
           q == Fed(tree, bools, args)[n + 1]
<1>1. Len(args) \in Nat /\ n \in 0..Len(args) /\ n + 1 \in 1..Len(args) /\ (n + 1) - 1 = n
  OBVIOUS
<1>2. q = Feed(tree, bools, p, n + 1, args[n + 1])
  BY <1>1, FedEquation
<1>3. Reading(p, bools, args, n)
  BY <1>1, FedRead
<1> HIDE DEF p
<1>4. q.error = None
  OBVIOUS
<1> HIDE DEF q
<1>5. p.error = None /\ WordStep(tree, bools, p, q, args, n)
  BY <1>2, <1>3, <1>4, FeedWordsOf
<1> QED BY <1>5 DEF p, q

(* q has read what p had read, and perhaps more.                           *)
(* q has the words of p, and calls the first n tokens what p calls them.   *)
Grown(p, q, n) ==
  /\ p.error = None
  /\ Len(p.indices) <= Len(q.indices)
  /\ \A k \in 1..Len(p.indices) : q.indices[k] = p.indices[k] /\ q.positionals[k] = p.positionals[k]
  /\ \A i \in 1..n : q.roles[i] = p.roles[i]

LEMMA ReadWords ==
  ASSUME NEW p, NEW bools, NEW args, NEW n, Reading(p, bools, args, n), p.error = None
  PROVE  /\ WordsRead(p, args, n)
         /\ p.positionals \in Seq(DOMAIN Shape) /\ p.indices \in Seq(Nat)
         /\ Len(p.positionals) = Len(p.indices) /\ Len(p.indices) \in Nat
BY DEF Reading, HasRead, WordsRead

LEMMA StepGrows ==
  ASSUME NEW p, NEW q, NEW tree, NEW bools, NEW args, NEW n \in Nat, WordStep(tree, bools, p, q, args, n),
         p.positionals \in Seq(DOMAIN Shape), p.indices \in Seq(Nat), args[n + 1] \in DOMAIN Shape,
         Len(p.positionals) = Len(p.indices), p.error = None
  PROVE  Grown(p, q, n)
<1>1. CASE Keeps(p, q, n)
  <2>1. q.indices = p.indices /\ q.positionals = p.positionals
    BY <1>1 DEF Keeps, SameWords
  <2> QED BY <1>1, <2>1 DEF Keeps, Grown
<1>2. CASE Pushes(p, q, n, args[n + 1])
  <2>1. /\ q.indices = Append(p.indices, n + 1) /\ q.positionals = Append(p.positionals, args[n + 1])
        /\ \A i \in 1..n : q.roles[i] = p.roles[i]
    BY <1>2 DEF Pushes
  <2>2. /\ Len(p.indices) <= Len(q.indices)
        /\ \A k \in 1..Len(p.indices) :
             q.indices[k] = p.indices[k] /\ q.positionals[k] = p.positionals[k]
    BY <2>1
  <2> QED BY <2>1, <2>2 DEF Grown
<1> QED BY <1>1, <1>2 DEF WordStep

LEMMA FedGrows ==
  ASSUME NEW tree, NEW bools, NEW args \in Seq(DOMAIN Shape), NEW m \in 0..Len(args),
         Fed(tree, bools, args)[m].error = None, NEW n \in 0..m
  PROVE  Grown(Fed(tree, bools, args)[n], Fed(tree, bools, args)[m], n)
<1> DEFINE fed == Fed(tree, bools, args)
           S == {k \in Nat : fed[k].error = None => \A l \in 0..k : Grown(fed[l], fed[k], l)}
<1>1. Len(args) \in Nat
  OBVIOUS
<1>2. \A k \in 0..Len(args) : Reading(fed[k], bools, args, k)
  BY FedRead
<1>3. \A k \in 0..(Len(args) - 1) :
        fed[k + 1].error = None => fed[k].error = None /\ WordStep(tree, bools, fed[k], fed[k + 1], args, k)
  BY FedSteps
<1>4. fed[m].error = None
  OBVIOUS
<1> HIDE DEF fed
<1>5. \A k \in 0..Len(args) : fed[k].error = None =>
        /\ fed[k].positionals \in Seq(DOMAIN Shape) /\ fed[k].indices \in Seq(Nat)
        /\ Len(fed[k].positionals) = Len(fed[k].indices) /\ Len(fed[k].indices) \in Nat
  BY <1>2, ReadWords
<1>6. 0 \in S
  <2>1. \A l \in 0..0 : l = 0
    OBVIOUS
  <2>2. fed[0].error = None => Grown(fed[0], fed[0], 0)
    BY <1>1, <1>5 DEF Grown
  <2> QED BY <2>1, <2>2
<1>7. ASSUME NEW k \in 0..(Len(args) - 1), k \in S PROVE k + 1 \in S
  <2> SUFFICES ASSUME fed[k + 1].error = None, NEW l \in 0..(k + 1)
               PROVE  Grown(fed[l], fed[k + 1], l)
    BY <1>1
  <2>1. /\ k \in Nat /\ k \in 0..Len(args) /\ k + 1 \in 0..Len(args) /\ args[k + 1] \in DOMAIN Shape
        /\ l \in 0..Len(args)
    BY <1>1
  <2>2. fed[k].error = None /\ WordStep(tree, bools, fed[k], fed[k + 1], args, k)
    BY <1>3
  <2>3. Grown(fed[k], fed[k + 1], k)
    BY <1>5, <2>1, <2>2, StepGrows
  <2>4. CASE l = k + 1
    BY <1>5, <2>1, <2>4 DEF Grown
  <2>5. CASE l \in 0..k
    <3>1. Grown(fed[l], fed[k], l)
      BY <1>7, <2>2, <2>5
    <3>2. fed[l].error = None
      BY <3>1 DEF Grown
    <3>3. /\ Len(fed[l].indices) \in Nat /\ Len(fed[k].indices) \in Nat
          /\ Len(fed[k + 1].indices) \in Nat
      BY <1>5, <2>1, <2>2, <3>2
    <3>4. \A j \in 1..Len(fed[l].indices) : j \in 1..Len(fed[k].indices)
      BY <3>1, <3>3 DEF Grown
    <3>5. \A j \in 1..l : j \in 1..k
      BY <2>5
    <3>6. Len(fed[l].indices) <= Len(fed[k + 1].indices)
      <4>1. Len(fed[l].indices) <= Len(fed[k].indices)
        BY <3>1 DEF Grown
      <4>2. Len(fed[k].indices) <= Len(fed[k + 1].indices)
        BY <2>3 DEF Grown
      <4> DEFINE a == Len(fed[l].indices)
                 b == Len(fed[k].indices)
                 c == Len(fed[k + 1].indices)
      <4>3. a \in Nat /\ b \in Nat /\ c \in Nat /\ a <= b /\ b <= c
        BY <3>3, <4>1, <4>2
      <4> HIDE DEF a, b, c
      <4>4. a <= c
        BY <4>3
      <4> QED BY <4>4 DEF a, c
    <3> QED BY <2>3, <3>1, <3>2, <3>4, <3>5, <3>6 DEF Grown
  <2> QED BY <2>1, <2>4, <2>5
<1>8. \A k \in 0..Len(args) : k \in S
  <2> HIDE DEF S
  <2> QED BY <1>1, <1>6, <1>7, UpTo
<1> QED BY <1>4, <1>8 DEF fed

(* A word after a flag that waits is its value just when it names no       *)
(* command after the words read before it: the first k.                    *)
(* k words come before token i.                                            *)
Split(p, i, k) ==
  /\ k \in 0..Len(p.indices)
  /\ \A l \in 1..Len(p.indices) : l <= k <=> p.indices[l] < i

(* After a flag that may take a value, a word was kept as a word where it  *)
(* names a command, and nowhere else.                                      *)
CommandsRead(p, tree, bools, args, n) ==
  \A i \in Tokens(args, n), k \in Nat : Split(p, i, k) =>
    /\ p.roles[i] = "value" => ~NamesCommand(tree, SubSeq(p.positionals, 1, k), args[i])
    /\ p.roles[i] = "positional" /\ i > 1 /\ Shape[args[i - 1]].kind = "flag"
         /\ Shape[args[i - 1]].name \notin bools
         => NamesCommand(tree, SubSeq(p.positionals, 1, k), args[i])

LEMMA WholeSeq ==
  ASSUME NEW s, NEW R, s \in Seq(R)
  PROVE  SubSeq(s, 1, Len(s)) = s
OBVIOUS

LEMMA FeedCommands ==
  ASSUME NEW tree, NEW bools, NEW args \in Seq(DOMAIN Shape), NEW n \in 0..(Len(args) - 1),
         NEW p, Reading(p, bools, args, n), p.error = None, CommandsRead(p, tree, bools, args, n),
         n > 0 /\ n \in Tokens(args, n) /\ Shape[args[n]].kind = "flag"
           /\ Shape[args[n]].name \notin bools => p.pending # None,
         NEW q, WordStep(tree, bools, p, q, args, n), Reading(q, bools, args, n + 1), q.error = None
  PROVE  CommandsRead(q, tree, bools, args, n + 1)
<1> SUFFICES ASSUME NEW i \in Tokens(args, n + 1), NEW k \in Nat, Split(q, i, k)
             PROVE  /\ q.roles[i] = "value" =>
                         ~NamesCommand(tree, SubSeq(q.positionals, 1, k), args[i])
                    /\ q.roles[i] = "positional" /\ i > 1 /\ Shape[args[i - 1]].kind = "flag"
                         /\ Shape[args[i - 1]].name \notin bools
                         => NamesCommand(tree, SubSeq(q.positionals, 1, k), args[i])
  BY DEF CommandsRead
<1>1. /\ WordsRead(p, args, n) /\ Len(p.positionals) = Len(p.indices) /\ Len(p.indices) \in Nat
      /\ p.positionals \in Seq(DOMAIN Shape) /\ p.indices \in Seq(Nat)
  BY ReadWords
<1>2. n \in Nat /\ args[n + 1] \in DOMAIN Shape
  OBVIOUS
<1>3. Grown(p, q, n)
  BY <1>1, <1>2, StepGrows
<1>4. /\ Len(q.positionals) = Len(q.indices) /\ Len(q.indices) \in Nat
      /\ q.positionals \in Seq(DOMAIN Shape) /\ q.indices \in Seq(Nat)
  BY ReadWords
<1>5. \A l \in 1..Len(p.indices) : p.indices[l] \in 1..n
  BY <1>1 DEF WordsRead
<1>6. \/ Len(q.indices) = Len(p.indices)
      \/ Len(q.indices) = Len(p.indices) + 1 /\ q.indices[Len(p.indices) + 1] = n + 1
  BY <1>1 DEF WordStep, Keeps, SameWords, Pushes
<1>7. i \in 1..(n + 1)
  BY DEF Tokens
<1>8. Split(p, i, k)
  <2>1. k <= Len(p.indices)
    <3> SUFFICES ASSUME k = Len(p.indices) + 1, Len(q.indices) = k PROVE FALSE
      BY <1>1, <1>6 DEF Split
    <3>1. k \in 1..Len(q.indices) /\ q.indices[k] = n + 1
      BY <1>1, <1>6
    <3>2. q.indices[k] < i
      BY <3>1 DEF Split
    <3> QED BY <1>2, <1>7, <3>1, <3>2
  <2>2. k \in 0..Len(p.indices) /\ \A l \in 1..Len(p.indices) : l \in 1..Len(q.indices)
    BY <1>1, <1>6, <2>1
  <2>3. \A l \in 1..Len(p.indices) : q.indices[l] = p.indices[l]
    BY <1>3 DEF Grown
  <2> QED BY <2>2, <2>3 DEF Split
<1>9. SubSeq(q.positionals, 1, k) = SubSeq(p.positionals, 1, k)
  <2>1. k <= Len(p.positionals) /\ k <= Len(q.positionals)
    BY <1>1, <1>4, <1>8 DEF Split
  <2>2. \A l \in 1..k : q.positionals[l] = p.positionals[l]
    BY <1>1, <1>3, <2>1 DEF Grown
  <2> QED BY <1>1, <1>4, <2>1, <2>2
<1>10. CASE i \in 1..n
  <2>1. i \in Tokens(args, n)
    BY <1>2, <1>10 DEF Tokens
  <2>2. q.roles[i] = p.roles[i]
    BY <1>3, <1>10 DEF Grown
  <2> QED BY <1>8, <1>9, <2>1, <2>2 DEF CommandsRead
<1>11. CASE i = n + 1
  <2>1. k = Len(p.indices)
    <3>1. CASE Len(p.indices) = 0
      BY <1>8, <3>1 DEF Split
    <3>2. CASE Len(p.indices) > 0
      BY <1>1, <1>5, <1>8, <1>11, <3>2 DEF Split
    <3> QED BY <1>1, <3>1, <3>2
  <2>2. SubSeq(q.positionals, 1, k) = p.positionals
    BY <1>1, <1>9, <2>1, WholeSeq
  <2>3. q.roles[i] = "value" => ~NamesCommand(tree, p.positionals, args[i])
    BY <1>11 DEF WordStep
  <2>4. ASSUME q.roles[i] = "positional", i > 1, Shape[args[i - 1]].kind = "flag",
               Shape[args[i - 1]].name \notin bools
        PROVE  NamesCommand(tree, p.positionals, args[i])
    <3>1. i - 1 = n /\ n > 0
      BY <1>2, <1>11, <2>4
    <3>2. n \in Tokens(args, n)
      BY <1>2, <1>11, <3>1 DEF Tokens
    <3>3. p.pending # None
      BY <2>4, <3>1, <3>2
    <3>4. ~p.only
      <4>1. MarksRead(p, args, n)
        BY DEF Reading, HasRead
      <4> QED BY <1>2, <1>11, <4>1, OnlyTokens
    <3> QED BY <1>11, <2>4, <3>3, <3>4 DEF WordStep
  <2> QED BY <2>2, <2>3, <2>4
<1> QED BY <1>2, <1>7, <1>10, <1>11

LEMMA FedCommands ==
  ASSUME NEW tree, NEW bools, NEW args \in Seq(DOMAIN Shape), NEW m \in 0..Len(args),
         Fed(tree, bools, args)[m].error = None
  PROVE  CommandsRead(Fed(tree, bools, args)[m], tree, bools, args, m)
<1> DEFINE fed == Fed(tree, bools, args)
           Waits(n) == n > 0 /\ n \in Tokens(args, n) /\ Shape[args[n]].kind = "flag"
                         /\ Shape[args[n]].name \notin bools => fed[n].pending # None
           S == {n \in Nat : fed[n].error = None =>
                               CommandsRead(fed[n], tree, bools, args, n) /\ Waits(n)}
<1>1. Len(args) \in Nat
  OBVIOUS
<1>2. \A k \in 0..Len(args) : Reading(fed[k], bools, args, k)
  BY FedRead
<1>3. \A k \in 0..(Len(args) - 1) :
        fed[k + 1].error = None => fed[k].error = None /\ WordStep(tree, bools, fed[k], fed[k + 1], args, k)
  BY FedSteps
<1>4. fed[m].error = None
  OBVIOUS
<1> HIDE DEF fed
<1>5. 0 \in S
  BY DEF CommandsRead, Tokens
<1>6. ASSUME NEW n \in 0..(Len(args) - 1), n \in S PROVE n + 1 \in S
  <2> SUFFICES ASSUME fed[n + 1].error = None
               PROVE  CommandsRead(fed[n + 1], tree, bools, args, n + 1) /\ Waits(n + 1)
    BY <1>1
  <2>1. n \in Nat /\ n \in 0..Len(args) /\ n + 1 \in 0..Len(args)
    BY <1>1
  <2>2. fed[n].error = None /\ WordStep(tree, bools, fed[n], fed[n + 1], args, n)
    BY <1>3
  <2>3. Reading(fed[n], bools, args, n) /\ Reading(fed[n + 1], bools, args, n + 1)
    BY <1>2, <2>1
  <2>4. CommandsRead(fed[n], tree, bools, args, n) /\ Waits(n)
    BY <1>6, <2>2
  <2>5. CommandsRead(fed[n + 1], tree, bools, args, n + 1)
    BY <2>1, <2>2, <2>3, <2>4, FeedCommands
  <2>6. Waits(n + 1)
    <3> SUFFICES ASSUME n + 1 \in Tokens(args, n + 1), Shape[args[n + 1]].kind = "flag",
                        Shape[args[n + 1]].name \notin bools
                 PROVE  fed[n + 1].pending # None
      OBVIOUS
    <3>1. ~fed[n].only
      <4>1. MarksRead(fed[n], args, n)
        BY <2>2, <2>3 DEF Reading, HasRead
      <4> QED BY <2>1, <4>1, OnlyTokens
    <3> QED BY <2>2, <3>1 DEF WordStep
  <2> QED BY <2>5, <2>6
<1>7. \A n \in 0..Len(args) : n \in S
  <2> HIDE DEF S
  <2> QED BY <1>1, <1>5, <1>6, UpTo
<1> QED BY <1>4, <1>7 DEF fed
-----------------------------------------------------------------------------
(* Two parses of lines that begin alike, or that know other booleans.      *)

(* All that p and q hold but the roles of the tokens. *)
Alike(p, q) ==
  /\ q.flags = p.flags /\ q.bare = p.bare
  /\ q.positionals = p.positionals /\ q.indices = p.indices
  /\ q.help = p.help /\ q.only = p.only /\ q.pending = p.pending /\ q.error = p.error

LEMMA SetFlagAlike ==
  ASSUME NEW p, IsParser(p), NEW q, IsParser(q), Alike(p, q), NEW key, NEW value
  PROVE  Alike(SetFlag(p, key, value), SetFlag(q, key, value))
<1> DEFINE r == SetFlag(p, key, value)
           s == SetFlag(q, key, value)
<1>1. /\ SameMarks(p, r) /\ SameWords(p, r) /\ r.pending = p.pending /\ r.bare = p.bare
      /\ r.error = IF key \in DOMAIN p.flags THEN "repeated" ELSE p.error
      /\ r.flags = IF key \in DOMAIN p.flags THEN p.flags
                   ELSE [k \in DOMAIN p.flags \cup {key} |-> IF k = key THEN value ELSE p.flags[k]]
  BY SetFlagFields
<1>2. /\ SameMarks(q, s) /\ SameWords(q, s) /\ s.pending = q.pending /\ s.bare = q.bare
      /\ s.error = IF key \in DOMAIN q.flags THEN "repeated" ELSE q.error
      /\ s.flags = IF key \in DOMAIN q.flags THEN q.flags
                   ELSE [k \in DOMAIN q.flags \cup {key} |-> IF k = key THEN value ELSE q.flags[k]]
  BY SetFlagFields
<1> HIDE DEF r, s
<1>3. Alike(r, s)
  BY <1>1, <1>2 DEF Alike, SameMarks, SameWords
<1> QED BY <1>3 DEF r, s

LEMMA BareFields ==
  ASSUME NEW p, IsParser(p), NEW x
  PROVE  LET q == [p EXCEPT !.bare = x] IN
         /\ IsParser(q) /\ SameWords(p, q) /\ q.roles = p.roles
         /\ SameMarks(p, q) /\ q.pending = p.pending /\ q.error = p.error
         /\ q.bare = x /\ q.flags = p.flags
BY DEF IsParser, SameWords, SameMarks

LEMMA SetBareFlagAlike ==
  ASSUME NEW p, IsParser(p), NEW q, IsParser(q), Alike(p, q), NEW key
  PROVE  Alike(SetBareFlag(p, key), SetBareFlag(q, key))
<1> DEFINE r == [p EXCEPT !.bare = p.bare \cup {key}]
           s == [q EXCEPT !.bare = q.bare \cup {key}]
<1>1. /\ IsParser(r) /\ SameMarks(p, r) /\ SameWords(p, r) /\ r.pending = p.pending
      /\ r.error = p.error /\ r.flags = p.flags /\ r.bare = p.bare \cup {key}
  BY BareFields
<1>2. /\ IsParser(s) /\ SameMarks(q, s) /\ SameWords(q, s) /\ s.pending = q.pending
      /\ s.error = q.error /\ s.flags = q.flags /\ s.bare = q.bare \cup {key}
  BY BareFields
<1>3. SetBareFlag(p, key) = SetFlag(r, key, "true") /\ SetBareFlag(q, key) = SetFlag(s, key, "true")
  BY DEF SetBareFlag
<1> HIDE DEF r, s
<1>4. Alike(r, s)
  BY <1>1, <1>2 DEF Alike, SameMarks, SameWords
<1> QED BY <1>1, <1>2, <1>3, <1>4, SetFlagAlike

LEMMA FlushAlike ==
  ASSUME NEW p, IsParser(p), NEW q, IsParser(q), Alike(p, q)
  PROVE  Alike(FlushPending(p), FlushPending(q))
<1>1. CASE p.pending = None
  BY <1>1 DEF FlushPending, Alike
<1>2. CASE p.pending # None
  <2> DEFINE r == [p EXCEPT !.pending = None]
             s == [q EXCEPT !.pending = None]
  <2>1. Pends(p, r, None) /\ Pends(q, s, None)
    BY PendingPends
  <2>2. FlushPending(p) = SetBareFlag(r, p.pending) /\ FlushPending(q) = SetBareFlag(s, p.pending)
    BY <1>2 DEF FlushPending, Alike
  <2> HIDE DEF r, s
  <2>3. Alike(r, s) /\ IsParser(r) /\ IsParser(s)
    BY <2>1 DEF Alike, Pends, SameMarks, SameWords
  <2> QED BY <2>2, <2>3, SetBareFlagAlike
<1> QED BY <1>1, <1>2

(* What a push changes but the roles. *)
PushOf(p, q, i, text) ==
  /\ SameMarks(p, q) /\ q.pending = p.pending /\ q.error = p.error
  /\ q.bare = p.bare /\ q.flags = p.flags
  /\ q.positionals = Append(p.positionals, text) /\ q.indices = Append(p.indices, i)

LEMMA PushIsPush ==
  ASSUME NEW p, IsParser(p), NEW i \in DOMAIN p.roles, NEW text
  PROVE  PushOf(p, PushPositional(p, i, text), i, text)
<1> DEFINE q == PushPositional(p, i, text)
<1>1. /\ SameMarks(p, q) /\ q.pending = p.pending /\ q.error = p.error
      /\ q.bare = p.bare /\ q.flags = p.flags
      /\ q.positionals = Append(p.positionals, text) /\ q.indices = Append(p.indices, i)
      /\ q.roles = [p.roles EXCEPT ![i] = "positional"]
  BY PushFields
<1> HIDE DEF q
<1>2. PushOf(p, q, i, text)
  BY <1>1 DEF PushOf
<1> QED BY <1>2 DEF q

LEMMA PushAlike ==
  ASSUME NEW p, IsParser(p), NEW q, IsParser(q), Alike(p, q),
         NEW i, i \in DOMAIN p.roles, i \in DOMAIN q.roles, NEW text
  PROVE  Alike(PushPositional(p, i, text), PushPositional(q, i, text))
<1> DEFINE r == PushPositional(p, i, text)
           s == PushPositional(q, i, text)
<1>1. PushOf(p, r, i, text) /\ PushOf(q, s, i, text)
  BY PushIsPush
<1> HIDE DEF r, s
<1>2. Alike(r, s)
  BY <1>1 DEF Alike, PushOf, SameMarks
<1> QED BY <1>2 DEF r, s

LEMMA FlaggedAlike ==
  ASSUME NEW p, IsParser(p), NEW q, IsParser(q), Alike(p, q),
         NEW i, i \in DOMAIN p.roles, i \in DOMAIN q.roles
  PROVE  Alike(Flagged(p, i), Flagged(q, i)) /\ IsParser(Flagged(p, i)) /\ IsParser(Flagged(q, i))
<1> DEFINE r == Flagged(p, i)
           s == Flagged(q, i)
           f == FlushPending(p)
           g == FlushPending(q)
<1>1. /\ IsParser(r) /\ SameMarks(f, r) /\ SameWords(f, r) /\ r.pending = None
      /\ r.error = f.error /\ r.bare = f.bare /\ r.flags = f.flags
  BY FlaggedFields
<1>2. /\ IsParser(s) /\ SameMarks(g, s) /\ SameWords(g, s) /\ s.pending = None
      /\ s.error = g.error /\ s.bare = g.bare /\ s.flags = g.flags
  BY FlaggedFields
<1>3. Alike(f, g)
  BY FlushAlike
<1> HIDE DEF r, s, f, g
<1>4. Alike(r, s)
  BY <1>1, <1>2, <1>3 DEF Alike, SameMarks, SameWords
<1> QED BY <1>1, <1>2, <1>4 DEF r, s

LEMMA FieldAlike ==
  ASSUME NEW p, IsParser(p), NEW q, IsParser(q), Alike(p, q), NEW x
  PROVE  /\ Alike(Dashed(p), Dashed(q)) /\ Alike(Helped(p), Helped(q))
         /\ Alike([p EXCEPT !.error = x], [q EXCEPT !.error = x])
         /\ Alike([p EXCEPT !.pending = x], [q EXCEPT !.pending = x])
<1>1. Alike(Dashed(p), Dashed(q))
  BY OnlyFields DEF Dashed, Alike, SameWords
<1>2. Alike(Helped(p), Helped(q))
  BY HelpFields DEF Helped, Alike, SameWords
<1>3. Alike([p EXCEPT !.error = x], [q EXCEPT !.error = x])
  BY ErrorFields DEF Alike, SameWords, SameMarks
<1>4. Alike([p EXCEPT !.pending = x], [q EXCEPT !.pending = x])
  BY PendingFields DEF Alike, SameWords, SameMarks
<1> QED BY <1>1, <1>2, <1>3, <1>4

LEMMA BareFlagAlike ==
  ASSUME NEW p, IsParser(p), NEW q, IsParser(q), Alike(p, q), NEW bools, NEW name
  PROVE  Alike(BareFlag(p, bools, name), BareFlag(q, bools, name))
<1>1. CASE name \in bools
  BY <1>1, SetBareFlagAlike DEF BareFlag
<1>2. CASE name \notin bools /\ name \in DOMAIN p.flags
  BY <1>2, FieldAlike DEF BareFlag, Alike
<1>3. CASE name \notin bools /\ name \notin DOMAIN p.flags
  BY <1>3, FieldAlike DEF BareFlag, Alike
<1> QED BY <1>1, <1>2, <1>3

LEMMA ValueAlike ==
  ASSUME NEW p, IsParser(p), NEW q, IsParser(q), Alike(p, q),
         NEW i, i \in DOMAIN p.roles, i \in DOMAIN q.roles, NEW text
  PROVE  Alike(SetFlag([p EXCEPT !.pending = None, !.roles[i] = "value"], p.pending, text),
               SetFlag([q EXCEPT !.pending = None, !.roles[i] = "value"], q.pending, text))
<1> DEFINE roles == [p.roles EXCEPT ![i] = "value"]
           others == [q.roles EXCEPT ![i] = "value"]
           a == [p EXCEPT !.pending = None]
           b == [q EXCEPT !.pending = None]
           r == [a EXCEPT !.roles = roles]
           s == [b EXCEPT !.roles = others]
<1>1. Pends(p, a, None) /\ Pends(q, b, None)
  BY PendingPends
<1>2. /\ [p EXCEPT !.pending = None, !.roles[i] = "value"] = r
      /\ [q EXCEPT !.pending = None, !.roles[i] = "value"] = s
  OBVIOUS
<1>3. /\ roles = [j \in DOMAIN roles |-> roles[j]]
      /\ others = [j \in DOMAIN others |-> others[j]]
  OBVIOUS
<1> HIDE DEF a, b, roles, others
<1>4. /\ IsParser(r) /\ SameWords(a, r) /\ SameMarks(a, r)
      /\ r.pending = a.pending /\ r.error = a.error /\ r.bare = a.bare /\ r.flags = a.flags
  BY <1>1, <1>3, RoleFields DEF Pends
<1>5. /\ IsParser(s) /\ SameWords(b, s) /\ SameMarks(b, s)
      /\ s.pending = b.pending /\ s.error = b.error /\ s.bare = b.bare /\ s.flags = b.flags
  BY <1>1, <1>3, RoleFields DEF Pends
<1> HIDE DEF r, s
<1>6. Alike(r, s) /\ p.pending = q.pending
  BY <1>1, <1>4, <1>5 DEF Alike, Pends, SameMarks, SameWords
<1>7. Alike(SetFlag(r, p.pending, text), SetFlag(s, q.pending, text))
  BY <1>4, <1>5, <1>6, SetFlagAlike
<1> QED BY <1>2, <1>7

(* The other ways in which a token changes a parser. *)
Refused(p) == [p EXCEPT !.error = "invalid"]

GivenValue(p, i, text) == SetFlag([p EXCEPT !.pending = None, !.roles[i] = "value"], p.pending, text)

LEMMA OthersAlike ==
  ASSUME NEW p, IsParser(p), NEW q, IsParser(q), Alike(p, q)
  PROVE  /\ Alike(Dashed(p), Dashed(q)) /\ Alike(Helped(p), Helped(q))
         /\ Alike(Refused(p), Refused(q))
         /\ \A i, text : i \in DOMAIN p.roles /\ i \in DOMAIN q.roles =>
              Alike(GivenValue(p, i, text), GivenValue(q, i, text))
<1>1. Alike(Dashed(p), Dashed(q)) /\ Alike(Helped(p), Helped(q))
  BY FieldAlike
<1>2. Alike(Refused(p), Refused(q))
  BY FieldAlike DEF Refused
<1>3. \A i, text : i \in DOMAIN p.roles /\ i \in DOMAIN q.roles =>
        Alike(GivenValue(p, i, text), GivenValue(q, i, text))
  BY ValueAlike DEF GivenValue
<1> QED BY <1>1, <1>2, <1>3

LEMMA FeedAlike ==
  ASSUME NEW tree, NEW bools, NEW p, IsParser(p), NEW q, IsParser(q), Alike(p, q),
         NEW i, i \in DOMAIN p.roles, i \in DOMAIN q.roles, NEW text \in DOMAIN Shape
  PROVE  Alike(Feed(tree, bools, p, i, text), Feed(tree, bools, q, i, text))
<1> DEFINE kind == Shape[text].kind
           f == FlushPending(p)
           g == FlushPending(q)
<1>1. /\ p.error = q.error /\ p.only = q.only /\ p.pending = q.pending
      /\ p.positionals = q.positionals
  BY DEF Alike
<1>2. Alike(f, g) /\ IsParser(f) /\ IsParser(g) /\ i \in DOMAIN f.roles /\ i \in DOMAIN g.roles
  BY FlushAlike, FlushFields
<1>3. kind \in {"word", "dashes", "help", "invalid", "flag", "valued", "bundle"}
  BY ShapeAssumption
<1>4. CASE p.error # None
  BY <1>1, <1>4 DEF Feed
<1>5. CASE p.error = None /\ p.only
  <2>1. /\ Feed(tree, bools, p, i, text) = PushPositional(f, i, text)
        /\ Feed(tree, bools, q, i, text) = PushPositional(g, i, text)
    BY <1>1, <1>5 DEF Feed
  <2> HIDE DEF f, g
  <2> QED BY <1>2, <2>1, PushAlike
<1>6. CASE p.error = None /\ ~p.only
  <2>1. CASE kind = "dashes"
    <3>1. /\ Feed(tree, bools, p, i, text) = Dashed(f)
          /\ Feed(tree, bools, q, i, text) = Dashed(g)
      BY <1>1, <1>6, <2>1 DEF Feed, Dashed
    <3> HIDE DEF f, g
    <3> QED BY <1>2, <3>1, OthersAlike
  <2>2. CASE kind = "help"
    <3>1. /\ Feed(tree, bools, p, i, text) = Helped(f)
          /\ Feed(tree, bools, q, i, text) = Helped(g)
      BY <1>1, <1>6, <2>2 DEF Feed, Helped
    <3> HIDE DEF f, g
    <3> QED BY <1>2, <3>1, OthersAlike
  <2>3. CASE kind = "invalid"
    <3>1. /\ Feed(tree, bools, p, i, text) = Refused(p)
          /\ Feed(tree, bools, q, i, text) = Refused(q)
      BY <1>1, <1>6, <2>3 DEF Feed, Refused
    <3> QED BY <3>1, OthersAlike
  <2>4. CASE kind = "valued"
    <3>1. /\ Feed(tree, bools, p, i, text) =
               SetFlag(Flagged(p, i), Shape[text].name, Shape[text].value)
          /\ Feed(tree, bools, q, i, text) =
               SetFlag(Flagged(q, i), Shape[text].name, Shape[text].value)
      BY <1>1, <1>6, <2>4 DEF Feed
    <3> QED BY <3>1, FlaggedAlike, SetFlagAlike
  <2>5. CASE kind = "flag"
    <3>1. /\ Feed(tree, bools, p, i, text) = BareFlag(Flagged(p, i), bools, Shape[text].name)
          /\ Feed(tree, bools, q, i, text) = BareFlag(Flagged(q, i), bools, Shape[text].name)
      BY <1>1, <1>6, <2>5 DEF Feed
    <3> QED BY <3>1, FlaggedAlike, BareFlagAlike
  <2>6. CASE kind = "bundle"
    <3> DEFINE r == SetBareFlag(f, Shape[text].first)
               s == SetBareFlag(g, Shape[text].first)
    <3>1. /\ Feed(tree, bools, p, i, text) = SetBareFlag(r, Shape[text].second)
          /\ Feed(tree, bools, q, i, text) = SetBareFlag(s, Shape[text].second)
      BY <1>1, <1>6, <2>6 DEF Feed
    <3>2. Alike(r, s) /\ IsParser(r) /\ IsParser(s)
      <4> HIDE DEF f, g
      <4> QED BY <1>2, SetBareFlagAlike, SetFlagKeeps
    <3> HIDE DEF r, s
    <3> QED BY <3>1, <3>2, SetBareFlagAlike
  <2>7. CASE kind = "word"
    <3>1. /\ Feed(tree, bools, p, i, text) = ValueOrPositional(tree, p, i, text)
          /\ Feed(tree, bools, q, i, text) = ValueOrPositional(tree, q, i, text)
      BY <1>1, <1>6, <2>7 DEF Feed
    <3>2. CASE p.pending = None
      BY <1>1, <3>1, <3>2, PushAlike DEF ValueOrPositional
    <3>3. CASE p.pending # None /\ NamesCommand(tree, p.positionals, text)
      <4>1. /\ Feed(tree, bools, p, i, text) = PushPositional(f, i, text)
            /\ Feed(tree, bools, q, i, text) = PushPositional(g, i, text)
        BY <1>1, <3>1, <3>3 DEF ValueOrPositional
      <4> HIDE DEF f, g
      <4> QED BY <1>2, <4>1, PushAlike
    <3>4. CASE p.pending # None /\ ~NamesCommand(tree, p.positionals, text)
      <4>1. /\ Feed(tree, bools, p, i, text) = GivenValue(p, i, text)
            /\ Feed(tree, bools, q, i, text) = GivenValue(q, i, text)
        BY <1>1, <3>1, <3>4 DEF ValueOrPositional, GivenValue
      <4> QED BY <4>1, OthersAlike
    <3> QED BY <3>2, <3>3, <3>4
  <2> HIDE DEF kind
  <2> QED BY <1>3, <2>1, <2>2, <2>3, <2>4, <2>5, <2>6, <2>7
<1> QED BY <1>4, <1>5, <1>6

LEMMA ReadingParser ==
  ASSUME NEW p, NEW bools, NEW args, NEW n, Reading(p, bools, args, n)
  PROVE  IsParser(p) /\ DOMAIN p.roles = DOMAIN args
BY DEF Reading

(* A line that begins as another is read alike until it ends.              *)
LEMMA PrefixAlike ==
  ASSUME NEW tree, NEW bools, NEW args \in Seq(DOMAIN Shape), NEW m \in 0..Len(args)
  PROVE  \A n \in 0..m :
           Alike(Fed(tree, bools, args)[n], Fed(tree, bools, SubSeq(args, 1, m))[n])
<1> DEFINE part == SubSeq(args, 1, m)
           fed == Fed(tree, bools, args)
           fep == Fed(tree, bools, part)
           S == {n \in Nat : Alike(fed[n], fep[n])}
<1>1. /\ Len(args) \in Nat /\ m \in Nat /\ part \in Seq(DOMAIN Shape) /\ Len(part) = m
      /\ \A i \in 1..m : part[i] = args[i]
  OBVIOUS
<1> HIDE DEF part
<1>2. /\ fed[0] = NewParser(args) /\ fep[0] = NewParser(part)
      /\ \A n \in 1..m : fed[n] = Feed(tree, bools, fed[n - 1], n, args[n])
      /\ \A n \in 1..m : fep[n] = Feed(tree, bools, fep[n - 1], n, part[n])
  BY <1>1, FedEquation
<1>3. /\ \A n \in 0..m : Reading(fed[n], bools, args, n)
      /\ \A n \in 0..m : Reading(fep[n], bools, part, n)
  BY <1>1, FedRead
<1> HIDE DEF fed, fep
<1>4. 0 \in S
  <2>1. Alike(NewParser(args), NewParser(part))
    BY DEF NewParser, Alike
  <2> QED BY <1>2, <2>1
<1>5. ASSUME NEW n \in 0..(m - 1), n \in S PROVE n + 1 \in S
  <2>1. /\ n \in 0..m /\ n + 1 \in 1..m /\ (n + 1) - 1 = n /\ n + 1 \in Nat
        /\ n + 1 \in DOMAIN args /\ n + 1 \in DOMAIN part /\ args[n + 1] \in DOMAIN Shape
    BY <1>1
  <2>2. /\ IsParser(fed[n]) /\ IsParser(fep[n])
        /\ n + 1 \in DOMAIN fed[n].roles /\ n + 1 \in DOMAIN fep[n].roles
    BY <1>3, <2>1, ReadingParser
  <2>3. Alike(Feed(tree, bools, fed[n], n + 1, args[n + 1]),
              Feed(tree, bools, fep[n], n + 1, args[n + 1]))
    BY <1>5, <2>1, <2>2, FeedAlike
  <2>4. /\ fed[n + 1] = Feed(tree, bools, fed[n], n + 1, args[n + 1])
        /\ fep[n + 1] = Feed(tree, bools, fep[n], n + 1, args[n + 1])
    BY <1>1, <1>2, <2>1
  <2> QED BY <2>1, <2>3, <2>4
<1>6. \A n \in 0..m : n \in S
  <2> HIDE DEF S
  <2> QED BY <1>1, <1>4, <1>5, UpTo
<1> QED BY <1>6 DEF fed, fep, part

(* Booleans matter for the bare flags that only one of two sets has.       *)
LEMMA BoolsAlike ==
  ASSUME NEW tree, NEW bools, NEW others, NEW args \in Seq(DOMAIN Shape), NEW m \in 0..Len(args),
         \A i \in 1..m : Shape[args[i]].kind = "flag" =>
           (Shape[args[i]].name \in bools <=> Shape[args[i]].name \in others)
  PROVE  Fed(tree, bools, args)[m] = Fed(tree, others, args)[m]
<1> DEFINE fed == Fed(tree, bools, args)
           feo == Fed(tree, others, args)
           S == {n \in Nat : fed[n] = feo[n]}
<1>1. Len(args) \in Nat /\ m \in Nat
  OBVIOUS
<1>2. /\ fed[0] = NewParser(args) /\ feo[0] = NewParser(args)
      /\ \A n \in 1..m : fed[n] = Feed(tree, bools, fed[n - 1], n, args[n])
      /\ \A n \in 1..m : feo[n] = Feed(tree, others, feo[n - 1], n, args[n])
  BY <1>1, FedEquation
<1> HIDE DEF fed, feo
<1>3. 0 \in S
  BY <1>2
<1>4. ASSUME NEW n \in 0..(m - 1), n \in S PROVE n + 1 \in S
  <2>1. n + 1 \in 1..m /\ (n + 1) - 1 = n
    BY <1>1
  <2>2. Feed(tree, bools, fed[n], n + 1, args[n + 1]) = Feed(tree, others, fed[n], n + 1, args[n + 1])
    BY <2>1 DEF Feed, BareFlag
  <2>3. /\ fed[n + 1] = Feed(tree, bools, fed[n], n + 1, args[n + 1])
        /\ feo[n + 1] = Feed(tree, others, feo[n], n + 1, args[n + 1])
    BY <1>2, <2>1
  <2>4. fed[n] = feo[n]
    BY <1>4
  <2> QED BY <2>1, <2>2, <2>3, <2>4
<1>5. \A n \in 0..m : n \in S
  <2> HIDE DEF S
  <2> QED BY <1>1, <1>3, <1>4, UpTo
<1> QED BY <1>1, <1>5 DEF fed, feo
-----------------------------------------------------------------------------
(* The walk down the tree.                                                 *)
LEMMA FirstIs ==
  ASSUME NEW S \in SUBSET Nat, S # {}
  PROVE  First(S) \in S /\ \A k \in S : First(S) <= k
<1>1. \E n \in S : \A k \in S : n <= k
  BY LeastNat
<1> QED BY <1>1 DEF First

LEMMA LongestIs ==
  ASSUME NEW last \in Nat, NEW S \in SUBSET (0..last), S # {}
  PROVE  Longest(S) \in S /\ \A k \in S : k <= Longest(S)
<1> DEFINE T == {last - n : n \in S}
<1>1. T \in SUBSET Nat /\ T # {}
  <2>1. \A n \in S : last - n \in Nat
    OBVIOUS
  <2>2. PICK n \in S : TRUE
    OBVIOUS
  <2>3. last - n \in T
    BY <2>2
  <2>4. \A t \in T : \E k \in S : t = last - k
    OBVIOUS
  <2> HIDE DEF T
  <2> QED BY <2>1, <2>3, <2>4
<1>2. PICK t \in T : \A k \in T : t <= k
  <2> HIDE DEF T
  <2> QED BY <1>1, LeastNat
<1>3. PICK n \in S : t = last - n
  BY <1>2
<1>4. \A k \in S : k <= n
  <2> SUFFICES ASSUME NEW k \in S PROVE k <= n
    OBVIOUS
  <2>1. last - k \in T
    OBVIOUS
  <2>2. t <= last - k
    BY <1>2, <2>1
  <2> QED BY <1>3, <2>2
<1>5. \E m \in S : \A k \in S : k <= m
  BY <1>4
<1> QED BY <1>5 DEF Longest

LEMMA ResolveIs ==
  ASSUME NEW tree, IsTree(tree), NEW words \in Seq(DOMAIN Shape)
  PROVE  LET path == Resolve(tree, words) IN
         /\ path \in Seq(DOMAIN Shape) /\ Len(path) \in 0..Len(words)
         /\ path = SubSeq(words, 1, Len(path))
         /\ path # <<>> => path \in DOMAIN tree
         /\ \A k \in 1..Len(words) : SubSeq(words, 1, k) \in DOMAIN tree <=> k <= Len(path)
<1> DEFINE S == {n \in 0..Len(words) : n = 0 \/ SubSeq(words, 1, n) \in DOMAIN tree}
           d == Longest(S)
           path == Resolve(tree, words)
<1>1. d \in S /\ \A k \in S : k <= d
  <2>1. Len(words) \in Nat /\ S \in SUBSET (0..Len(words)) /\ 0 \in S
    OBVIOUS
  <2> HIDE DEF S
  <2> QED BY <2>1, LongestIs
<1>2. path = SubSeq(words, 1, d)
  BY DEF Resolve
<1> HIDE DEF d, path
<1>3. /\ d \in 0..Len(words) /\ Len(words) \in Nat /\ path \in Seq(DOMAIN Shape)
      /\ Len(path) = d /\ \A n \in 1..d : path[n] = words[n]
  BY <1>1, <1>2
<1>4. path # <<>> => path \in DOMAIN tree
  BY <1>1, <1>2, <1>3
<1>5. ASSUME NEW k \in 1..Len(words), SubSeq(words, 1, k) \in DOMAIN tree
      PROVE  k <= d
  BY <1>1, <1>5
<1>6. ASSUME NEW k \in 1..Len(words), k <= d
      PROVE  SubSeq(words, 1, k) \in DOMAIN tree
  <2>1. path # <<>> /\ path \in DOMAIN tree /\ k \in DOMAIN path
    BY <1>3, <1>4, <1>6
  <2>2. SubSeq(path, 1, k) \in DOMAIN tree
    BY <2>1 DEF IsTree
  <2>3. SubSeq(path, 1, k) = SubSeq(words, 1, k)
    BY <1>3, <1>6
  <2> QED BY <2>2, <2>3
<1>7. \A k \in 1..Len(words) : SubSeq(words, 1, k) \in DOMAIN tree <=> k <= d
  BY <1>5, <1>6
<1> QED BY <1>2, <1>3, <1>4, <1>7 DEF path

LEMMA NoWords ==
  ASSUME NEW tree
  PROVE  Resolve(tree, <<>>) = <<>>
<1>1. {n \in 0..Len(<<>>) : n = 0 \/ SubSeq(<<>>, 1, n) \in DOMAIN tree} = {0}
  OBVIOUS
<1>2. Longest({0}) = 0
  BY DEF Longest
<1> QED BY <1>1, <1>2 DEF Resolve

LEMMA SubSeqOfSubSeq ==
  ASSUME NEW R, NEW s \in Seq(R), NEW n \in 0..Len(s), NEW k \in 0..n
  PROVE  SubSeq(SubSeq(s, 1, n), 1, k) = SubSeq(s, 1, k)
OBVIOUS
-----------------------------------------------------------------------------
(* What a parse that has no error read, token by token.                    *)
LEMMA ParseWords ==
  ASSUME NEW tree, NEW bools, NEW args \in Seq(DOMAIN Shape),
         Parse(tree, bools, args).error = None
  PROVE  /\ \A n \in 0..Len(args) :
              Grown(Fed(tree, bools, args)[n], Parse(tree, bools, args), n)
         /\ CommandsRead(Parse(tree, bools, args), tree, bools, args, Len(args))
<1> DEFINE line == Parse(tree, bools, args)
           p == Fed(tree, bools, args)[Len(args)]
<1>1. Len(args) \in Nat /\ Len(args) \in 0..Len(args)
  OBVIOUS
<1>2. Reading(p, bools, args, Len(args)) /\ Reading(line, bools, args, Len(args))
  BY <1>1, FedRead, ParseRead
<1>3. p.error = None
  <2> HIDE DEF p, line
  <2>1. line.error = None
    BY DEF line
  <2> QED BY <1>2, <2>1 DEF Reading
<1>4. line = FlushPending(p)
  BY DEF Parse
<1>5. \A n \in 0..Len(args) : Grown(Fed(tree, bools, args)[n], p, n)
  BY <1>1, <1>3, FedGrows
<1>6. CommandsRead(p, tree, bools, args, Len(args))
  BY <1>1, <1>3, FedCommands
<1> HIDE DEF p, line
<1>7. line.positionals = p.positionals /\ line.indices = p.indices /\ line.roles = p.roles
  BY <1>2, <1>4, FlushKeeps DEF Reading, Keeps, SameWords
<1>8. \A n \in 0..Len(args) : Grown(Fed(tree, bools, args)[n], line, n)
  BY <1>5, <1>7 DEF Grown
<1>9. CommandsRead(line, tree, bools, args, Len(args))
  BY <1>6, <1>7 DEF CommandsRead, Split
<1> QED BY <1>8, <1>9 DEF line

(* Whether a line parses is not a matter of which flags are booleans.      *)
THEOREM RefusedAlike ==
  ASSUME NEW tree, NEW bools, NEW others, NEW args \in Seq(DOMAIN Shape),
         Parse(tree, bools, args).error = None
  PROVE  Parse(tree, others, args).error = None
<1> DEFINE p == Parse(tree, bools, args)
           q == Parse(tree, others, args)
<1>1. Reading(p, bools, args, Len(args)) /\ Reading(q, others, args, Len(args)) /\ p.error = None
  BY ParseRead
<1> HIDE DEF p, q
<1> QED BY <1>1 DEF Reading, q

(* The words read by the time word d is: no more than d.                   *)
LEMMA WordsBy ==
  ASSUME NEW bools, NEW args, NEW p, WordsRead(p, args, Len(args)), Len(args) \in Nat,
         NEW d \in 1..Len(p.indices), NEW s, WordsRead(s, args, p.indices[d]),
         Grown(s, p, p.indices[d])
  PROVE  Len(s.indices) = d
<1> DEFINE m == p.indices[d]
<1>1. /\ Len(p.indices) \in Nat /\ Len(s.indices) \in Nat /\ m \in 1..Len(args)
      /\ p.roles[m] = "positional" /\ m \in Nat
  BY DEF WordsRead
<1>2. s.roles[m] = "positional" /\ m \in 1..m
  BY <1>1 DEF Grown
<1>3. PICK c \in 1..Len(s.indices) : s.indices[c] = m
  BY <1>2 DEF WordsRead
<1>4. c \in 1..Len(p.indices) /\ p.indices[c] = m /\ Len(s.indices) <= Len(p.indices)
  BY <1>1, <1>3 DEF Grown
<1>5. \A k, l \in 1..Len(p.indices) : k < l => p.indices[k] < p.indices[l]
  BY DEF WordsRead
<1>6. \A k \in 1..Len(p.indices) : p.indices[k] \in Nat
  <2>1. \A k \in 1..Len(p.indices) : p.indices[k] \in 1..Len(args)
    BY DEF WordsRead
  <2> QED BY <2>1
<1>7. c = d
  BY <1>1, <1>4, <1>5, <1>6
<1>8. ASSUME Len(s.indices) > d PROVE FALSE
  <2>1. Len(s.indices) \in 1..Len(s.indices) /\ Len(s.indices) \in 1..Len(p.indices)
    BY <1>1, <1>4, <1>8
  <2>2. s.indices[Len(s.indices)] \in 1..m
    BY <2>1 DEF WordsRead
  <2>3. p.indices[Len(s.indices)] <= m
    BY <1>1, <2>1, <2>2 DEF Grown
  <2> QED BY <1>1, <1>5, <1>6, <1>8, <2>1, <2>3
<1> QED BY <1>1, <1>3, <1>7, <1>8
-----------------------------------------------------------------------------
(* Two parses of one line that read the same words up to a command: the    *)
(* one that knows fewer booleans finds its subcommand if the other does.   *)
WordRolesOf(p, bools, args) ==
  /\ RolesRead(p, args, Len(args)) /\ ValuesRead(p, bools, args, Len(args))
  /\ WordsRead(p, args, Len(args)) /\ Clean(args, Len(args)) /\ p.pending = None

LEMMA ReadRoles ==
  ASSUME NEW bools, NEW args, Len(args) \in Nat, NEW p, WordRolesOf(p, bools, args)
  PROVE  /\ \A i \in 1..Len(args) : p.roles[i] # "positional" => i \in Tokens(args, Len(args))
         /\ \A i \in Tokens(args, Len(args)) :
              /\ p.roles[i] = "positional" =>
                   Shape[args[i]].kind \notin {"flag", "valued", "dashes", "help", "bundle", "invalid"}
              /\ Shape[args[i]].kind = "word" => p.roles[i] \in {"positional", "value"}
         /\ \A i \in 1..Len(args) : p.roles[i] = "value" =>
              i > 1 /\ Shape[args[i - 1]].kind = "flag" /\ Shape[args[i - 1]].name \notin bools
<1>1. \A i \in 1..Len(args) : p.roles[i] # "positional" => i \in Tokens(args, Len(args))
  BY DEF WordRolesOf, RolesRead
<1>2. \A i \in Tokens(args, Len(args)) : i \in 1..Len(args)
  BY DEF Tokens
<1>3. ASSUME NEW i \in Tokens(args, Len(args)), p.roles[i] = "positional"
      PROVE  Shape[args[i]].kind \notin {"flag", "valued", "dashes", "help", "bundle", "invalid"}
  <2>1. Shape[args[i]].kind # "invalid"
    BY DEF WordRolesOf, Clean
  <2> QED BY <1>2, <1>3, <2>1 DEF WordRolesOf, RolesRead
<1>4. ASSUME NEW i \in Tokens(args, Len(args)), Shape[args[i]].kind = "word"
      PROVE  p.roles[i] \in {"positional", "value"}
  BY <1>2, <1>4 DEF WordRolesOf, RolesRead
<1>5. ASSUME NEW i \in 1..Len(args), p.roles[i] = "value"
      PROVE  i > 1 /\ Shape[args[i - 1]].kind = "flag" /\ Shape[args[i - 1]].name \notin bools
  <2> DEFINE j == i - 1
  <2>1. /\ j \in Tokens(args, Len(args)) /\ Shape[args[j]].kind = "flag"
        /\ Shape[args[j]].name \notin p.bare \cup Pending(p)
    BY <1>5 DEF WordRolesOf, RolesRead
  <2>2. j \in 1..Len(args)
    BY <1>2, <2>1
  <2>3. Shape[args[j]].name \notin bools
    <3> HIDE DEF j
    <3> QED BY <2>1 DEF WordRolesOf, ValuesRead
  <2> QED BY <2>1, <2>2, <2>3
<1> QED BY <1>1, <1>3, <1>4, <1>5

LEMMA IndicesGrow ==
  ASSUME NEW args, NEW n, NEW p, WordsRead(p, args, n)
  PROVE  /\ Len(p.indices) \in Nat
         /\ \A k \in 1..Len(p.indices) : p.indices[k] \in 1..n
         /\ \A k, l \in 1..Len(p.indices) : k < l => p.indices[k] < p.indices[l]
BY DEF WordsRead

(* The words read before the token i, when i is past word d and not past   *)
(* the one after it.                                                       *)
LEMMA SplitAt ==
  ASSUME NEW args, Len(args) \in Nat, NEW p, WordsRead(p, args, Len(args)),
         NEW d \in 1..Len(p.indices), NEW i \in Nat, p.indices[d] < i,
         d < Len(p.indices) => i <= p.indices[d + 1]
  PROVE  Split(p, i, d)
<1>1. /\ Len(p.indices) \in Nat
      /\ \A k \in 1..Len(p.indices) : p.indices[k] \in 1..Len(args)
      /\ \A k, l \in 1..Len(p.indices) : k < l => p.indices[k] < p.indices[l]
  BY IndicesGrow
<1>2. \A k \in 1..Len(p.indices) : p.indices[k] \in Nat
  BY <1>1
<1>3. ASSUME NEW l \in 1..Len(p.indices), l <= d PROVE p.indices[l] < i
  <2>1. CASE l = d
    BY <2>1
  <2>2. CASE l < d
    <3> DEFINE a == p.indices[l]
               b == p.indices[d]
    <3>1. a \in Nat /\ b \in Nat /\ a < b /\ b < i
      BY <1>1, <1>2, <2>2
    <3> HIDE DEF a, b
    <3>2. a < i
      BY <3>1
    <3> QED BY <3>2 DEF a
  <2> QED BY <1>1, <1>3, <2>1, <2>2
<1>4. ASSUME NEW l \in 1..Len(p.indices), d < l PROVE ~(p.indices[l] < i)
  <2>1. d + 1 \in 1..Len(p.indices) /\ d < Len(p.indices)
    BY <1>1, <1>4
  <2> DEFINE a == p.indices[l]
             b == p.indices[d + 1]
  <2>2. a \in Nat /\ b \in Nat /\ i <= b
    BY <1>2, <2>1
  <2>3. b <= a
    <3>1. CASE l = d + 1
      BY <2>2, <3>1
    <3>2. CASE d + 1 < l
      <4>1. b < a
        BY <1>1, <2>1, <3>2
      <4> HIDE DEF a, b
      <4> QED BY <2>2, <4>1
    <3> QED BY <1>1, <1>4, <3>1, <3>2
  <2> HIDE DEF a, b
  <2>4. ~(a < i)
    BY <2>2, <2>3
  <2> QED BY <2>4 DEF a
<1>5. d \in 0..Len(p.indices)
  BY <1>1
<1>6. \A l \in 1..Len(p.indices) : l <= d <=> p.indices[l] < i
  <2> SUFFICES ASSUME NEW l \in 1..Len(p.indices) PROVE l <= d <=> p.indices[l] < i
    OBVIOUS
  <2>1. l <= d \/ d < l
    BY <1>1
  <2>2. ~(l <= d /\ d < l)
    BY <1>1
  <2> QED BY <1>3, <1>4, <2>1, <2>2
<1> QED BY <1>5, <1>6 DEF Split

(* No token between two words that follow each other is a word.            *)
LEMMA BetweenWords ==
  ASSUME NEW args, Len(args) \in Nat, NEW p, WordsRead(p, args, Len(args)),
         NEW d \in 1..Len(p.indices), NEW i \in 1..Len(args), p.indices[d] < i,
         d < Len(p.indices) => i < p.indices[d + 1]
  PROVE  p.roles[i] # "positional"
<1> SUFFICES ASSUME p.roles[i] = "positional" PROVE FALSE
  OBVIOUS
<1>1. /\ Len(p.indices) \in Nat
      /\ \A k \in 1..Len(p.indices) : p.indices[k] \in 1..Len(args)
      /\ \A k, l \in 1..Len(p.indices) : k < l => p.indices[k] < p.indices[l]
  BY IndicesGrow
<1>2. PICK c \in 1..Len(p.indices) : p.indices[c] = i
  BY DEF WordsRead
<1>3. i \in Nat /\ (d < Len(p.indices) => p.indices[d + 1] \in Nat)
  <2>1. d < Len(p.indices) => d + 1 \in 1..Len(p.indices)
    BY <1>1
  <2>2. d < Len(p.indices) => p.indices[d + 1] \in 1..Len(args)
    BY <1>1, <2>1
  <2> QED BY <2>2
<1>4. d < Len(p.indices) => i <= p.indices[d + 1]
  BY <1>3
<1>5. Split(p, i, d)
  BY <1>3, <1>4, SplitAt
<1>6. ~(p.indices[c] < i)
  BY <1>2, <1>3
<1>7. d < c
  BY <1>1, <1>5, <1>6 DEF Split
<1>8. d + 1 \in 1..Len(p.indices) /\ d < Len(p.indices)
  BY <1>1, <1>7
<1> DEFINE b == p.indices[d + 1]
<1>9. i < b /\ b \in Nat
  BY <1>1, <1>8
<1>10. b <= i
  <2>1. CASE c = d + 1
    BY <1>2, <1>3, <2>1
  <2>2. CASE d + 1 < c
    <3>1. b < p.indices[c]
      BY <1>1, <1>8, <2>2
    <3> HIDE DEF b
    <3> QED BY <1>2, <1>3, <1>9, <3>1
  <2> QED BY <1>1, <1>7, <2>1, <2>2
<1> HIDE DEF b
<1> QED BY <1>3, <1>9, <1>10

(* A token that is a word of one parse and not of the other is a value     *)
(* there.                                                                  *)
LEMMA WordOrValue ==
  ASSUME NEW bools, NEW others, NEW args \in Seq(DOMAIN Shape),
         NEW p, WordRolesOf(p, bools, args), NEW g, WordRolesOf(g, others, args),
         NEW i \in 1..Len(args), p.roles[i] = "positional", g.roles[i] # "positional"
  PROVE  g.roles[i] = "value" /\ i \in Tokens(args, Len(args))
<1>1. Len(args) \in Nat
  OBVIOUS
<1>2. i \in Tokens(args, Len(args))
  BY <1>1, ReadRoles
<1>3. Shape[args[i]].kind \notin {"flag", "valued", "dashes", "help", "bundle", "invalid"}
  BY <1>1, <1>2, ReadRoles
<1>4. args[i] \in DOMAIN Shape
  OBVIOUS
<1>5. Shape[args[i]].kind = "word"
  BY <1>3, <1>4, ShapeAssumption
<1>6. g.roles[i] \in {"positional", "value"}
  BY <1>1, <1>2, <1>5, ReadRoles
<1> QED BY <1>2, <1>6

(* When one parse reads a subcommand after a path, so does the one that    *)
(* knows fewer booleans.                                                   *)
LEMMA NextCommand ==
  ASSUME NEW tree, NEW bools, NEW others, bools \subseteq others,
         NEW args \in Seq(DOMAIN Shape),
         NEW p, WordRolesOf(p, bools, args), CommandsRead(p, tree, bools, args, Len(args)),
         NEW g, WordRolesOf(g, others, args), CommandsRead(g, tree, others, args, Len(args)),
         NEW path, NEW d \in 1..Len(p.indices), d < Len(g.indices),
         p.indices[d] = g.indices[d],
         SubSeq(p.positionals, 1, d) = path, SubSeq(g.positionals, 1, d) = path,
         NamesCommand(tree, path, g.positionals[d + 1])
  PROVE  d < Len(p.indices) /\ NamesCommand(tree, path, p.positionals[d + 1])
<1>1. /\ WordsRead(p, args, Len(args)) /\ WordsRead(g, args, Len(args)) /\ Len(args) \in Nat
      /\ Len(p.indices) \in Nat /\ Len(g.indices) \in Nat
  BY DEF WordRolesOf, WordsRead
<1>2. d \in 1..Len(g.indices) /\ d + 1 \in 1..Len(g.indices) /\ d \in Nat
  BY <1>1
<1>3. PICK j \in 1..Len(args) : j = g.indices[d + 1]
  BY <1>1, <1>2 DEF WordsRead
<1>4. /\ g.roles[j] = "positional" /\ g.positionals[d + 1] = args[j]
      /\ g.indices[d] < j
  BY <1>1, <1>2, <1>3 DEF WordsRead
<1>5. j \in Nat /\ p.indices[d] < j
  BY <1>1, <1>4
<1>6. CASE d < Len(p.indices) => j < p.indices[d + 1]
  <2>1. p.roles[j] # "positional"
    BY <1>1, <1>5, <1>6, BetweenWords
  <2>2. p.roles[j] = "value" /\ j \in Tokens(args, Len(args))
    BY <1>4, <2>1, WordOrValue
  <2>3. d < Len(p.indices) => j <= p.indices[d + 1]
    <3>1. ASSUME d < Len(p.indices) PROVE p.indices[d + 1] \in Nat
      <4>1. d + 1 \in 1..Len(p.indices)
        BY <1>1, <3>1
      <4>2. p.indices[d + 1] \in 1..Len(args)
        BY <1>1, <4>1 DEF WordsRead
      <4> QED BY <4>2
    <3> QED BY <1>5, <1>6, <3>1
  <2>4. Split(p, j, d)
    BY <1>1, <1>5, <2>3, SplitAt
  <2>5. ~NamesCommand(tree, path, args[j])
    BY <1>2, <2>2, <2>4 DEF CommandsRead
  <2> QED BY <1>4, <2>5
<1>7. CASE d < Len(p.indices) /\ ~(j < p.indices[d + 1])
  <2>1. d + 1 \in 1..Len(p.indices)
    BY <1>1, <1>7
  <2>2. PICK i \in 1..Len(args) : i = p.indices[d + 1]
    BY <1>1, <2>1 DEF WordsRead
  <2>3. /\ p.roles[i] = "positional" /\ p.positionals[d + 1] = args[i] /\ p.indices[d] < i
    BY <1>1, <2>1, <2>2 DEF WordsRead
  <2>4. i <= j /\ i \in Nat
    BY <1>5, <1>7, <2>2
  <2>5. CASE i = j
    BY <1>4, <1>7, <2>3, <2>5
  <2>6. CASE i # j
    <3>1. i < j
      BY <1>5, <2>4, <2>6
    <3>2. g.indices[d] < i /\ i < g.indices[d + 1] /\ i <= g.indices[d + 1]
      BY <1>3, <2>3, <2>4, <3>1
    <3>3. g.roles[i] # "positional"
      BY <1>1, <1>2, <3>2, BetweenWords
    <3>4. g.roles[i] = "value" /\ i \in Tokens(args, Len(args))
      BY <2>3, <3>3, WordOrValue
    <3>5. Split(g, i, d)
      BY <1>1, <1>2, <2>4, <3>2, SplitAt
    <3>6. ~NamesCommand(tree, path, args[i])
      BY <1>2, <3>4, <3>5 DEF CommandsRead
    <3>7. i <= p.indices[d + 1]
      BY <2>2, <2>4
    <3>8. Split(p, i, d)
      BY <1>1, <2>3, <2>4, <3>7, SplitAt
    <3>9. i > 1 /\ Shape[args[i - 1]].kind = "flag" /\ Shape[args[i - 1]].name \notin others
      <4>1. \A k \in 1..Len(args) : g.roles[k] = "value" =>
              k > 1 /\ Shape[args[k - 1]].kind = "flag" /\ Shape[args[k - 1]].name \notin others
        BY <1>1, ReadRoles
      <4> QED BY <3>4, <4>1
    <3>10. Shape[args[i - 1]].name \notin bools
      BY <3>9
    <3>11. NamesCommand(tree, path, args[i])
      BY <1>2, <2>3, <3>4, <3>8, <3>9, <3>10 DEF CommandsRead
    <3> QED BY <3>6, <3>11
  <2> QED BY <2>5, <2>6
<1> QED BY <1>6, <1>7

LEMMA WalksAgree ==
  ASSUME NEW tree, IsTree(tree), NEW bools, NEW others, bools \subseteq others,
         NEW args \in Seq(DOMAIN Shape),
         NEW p, WordRolesOf(p, bools, args), CommandsRead(p, tree, bools, args, Len(args)),
         NEW g, WordRolesOf(g, others, args), CommandsRead(g, tree, others, args, Len(args)),
         NEW path, path = Resolve(tree, p.positionals), path # <<>>,
         \A command \in Along(tree, path) : ~IsRaw(command),
         Len(path) <= Len(g.indices),
         \A k \in 1..Len(path) :
           g.indices[k] = p.indices[k] /\ g.positionals[k] = p.positionals[k]
  PROVE  Resolve(tree, g.positionals) = path
<1> DEFINE d == Len(path)
           gath == Resolve(tree, g.positionals)
           e == Len(gath)
<1>1. /\ WordsRead(p, args, Len(args)) /\ WordsRead(g, args, Len(args)) /\ Len(args) \in Nat
      /\ p.positionals \in Seq(DOMAIN Shape) /\ g.positionals \in Seq(DOMAIN Shape)
      /\ Len(p.positionals) = Len(p.indices) /\ Len(g.positionals) = Len(g.indices)
      /\ Len(p.indices) \in Nat /\ Len(g.indices) \in Nat
  BY DEF WordRolesOf, WordsRead
<1>2. /\ d \in 1..Len(p.indices) /\ path = SubSeq(p.positionals, 1, d) /\ path \in DOMAIN tree
      /\ path \in Seq(DOMAIN Shape) /\ d \in Nat
      /\ \A k \in 1..Len(p.positionals) : SubSeq(p.positionals, 1, k) \in DOMAIN tree <=> k <= d
  <2>1. /\ path \in Seq(DOMAIN Shape) /\ d \in 0..Len(p.positionals)
        /\ path = SubSeq(p.positionals, 1, d) /\ path \in DOMAIN tree
        /\ \A k \in 1..Len(p.positionals) : SubSeq(p.positionals, 1, k) \in DOMAIN tree <=> k <= d
    BY <1>1, ResolveIs
  <2>2. d # 0
    BY <2>1
  <2> QED BY <1>1, <2>1, <2>2
<1>3. /\ gath \in Seq(DOMAIN Shape) /\ e \in 0..Len(g.positionals)
      /\ gath = SubSeq(g.positionals, 1, e)
      /\ \A k \in 1..Len(g.positionals) : SubSeq(g.positionals, 1, k) \in DOMAIN tree <=> k <= e
  BY <1>1, ResolveIs
<1> HIDE DEF d, gath, e
<1>4. SubSeq(g.positionals, 1, d) = path
  <2>1. \A k \in 1..d : g.positionals[k] = p.positionals[k]
    BY DEF d
  <2>2. d <= Len(g.indices)
    BY DEF d
  <2> QED BY <1>1, <1>2, <2>1, <2>2
<1>5. d <= e
  <2>1. d \in 1..Len(g.positionals)
    BY <1>1, <1>2 DEF d
  <2> QED BY <1>2, <1>3, <1>4, <2>1
<1>6. ASSUME e > d PROVE FALSE
  <2>1. d + 1 \in 1..Len(g.positionals) /\ d + 1 <= e /\ d < Len(g.indices)
    BY <1>1, <1>2, <1>3, <1>6
  <2>2. SubSeq(g.positionals, 1, d + 1) \in DOMAIN tree
    BY <1>3, <2>1
  <2>3. SubSeq(g.positionals, 1, d + 1) = Append(path, g.positionals[d + 1])
    BY <1>1, <1>2, <1>4, <2>1
  <2>4. NamesCommand(tree, path, g.positionals[d + 1])
    BY <2>2, <2>3 DEF NamesCommand
  <2>5. p.indices[d] = g.indices[d]
    <3>1. d \in 1..d
      BY <1>2
    <3> QED BY <3>1 DEF d
  <2>6. d < Len(p.indices) /\ NamesCommand(tree, path, p.positionals[d + 1])
    BY <1>2, <1>4, <2>1, <2>4, <2>5, NextCommand
  <2>7. d + 1 \in 1..Len(p.positionals)
    BY <1>1, <1>2, <2>6
  <2>8. SubSeq(p.positionals, 1, d + 1) = Append(path, p.positionals[d + 1])
    BY <1>1, <1>2, <2>7
  <2>9. SubSeq(p.positionals, 1, d + 1) \in DOMAIN tree
    BY <2>6, <2>8 DEF NamesCommand
  <2> QED BY <1>2, <2>7, <2>9
<1>7. e = d
  BY <1>2, <1>3, <1>5, <1>6
<1> QED BY <1>3, <1>4, <1>7 DEF gath
-----------------------------------------------------------------------------
(* A line is walked to the same command by a parse that knows more         *)
(* booleans, if none of them is a flag before the end of the path.         *)
LEMMA OwnWalk ==
  ASSUME NEW tree, IsTree(tree), NEW bools, NEW others, bools \subseteq others,
         NEW args \in Seq(DOMAIN Shape), Parse(tree, bools, args).error = None,
         NEW path, path = Resolve(tree, Parse(tree, bools, args).positionals), path # <<>>,
         \A command \in Along(tree, path) : ~IsRaw(command),
         \A i \in 1..Parse(tree, bools, args).indices[Len(path)] :
           Shape[args[i]].kind = "flag" =>
             (Shape[args[i]].name \in bools <=> Shape[args[i]].name \in others)
  PROVE  /\ Parse(tree, others, args).error = None
         /\ Resolve(tree, Parse(tree, others, args).positionals) = path
<1> DEFINE p == Parse(tree, bools, args)
           g == Parse(tree, others, args)
           d == Len(path)
           m == p.indices[d]
           s == Fed(tree, bools, args)[m]
<1>1. p.error = None /\ g.error = None
  BY RefusedAlike
<1>2. /\ Reading(p, bools, args, Len(args)) /\ p.pending = None
      /\ Reading(g, others, args, Len(args)) /\ g.pending = None
  BY <1>1, ParseRead
<1>3. /\ \A n \in 0..Len(args) : Grown(Fed(tree, bools, args)[n], p, n)
      /\ CommandsRead(p, tree, bools, args, Len(args))
  BY <1>1, ParseWords
<1>4. /\ \A n \in 0..Len(args) : Grown(Fed(tree, others, args)[n], g, n)
      /\ CommandsRead(g, tree, others, args, Len(args))
  BY <1>1, ParseWords
<1>5. path = Resolve(tree, p.positionals)
  OBVIOUS
<1>6. \A i \in 1..m : Shape[args[i]].kind = "flag" =>
        (Shape[args[i]].name \in bools <=> Shape[args[i]].name \in others)
  OBVIOUS
<1> HIDE DEF p, g
<1>7. /\ WordRolesOf(p, bools, args) /\ WordRolesOf(g, others, args)
      /\ WordsRead(p, args, Len(args)) /\ WordsRead(g, args, Len(args)) /\ Len(args) \in Nat
  BY <1>1, <1>2 DEF Reading, HasRead, WordRolesOf
<1>8. d \in 1..Len(p.indices)
  <2>1. p.positionals \in Seq(DOMAIN Shape) /\ Len(p.positionals) = Len(p.indices)
    BY <1>7 DEF WordsRead
  <2>2. path \in Seq(DOMAIN Shape) /\ d \in 0..Len(p.positionals)
    BY <1>5, <2>1, ResolveIs
  <2> QED BY <2>1, <2>2
<1>9. m \in 1..Len(args)
  BY <1>7, <1>8, IndicesGrow
<1>10. m \in 0..Len(args)
  BY <1>9
<1>11. s = Fed(tree, others, args)[m]
  BY <1>6, <1>10, BoolsAlike
<1>12. Grown(s, p, m)
  BY <1>3, <1>10
<1>13. Grown(s, g, m)
  BY <1>4, <1>10, <1>11
<1>14. WordsRead(s, args, m)
  <2>1. Reading(s, bools, args, m)
    BY <1>10, FedRead
  <2> HIDE DEF s, m
  <2>2. s.error = None
    BY <1>12 DEF Grown
  <2> QED BY <2>1, <2>2 DEF Reading, HasRead
<1> HIDE DEF s
<1>15. Len(s.indices) = d
  BY <1>7, <1>8, <1>12, <1>14, WordsBy
<1> HIDE DEF m
<1>16. /\ d <= Len(g.indices)
       /\ \A k \in 1..d : g.indices[k] = p.indices[k] /\ g.positionals[k] = p.positionals[k]
  BY <1>12, <1>13, <1>15 DEF Grown
<1>17. Resolve(tree, g.positionals) = path
  BY <1>3, <1>4, <1>5, <1>7, <1>16, WalksAgree
<1> QED BY <1>1, <1>17 DEF g
-----------------------------------------------------------------------------
(* How many words a line has, and which one a token is.                    *)
LEMMA Ranked ==
  ASSUME NEW idx, NEW last \in Nat,
         \A k \in 1..last : idx[k] \in Nat,
         \A k, l \in 1..last : k < l => idx[k] < idx[l]
  PROVE  Cardinality({idx[k] : k \in 1..last}) = last
<1> DEFINE T == {idx[k] : k \in 1..last}
           f == [k \in 1..last |-> idx[k]]
<1>1. f \in [1..last -> T]
  OBVIOUS
<1>2. ASSUME NEW k \in 1..last, NEW l \in 1..last, f[k] = f[l] PROVE k = l
  <2>1. idx[k] = idx[l] /\ idx[k] \in Nat
    BY <1>2
  <2>2. ~(k < l) /\ ~(l < k)
    BY <2>1
  <2> QED BY <2>2
<1>3. \A t \in T : \E k \in 1..last : f[k] = t
  OBVIOUS
<1> HIDE DEF f, T
<1>4. \A k, l \in DOMAIN f : f[k] = f[l] => k = l
  BY <1>1, <1>2
<1>5. f \in Injection(1..last, T)
  BY <1>1, <1>4 DEF Injection, IsInjective
<1>6. f \in Surjection(1..last, T)
  BY <1>1, <1>3 DEF Surjection
<1>7. ExistsBijection(1..last, T)
  BY <1>5, <1>6 DEF ExistsBijection, Bijection
<1>8. IsFiniteSet(1..last) /\ Cardinality(1..last) = last
  BY FS_Interval
<1>9. Cardinality(T) = last
  BY <1>7, <1>8, FS_Bijection
<1> QED BY <1>9 DEF T

Places(p, n) == {i \in 1..n : p.roles[i] = "positional"}

Rank(p, n, i) == Cardinality({j \in Places(p, n) : j <= i})

LEMMA WordsCounted ==
  ASSUME NEW args, NEW n \in Nat, NEW p, WordsRead(p, args, n)
  PROVE  /\ Cardinality(Places(p, n)) = Len(p.positionals)
         /\ \A i \in Places(p, n) :
              /\ Rank(p, n, i) \in 1..Len(p.positionals)
              /\ p.positionals[Rank(p, n, i)] = args[i]
<1> DEFINE last == Len(p.indices)
           idx == p.indices
<1>1. /\ last \in Nat /\ Len(p.positionals) = last
      /\ \A k \in 1..last : /\ idx[k] \in 1..n /\ p.roles[idx[k]] = "positional"
                            /\ p.positionals[k] = args[idx[k]]
      /\ \A i \in 1..n : p.roles[i] = "positional" => \E k \in 1..last : idx[k] = i
      /\ \A k, l \in 1..last : k < l => idx[k] < idx[l]
  BY DEF WordsRead
<1> HIDE DEF last, idx
<1>2. \A k \in 1..last : idx[k] \in Nat
  BY <1>1
<1>3. Places(p, n) = {idx[k] : k \in 1..last}
  <2>1. ASSUME NEW i \in Places(p, n) PROVE \E k \in 1..last : idx[k] = i
    <3>1. i \in 1..n /\ p.roles[i] = "positional"
      BY DEF Places
    <3> QED BY <1>1, <3>1
  <2>2. ASSUME NEW k \in 1..last PROVE idx[k] \in Places(p, n)
    BY <1>1 DEF Places
  <2>3. Places(p, n) \subseteq {idx[k] : k \in 1..last}
    BY <2>1
  <2>4. {idx[k] : k \in 1..last} \subseteq Places(p, n)
    BY <2>2
  <2> QED BY <2>3, <2>4
<1>4. Cardinality(Places(p, n)) = last
  <2>1. Cardinality({idx[k] : k \in 1..last}) = last
    BY <1>1, <1>2, Ranked
  <2> QED BY <1>3, <2>1
<1>5. ASSUME NEW i \in Places(p, n)
      PROVE  Rank(p, n, i) \in 1..last /\ p.positionals[Rank(p, n, i)] = args[i]
  <2>1. PICK k \in 1..last : idx[k] = i
    BY <1>3, <1>5
  <2>2. {j \in Places(p, n) : j <= i} = {idx[l] : l \in 1..k}
    <3>1. \A l \in 1..last : idx[l] <= i <=> l <= k
      <4> SUFFICES ASSUME NEW l \in 1..last PROVE idx[l] <= i <=> l <= k
        OBVIOUS
      <4>1. idx[l] \in Nat /\ i \in Nat /\ i = idx[k]
        BY <1>2, <2>1
      <4>2. CASE l < k
        BY <1>1, <4>1, <4>2
      <4>3. CASE l = k
        BY <4>1, <4>3
      <4>4. CASE k < l
        <5>1. idx[k] < idx[l]
          BY <1>1, <4>4
        <5> QED BY <4>1, <4>4, <5>1
      <4> QED BY <1>1, <4>2, <4>3, <4>4
    <3>2. \A l \in 1..k : l \in 1..last /\ l <= k
      BY <1>1
    <3>3. \A l \in 1..last : l <= k => l \in 1..k
      BY <1>1
    <3> QED BY <1>3, <3>1, <3>2, <3>3
  <2>3. k \in Nat
    BY <1>1
  <2>4. \A l \in 1..k : l \in 1..last
    BY <1>1
  <2>5. \A l \in 1..k : idx[l] \in Nat
    BY <1>2, <2>4
  <2>6. \A l, m \in 1..k : l < m => idx[l] < idx[m]
    BY <1>1, <2>4
  <2>7. Cardinality({idx[l] : l \in 1..k}) = k
    BY <2>3, <2>5, <2>6, Ranked
  <2>8. Rank(p, n, i) = k
    BY <2>2, <2>7 DEF Rank
  <2> QED BY <1>1, <2>1, <2>8
<1> QED BY <1>1, <1>4, <1>5
-----------------------------------------------------------------------------
(* What is left of a line before its d-th word ends parses whenever the    *)
(* line does, into the words the line has up to there (parse_argv: "They   *)
(* parse whenever the whole line did").                                    *)
THEOREM PrefixParses ==
  ASSUME NEW tree, NEW bools, NEW args \in Seq(DOMAIN Shape),
         Parse(tree, bools, args).error = None,
         NEW d \in 1..Len(Parse(tree, bools, args).indices)
  PROVE  LET whole == Parse(tree, bools, args)
             part == Parse(tree, bools, SubSeq(args, 1, whole.indices[d]))
         IN part.error = None /\ part.positionals = SubSeq(whole.positionals, 1, d)
<1> DEFINE whole == Parse(tree, bools, args)
           m == whole.indices[d]
           q == SubSeq(args, 1, m)
           part == Parse(tree, bools, q)
           s == Fed(tree, bools, args)[m]
           t == Fed(tree, bools, q)[m]
<1>1. whole.error = None /\ Reading(whole, bools, args, Len(args)) /\ Len(args) \in Nat
  BY ParseRead
<1>2. \A n \in 0..Len(args) : Grown(Fed(tree, bools, args)[n], whole, n)
  BY ParseWords
<1>3. WordsRead(whole, args, Len(args)) /\ d \in 1..Len(whole.indices)
  <2> HIDE DEF whole
  <2>1. WordsRead(whole, args, Len(args))
    BY <1>1 DEF Reading, HasRead
  <2> QED BY <2>1 DEF whole
<1> HIDE DEF whole
<1>4. m \in 1..Len(args) /\ m \in 0..Len(args) /\ m \in Nat
  <2>1. m \in 1..Len(args)
    BY <1>3, IndicesGrow
  <2> QED BY <1>1, <2>1
<1> HIDE DEF m
<1>5. q \in Seq(DOMAIN Shape) /\ Len(q) = m
  BY <1>4
<1>6. Alike(s, t)
  <2>1. m \in 0..m
    BY <1>4
  <2> QED BY <1>4, <2>1, PrefixAlike
<1>7. Reading(s, bools, args, m) /\ Reading(t, bools, q, m)
  <2>1. Reading(s, bools, args, m)
    BY <1>4, FedRead
  <2>2. m \in 0..Len(q)
    BY <1>4, <1>5
  <2>3. \A n \in 0..Len(q) : Reading(Fed(tree, bools, q)[n], bools, q, n)
    BY <1>5, FedRead
  <2> QED BY <2>1, <2>2, <2>3
<1>8. Grown(s, whole, m)
  BY <1>2, <1>4
<1>9. part = FlushPending(t) /\ Reading(part, bools, q, m)
  <2>1. Reading(part, bools, q, Len(q))
    BY <1>5, ParseRead
  <2>2. part = FlushPending(Fed(tree, bools, q)[Len(q)])
    BY DEF Parse
  <2> HIDE DEF part, q
  <2> QED BY <1>5, <2>1, <2>2
<1> HIDE DEF s, t, part, q
<1>10. s.error = None /\ t.error = None
  BY <1>6, <1>8 DEF Alike, Grown
<1>11. part.error = None
  BY <1>7, <1>9, <1>10 DEF Reading
<1>12. part.positionals = s.positionals
  <2>1. part.positionals = t.positionals
    BY <1>7, <1>9, FlushKeeps DEF Reading, Keeps, SameWords
  <2> QED BY <1>6, <2>1 DEF Alike
<1>13. WordsRead(s, args, m)
  BY <1>7, <1>10 DEF Reading, HasRead
<1>14. Len(s.indices) = d
  BY <1>1, <1>3, <1>8, <1>13, WordsBy DEF m
<1>15. s.positionals = SubSeq(whole.positionals, 1, d)
  <2>1. s.positionals \in Seq(DOMAIN Shape) /\ Len(s.positionals) = d
    BY <1>13, <1>14 DEF WordsRead
  <2>2. /\ whole.positionals \in Seq(DOMAIN Shape) /\ d \in 1..Len(whole.positionals)
    BY <1>3 DEF WordsRead
  <2>3. \A k \in 1..d : s.positionals[k] = whole.positionals[k]
    BY <1>8, <1>14 DEF Grown
  <2> DEFINE u == s.positionals
             v == SubSeq(whole.positionals, 1, d)
  <2>4. v \in Seq(DOMAIN Shape) /\ Len(v) = d /\ \A k \in 1..d : v[k] = u[k]
    BY <2>2, <2>3
  <2>5. u \in Seq(DOMAIN Shape) /\ Len(u) = d
    BY <2>1
  <2> HIDE DEF u, v
  <2>6. u = v
    BY <2>4, <2>5
  <2> QED BY <2>6 DEF u, v
<1> QED BY <1>11, <1>12, <1>15 DEF part, q, m, whole
=============================================================================
