------------------------------- MODULE Usage -------------------------------
(***************************************************************************)
(* The usage string of a command, read as its schema. A usage string is a  *)
(* sequence of the tokens that whitespace separates, after the program     *)
(* name. Of a token is kept what the scanners of usage.rs look at:         *)
(*   open    it starts with [                                              *)
(*   close   "end" when it ends with ], "mid" when a ] comes before its    *)
(*           last character, as in [path]..., otherwise "no"               *)
(*   dots    it contains ...                                               *)
(*   kind    what follows the [: "long", "short", "slot" (<name>), "word"  *)
(*   flags   the names a flag token spells: one, or the letters of -abc    *)
(*   eq      it contains =                                                 *)
(*   holder  the name of the <placeholder> in it, or None                  *)
(*   text    the word, or the flag as it is typed                          *)
(* Each token holds one placeholder at most, and brackets only at its ends.*)
(***************************************************************************)
LOCAL INSTANCE Integers
LOCAL INSTANCE Sequences

NoHolder == "none"

IsUsage(u) ==
  /\ u \in Seq([open : BOOLEAN, close : {"no", "mid", "end"}, dots : BOOLEAN,
                kind : {"long", "short", "slot", "word"}, flags : SUBSET STRING,
                eq : BOOLEAN, holder : STRING, text : STRING])
  /\ \A i \in DOMAIN u : u[i].kind = "slot" => u[i].holder # NoHolder

IsFlag(token) == token.kind \in {"long", "short"}

Least(S) == CHOOSE n \in S : \A k \in S : n <= k

(* The pieces of u: last[i] is where the piece that starts at i ends.      *)
Pieces(u, last) ==
  LET from[i \in 1..(Len(u) + 1)] ==
        IF i > Len(u) THEN <<>> ELSE <<SubSeq(u, i, last[i])>> \o from[last[i] + 1]
  IN from[1]

(* Read token by token, a group runs to the first token that ends with ],  *)
(* or to the end of the string.                                            *)
TokenPieces(u) ==
  Pieces(u, [i \in DOMAIN u |->
    IF u[i].open THEN Least({j \in i..Len(u) : u[j].close = "end"} \cup {Len(u)}) ELSE i])

(* Read byte by byte, it runs to the first ]; without one it is no group.  *)
BytePieces(u) ==
  Pieces(u, [i \in DOMAIN u |->
    IF u[i].open /\ \E j \in i..Len(u) : u[j].close # "no"
    THEN Least({j \in i..Len(u) : u[j].close # "no"}) ELSE i])

IsGroup(piece) == piece[1].open /\ \E j \in DOMAIN piece : piece[j].close # "no"

-----------------------------------------------------------------------------
(* Positionals: positional_arity and positional_names. *)

(* The placeholder right after a loose flag without = is its value.        *)
TakenByFlag(pieces, k) ==
  /\ k > 1 /\ pieces[k][1].kind = "slot" /\ ~pieces[k][1].open
  /\ IsFlag(pieces[k - 1][1]) /\ ~pieces[k - 1][1].open /\ ~pieces[k - 1][1].eq

IsPositional(pieces, k) ==
  IF pieces[k][1].open THEN ~IsFlag(pieces[k][1])
  ELSE pieces[k][1].kind = "slot" /\ ~TakenByFlag(pieces, k)

(* Tokens a scanner reads: all but the placeholders flags take.            *)
Unbounded(u) ==
  LET pieces == TokenPieces(u) IN
  \E k \in DOMAIN pieces :
    ~TakenByFlag(pieces, k) /\ \E j \in DOMAIN pieces[k] : pieces[k][j].dots

(* positional_arity, where it is bounded.                                  *)
RequiredCount(u) ==
  LET pieces == TokenPieces(u)
      upto[k \in 0..Len(pieces)] ==
        IF k = 0 THEN 0
        ELSE upto[k - 1] + IF IsPositional(pieces, k) /\ ~pieces[k][1].open THEN 1 ELSE 0
  IN upto[Len(pieces)]

OptionalCount(u) ==
  LET pieces == TokenPieces(u)
      upto[k \in 0..Len(pieces)] ==
        IF k = 0 THEN 0
        ELSE upto[k - 1] + IF IsPositional(pieces, k) /\ pieces[k][1].open THEN 1 ELSE 0
  IN upto[Len(pieces)]

(* The name of a group of several tokens is none that a caller can spell.  *)
ToPositional(piece) ==
  [name |-> IF Len(piece) > 1 THEN NoHolder
            ELSE IF piece[1].kind = "slot" THEN piece[1].holder ELSE piece[1].text,
   variadic |-> \E j \in DOMAIN piece : piece[j].dots,
   optional |-> piece[1].open]

BugPositionalNames(u) ==
  LET pieces == BytePieces(u)
      upto[k \in 0..Len(pieces)] ==
        IF k = 0 THEN <<>>
        ELSE IF IsPositional(pieces, k) THEN Append(upto[k - 1], ToPositional(pieces[k]))
        ELSE upto[k - 1]
  IN upto[Len(pieces)]

PositionalNames(u) ==
  LET pieces == TokenPieces(u)
      upto[k \in 0..Len(pieces)] ==
        IF k = 0 THEN <<>>
        ELSE IF IsPositional(pieces, k) THEN Append(upto[k - 1], ToPositional(pieces[k]))
        ELSE upto[k - 1]
  IN upto[Len(pieces)]
-----------------------------------------------------------------------------
(* Flags: extract_bool_flag_names and extract_all_flag_names. *)

(* The names a group starts with, when nothing in it says it has a value.  *)
BoolFlags(u) ==
  LET pieces == BytePieces(u)
      bare(piece) == \A j \in DOMAIN piece : piece[j].holder = NoHolder /\ ~piece[j].eq
  IN UNION {pieces[k][1].flags :
             k \in {k \in DOMAIN pieces : IsGroup(pieces[k]) /\ bare(pieces[k])}}

BugAllFlags(u) == BoolFlags(u) \cup UNION {u[i].flags : i \in {i \in DOMAIN u : u[i].kind = "long"}}

(* Long flags anywhere, and short ones of a single letter.                 *)
AllFlags(u) ==
  BoolFlags(u) \cup
    UNION {u[i].flags : i \in {i \in DOMAIN u :
      \/ u[i].kind = "long"
      \/ u[i].kind = "short" /\ \E letter \in u[i].flags : u[i].flags = {letter}}}
-----------------------------------------------------------------------------
(* What answers advertise: next_action_from_usage. *)

(* The name of the first placeholder of a piece. *)
Holders(piece) == {j \in DOMAIN piece : piece[j].holder # NoHolder}
Holder(piece) == piece[Least(Holders(piece))].holder

(* The parameters: a later one of the same name replaces an earlier one.   *)
Params(u) ==
  LET pieces == BytePieces(u)
      holding == {k \in DOMAIN pieces : Holders(pieces[k]) # {}}
      last(name) == CHOOSE k \in holding :
        Holder(pieces[k]) = name /\ \A m \in holding : Holder(pieces[m]) = name => m <= k
  IN [name \in {Holder(pieces[k]) : k \in holding} |->
       [required |-> ~IsGroup(pieces[last(name)])]]

(* without_optional_segments *)
WithoutOptional(u) ==
  LET pieces == BytePieces(u)
      upto[k \in 0..Len(pieces)] ==
        IF k = 0 THEN <<>>
        ELSE IF IsGroup(pieces[k]) THEN upto[k - 1] ELSE upto[k - 1] \o pieces[k]
  IN upto[Len(pieces)]

(* With nothing to fill in, the command runs as printed.                   *)
NextAction(u) ==
  [command |-> IF DOMAIN Params(u) = {} THEN WithoutOptional(u) ELSE u,
   params |-> Params(u)]
-----------------------------------------------------------------------------
(* The command path a usage or a template names: its leading words.        *)
CommandTokens(u) ==
  LET words == Least({i \in DOMAIN u : u[i].open \/ u[i].kind # "word"} \cup {Len(u) + 1}) IN
  [i \in 1..(words - 1) |-> u[i].text]
=============================================================================
