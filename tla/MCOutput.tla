----------------------------- MODULE MCOutput -----------------------------
(* Small instances of Envelope for TLC: every result of objects and arrays   *)
(* nested three deep over two keys, under selections of up to two fields;  *)
(* lists with rows of mixed shapes; a doctor with up to three checks; the  *)
(* lines of these answers, of errors and of events, on days of years that  *)
(* are and are not leap.                                                   *)
EXTENDS Envelope, Selection

CONSTANT MaxFields  \* bound: the fields of a --select value

Objects(keys, values) == UNION {{Obj(map) : map \in [ks -> values]} : ks \in SUBSET keys}
Arrays(values, max) == {Arr(items) : items \in BoundedSeq(values, max)}

Leaf == {Null, Scalar("x")}
Flat == Objects({"a"}, Leaf) \cup Arrays(Leaf, 1) \cup Leaf
Inner == Objects({"a", "b"}, Leaf) \cup Arrays({Obj("a" :> Scalar("x")), Null}, 1)

Trees ==
  Objects({"a", "b"}, Flat)
  \cup Arrays(Flat, 2)
  \cup {Obj("a" :> v) : v \in Inner \cup Arrays(Objects({"a", "b"}, Leaf), 2) \cup Arrays(Flat, 2)}
  \cup {Obj("a" :> v @@ "b" :> Scalar("x")) : v \in Arrays(Flat, 2)}
  \cup {Arr(<<v>>) : v \in Arrays(Flat, 1)}
  \cup {Arr(<<Arr(<<Obj("a" :> Scalar("x"))>>), Obj("b" :> Scalar("x"))>>)}

Fields == {<<"a">>, <<"b">>, <<"a", "a">>, <<"a", "b">>, <<"b", "z">>, <<"", "">>}
SelectValues == {{}} \cup {{fields} : fields \in BoundedSeq(Fields, MaxFields)}
FrameworkResults == {Obj("a" :> v @@ "b" :> Scalar("x")) : v \in Flat}
CompactFields == {{}, {<<<<"b">>>>}}

(* A template whose pre-filled value and default may be null. *)
OwnAction(value, default) ==
  Template("own", [id |-> [value |-> value, default |-> default, enum |-> Arr(<<Text>>)],
                   rest |-> [required |-> Truth(FALSE)]])
OwnActions == {<<>>, <<OwnAction(Null, Text), Literal("own")>>, <<OwnAction(Text, Null)>>}

Usage == <<Template("get", [id |-> [required |-> Truth(TRUE)]]), Literal("app")>>
Root == <<Literal("app")>>

AnyOutput ==
  {Returned(result, <<>>, None, fields, {}) : result \in Trees, fields \in CompactFields}
  \cup {Returned(Scalar("x"), actions, exit, {}, {}) : actions \in OwnActions,
                                                  exit \in {None} \cup Codes}

(* The keys of a row: plain, with a dot, with a comma, empty, and padded   *)
(* on either side; and what these fall apart into.                         *)
Spelled ==
  "items" :> <<"items">> @@ "a" :> <<"a">> @@ "b" :> <<"b">> @@ "c" :> <<"c">> @@ "z" :> <<"z">>
  @@ "b.c" :> <<"b", ".", "c">> @@ "a,z" :> <<"a", ",", "z">> @@ "" :> <<>>
  @@ "b " :> <<"b", " ">> @@ " a" :> <<" ", "a">> @@ " " :> <<" ">>

ListRows ==
  {Obj("a" :> Scalar("x")), Obj("a" :> Null @@ "b" :> Scalar("x")), Obj("b.c" :> Scalar("x")),
   Obj("a,z" :> Scalar("x")), Obj("" :> Scalar("x") @@ "b " :> Null),
   Obj(" a" :> Scalar("x") @@ "b" :> Null), Scalar("x")}

AnyFailure ==
  [exit : ExitCodes \cup {None}, retryable : BOOLEAN, actions : OwnActions,
   data : {{}, {Null}, {Text}, {Obj("ok" :> Scalar(TRUE))}}]

(* Each type with what it may leave out, and an event whose data is null,  *)
(* or looks like an answer.                                                *)
AnyEvent ==
  {[key \in {"type"} \cup Required[type] \cup given |->
      IF key = "type" THEN Scalar(type) ELSE IF key = "data" THEN data ELSE Text] :
     type \in DOMAIN Required, given \in SUBSET {"duration_ms", "error", "percent"},
     data \in {Null, Obj("ok" :> Scalar(TRUE) @@ "type" :> Scalar("result"))}}

RealEvents ==
  {event \in AnyEvent :
     DOMAIN event \subseteq {"type"} \cup Required[event["type"].value] \cup Optionals[event["type"].value]}

Plain ==
  [reserved |-> TRUE, checks |-> {}, select |-> {}, compact |-> FALSE, quiet |-> FALSE,
   stream |-> FALSE, version |-> {}, pin |-> {}, elapsed |-> {Moment(20614, 52937)}, failures |-> {}, events |-> {}]

(* Every day of a few years, where a century, an era and the range end. *)
Years == {1970, 1972, 2000, 2100, 2399, 2400, 9999}
Moments ==
  {Moment(day, 86399) : day \in UNION {YearStart(year)..(YearStart(year + 1) - 1) : year \in Years}}
  \cup {Moment(0, second) : second \in {0, 59, 60, 3599, 3600, 43200}}

AnyCall ==
  {[Plain EXCEPT !.select = select, !.compact = compact] :
     select \in SelectValues, compact \in BOOLEAN}
  \cup {[Plain EXCEPT !.reserved = FALSE, !.select = {<<<<"a">>>>}, !.compact = TRUE],
        [Plain EXCEPT !.quiet = TRUE]}
  \cup {[Plain EXCEPT !.checks = {checks}, !.select = select] :
          checks \in BoundedSeq(ExitCodes, 3),
          select \in {{}, {<<<<"checks", "name">>>>}}}
  \cup {[Plain EXCEPT !.stream = stream, !.version = version, !.failures = AnyFailure,
                      !.events = RealEvents] :
          stream \in BOOLEAN, version \in {{}, {Text}}}
  \cup {[Plain EXCEPT !.checks = {<<>>}, !.elapsed = {moment}] : moment \in Moments}
  \cup {[Plain EXCEPT !.checks = {<<>>}, !.pin = pin, !.elapsed = elapsed] :
          pin \in {{}, {Malformed}, {UnixEpoch}, {Moment(MaxDay + 1, 0)}},
          elapsed \in {{}, {UnixEpoch}}}
=============================================================================
