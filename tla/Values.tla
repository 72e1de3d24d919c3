------------------------------- MODULE Values -------------------------------
(* A JSON value is a record: a null, a scalar, an object (a function from  *)
(* its keys) or an array (a sequence). An Option is a set of at most one   *)
(* element.                                                                *)

Null == [kind |-> "null"]
Scalar(x) == [kind |-> "scalar", value |-> x]
Obj(map) == [kind |-> "object", map |-> map]
Arr(items) == [kind |-> "array", items |-> items]

IsNull(v) == v.kind = "null"
IsObj(v) == v.kind = "object"
IsArr(v) == v.kind = "array"
EmptyMap == [k \in {} |-> Null]
The(option) == CHOOSE x \in option : TRUE
IsOption(option) == option = {} \/ \E x \in option : option = {x}

(* A map with the entries of another that it has not. *)
With(map, more) ==
  [k \in DOMAIN map \cup DOMAIN more |-> IF k \in DOMAIN map THEN map[k] ELSE more[k]]

(* A key that is left out when the Option is none, and what a map has      *)
(* under a key.                                                            *)
Optional(key, option) == [k \in {key : v \in option} |-> The(option)]
Given(map, key) == {map[k] : k \in {key} \cap DOMAIN map}

(* A text that no property tells from another. *)
Text == Scalar("text")

(* A boolean beside scalars that are texts. *)
Truth(b) == Scalar(IF b THEN "true" ELSE "false")

(* A select_warning: what the --select part of it says, the fields it      *)
(* names, and whether the sentence about --compact follows.                *)
NoWarning == [select |-> "none", missed |-> <<>>, emptied |-> FALSE]
=============================================================================
