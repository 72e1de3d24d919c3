----------------------------- MODULE Selection -----------------------------
(* What --select, alone or beside --compact, and the advertisement of a    *)
(* list promise of the answers of Output, whose Project is ProjectOutput.  *)
EXTENDS Output, Projection

(* What a selection promises, in terms of the leaves of a result: where a  *)
(* node sits is the sequence of the keys and rows on the way to it.        *)

RECURSIVE Nodes(_)
Nodes(value) ==
  LET Under(step, child) == {[at |-> <<step>> \o n.at, value |-> n.value] : n \in Nodes(child)}
  IN  {[at |-> <<>>, value |-> value]}
      \cup CASE IsObj(value) -> UNION {Under([key |-> k], value.map[k]) : k \in DOMAIN value.map}
             [] IsArr(value) -> UNION {Under([row |-> i], value.items[i]) : i \in DOMAIN value.items}
             [] OTHER -> {}

Leaves(value) == {n \in Nodes(value) : n.value.kind = "scalar"}

IsRow(step) == "row" \in DOMAIN step
KeysOf(at) ==
  LET keyed == SelectSeq(at, LAMBDA step : ~IsRow(step))
  IN  [i \in DOMAIN keyed |-> keyed[i].key]

(* A path names the node at its last key. Rows on the way are those of the *)
(* top-level arrays, and of one array at a time under a key.               *)
Names(path, at) ==
  /\ path # <<>> /\ KeysOf(at) = path /\ ~IsRow(at[Len(at)])
  /\ \A i \in 2..Len(at) :
       IsRow(at[i]) /\ IsRow(at[i - 1]) => \A j \in 1..i : IsRow(at[j])

Covers(fields, at) ==
  \/ \A i \in DOMAIN at : IsRow(at[i])
  \/ \E f \in ToSet(fields), n \in 1..Len(at) : Names(PathOf(f), SubSeq(at, 1, n))

Covered(result, fields) == {n \in Leaves(result) : Covers(fields, n.at)}

(* A whole key beside a path into it. *)
Overlap(fields) ==
  \E f, g \in ToSet(fields) : IsStrictPrefix(PathOf(f), PathOf(g)) /\ PathOf(f) # <<>>

Selecting == call.reserved /\ ~IsDoctor /\ call.select # {}

(* Whatever --select and --compact do together, a selection that is not    *)
(* given up as a whole shows the leaves its fields name, all of them, each *)
(* where it was: paths into one object or array accumulate, and rows keep  *)
(* their positions (project.rs select, merge). With a field beside a path  *)
(* into it, rows that are not objects may be lost, and nothing is added.   *)
SelectionIsWhatWasNamed ==
  \A told \in answer, out \in output, fields \in call.select :
    Selecting /\ told.warning.select \in {"none", "dropped"} =>
      /\ Leaves(told.result) \subseteq Covered(out.result, fields)
      /\ Overlap(fields) \/ Covered(out.result, fields) \subseteq Leaves(told.result)

NestedRows(result) == IsArr(result) /\ \E i \in DOMAIN result.items : IsArr(result.items[i])

(* The warning names every field that names nothing in the handler's       *)
(* result, a null or an empty container being something, and no field that *)
(* names something: unless the result is an array with arrays among its    *)
(* rows, where a field that is shown of those rows only is still warned of *)
(* (select.rs, matches_anything). One that an object row has never is.     *)
MissesAreNamed ==
  \A told \in answer, out \in output, fields \in call.select :
    LET found == {n.at : n \in Nodes(out.result)}
        Hit(f) == \E at \in found : Names(PathOf(f), at)
        InARow(f) == \E at \in found : Names(PathOf(f), at) /\ (IsRow(at[1]) => ~IsRow(at[2]))
        missed == told.warning.missed
    IN  Selecting /\ CanProject(out.result) /\ fields # <<>> =>
          /\ missed = SelectSeq(fields, LAMBDA f : f \in ToSet(missed))
          /\ \A f \in ToSet(fields) :
               /\ ~Hit(f) => f \in ToSet(missed)
               /\ f \in ToSet(missed) => IF NestedRows(out.result) THEN ~InARow(f) ELSE ~Hit(f)

Shows(value) == \E n \in Nodes(value) : n.value.kind = "scalar" \/ KeysOf(n.at) # <<>>

(* "--select never wipes a result" (README, agent flags): alone or beside  *)
(* --compact, a select leaves something of a result that showed something. *)
SelectNeverWipes ==
  \A told \in answer, out \in output :
    Selecting /\ Shows(out.result) => Shows(told.result)

(* "Pasted back as advertised, the paths project every row" (README,       *)
(* Lists): no path misses, each row keeps the pasted keys it had, and what *)
(* is being used is not advertised again.                                  *)
AdvertisedPathsProject ==
  \A told \in answer, out \in output :
    pasted # {} =>
      /\ told.warning.select = "none" /\ AdvertisementAction \notin ToSet(told.actions)
      /\ LET items == out.result.map["items"].items
             shown == told.result.map["items"].items
         IN  call.compact \/
               \A i \in DOMAIN items : IsObj(items[i]) =>
                 DOMAIN shown[i].map = DOMAIN items[i].map \cap pasted
=============================================================================
