---------------------------- MODULE Projection ----------------------------
(* What --select and --compact make of a result (project.rs, select.rs).   *)
(*                                                                         *)
(* A field of a --select value is the sequence of texts between its dots;  *)
(* splitting the value at its commas is the caller's (Output).             *)
EXTENDS Values, Naturals, Sequences, TLC, SequencesExt

-----------------------------------------------------------------------------
(* project.rs: select                                                      *)

PathOf(field) == SelectSeq(field, LAMBDA text : text # "")

(* A row without the leaf stays an empty object, so positions hold. *)
Rebuilt(rows) ==
  Arr([i \in DOMAIN rows |-> Obj(IF rows[i] = {} THEN EmptyMap ELSE The(rows[i]))])

RECURSIVE ProjectPath(_, _)
ProjectPath(source, path) ==
  IF path = <<>> \/ path[1] \notin DOMAIN source THEN {}
  ELSE LET rest  == Tail(path)
           found == source[path[1]]
           Row(item) == IF IsObj(item) THEN ProjectPath(item.map, rest) ELSE {}
           projected ==
             CASE rest = <<>> -> {found}
               [] rest # <<>> /\ IsObj(found) ->
                    {Obj(map) : map \in ProjectPath(found.map, rest)}
               [] rest # <<>> /\ IsArr(found) ->
                    LET rows == [i \in DOMAIN found.items |-> Row(found.items[i])]
                    IN  IF \A i \in DOMAIN rows : rows[i] = {} THEN {} ELSE {Rebuilt(rows)}
               [] OTHER -> {}
       IN  {path[1] :> value : value \in projected}

BugMerge(target, incoming) == incoming @@ target  \* the last path wins

RECURSIVE Merge(_, _)
Merge(target, incoming) ==
  LET Row(slot, row) == IF IsObj(slot) /\ IsObj(row) THEN Obj(Merge(slot.map, row.map)) ELSE slot
      Rows(slots, rows) ==
        [i \in DOMAIN slots |-> IF i \in DOMAIN rows THEN Row(slots[i], rows[i]) ELSE slots[i]]
      Both(old, new) ==
        CASE IsObj(old) /\ IsObj(new) -> Obj(Merge(old.map, new.map))
          [] IsArr(old) /\ IsArr(new) -> Arr(Rows(old.items, new.items))
          [] OTHER -> new
  IN  [k \in DOMAIN target \cup DOMAIN incoming |->
         IF k \notin DOMAIN incoming THEN target[k]
         ELSE IF k \notin DOMAIN target THEN incoming[k]
         ELSE Both(target[k], incoming[k])]

RECURSIVE Select(_, _)
Select(value, fields) ==
  LET Add(out, field) ==
        LET projected == ProjectPath(value.map, PathOf(field))
        IN  IF projected = {} THEN out ELSE Merge(out, The(projected))
  IN  CASE IsArr(value) -> Arr([i \in DOMAIN value.items |-> Select(value.items[i], fields)])
        [] IsObj(value) -> Obj(FoldLeft(Add, EmptyMap, fields))
        [] OTHER -> value

-----------------------------------------------------------------------------
(* project.rs: compact                                                     *)

IsDroppable(value) ==
  \/ value = Null
  \/ IsObj(value) /\ DOMAIN value.map = {}
  \/ IsArr(value) /\ value.items = <<>>

RECURSIVE Compact(_)
Compact(value) ==
  CASE IsObj(value) ->
         LET kept == {k \in DOMAIN value.map : ~IsDroppable(Compact(value.map[k]))}
         IN  Obj([k \in kept |-> Compact(value.map[k])])
    [] IsArr(value) -> Arr([i \in DOMAIN value.items |-> Compact(value.items[i])])
    [] OTHER -> value

RECURSIVE IsHollow(_)
IsHollow(value) ==
  CASE IsObj(value) -> \A k \in DOMAIN value.map : IsHollow(value.map[k])
    [] IsArr(value) -> \A i \in DOMAIN value.items : IsHollow(value.items[i])
    [] OTHER -> IsDroppable(value)

-----------------------------------------------------------------------------
(* select.rs                                                               *)

(* Some result a --select can project: an object, or an array with one. *)
CanProject(result) ==
  \/ IsObj(result)
  \/ IsArr(result) /\ \E i \in DOMAIN result.items : IsObj(result.items[i])

IsFilled(value) == IsObj(value) /\ DOMAIN value.map # {}

(* matches_anything's test: a non-empty object, or an array with one. *)
BugKeeps(value) == IsArr(value) \/ IsFilled(value)  \* any array is a hit
Keeps(value) ==
  \/ IsFilled(value)
  \/ IsArr(value) /\ \E i \in DOMAIN value.items : IsFilled(value.items[i])

MatchesAnything(result, field) == Keeps(Select(result, <<field>>))

Missed(result, fields) == SelectSeq(fields, LAMBDA field : ~MatchesAnything(result, field))

Warn(select, missed) == [select |-> select, missed |-> missed, emptied |-> FALSE]

ApplySelectFlag(result, fields) ==
  LET missed == Missed(result, fields)
      Full(warning) == [result |-> result, warning |-> warning]
  IN  CASE fields = <<>> -> Full(Warn("no_fields", <<>>))
        [] fields # <<>> /\ ~CanProject(result) -> Full(Warn("cannot", <<>>))
        [] fields # <<>> /\ CanProject(result) /\ missed = fields ->
             Full(Warn("matched_none", missed))
        [] OTHER -> [result |-> Select(result, fields),
                     warning |-> IF missed = <<>> THEN NoWarning ELSE Warn("dropped", missed)]

BugCompactSelection(selected) ==  \* compacts without looking
  [selected EXCEPT !.result = Compact(selected.result)]

(* The selection without what --compact drops, unless that empties it. *)
CompactSelection(selected) ==
  LET compacted == Compact(selected.result)
  IN  IF IsHollow(compacted) /\ compacted # selected.result
      THEN [selected EXCEPT !.warning.emptied = TRUE]
      ELSE [selected EXCEPT !.result = compacted]

(* project_output: select and compactFields are Options. *)
ProjectOutput(result, select, compact, compactFields) ==
  CASE select # {} /\ ~compact -> ApplySelectFlag(result, The(select))
    [] select # {} /\ compact -> CompactSelection(ApplySelectFlag(result, The(select)))
    [] select = {} /\ ~compact -> [result |-> result, warning |-> NoWarning]
    [] OTHER -> [result |-> IF compactFields # {} THEN Select(result, The(compactFields))
                            ELSE Compact(result),
                 warning |-> NoWarning]
=============================================================================
