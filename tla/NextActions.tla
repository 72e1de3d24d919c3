---------------------------- MODULE NextActions ----------------------------
(* next_action.rs: the commands an answer offers to run next, as the lines *)
(* that carry them write and read them. Descriptions are Text. An action   *)
(* without params is literal; those of a template say, placeholder by      *)
(* placeholder, what the builder was told of each.                         *)
EXTENDS Values

(* NextAction: params is an Option of a map from names to params. *)
Literal(command) == [command |-> command, params |-> {}]
Template(command, params) == [command |-> command, params |-> {params}]

(* ActionParam: each of its keys may be unset, and so be left out. A value *)
(* and a default are any JSON values.                                      *)
ParamKeys == {"description", "value", "default", "enum", "required"}
AnyValue == {"value", "default"}

IsParam(param) ==
  /\ DOMAIN param \subseteq ParamKeys
  /\ \A key \in DOMAIN param \ AnyValue : ~IsNull(param[key])

IsAction(action) ==
  /\ IsOption(action.params)
  /\ \A params \in action.params : \A name \in DOMAIN params : IsParam(params[name])

ParamsJson(params) == Obj([name \in DOMAIN params |-> Obj(params[name])])

BugActionJson(action) ==  \* a literal action is written with no placeholders
  Obj([command |-> Scalar(action.command), description |-> Text,
       params |-> IF action.params = {} THEN Obj(EmptyMap) ELSE ParamsJson(The(action.params))])

ActionJson(action) ==
  Obj(With([command |-> Scalar(action.command), description |-> Text],
           Optional("params", {ParamsJson(params) : params \in action.params})))

(* What may be left out and is there as a null reads as left out. *)
GivenValue(map, key) == {value \in Given(map, key) : ~IsNull(value)}

ReadParam(map) == [key \in {k \in ParamKeys : GivenValue(map, k) # {}} |-> map[key]]

ReadAction(value) ==
  [command |-> value.map["command"].value,
   params |-> {[name \in DOMAIN params.map |-> ReadParam(params.map[name].map)] :
                 params \in GivenValue(value.map, "params")}]

(* An action without the values and defaults that are null. *)
WithoutNulls(action) ==
  [command |-> action.command,
   params |-> {[name \in DOMAIN params |->
                  [key \in {k \in DOMAIN params[name] : ~IsNull(params[name][k])} |->
                     params[name][key]]] : params \in action.params}]
=============================================================================
