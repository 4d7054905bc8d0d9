------------------------------ MODULE JsonValues ------------------------------
(* tools/replay.py: what Prototypes takes as given of two JSON values, by      *)
(* recursion over them: whether they are equal, where they differ, an          *)
(* assignment inside of one, and what one is in Lua.                           *)
EXTENDS Prototypes

(* Mutant of SameScalar: values are compared as Python compares them, where    *)
(* True == 1.                                                                  *)
SameAsPython(a, b) ==
    LET number(v) == IF IsA("flag", v) THEN IF v[2] THEN 1 ELSE 0 ELSE v[2]
    IN  IF Tags(a, b) \subseteq {"flag", "int", "float"} THEN number(a) = number(b) ELSE a = b

SameScalar(a, b) ==
    IF Tags(a, b) \subseteq {"int", "float"} THEN a[2] = b[2] ELSE a = b

(* _same_json_value: equal as native Lua values.                               *)
RECURSIVE SameJsonValue(_, _)
SameJsonValue(a, b) ==
    IF Tags(a, b) \in {{"map"}, {"list"}}
    THEN /\ DOMAIN a[2] = DOMAIN b[2]
         /\ \A k \in DOMAIN a[2] : SameJsonValue(a[2][k], b[2][k])
    ELSE SameScalar(a, b)

(* _changed_fields: the paths below which two values differ, each with the new *)
(* value, Nothing for a field that is gone.  Lists are replaced as a whole.    *)
RECURSIVE ChangedFields(_, _, _)
ChangedFields(before, after, path) ==
    IF Tags(before, after) = {"map"}
    THEN LET old == DOMAIN Fields(before)
             new == DOMAIN Fields(after)
         IN  {<<Append(path, k), Nothing>> : k \in old \ new}
             \cup {<<Append(path, k), after[2][k]>> : k \in new \ old}
             \cup UNION {ChangedFields(before[2][k], after[2][k], Append(path, k)) : k \in old \cap new}
    ELSE IF SameJsonValue(before, after) THEN {} ELSE {<<path, after>>}

(* A table assigned through a path.                                            *)
RECURSIVE Assigned(_, _, _)
Assigned(table, path, value) ==
    LET key   == Head(path)
        has   == Fields(table)
        inner == IF key \in DOMAIN has /\ IsA("map", has[key]) THEN has[key] ELSE Map(Empty)
    IN  Map(IF Len(path) > 1 THEN (key :> Assigned(inner, Tail(path), value)) @@ has
            ELSE IF value = Nothing THEN Restrict(has, (DOMAIN has) \ {key})
            ELSE (key :> value) @@ has)

(* lua_value: what a JSON value is in Lua, where a number has one spelling and *)
(* an empty list is an empty table.                                            *)
RECURSIVE LuaValue(_)
LuaValue(v) ==
    CASE v[1] \in {"int", "float"} -> <<"number", v[2]>>
      [] v[1] \in {"list", "map"} /\ DOMAIN v[2] = {} -> <<"table">>
      [] v[1] \in {"list", "map"} /\ DOMAIN v[2] # {} -> <<v[1], [k \in DOMAIN v[2] |-> LuaValue(v[2][k])]>>
      [] OTHER -> v
=============================================================================
