----------------------------- MODULE Prototypes -----------------------------
(* tools/replay.py: the difference of two native prototype dumps, as data and  *)
(* as a stage of Lua that makes the one of the other.  A dump maps a prototype *)
(* type to its prototypes by name; a prototype is a JSON object.  What is said *)
(* of single values, which recurses into them, is in JsonValues.               *)
EXTENDS Integers, Sequences, FiniteSets, FiniteSetsExt, Functions, TLC

CONSTANTS
    Refused,        \* the value of a computation that raises
    Same(_, _),     \* two values are equal, as native Lua values
    Changes(_, _, _),   \* the paths, below one, at which two values differ
    Assign(_, _, _),    \* a table after an assignment through a path
    Lua(_)          \* what a value is in Lua

(* JSON as Python decodes it: a number keeps the spelling it was written in.   *)
Flag(b) == <<"flag", b>>
Whole(n) == <<"int", n>>
Float(n) == <<"float", n>>
Str(s) == <<"string", s>>
List(s) == <<"list", s>>
Map(f) == <<"map", f>>
Nothing == <<"nothing">>
Empty == [k \in {} |-> Nothing]

IsA(kind, v) == v[1] = kind
Tags(a, b) == {a[1], b[1]}

Keys(raw) == UNION {{<<kind, name>> : name \in DOMAIN raw[kind]} : kind \in DOMAIN raw}
Row(raw, key) == raw[key[1]][key[2]]
Fields(row) == row[2]
-----------------------------------------------------------------------------
(* _validate_new_prototype: a prototype is called what its place says.         *)
Placed(key, row) ==
    /\ {"type", "name"} \subseteq DOMAIN Fields(row)
    /\ Fields(row)["type"] = Str(key[1]) /\ Fields(row)["name"] = Str(key[2])

(* _diff_prototypes: a prototype may be added or changed, never removed.       *)
DiffPrototypes(before, after) ==
    LET old     == Keys(before)
        new     == Keys(after)
        changes == [key \in old \cap new |-> Changes(Row(before, key), Row(after, key), <<>>)]
        patched == {key \in old \cap new : changes[key] # {}}
    IN  IF \/ \E key \in new : ~Placed(key, Row(after, key))
           \/ \E key \in old \cap new : ~Placed(key, Row(before, key))
           \/ \E key \in patched : \E c \in changes[key] : Head(c[1]) \in {"type", "name"}
           \/ old \ new # {}
        THEN Refused
        ELSE [additions |-> [key \in new \ old |-> Row(after, key)],
              patches   |-> [key \in patched |-> changes[key]]]
-----------------------------------------------------------------------------
(* _apply_changes, and the assignments of one `do' block of a rendered stage.  *)
ApplyChanges(row, changes) ==
    FoldSet(LAMBDA c, done : Assign(done, c[1], c[2]), row, changes)

(* f, and g beside it.                                                         *)
Beside(f, g) == [x \in (DOMAIN f) \cup (DOMAIN g) |-> IF x \in DOMAIN f THEN f[x] ELSE g[x]]

(* data:extend and data.raw: rows put in their places.                         *)
Put(raw, rows) ==
    [kind \in (DOMAIN raw) \cup {key[1] : key \in DOMAIN rows} |->
        LET had   == IF kind \in DOMAIN raw THEN raw[kind] ELSE Empty
            added == {key \in DOMAIN rows : key[1] = kind}
        IN  [name \in (DOMAIN had) \cup {key[2] : key \in added} |->
                IF <<kind, name>> \in added THEN rows[<<kind, name>>] ELSE had[name]]]

(* _render_stage: what the rendered stage does to the dump it is run over.     *)
Executed(raw, stage) ==
    LET extended == Put(raw, stage.additions)
    IN  IF ~(DOMAIN stage.patches \subseteq Keys(extended))
        THEN Refused
        ELSE Put(extended, [key \in DOMAIN stage.patches |->
                               ApplyChanges(Row(extended, key), stage.patches[key])])

(* Two dumps that are the same to the game.                                    *)
SameDump(a, b) ==
    /\ Keys(a) = Keys(b)
    /\ \A key \in Keys(a) : Lua(Row(a, key)) = Lua(Row(b, key))

(* build_replay and compare take the dumps apart by stage.                     *)
DataStage(raw) == Restrict(raw, (DOMAIN raw) \ {"bool-setting", "int-setting"})
=============================================================================
