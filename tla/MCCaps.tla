------------------------------- MODULE MCCaps -------------------------------
(* Small instances of CapsHistory for TLC.                                     *)
EXTENDS CapsHistory, TLC

Row(kind, stream, admits, limit) ==
    [kind |-> kind, stream |-> stream, admits |-> admits, limit |-> limit,
     cancels |-> TRUE, retains |-> FALSE]

Same(discovery, row) == [discovery |-> discovery, rows |-> [t \in Techs |-> row]]

(* The same rows for every technology.                                         *)
Plain == {
    Same("absent", Row("generated", TRUE, TRUE, 1)),     \* capped at 1
    Same("absent", Row("generated", TRUE, TRUE, 0)),     \* unlimited
    Same("absent", Row("generated", TRUE, FALSE, 1)),    \* policy-disabled
    Same("absent", Row("generated", FALSE, FALSE, 1)) }  \* family switched off

Foreign == {
    Same("absent", Row("native", TRUE, TRUE, 1)),
    Same("absent", Row("native", TRUE, FALSE, 1)),       \* contract lost
    Same("absent", Row("withheld", TRUE, TRUE, 0)) }     \* released by this edition

Trees == {
    Same("plain", Row("generated", TRUE, TRUE, 1)),
    Same("queueAware", Row("generated", TRUE, TRUE, 1)),
    Same("absent", Row("generated", TRUE, TRUE, 1)),
    Same("absent", Row("generated", TRUE, TRUE, 0)),
    Same("plain", Row("generated", TRUE, FALSE, 1)) }

(* A cap lowered, lifted and withdrawn.                                        *)
Capping == {
    Same("absent", Row("generated", TRUE, TRUE, 1)),
    Same("absent", Row("generated", TRUE, FALSE, 1)) }

Switching == Capping \cup { Same("absent", Row("generated", TRUE, TRUE, 0)) }

Permutable == Permutations(Techs) \cup Permutations(Forces)

AllConfigs == Plain \cup Foreign \cup Trees
=============================================================================
