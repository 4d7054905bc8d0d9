----------------------------- MODULE MCCapsQueue -----------------------------
(* Small instances of Caps alone, for the properties that need no history.     *)
EXTENDS Caps, TLC

Row(admits, limit) ==
    [kind |-> "generated", stream |-> TRUE, admits |-> admits, limit |-> limit,
     cancels |-> TRUE, retains |-> FALSE]

CONSTANTS t1, t2

(* Both technologies are capped at 1, and t2 is made unavailable at times.     *)
Capping == {[discovery |-> "absent", rows |-> (t1 :> Row(TRUE, 1)) @@ (t2 :> Row(a, 1))] :
              a \in BOOLEAN}

(* One force for the whole game, whose technologies are as visible as MIR left *)
(* them.  What becomes of its queue depends neither on other forces nor on     *)
(* what is shown; the runs of CapsHistory explore both.                        *)
QueueInit ==
    /\ Init
    /\ alive = Forces
    /\ \A f \in Forces, t \in Techs : cell[f][t].visible = FALSE
OneForce == Next /\ ~ForeignVisible /\ UNCHANGED alive

QueueSpec == QueueInit /\ [][OneForce]_vars /\ Fairness
=============================================================================
