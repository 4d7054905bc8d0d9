------------------------------ MODULE MCRepair ------------------------------
(* A small instance of RepairHistory for TLC: two walls that come and go in a  *)
(* queue of two, and a third.  Either the third is at home with them and is    *)
(* scratched when the queue is full, or it is abroad, untouched, and the two   *)
(* change hands while the setting stands.                                      *)
EXTENDS RepairHistory

CONSTANTS third, home

MCInit ==
    /\ HInit
    /\ allied \subseteq {home}
    /\ \A i \in Ids \ {third} : entity[i].place = home

MCNext ==
    /\ HStep
    /\ allied' \subseteq {home}
    /\ entity'[third].place = entity[third].place
    /\ IF entity[third].place = home
       THEN /\ Damage(third) => Len(Queue) = Pending /\ enabled
            /\ entity'[third].health >= MaxHealth - 1
            /\ \A i \in Ids : entity'[i].place = home
       ELSE entity'[third] = entity[third] /\ enabled' = enabled

(* The fairness of PassiveRepair's FairSpec.                                   *)
MCSpec ==
    /\ MCInit /\ [][MCNext]_rhvars
    /\ WF_pvars(OnEntityDamaged) /\ WF_pvars(OnNthTick) /\ SF_pvars(Advance)
=============================================================================
