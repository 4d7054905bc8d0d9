---------------------------- MODULE RepairHistory ----------------------------
(* PassiveRepair with the steps since each entity was last damaged.            *)
EXTENDS PassiveRepair

VARIABLES
    calm,       \* calm[id], steps since the last damage, at most Quiet
    fair        \* fair[id]: that damage struck an allied, still damaged entity

rhvars == <<pvars, calm, fair>>

HInit ==
    /\ Init
    /\ calm = [i \in Ids |-> Quiet]
    /\ fair = [i \in Ids |-> TRUE]

HStep ==
    \/ /\ OnEntityDamaged
       /\ fair' = [fair EXCEPT ![hit] = Eligible(hit) /\ Damaged(entity[hit])]
       /\ UNCHANGED calm
    \/ /\ OnNthTick
       /\ UNCHANGED <<calm, fair>>
    \/ /\ Advance
       /\ calm' = [i \in Ids |-> IF calm[i] < Quiet THEN calm[i] + 1 ELSE Quiet]
       /\ UNCHANGED fair
    \/ \E i \in Ids :
         \/ Damage(i) /\ calm' = [calm EXCEPT ![i] = 0] /\ UNCHANGED fair
         \/ /\ Heal(i) \/ Destroy(i) \/ \E p \in Places : Transfer(i, p)
            /\ UNCHANGED <<calm, fair>>
    \/ /\ (\E p \in Places : Ally(p)) \/ \E on \in BOOLEAN : Load(on)
       /\ UNCHANGED <<calm, fair>>

HSpec == HInit /\ [][HStep]_rhvars
-----------------------------------------------------------------------------
Repaired(i) == entity'[i].health > entity[i].health

(* A tick repairs one health of each of at most Budget entities, none of them  *)
(* destroyed, each allied and quiet since a hit MIR accepted (on_nth_tick).    *)
RepairsPatiently ==
    [][OnNthTick =>
         /\ Cardinality({i \in Ids : Repaired(i)}) <= Budget
         /\ \A i \in Ids : Repaired(i) =>
              /\ entity'[i].health = entity[i].health + 1
              /\ entity[i].place \in allied
              /\ fair[i] => calm[i] >= Quiet]_rhvars

Ripe(row) == row.quiet = 0 /\ row.next = 0

(* How the queue moves.  A tick that visits n entities moves those behind them *)
(* n places forward and touches nothing else of theirs; a visited one leaves   *)
(* when it is not MIR's to repair any more or its time has come, and otherwise *)
(* stays repaired by one, or as it was because its time has not come.  Between *)
(* ticks nobody moves back, and only who is hit again has to wait longer       *)
(* (on_nth_tick and on_entity_damaged): nobody is passed over.                 *)
ServedInTurn ==
    [][\A k \in DOMAIN Queue :
         LET i   == Queue[k]
             row == bucket.members[i]
             new == bucket'.members[i]
         IN  IF OnNthTick /\ enabled
             THEN IF k > Visits
                  THEN Queue'[k - Visits] = i /\ new = row /\ entity'[i] = entity[i]
                  ELSE IF new = Nil
                  THEN Mine(Unvisited, i) => Ripe(row)
                  ELSE Repaired(i) \/ (new = row /\ ~Ripe(row))
             ELSE new # Nil =>
                    /\ \E m \in 1 .. k : Queue'[m] = i
                    /\ new \in {row, Aged(row)} \/ (hit = i /\ new = Row(i))]_pvars
=============================================================================
