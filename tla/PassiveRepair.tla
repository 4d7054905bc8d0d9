---------------------------- MODULE PassiveRepair ----------------------------
(* The passive wall and gate repair queue: runtime/passive_repair.lua, and the *)
(* conditional tick subscription of runtime/bootstrap.lua.                     *)
(*                                                                             *)
(* Game time advances in steps; MIR's tick handler runs every Interval steps   *)
(* while it is subscribed.  A saved tick is kept as the steps left until it.   *)
EXTENDS Integers, SequencesExt

CONSTANTS
    Ids,            \* unit numbers of walls and gates
    Places,         \* pairs of a force and a surface
    Nil,            \* Lua's nil
    Quiet,          \* quiet_ticks, in steps
    Interval,       \* repair_interval_ticks, in steps
    Pending,        \* maximum_pending
    Budget,         \* per_tick_budget
    MaxHealth       \* health of an intact entity

ASSUME BoundsAssumption ==
    /\ Quiet \in Nat /\ Interval \in Nat \ {0}
    /\ Pending \in Nat /\ Budget \in Nat \ {0} /\ MaxHealth \in Nat \ {0}

Countdown == 0 .. IF Quiet > Interval THEN Quiet ELSE Interval

(* A live entity and a destroyed one, whose health is 0.                       *)
Entities == [place: Places, health: 0 .. MaxHealth]

(* members[id]: where the entity was damaged, steps left of quiet_until and of *)
(* next_repair_tick.                                                           *)
Members == [place: Places, quiet: Countdown, next: Countdown]

VARIABLES
    enabled,    \* the startup setting
    entity,     \* entity[id]
    allied,     \* places whose force is the player's or a mutual friend's
    bucket,     \* storage.mir.passive_repair, or Nil
    bound,      \* the tick handler is subscribed
    phase,      \* steps since the last multiple of Interval
    due,        \* MIR's tick handler has yet to run at this step
    hit         \* the damaged entity MIR has not been told of, or Nil

pvars == <<enabled, entity, allied, bucket, bound, phase, due, hit>>

Buckets == [queue: Seq(Ids), members: [Ids -> Members \cup {Nil}], scheduled: BOOLEAN]
EmptyBucket == [queue |-> <<>>, members |-> [i \in Ids |-> Nil], scheduled |-> FALSE]

ASSUME NilAssumption == Nil \notin Ids /\ Nil \notin Members /\ Nil \notin Buckets

(* Every variable has its type; timers and healths stay within their bounds.   *)
RepairTypeOK ==
    /\ enabled \in BOOLEAN /\ bound \in BOOLEAN /\ due \in BOOLEAN
    /\ entity \in [Ids -> Entities]
    /\ allied \subseteq Places
    /\ bucket \in Buckets \cup {Nil}
    /\ phase \in 0 .. Interval - 1
    /\ hit \in Ids \cup {Nil}

Idle == hit = Nil /\ ~due
Queue == IF bucket = Nil THEN <<>> ELSE bucket.queue
-----------------------------------------------------------------------------
(* entity_identity and the health checks                                       *)

Eligible(i) == entity[i].health > 0 /\ entity[i].place \in allied
Damaged(e) == e.health > 0 /\ e.health < MaxHealth

(* schedule_facts, save_repair_state and schedule_repair                       *)
Scheduled(b) ==
    /\ bucket' = [b EXCEPT !.scheduled = b.queue # <<>>]
    /\ bound' = (b.queue # <<>>)

(* Disabled: an existing bucket is emptied, none is made.                      *)
Disabled ==
    /\ bucket' = IF bucket = Nil THEN Nil ELSE EmptyBucket
    /\ bound' = FALSE

Ensured == IF bucket = Nil THEN EmptyBucket ELSE bucket
Row(i) == [place |-> entity[i].place, quiet |-> Quiet, next |-> Quiet]

(* Mutants of Admitted: a second hit queues the entity again, or does not       *)
(* postpone its repair.                                                        *)
AdmittedTwice(b, i) ==
    IF Len(b.queue) >= Pending THEN b
    ELSE [b EXCEPT !.queue = Append(@, i), !.members[i] = Row(i)]
AdmittedOnce(b, i) ==
    IF b.members[i] # Nil \/ Len(b.queue) >= Pending THEN b
    ELSE [b EXCEPT !.queue = Append(@, i), !.members[i] = Row(i)]

(* The body of on_entity_damaged for an accepted hit: a known entity elsewhere *)
(* is forgotten, a known one postponed, a new one queued while there is room.  *)
Admitted(b, i) ==
    IF b.members[i] # Nil /\ b.members[i].place # entity[i].place
    THEN [b EXCEPT !.members[i] = Nil, !.queue = RemoveFirst(@, i)]
    ELSE IF b.members[i] # Nil THEN [b EXCEPT !.members[i] = Row(i)]
    ELSE IF Len(b.queue) >= Pending THEN b
    ELSE [b EXCEPT !.queue = Append(@, i), !.members[i] = Row(i)]

OnEntityDamaged ==
    /\ hit # Nil /\ hit' = Nil
    /\ IF ~enabled THEN Disabled
       ELSE IF Eligible(hit) /\ Damaged(entity[hit]) THEN Scheduled(Admitted(Ensured, hit))
       ELSE bound' = (Queue # <<>>) /\ UNCHANGED bucket
    /\ UNCHANGED <<enabled, entity, allied, phase, due>>
-----------------------------------------------------------------------------
(* on_nth_tick                                                                 *)

(* Mutant of Mine: the owner is not asked again and an intact entity repaired.  *)
MineIntact(s, i) == s.members[i] # Nil /\ s.entity[i].health > 0

(* entity_for, maximum_health and incomplete                                   *)
Mine(s, i) ==
    /\ s.members[i] # Nil /\ s.members[i].place = s.entity[i].place
    /\ s.entity[i].place \in allied /\ Damaged(s.entity[i])

(* Mutant of Requeued: the entity stays first.                                 *)
RequeuedFirst(queue, i) == queue

Requeued(queue, i) == Append(Tail(queue), i)

(* One visit: the head of the queue is repaired once it is quiet, and goes     *)
(* back to the end while it is damaged.  Writes to the entities broken fail.   *)
Visit(s, broken) ==
    LET i     == Head(s.queue)
        row   == s.members[i]
        ready == Mine(s, i) /\ row.quiet = 0 /\ row.next = 0
        fix   == ready /\ i \notin broken
        back  == Mine(s, i) /\ (ready => fix /\ s.entity[i].health + 1 < MaxHealth)
    IN  [queue   |-> IF back THEN Requeued(s.queue, i) ELSE Tail(s.queue),
         members |-> [s.members EXCEPT ![i] = IF ~back THEN Nil
                        ELSE IF fix THEN [row EXCEPT !.next = Interval] ELSE row],
         entity  |-> [s.entity EXCEPT ![i].health = IF fix THEN @ + 1 ELSE @]]

Visits == IF Len(Queue) < Budget THEN Len(Queue) ELSE Budget

Unvisited == [queue |-> bucket.queue, members |-> bucket.members, entity |-> entity]

Visited(broken) ==
    LET after[k \in 0 .. Visits] ==
          IF k = 0 THEN Unvisited ELSE Visit(after[k - 1], broken)
    IN  after[Visits]

OnNthTick ==
    /\ due /\ hit = Nil /\ due' = FALSE
    /\ IF ~enabled THEN Disabled /\ UNCHANGED entity
       ELSE IF bucket = Nil THEN bound' = FALSE /\ UNCHANGED <<bucket, entity>>
       ELSE \E broken \in SUBSET Ids :
              LET s == Visited(broken)
              IN  /\ entity' = s.entity
                  /\ Scheduled([bucket EXCEPT !.queue = s.queue, !.members = s.members])
    /\ UNCHANGED <<enabled, allied, phase, hit>>
-----------------------------------------------------------------------------
(* The game                                                                    *)

Less(n) == IF n > 0 THEN n - 1 ELSE 0
Aged(row) == IF row = Nil THEN Nil ELSE [row EXCEPT !.quiet = Less(@), !.next = Less(@)]

Advance ==
    /\ Idle
    /\ phase' = (phase + 1) % Interval
    /\ due' = (bound /\ phase' = 0)
    /\ bucket' = IF bucket = Nil THEN Nil
                 ELSE [bucket EXCEPT !.members = [i \in Ids |-> Aged(@[i])]]
    /\ UNCHANGED <<enabled, entity, allied, bound, hit>>

(* The handler is filtered to walls and gates and bound while enabled.         *)
Damage(i) ==
    /\ Idle /\ entity[i].health > 0
    /\ entity' = [entity EXCEPT ![i].health = @ - 1]
    /\ hit' = IF enabled THEN i ELSE Nil
    /\ UNCHANGED <<enabled, allied, bucket, bound, phase, due>>

(* Robots, scripts and repair packs.                                           *)
Heal(i) ==
    /\ Damaged(entity[i])
    /\ entity' = [entity EXCEPT ![i].health = MaxHealth]
    /\ UNCHANGED <<enabled, allied, bucket, bound, phase, due, hit>>

(* Mined, or destroyed by a script; also between a hit and its handler.        *)
Destroy(i) ==
    /\ entity[i].health > 0
    /\ entity' = [entity EXCEPT ![i].health = 0]
    /\ UNCHANGED <<enabled, allied, bucket, bound, phase, due, hit>>

Transfer(i, p) ==
    /\ Idle /\ entity[i].place # p
    /\ entity' = [entity EXCEPT ![i].place = p]
    /\ UNCHANGED <<enabled, allied, bucket, bound, phase, due, hit>>

Ally(p) ==
    /\ Idle
    /\ allied' = IF p \in allied THEN allied \ {p} ELSE allied \cup {p}
    /\ UNCHANGED <<enabled, entity, bucket, bound, phase, due, hit>>

(* Mutant of Load: the subscription is left as register made it.               *)
LoadUnbound(on) ==
    /\ Idle
    /\ enabled' = on
    /\ bound' = FALSE
    /\ bucket' = IF on \/ bucket = Nil THEN bucket ELSE EmptyBucket
    /\ UNCHANGED <<entity, allied, phase, due, hit>>

(* The save is loaded: on_load only reads; on_configuration_changed follows    *)
(* when the setting changed, and reconcile_repair empties a disabled queue.    *)
Load(on) ==
    /\ Idle
    /\ enabled' = on
    /\ bound' = (on /\ Queue # <<>>)
    /\ bucket' = IF on \/ bucket = Nil THEN bucket ELSE EmptyBucket
    /\ UNCHANGED <<entity, allied, phase, due, hit>>

Init ==
    /\ enabled \in BOOLEAN
    /\ entity \in [Ids -> [place: Places, health: {MaxHealth}]]
    /\ allied \in SUBSET Places
    /\ bucket = Nil /\ bound = FALSE /\ phase = 0 /\ due = FALSE /\ hit = Nil

Next ==
    \/ OnEntityDamaged \/ OnNthTick \/ Advance
    \/ \E i \in Ids : Damage(i) \/ Heal(i) \/ Destroy(i) \/ \E p \in Places : Transfer(i, p)
    \/ \E p \in Places : Ally(p)
    \/ \E on \in BOOLEAN : Load(on)

Spec == Init /\ [][Next]_pvars

(* The engine dispatches raised events, and each step of the game holds        *)
(* finitely many of them: its clock runs on however often walls are hit.       *)
FairSpec == Spec /\ WF_pvars(OnEntityDamaged) /\ WF_pvars(OnNthTick) /\ SF_pvars(Advance)
-----------------------------------------------------------------------------
(* The queue holds every member once, and never more than Pending: no member   *)
(* is stranded without a visit, none is visited twice (queue and members of    *)
(* the saved bucket).                                                          *)
QueueIsMembers ==
    bucket # Nil =>
        /\ IsInjective(bucket.queue)
        /\ ToSet(bucket.queue) = {i \in Ids : bucket.members[i] # Nil}
        /\ Len(bucket.queue) <= Pending

(* Between events the tick handler is subscribed exactly while there is work,  *)
(* also after a load, and a disabled feature keeps none (repair_scheduled).    *)
BoundWhileQueued ==
    Idle => /\ bound = (Queue # <<>>)
            /\ ~enabled => Queue = <<>>

(* A queued entity is repaired out of the queue or dropped from it, unless it  *)
(* is hit again: the rotation of the queue starves nobody.                     *)
Served ==
    \A i \in Ids : (i \in ToSet(Queue)) ~> (i \notin ToSet(Queue) \/ hit = i)
=============================================================================
