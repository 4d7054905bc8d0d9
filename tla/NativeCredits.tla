---------------------------- MODULE NativeCredits ----------------------------
(* Paid recipe productivity across changes of what a technology pays:          *)
(* runtime/native_credits.lua.  A technology pays an effect per level for each *)
(* recipe the current inputs include.  For each recipe two hidden carriers,    *)
(* one adding and one subtracting that effect, hold the difference between     *)
(* what was earned and what the technology pays now.  The recipes of an        *)
(* authored family have a complete history and refuse what it cannot prove;    *)
(* the named overlaps only follow the inclusion recorded last.  A refusal is a *)
(* Lua error: the game stops and the player is left with the last save.        *)
EXTENDS Integers, FiniteSets

CONSTANTS
    Forces,         \* force indices
    Family,         \* recipes that may be listed in a family
    Overlaps,       \* recipes of the fixed overlap pairs
    Published,      \* what published editions paid
    Nil,            \* Lua's nil
    Limit,          \* levels a carrier can represent, UINT32_MAX
    MaxLevel,       \* bound on completed levels
    MaxQueue        \* bound on queued levels

ASSUME CreditAssumption ==
    /\ {Limit, MaxLevel, MaxQueue} \subseteq Nat
    /\ Published \subseteq Family /\ Published # {} /\ Family \cap Overlaps = {}

VARIABLES
    alive,          \* forces that exist
    config,         \* what the data stage made of the inputs
    native,         \* native[f], the engine's levels and queue
    record,         \* record[f][r], the ledger in storage
    history,        \* history[f], the family's complete recipe set, or Nil
    pendingActive,  \* the cached flag that research events matter
    event,          \* the event to handle
    refused

cvars == <<alive, config, native, record, history, pendingActive, event, refused>>

Recipes == Family \cup Overlaps

(* listed: the recipes with carriers; included: those the technology pays;     *)
(* private: it is hidden, and only work queued before can complete.            *)
Configs ==
    {c \in [listed : SUBSET Family, included : SUBSET Recipes, private : BOOLEAN] :
        c.included \cap Family \subseteq c.listed}

(* credit[r]: completed levels of the adding carrier less the subtracting one. *)
Natives == [done : 0 .. MaxLevel, queued : 0 .. MaxQueue, credit : [Recipes -> Int]]

Records ==
    [included : BOOLEAN, offset : Int, private : BOOLEAN, payable : BOOLEAN,
     pending : 0 .. MaxQueue, completed : 0 .. MaxLevel]

ASSUME NilAssumption ==
    Nil \notin BOOLEAN /\ Nil \notin Records /\ \A family \in SUBSET Family : family # Nil

Paid(b) == IF b THEN 1 ELSE 0
Included(r) == r \in config.included
Least(m, n) == IF m < n THEN m ELSE n

(* Mutant of Representable: off by one.                                        *)
RepresentableEdge(n) == -Limit <= n /\ n <= Limit

Representable(n) == -Limit < n /\ n < Limit

(* For which technologies the published edition a save comes from is known.    *)
Origins == {"none", "public", "private", "any"}

NoEvent == [kind |-> "none", force |-> Nil, source |-> Nil, count |-> 0, origin |-> "none"]
Raised(k, f) == [NoEvent EXCEPT !.kind = k, !.force = f]
-----------------------------------------------------------------------------
(* preflight_family_transition for force f                                     *)

(* on_init, on_force_created and on_force_reset begin with no ledger.          *)
Fresh == event.kind \in {"init", "started"}
Blank == [r \in Recipes |-> Nil]
Prior(f) == IF Fresh THEN Blank ELSE record[f]
Past(f) == IF Fresh THEN Nil ELSE history[f]

(* Hidden work queued or begun; begun: the technology has saved progress.      *)
Invested(f, begun) == config.private /\ (native[f].queued > 0 \/ begun)

(* What r was paid before, where it has a record, a history without it, or     *)
(* neither.                                                                    *)
PriorIncluded(f, r, begun) ==
    IF Prior(f)[r] # Nil THEN Prior(f)[r].included
    ELSE /\ Past(f) = Nil
         /\ IF Fresh \/ (native[f].done = 0 /\ ~Invested(f, begun))
            THEN Included(r) ELSE r \in Published

(* A first paid mask that no known edition explains.                           *)
Unknown(f, begun) ==
    /\ ~Fresh /\ (native[f].done > 0 \/ Invested(f, begun))
    /\ \/ event.origin \in {"none", IF config.private THEN "public" ELSE "private"}
       \/ ~(Published \subseteq config.listed)

(* Work queued before the technology became private.                           *)
Pending(f, r) ==
    LET p == Prior(f)[r]
    IN  IF p # Nil
        THEN IF p.private THEN Least(p.pending, native[f].queued) ELSE native[f].queued
        ELSE IF Past(f) # Nil THEN 0 ELSE native[f].queued

Payable(f, r, begun) ==
    LET p == Prior(f)[r]
    IN  IF p # Nil /\ p.private /\ p.pending > 0 THEN p.payable ELSE PriorIncluded(f, r, begun)

(* The record of r after the transition.                                       *)
Row(f, r, begun) ==
    LET pending == IF config.private THEN Pending(f, r) ELSE 0
    IN  [included |-> Included(r), private |-> config.private, completed |-> native[f].done,
         offset   |-> native[f].credit[r]
                        + (Paid(PriorIncluded(f, r, begun)) - Paid(Included(r))) * native[f].done,
         pending  |-> pending,
         payable  |-> IF pending = 0 THEN Included(r) ELSE Payable(f, r, begun)]

(* A recipe of the history that is no longer listed may go only unpaid.        *)
Unretirable(f, r, begun) ==
    LET p == Prior(f)[r]
    IN  \/ p = Nil
        \/ p.offset # 0 \/ (p.included /\ native[f].done > 0) \/ p.pending > 0 \/ begun

(* What the save says of r cannot be proved.                                   *)
Disputed(f, r, begun) ==
    LET p      == Prior(f)[r]
        credit == native[f].credit[r]
    IN  \/ /\ p # Nil
           /\ \/ p.offset # credit \/ native[f].done < p.completed
              \/ p.private /\ p.pending > 0 /\ p.payable # p.included /\ p.completed # native[f].done
        \/ p = Nil /\ Past(f) # Nil /\ (r \in Past(f) \/ credit # 0)
        \/ p = Nil /\ Past(f) = Nil /\ ((~Fresh /\ credit # 0) \/ Unknown(f, begun))
        \/ ~Representable(Row(f, r, begun).offset)

Refuses(f, begun) ==
    \/ /\ config.listed = {} /\ ~Fresh /\ Past(f) = Nil
       /\ native[f].done > 0 \/ native[f].queued > 0 \/ begun
    \/ Past(f) # Nil /\ \E r \in Past(f) \ config.listed : Unretirable(f, r, begun)
    \/ Past(f) = Nil /\ \E r \in Family : Prior(f)[r] # Nil
    \/ \E r \in config.listed : Disputed(f, r, begun)
-----------------------------------------------------------------------------
(* reconcile_force: the overlap pairs of force f                               *)

(* With no record, or unless the inputs changed, the present inclusion is the  *)
(* only honest baseline.                                                       *)
Overlap(f, r) ==
    LET p == IF event.kind = "configured" THEN record[f][r] ELSE Nil
    IN  [included |-> Included(r), private |-> FALSE, payable |-> Included(r), pending |-> 0,
         completed |-> 0,
         offset |-> IF p = Nil THEN native[f].credit[r]
                    ELSE p.offset + (Paid(p.included) - Paid(Included(r))) * native[f].done]

(* The ledger after the transition.                                            *)
NewRecords(f, begun) ==
    [r \in Recipes |-> IF r \in Overlaps THEN Overlap(f, r)
                       ELSE IF r \in config.listed THEN Row(f, r, begun)
                       ELSE Nil]

(* apply_offset writes both carriers of every recipe listed.                   *)
Carried(f, rows) ==
    [native[f] EXCEPT !.credit = [r \in Recipes |-> IF rows[r] = Nil THEN 0 ELSE rows[r].offset]]
-----------------------------------------------------------------------------
(* Handlers                                                                    *)

(* refresh_pending                                                             *)
PendingIn(records, listed) ==
    \E f \in Forces : \E r \in listed :
      LET p == records[f][r] IN p # Nil /\ p.private /\ p.pending > 0 /\ p.payable # p.included

Refused ==
    /\ refused' = TRUE
    /\ UNCHANGED <<alive, config, native, record, history, pendingActive>>

(* The forces F are written, the ledgers of the forces gone dropped.           *)
Written(F, gone, begun) ==
    /\ record' = [f \in Forces |-> IF f \in F THEN NewRecords(f, begun)
                                   ELSE IF f \in gone THEN Blank ELSE record[f]]
    /\ history' = [f \in Forces |-> IF f \in F THEN config.listed
                                    ELSE IF f \in gone THEN Nil ELSE history[f]]
    /\ native' = [f \in Forces |-> IF f \in F THEN Carried(f, NewRecords(f, begun)) ELSE native[f]]
    /\ pendingActive' = PendingIn(record', config.listed)
    /\ UNCHANGED <<alive, config, refused>>

(* Every force of F is planned before anything is written.                     *)
Reconcile(F, gone) ==
    \E begun \in BOOLEAN :
      IF \E f \in F : Refuses(f, begun) THEN Refused ELSE Written(F, gone, begun)

Takes(k) == ~refused /\ event.kind = k /\ event' = NoEvent

OnInit == Takes("init") /\ Reconcile(alive, {})

OnConfigurationChanged == Takes("configured") /\ Reconcile(alive, {})

(* on_force_created, on_force_reset                                            *)
OnForceStarted == Takes("started") /\ Reconcile({event.force}, {})

OnForcesMerged == Takes("merged") /\ Reconcile({event.force}, {event.source})

(* A completion of private work is paid what it was queued for.                *)
Awaiting(f) ==
    {r \in config.listed : record[f][r] # Nil /\ record[f][r].private /\ record[f][r].pending > 0}

Advanced(f) == {r \in Awaiting(f) : native[f].done = record[f][r].completed + 1}

Impossible(f) ==
    \E r \in Awaiting(f) :
      LET p == record[f][r]
      IN  \/ p.offset # native[f].credit[r]
          \/ native[f].done - p.completed \notin {0, 1}
          \/ ~Representable(p.offset + Paid(p.payable) - Paid(Included(r)))

(* Mutant of Credited: the level is counted but not paid.                      *)
CreditedFree(p, f, r) ==
    [p EXCEPT !.completed = native[f].done, !.pending = @ - 1,
              !.payable = IF p.pending = 1 THEN p.included ELSE @]

(* Mutant of Credited: the level it answers is not noted.                      *)
CreditedUnnoted(p, f, r) ==
    [p EXCEPT !.offset = @ + Paid(p.payable) - Paid(Included(r)), !.pending = @ - 1,
              !.payable = IF p.pending = 1 THEN p.included ELSE @]

Credited(p, f, r) ==
    [p EXCEPT !.offset = @ + Paid(p.payable) - Paid(Included(r)),
              !.completed = native[f].done, !.pending = @ - 1,
              !.payable = IF p.pending = 1 THEN p.included ELSE @]

OnResearchFinished ==
    /\ Takes("finished")
    /\ LET f     == event.force
           after == [record EXCEPT ![f] = [r \in Recipes |->
                       IF r \in Advanced(f) THEN Credited(@[r], f, r) ELSE @[r]]]
       IN  IF ~pendingActive
           THEN UNCHANGED <<alive, config, native, record, history, pendingActive, refused>>
           ELSE IF Impossible(f) THEN Refused
           ELSE /\ record' = after
                /\ native' = [native EXCEPT ![f].credit = [r \in Recipes |->
                                IF r \in Advanced(f) THEN after[f][r].offset ELSE @[r]]]
                /\ pendingActive' = PendingIn(after, config.listed)
                /\ UNCHANGED <<alive, config, history, refused>>

Withdrawn(p, n) ==
    IF p = Nil THEN Nil
    ELSE LET left == IF p.pending > n THEN p.pending - n ELSE 0
         IN  [p EXCEPT !.pending = left, !.payable = IF left = 0 THEN p.included ELSE @]

OnResearchCancelled ==
    /\ Takes("cancelled")
    /\ LET f     == event.force
           after == [record EXCEPT ![f] = [r \in Recipes |->
                       IF r \in config.listed THEN Withdrawn(@[r], event.count) ELSE @[r]]]
       IN  IF ~pendingActive THEN UNCHANGED <<record, pendingActive>>
           ELSE record' = after /\ pendingActive' = PendingIn(after, config.listed)
    /\ UNCHANGED <<alive, config, native, history, refused>>

MirNext ==
    \/ OnInit \/ OnConfigurationChanged \/ OnForceStarted \/ OnForcesMerged
    \/ OnResearchFinished \/ OnResearchCancelled
-----------------------------------------------------------------------------
(* The engine and the players                                                  *)

Quiet == event = NoEvent
Playing == Quiet /\ ~refused

(* A hidden technology cannot be queued.                                       *)
Enqueue(f) ==
    /\ Playing /\ f \in alive /\ ~config.private /\ native[f].queued < MaxQueue
    /\ native' = [native EXCEPT ![f].queued = @ + 1]
    /\ UNCHANGED <<alive, config, record, history, pendingActive, event, refused>>

Complete(f) ==
    /\ Playing /\ f \in alive /\ native[f].queued > 0 /\ native[f].done < MaxLevel
    /\ native' = [native EXCEPT ![f].queued = @ - 1, ![f].done = @ + 1]
    /\ event' = Raised("finished", f)
    /\ UNCHANGED <<alive, config, record, history, pendingActive, refused>>

Cancel(f, n) ==
    /\ Playing /\ f \in alive /\ n <= native[f].queued
    /\ native' = [native EXCEPT ![f].queued = @ - n]
    /\ event' = [Raised("cancelled", f) EXCEPT !.count = n]
    /\ UNCHANGED <<alive, config, record, history, pendingActive, refused>>

Unpaid == [done |-> 0, queued |-> 0, credit |-> [r \in Recipes |-> 0]]

(* A force is reset, or created at a free index.                               *)
Start(f) ==
    /\ Playing
    /\ alive' = alive \cup {f}
    /\ native' = [native EXCEPT ![f] = Unpaid]
    /\ event' = Raised("started", f)
    /\ UNCHANGED <<config, record, history, pendingActive, refused>>

(* The destination keeps its own technologies.                                 *)
Merge(s, d) ==
    /\ Playing /\ s \in alive /\ d \in alive \ {s}
    /\ alive' = alive \ {s}
    /\ native' = [native EXCEPT ![s] = Unpaid]
    /\ event' = [Raised("merged", d) EXCEPT !.source = s]
    /\ UNCHANGED <<config, record, history, pendingActive, refused>>

(* Mutant of Load: on_load leaves the flag as the script starts with it.       *)
LoadUnaware(c) ==
    /\ Playing /\ config' = c
    /\ native' = [f \in Forces |-> [native[f] EXCEPT !.credit =
                    [r \in Recipes |-> IF r \in c.listed \cup Overlaps THEN @[r] ELSE 0]]]
    /\ pendingActive' = FALSE
    /\ event' = IF c = config THEN NoEvent ELSE Raised("configured", Nil)
    /\ UNCHANGED <<alive, record, history, refused>>

(* The save is loaded, perhaps with other inputs: carriers of a recipe no      *)
(* longer listed are gone; on_load rebuilds the flag from storage.             *)
Load(c) ==
    /\ Playing /\ config' = c
    /\ native' = [f \in Forces |-> [native[f] EXCEPT !.credit =
                    [r \in Recipes |-> IF r \in c.listed \cup Overlaps THEN @[r] ELSE 0]]]
    /\ pendingActive' = PendingIn(record, c.listed)
    /\ event' = IF c = config THEN NoEvent ELSE Raised("configured", Nil)
    /\ UNCHANGED <<alive, record, history, refused>>

EngineNext ==
    \/ \E f \in Forces : \/ Enqueue(f) \/ Complete(f) \/ Start(f)
                         \/ \E n \in 1 .. MaxQueue : Cancel(f, n)
                         \/ \E s \in Forces : Merge(s, f)
    \/ \E c \in Configs : Load(c)

(* MIR is added to a game, or a save of an earlier edition is loaded.          *)
Init ==
    /\ config \in Configs
    /\ alive \in (SUBSET Forces) \ {{}}
    /\ event \in {Raised("init", Nil)}
                   \cup {[Raised("configured", Nil) EXCEPT !.origin = o] : o \in Origins}
    /\ native \in [Forces -> [done : 0 .. MaxLevel, queued : 0 .. MaxQueue, credit : {Unpaid.credit}]]
    /\ \A f \in Forces : (f \notin alive \/ event.kind = "init") => native[f] = Unpaid
    /\ record = [f \in Forces |-> Blank]
    /\ history = [f \in Forces |-> Nil]
    /\ pendingActive = FALSE /\ refused = FALSE

Next == MirNext \/ EngineNext

Spec == Init /\ [][Next]_cvars
-----------------------------------------------------------------------------
(* Records and native levels keep their shape, and carriers their range.       *)
CreditTypeOK ==
    /\ alive \subseteq Forces /\ config \in Configs
    /\ native \in [Forces -> Natives]
    /\ \A f \in Forces, r \in Recipes : record[f][r] # Nil =>
         record[f][r] \in Records /\ (r \in Family => record[f][r].offset \in 1 - Limit .. Limit - 1)
    /\ \A f \in Forces : history[f] # Nil => history[f] \subseteq Family
    /\ pendingActive \in BOOLEAN /\ refused \in BOOLEAN
=============================================================================
