-------------------------------- MODULE Caps --------------------------------
(* Absolute level caps: runtime/caps.lua, the event handlers of                *)
(* runtime/lifecycle.lua that own its ledger, the subscriptions of             *)
(* runtime/bootstrap.lua that feed them and the policy-3 import of             *)
(* runtime/legacy_caps.lua.                                                    *)
(*                                                                             *)
(* The engine (levels, flags, research queue), the players and the other mods  *)
(* are the World; they change native state, and the engine queues an event for *)
(* each change.  MIR's handlers take the events in order.  Other mods may      *)
(* write flags between an event and MIR's handler of it.                       *)
EXTENDS Integers, FiniteSets, SequencesExt

CONSTANTS
    Forces,         \* force indexes
    Techs,          \* authored technologies MIR may cap
    Nil,            \* Lua's nil
    Configs,        \* startup configurations a save may be loaded with
    MaxLevel,       \* bound on technology.level
    MaxQueue,       \* bound on the length of force.research_queue
    OldGames        \* TRUE: saves of MIR4 with a policy-3 ledger; FALSE: new games

ASSUME NilAssumption == Nil \notin BOOLEAN /\ Nil \notin Techs

ASSUME ForcesAssumption == IsFiniteSet(Forces)

ASSUME BoundsAssumption == MaxLevel \in Nat \ {0} /\ MaxQueue \in Nat

Levels == 1 .. MaxLevel
Maybe == BOOLEAN \cup {Nil}

(* One authored row under one configuration.  "generated" rows are MIR's own   *)
(* technologies and admits is prototype.enabled; "native" rows belong to the   *)
(* game and admits is cap_admission's exact effect contract; "withheld" rows   *)
(* are native owners this edition only releases.  stream is the family switch, *)
(* limit the effective cap (0 is unlimited).                                   *)
Rows == [kind: {"generated", "native", "withheld"}, stream: BOOLEAN,
         admits: BOOLEAN, limit: 0 .. MaxLevel, cancels: BOOLEAN, retains: BOOLEAN]

(* "queueAware": Discovery Tree also reveals on queue changes.                 *)
Discovery == {"absent", "plain", "queueAware"}

ASSUME ConfigsAssumption == Configs \subseteq [discovery: Discovery, rows: [Techs -> Rows]]

(* A row of owned_disabled[force.index].                                       *)
Entries == [disabled: Maybe, visible: Maybe, discovery: Maybe]
NoEntry == [disabled |-> Nil, visible |-> Nil, discovery |-> Nil]

ASSUME EntryAssumption == Nil \notin Entries

(* What a handler sees of one technology of one force: its native level and    *)
(* flags, and MIR's ledger row for it.                                         *)
Cells == [level: Levels, enabled: BOOLEAN, visible: BOOLEAN, entry: Entries \cup {Nil}]

(* A MIR4 policy-3 record whose policy and visibility row match the current    *)
(* candidate: cap, the enablement proof matches; unowned, the continuity row   *)
(* of a foreign disablement is present; visible, the visibility to give back.  *)
OldRows == [cap: BOOLEAN, unowned: BOOLEAN, visible: BOOLEAN]

VARIABLES
    config,     \* the loaded configuration
    alive,      \* forces that exist
    cell,       \* cell[f][t]
    queue,      \* queue[f], force.research_queue; its head is current_research
    work,       \* work[f][t], 1 when research progress is invested in t
    events,     \* events raised and not yet handled by MIR
    relayed,    \* Discovery Tree has handled the first of them
    old         \* old[f][t], storage.mir.maximum_level_control, Nil once checked

vars == <<config, alive, cell, queue, work, events, relayed, old>>

NamedKinds == {"finished", "reversed", "started", "cancelled", "queued"}
ForceKinds == {"created", "reset", "merged", "effects"}
GlobalKinds == {"init", "configured", "setting"}
Events == [kind: NamedKinds \cup ForceKinds \cup GlobalKinds,
           force: Forces \cup {Nil}, tech: Techs \cup {Nil}, source: Forces \cup {Nil}]

Event(k, f, t) == [kind |-> k, force |-> f, tech |-> t, source |-> Nil]

(* The part of the type invariant that the ledger theorems rest on.            *)
CellTypeOK ==
    /\ config \in Configs
    /\ alive \subseteq Forces
    /\ cell \in [Forces -> [Techs -> Cells]]
    /\ old \in [Forces -> [Techs -> OldRows \cup {Nil}]]

(* Every variable has its type; queues stay within the game's own bound and    *)
(* MIR raises only events of the declared kinds.                               *)
TypeOK ==
    /\ CellTypeOK
    /\ queue \in [Forces -> Seq(Techs)] /\ \A f \in Forces : Len(queue[f]) <= MaxQueue
    /\ work \in [Forces -> [Techs -> 0 .. 1]]
    /\ events \in Seq(Events)
    /\ relayed \in BOOLEAN
-----------------------------------------------------------------------------
(* Admission                                                                   *)

Limited(row) == row.kind # "withheld" /\ row.stream /\ row.admits
Withheld(row) == row.kind = "withheld" /\ row.admits
Admitted(row) == Limited(row) \/ Withheld(row)

(* A generated technology kept in the save with prototype.enabled = false.     *)
Retained(row) == row.kind = "generated" /\ ~row.admits

OverLimit(row, level) == row.limit > 0 /\ level > row.limit
Capped(row, level) == Limited(row) /\ OverLimit(row, level)

CapsActive == \E t \in Techs : config.rows[t].stream /\ config.rows[t].limit > 0
                               /\ config.rows[t].kind # "withheld"

(* Event subscriptions made when the control stage is parsed.  The platform     *)
(* target has recipe productivity, so native_credits is present and keeps the  *)
(* force events bound even when no cap is finite.                              *)
Subscribed(kind) ==
    \/ kind \in ForceKinds \cup (GlobalKinds \ {"setting"})
    \/ kind \in (NamedKinds \ {"queued"}) /\ CapsActive
    \/ kind \in {"queued", "setting"} /\ CapsActive /\ config.discovery # "absent"

(* What the engine raises, where MIR hears of it.                              *)
Raised(k, f, t) == IF Subscribed(k) THEN <<Event(k, f, t)>> ELSE <<>>
-----------------------------------------------------------------------------
(* The ledger: one technology of one force.  obs is reconcile's argument       *)
(* discovery_observed; imported says the ledger row was created by this        *)
(* callback's import with a positive proof beside a live re-enablement.        *)

(* reconcile_authored_prototype_disablement                                    *)
PolicyOff(row, x, imported) ==
    IF ~(Retained(row) /\ x.enabled) THEN x
    ELSE [x EXCEPT !.enabled = FALSE,
                   !.entry = IF @ = Nil THEN [NoEntry EXCEPT !.disabled = TRUE]
                             ELSE IF @.disabled = Nil THEN [@ EXCEPT !.disabled = imported]
                             ELSE @]

(* Mutants of CapOff: a foreign disablement recorded as MIR's own, and the      *)
(* prior visibility overwritten on every pass.                                 *)
CapOffClaimsAll(x, imported, obs) ==
    [x EXCEPT !.enabled = FALSE, !.visible = TRUE,
              !.entry = [disabled |-> IF x.entry = Nil THEN TRUE ELSE x.entry.disabled,
                         visible |-> IF x.visible THEN Nil ELSE FALSE, discovery |-> Nil]]
CapOffForgetsPrior(x, imported, obs) ==
    [x EXCEPT !.enabled = FALSE, !.visible = TRUE,
              !.entry = [disabled |-> IF x.entry = Nil THEN x.enabled ELSE x.entry.disabled,
                         visible |-> x.visible, discovery |-> Nil]]

(* caps.reconcile on a technology above its cap.                               *)
CapOff(x, imported, obs) ==
    LET found    == IF x.entry = Nil THEN NoEntry ELSE x.entry
        observed == IF obs # Nil /\ (obs = TRUE \/ found.discovery = Nil)
                    THEN x.enabled ELSE found.discovery
        right    == IF found.disabled # Nil THEN found.disabled
                    ELSE x.enabled /\ (x.entry = Nil \/ imported)
        prior    == IF obs # Nil THEN Nil
                    ELSE IF ~x.visible /\ found.visible = Nil THEN FALSE
                    ELSE found.visible
        shown    == IF obs = Nil THEN TRUE
                    ELSE IF found.visible # Nil THEN found.visible ELSE x.visible
    IN  [x EXCEPT !.enabled = FALSE, !.visible = shown,
                  !.entry = [disabled |-> right, visible |-> prior, discovery |-> observed]]

(* Mutants of Release: an unobserved row revealed, and a release that ignores  *)
(* Discovery Tree.                                                             *)
ReleaseRevealing(x, obs) ==
    [x EXCEPT !.enabled = IF obs # Nil THEN @ ELSE TRUE, !.entry = Nil]
ReleaseOverDiscovery(x, obs) ==
    [x EXCEPT !.enabled = x.entry.disabled = TRUE, !.entry = Nil]

(* caps.reconcile on a technology within its cap that has a ledger row.        *)
Release(x, obs) ==
    LET e       == x.entry
        enabled == IF obs # Nil THEN x.enabled
                   ELSE IF e.discovery # Nil THEN e.discovery = TRUE \/ x.enabled
                   ELSE IF e.disabled # Nil THEN e.disabled
                   ELSE x.enabled
    IN  [x EXCEPT !.enabled = enabled, !.entry = Nil,
                  !.visible = IF e.visible # Nil THEN e.visible ELSE @]

(* Mutant of Bound: a row is kept whatever became of its technology.           *)
BoundForever(row, x) == x

(* discard_unbound_ownership: only the restoration right is dropped.           *)
Bound(row, x) ==
    IF Admitted(row) \/ Retained(row) THEN x ELSE [x EXCEPT !.entry = Nil]

(* reconcile_force restricted to one technology, with restore_withheld_caps.   *)
ReconcileCell(row, x, imported, obs) ==
    IF Capped(row, x.level) THEN CapOff(x, imported, obs)
    ELSE IF Admitted(row) /\ x.entry # Nil THEN Release(x, obs)
    ELSE Bound(row, x)

(* reconcile_force for the forces F and the technologies S, after the          *)
(* prototype policy when the event is not a named research event.              *)
Reconciled(cells, F, S, policy, fresh, obs) ==
    [f \in Forces |-> [t \in Techs |->
        LET row == config.rows[t]
            x   == cells[f][t]
            new == <<f, t>> \in fresh
        IN  IF f \notin F \/ t \notin S THEN x
            ELSE ReconcileCell(row, IF policy THEN PolicyOff(row, x, new) ELSE x, new, obs)]]

(* clear_force, and reconcile_all's removal of stale forces                    *)
Cleared(cells, F) ==
    [f \in Forces |-> [t \in Techs |->
        IF f \in F THEN [cells[f][t] EXCEPT !.entry = Nil] ELSE cells[f][t]]]
-----------------------------------------------------------------------------
(* The one-time import of a MIR4 ledger                                        *)

(* legacy_candidates                                                           *)
Candidate(row) ==
    Admitted(row) \/ (Retained(row) /\ (~row.stream \/ row.retains))

Importable(f, t, x) ==
    /\ old[f][t] # Nil /\ f \in alive
    /\ Candidate(config.rows[t])
    /\ x.entry = Nil /\ x.visible

(* import_for_force and merge_legacy_rows                                      *)
ImportCell(f, t, x) ==
    IF ~Importable(f, t, x) THEN x
    ELSE [x EXCEPT !.entry = [NoEntry EXCEPT
            !.visible  = old[f][t].visible,
            !.disabled = IF old[f][t].cap /\ ~old[f][t].unowned /\ ~x.enabled
                         THEN TRUE ELSE Nil]]

Imported(cells) == [f \in Forces |-> [t \in Techs |-> ImportCell(f, t, cells[f][t])]]

(* Rows whose decision is "visibility_imported_enablement_reenabled".          *)
Reenabled(cells) ==
    {p \in Forces \X Techs :
        /\ Importable(p[1], p[2], cells[p[1]][p[2]])
        /\ old[p[1]][p[2]].cap /\ ~old[p[1]][p[2]].unowned /\ cells[p[1]][p[2]].enabled}
-----------------------------------------------------------------------------
(* The research queue                                                          *)

Current(q) == IF q = <<>> THEN Nil ELSE Head(q)

(* filter_queue drops an unavailable technology, and an entry above its cap at *)
(* the level it will be researched at, the retained entries of its technology  *)
(* counted.                                                                    *)
Disallowed(kept, t, unavailable, S, cells) ==
    \/ t \in unavailable
    \/ t \in S /\ LET next == cells[t].level + Cardinality({i \in DOMAIN kept : kept[i] = t})
                  IN  Capped(config.rows[t], next)

Filtered(kept, t, unavailable, S, cells) ==
    IF Disallowed(kept, t, unavailable, S, cells) THEN kept ELSE Append(kept, t)

FilterQueue(q, unavailable, S, cells) ==
    LET kept[n \in 0 .. Len(q)] ==
          IF n = 0 THEN <<>> ELSE Filtered(kept[n - 1], q[n], unavailable, S, cells)
    IN  kept[Len(q)]

(* cancel_unavailable_research                                                 *)
Unavailable(t) == Retained(config.rows[t]) /\ config.rows[t].cancels
WithoutUnavailable(q, cells) == FilterQueue(q, {t \in Techs : Unavailable(t)}, {}, cells)

(* Mutants of WithinCaps: the present level left out of the projection, and an  *)
(* entry above its cap moved to the end of the queue instead of dropped.       *)
WithinCapsLate(q, S, cells) ==
    LET Keep(kept, t) ==
          LET next == cells[t].level - 1 + Cardinality({i \in DOMAIN kept : kept[i] = t})
          IN  IF t \in S /\ Capped(config.rows[t], next) THEN kept ELSE Append(kept, t)
    IN  FoldLeft(Keep, <<>>, q)
WithinCapsRequeued(q, S, cells) ==
    IF q # <<>> /\ Head(q) \in S /\ Capped(config.rows[Head(q)], cells[Head(q)].level)
    THEN Append(Tail(q), Head(q)) ELSE q

(* M.reconcile's own call: the limits of S, nothing unavailable.               *)
WithinCaps(q, S, cells) == FilterQueue(q, {}, S, cells)

(* A first entry the setter cannot leave out: enabled, as others and, where    *)
(* the prototype policy ran before, MIR left it.                               *)
Firm(q, policy, cells) ==
    {t \in {Current(q)} \ {Nil} :
        cells[t].enabled /\ ~(policy /\ Retained(config.rows[t]))}

(* M.reconcile's setter is called only where the filter removed something; it  *)
(* may silently leave out research that cannot be researched now (lost).       *)
TakenOver(q, r, lost, policy, cells) ==
    IF q = r THEN r ELSE FilterQueue(r, lost \ Firm(q, policy, cells), {}, cells)

(* Mutant of WorkAfter: the engine's outcome is left as it is.                  *)
WorkAfterUnsaved(w, q, r, drops) ==
    IF drops /\ q # r THEN [w EXCEPT ![Current(q)] = 0] ELSE w

(* Work invested after the setter replaced q by r.  The engine may drop the    *)
(* progress of a head that is gone (drops); the code writes back the progress  *)
(* of a retained head and saves that of an unavailable one.                    *)
WorkAfter(w, q, r, drops) ==
    IF drops /\ q # r /\ Current(r) # Current(q) /\ ~Unavailable(Current(q))
    THEN [w EXCEPT ![Current(q)] = 0] ELSE w

(* Events the engine raises when a setter changes the head of the queue.       *)
HeadEvents(f, q, r) ==
    IF Current(q) = Current(r) THEN <<>>
    ELSE (IF q = <<>> THEN <<>> ELSE Raised("cancelled", f, Current(q)))
           \o (IF r = <<>> THEN <<>> ELSE Raised("started", f, Current(r)))

(* The queues of the forces F filtered, first of unavailable research and then *)
(* by the limits of S.  Where the code raises an error instead (the setter did *)
(* not take over what is left of unavailable research, or kept an entry above  *)
(* its cap) the game is over, and there is no step.                            *)
QueuesFiltered(F, S, policy) ==
    \E drops \in BOOLEAN, lost \in [F -> SUBSET Techs] :
      LET open   == [f \in F |-> WithoutUnavailable(queue[f], cell[f])]
          raised == FlattenSeq([i \in 1 .. Cardinality(F) |->
                        LET f == SetToSeq(F)[i] IN HeadEvents(f, queue[f], queue'[f])])
      IN  /\ queue' = [f \in Forces |-> IF f \notin F THEN queue[f]
                ELSE TakenOver(open[f], WithinCaps(open[f], S, cell[f]), lost[f], policy, cell[f])]
          /\ work' = [f \in Forces |-> IF f \notin F THEN work[f]
                ELSE WorkAfter(WorkAfter(work[f], queue[f], open[f], drops),
                               open[f], queue'[f], drops)]
          /\ events' = Tail(events) \o raised
-----------------------------------------------------------------------------
(* MIR's handlers                                                              *)

(* Events whose handlers run after Discovery Tree has rewritten enablement.    *)
Fresh(k) ==
    /\ config.discovery # "absent"
    /\ \/ k \in {"init", "configured", "created", "reset", "merged",
                 "finished", "reversed", "setting"}
       \/ k \in {"queued", "cancelled"} /\ config.discovery = "queueAware"

Observation(k) == IF config.discovery = "absent" THEN Nil ELSE Fresh(k)

Taken(e) ==
    /\ events # <<>> /\ Head(events) = e
    /\ Fresh(e.kind) => relayed
    /\ relayed' = FALSE
    /\ UNCHANGED <<config, alive>>

(* reconcile_event and reconcile_all without a technology name.                *)
ReconcileAll(k, F, cells, fresh) ==
    /\ cell' = Reconciled(cells, F, Techs, TRUE, fresh, Observation(k))
    /\ QueuesFiltered(F, Techs, TRUE)

(* reconcile_event for the technology the event names.                         *)
ReconcileNamed(k, f, t) ==
    /\ cell' = Reconciled(cell, {f}, {t}, FALSE, {}, Observation(k))
    /\ QueuesFiltered({f}, {t}, FALSE)

(* on_init                                                                     *)
OnInit ==
    /\ Taken(Event("init", Nil, Nil))
    /\ ReconcileAll("init", alive, cell, {})
    /\ UNCHANGED old

(* on_configuration_changed: import once, drop the ledgers of forces that no   *)
(* longer exist, reconcile every force.                                        *)
OnConfigurationChanged ==
    /\ Taken(Event("configured", Nil, Nil))
    /\ ReconcileAll("configured", alive,
                    Imported(Cleared(cell, Forces \ alive)), Reenabled(cell))
    /\ old' = [f \in Forces |-> [t \in Techs |-> Nil]]

(* on_research_finished, on_research_reversed, on_research_started             *)
OnResearch ==
    /\ \E k \in {"finished", "reversed", "started"}, f \in alive, t \in Techs :
         /\ Taken(Event(k, f, t))
         /\ IF Fresh(k) THEN ReconcileAll(k, {f}, cell, {}) ELSE ReconcileNamed(k, f, t)
    /\ UNCHANGED old

(* on_research_cancelled: the engine reports the cancelled research as a table *)
(* of counts, which names no technology to reconcile.                          *)
OnResearchCancelled ==
    /\ \E f \in alive, t \in Techs :
         /\ Taken(Event("cancelled", f, t))
         /\ IF Fresh("cancelled") THEN ReconcileAll("cancelled", {f}, cell, {})
            ELSE QueuesFiltered({f}, {}, FALSE) /\ UNCHANGED cell
    /\ UNCHANGED old

(* on_research_queued, bound for Discovery Tree only                           *)
OnResearchQueued ==
    /\ \E f \in alive, t \in Techs :
         /\ Taken(Event("queued", f, t))
         /\ IF Fresh("queued") THEN ReconcileAll("queued", {f}, cell, {})
            ELSE events' = Tail(events) /\ UNCHANGED <<cell, queue, work>>
    /\ UNCHANGED old

(* on_discovery_tree_changed, raised for a runtime setting of no force         *)
OnDiscoveryTreeChanged ==
    /\ Taken(Event("setting", Nil, Nil))
    /\ ReconcileAll("setting", alive, cell, {})
    /\ UNCHANGED old

OnTechnologyEffectsReset ==
    /\ \E f \in alive :
         /\ Taken(Event("effects", f, Nil))
         /\ ReconcileAll("effects", {f}, cell, {})
    /\ UNCHANGED old

(* on_force_created and on_force_reset: clear_force before reconciling.        *)
OnForceBoundary ==
    /\ \E k \in {"created", "reset"}, f \in alive :
         /\ Taken(Event(k, f, Nil))
         /\ ReconcileAll(k, {f}, Cleared(cell, {f}), {})
    /\ UNCHANGED old

(* Mutant: the destination is not reconciled.                                  *)
OnForcesMergedClearing ==
    /\ \E f \in alive, s \in Forces :
         /\ Taken([Event("merged", f, Nil) EXCEPT !.source = s])
         /\ cell' = Cleared(cell, {s})
    /\ events' = Tail(events)
    /\ UNCHANGED <<queue, work, old>>

(* on_forces_merged, raised when the source is gone                            *)
OnForcesMerged ==
    /\ \E f \in alive, s \in Forces \ alive :
         /\ Taken([Event("merged", f, Nil) EXCEPT !.source = s])
         /\ ReconcileAll("merged", {f}, Cleared(cell, {s}), {})
    /\ UNCHANGED old

MirNext ==
    \/ OnInit \/ OnConfigurationChanged
    \/ OnResearch \/ OnResearchCancelled \/ OnResearchQueued
    \/ OnDiscoveryTreeChanged \/ OnTechnologyEffectsReset
    \/ OnForceBoundary \/ OnForcesMerged
-----------------------------------------------------------------------------
(* The World: engine, players and other mods.  The game advances only when     *)
(* every event it raised has been handled.                                     *)

Quiet == events = <<>>

DefaultEnabled(row) == row.kind = "generated" => row.admits

(* The native part of a cell returns to its prototype's defaults.              *)
NativeDefault(f) ==
    [t \in Techs |-> [cell[f][t] EXCEPT !.level = 1, !.visible = FALSE,
                        !.enabled = DefaultEnabled(config.rows[t])]]

Idle == [t \in Techs |-> 0]

Enqueue ==
    /\ Quiet
    /\ \E f \in alive, t \in Techs :
         /\ cell[f][t].enabled /\ Len(queue[f]) < MaxQueue
         /\ queue' = [queue EXCEPT ![f] = Append(@, t)]
         /\ events' = (IF queue[f] = <<>> THEN Raised("started", f, t) ELSE <<>>)
                        \o Raised("queued", f, t)
    /\ UNCHANGED <<config, alive, cell, work, relayed, old>>

CancelCurrent ==
    /\ Quiet
    /\ \E f \in alive :
         /\ queue[f] # <<>>
         /\ queue' = [queue EXCEPT ![f] = Tail(@)]
         /\ events' = HeadEvents(f, queue[f], Tail(queue[f]))
    /\ UNCHANGED <<config, alive, cell, work, relayed, old>>

Research ==
    /\ Quiet
    /\ \E f \in alive :
         /\ queue[f] # <<>>
         /\ work' = [work EXCEPT ![f][Head(queue[f])] = 1]
    /\ UNCHANGED <<config, alive, cell, queue, events, relayed, old>>

(* The level of t rises; a technology queued next starts after it.             *)
Completes(f, t) ==
    LET rest == IF Current(queue[f]) = t THEN Tail(queue[f]) ELSE queue[f]
    IN  /\ cell[f][t].level < MaxLevel
        /\ cell' = [cell EXCEPT ![f][t].level = @ + 1]
        /\ queue' = [queue EXCEPT ![f] = rest]
        /\ work' = [work EXCEPT ![f][t] = 0]
        /\ events' = Raised("finished", f, t) \o
             (IF rest # queue[f] /\ rest # <<>> THEN Raised("started", f, Head(rest)) ELSE <<>>)

(* The current research completes.                                             *)
Finish ==
    /\ Quiet
    /\ \E f \in alive, t \in Techs : Current(queue[f]) = t /\ Completes(f, t)
    /\ UNCHANGED <<config, alive, relayed, old>>

(* A script researches or unresearches a technology.                           *)
Grant ==
    /\ Quiet
    /\ \E f \in alive, t \in Techs : Completes(f, t)
    /\ UNCHANGED <<config, alive, relayed, old>>

Unresearch ==
    /\ Quiet
    /\ \E f \in alive, t \in Techs :
         /\ cell[f][t].level > 1
         /\ cell' = [cell EXCEPT ![f][t].level = @ - 1]
         /\ events' = Raised("reversed", f, t)
    /\ UNCHANGED <<config, alive, queue, work, relayed, old>>

ResetEffects ==
    /\ Quiet
    /\ \E f \in alive : events' = Raised("effects", f, Nil)
    /\ UNCHANGED <<config, alive, cell, queue, work, relayed, old>>

ChangeSetting ==
    /\ Quiet
    /\ events' = Raised("setting", Nil, Nil)
    /\ UNCHANGED <<config, alive, cell, queue, work, relayed, old>>

ResetForce(f) ==
    /\ Quiet /\ f \in alive
    /\ cell' = [cell EXCEPT ![f] = NativeDefault(f)]
    /\ queue' = [queue EXCEPT ![f] = <<>>]
    /\ work' = [work EXCEPT ![f] = Idle]
    /\ events' = <<Event("reset", f, Nil)>>
    /\ UNCHANGED <<config, alive, relayed, old>>

CreateForce(f) ==
    /\ Quiet /\ f \in Forces \ alive
    /\ alive' = alive \cup {f}
    /\ cell' = [cell EXCEPT ![f] = NativeDefault(f)]
    /\ events' = <<Event("created", f, Nil)>>
    /\ UNCHANGED <<config, queue, work, relayed, old>>

(* The destination keeps its flags and the higher of the two levels.           *)
MergeForces ==
    /\ Quiet
    /\ \E s \in alive : \E d \in alive \ {s} :
         /\ alive' = alive \ {s}
         /\ cell' = [cell EXCEPT ![d] = [t \in Techs |->
                       [cell[d][t] EXCEPT !.level = IF cell[s][t].level > @
                                                    THEN cell[s][t].level ELSE @]]]
         /\ queue' = [queue EXCEPT ![s] = <<>>]
         /\ work' = [work EXCEPT ![s] = Idle]
         /\ events' = <<[Event("merged", d, Nil) EXCEPT !.source = s]>>
    /\ UNCHANGED <<config, relayed, old>>

(* The save is loaded with other startup settings, mods or MIR edition.        *)
LoadConfiguration ==
    /\ Quiet
    /\ config' \in Configs \ {config}
    /\ events' = <<Event("configured", Nil, Nil)>>
    /\ UNCHANGED <<alive, cell, queue, work, relayed, old>>

(* Another mod writes a flag, also between an event and MIR's handler of it.   *)
ForeignEnabled ==
    /\ \E f \in alive, t \in Techs :
         cell' = [cell EXCEPT ![f][t].enabled = ~@]
    /\ UNCHANGED <<config, alive, queue, work, events, relayed, old>>

ForeignVisible ==
    /\ \E f \in alive, t \in Techs :
         cell' = [cell EXCEPT ![f][t].visible = ~@]
    /\ UNCHANGED <<config, alive, queue, work, events, relayed, old>>

(* Discovery Tree's own handler runs before MIR's and rewrites the enablement  *)
(* of every technology of the event's force, or of every force.                *)
DiscoveryTreeReveals ==
    /\ events # <<>> /\ ~relayed /\ Fresh(Head(events).kind)
    /\ \E shown \in [Forces -> SUBSET Techs] :
         cell' = [f \in Forces |-> [t \in Techs |->
           IF f \in alive /\ Head(events).force \in {f, Nil}
           THEN [cell[f][t] EXCEPT !.enabled = t \in shown[f]] ELSE cell[f][t]]]
    /\ relayed' = TRUE
    /\ UNCHANGED <<config, alive, queue, work, events, old>>

(* The force starts over.                                                      *)
Boundary(f) == ResetForce(f) \/ CreateForce(f)

WorldNext ==
    \/ Enqueue \/ CancelCurrent \/ Research \/ Finish \/ Grant \/ Unresearch
    \/ ResetEffects \/ ChangeSetting \/ MergeForces \/ LoadConfiguration
    \/ ForeignEnabled \/ ForeignVisible \/ DiscoveryTreeReveals
-----------------------------------------------------------------------------
(* A new game, MIR added to a running one, or a MIR4 save opened by MIR5: the  *)
(* native state is arbitrary, MIR's ledger empty.                              *)
Init ==
    /\ config \in Configs
    /\ alive \in (SUBSET Forces) \ {{}}
    /\ cell \in [Forces -> [Techs -> [level: Levels, enabled: BOOLEAN,
                                      visible: BOOLEAN, entry: {Nil}]]]
    /\ queue = [f \in Forces |-> <<>>]
    /\ work = [f \in Forces |-> Idle]
    /\ relayed = FALSE
    /\ IF OldGames
       THEN /\ old \in [Forces -> [Techs -> OldRows \cup {Nil}]]
            /\ events = <<Event("configured", Nil, Nil)>>
       ELSE /\ old = [f \in Forces |-> [t \in Techs |-> Nil]]
            /\ events = <<Event("init", Nil, Nil)>>

Next == MirNext \/ WorldNext \/ \E f \in Forces : Boundary(f)

Spec == Init /\ [][Next]_vars

(* The engine dispatches every raised event to its handlers.                   *)
Fairness == WF_vars(MirNext) /\ WF_vars(DiscoveryTreeReveals)

FairSpec == Spec /\ Fairness
-----------------------------------------------------------------------------
(* The player's research never completes a level above the cap, whatever was   *)
(* queued before and whoever re-enabled it: filter_queue projects the level of *)
(* every queued repetition and each start is filtered before it can complete.  *)
NoOverCapCompletion ==
    [][Finish => \A f \in alive, t \in Techs :
         cell'[f][t].level > cell[f][t].level
            => ~Capped(config.rows[t], cell[f][t].level)]_vars

(* MIR loses the progress of no research that stays current or becomes         *)
(* unavailable, and, while the setter may leave out what it likes of the rest  *)
(* of a queue, of no other within its cap that is enabled before and after:    *)
(* only a technology above its cap goes with its progress, or one disabled by  *)
(* others or by the policy, when something else is filtered (filter_queue's    *)
(* progress and saved_progress write-back).                                    *)
WorkKept ==
    [][MirNext => \A f \in Forces, t \in Techs :
         work'[f][t] < work[f][t] =>
           /\ ~Unavailable(t) /\ t # Current(queue'[f])
           /\ \/ Capped(config.rows[t], cell[f][t].level)
              \/ ~(cell[f][t].enabled /\ cell'[f][t].enabled)]_vars

(* While events wait no queue grows, and a handler takes the first of them and *)
(* adds none unless a queue gets shorter; nothing else adds any.  So each      *)
(* event leads to finitely many more, bounded by what is queued (filter_queue, *)
(* whose setter raises events that run the same handlers again).               *)
EventsRunOut ==
    [][~Quiet =>
         /\ \A f \in Forces : Len(queue'[f]) <= Len(queue[f])
         /\ IF MirNext
            THEN events' = Tail(events) \/ \E f \in Forces : Len(queue'[f]) < Len(queue[f])
            ELSE UNCHANGED <<queue, events>>]_vars

(* The events MIR's own queue rewrites raise die out: the game goes on.        *)
EventsDrain == []<>Quiet
=============================================================================
