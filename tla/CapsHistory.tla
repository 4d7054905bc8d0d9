----------------------------- MODULE CapsHistory -----------------------------
(* Caps with a history of each technology of each force, and the properties    *)
(* that need it.  The history only watches: it restricts no step of Caps.      *)
EXTENDS Caps

VARIABLES
    hist,       \* hist[f][t], what happened to the flags of t on f
    unmet       \* forces natively reset or created, MIR's handler not yet run

hvars == <<vars, hist, unmet>>

(* wrote: MIR turned t off on f since the force's last reset or creation;      *)
(* base: the flags MIR found when it opened the present ledger row;            *)
(* touched: somebody else changed a flag since then.                           *)
Flags == [enabled: BOOLEAN, visible: BOOLEAN]
Histories == [wrote: BOOLEAN, base: Flags \cup {Nil}, touched: BOOLEAN]

HistTypeOK ==
    /\ hist \in [Forces -> [Techs -> Histories]]
    /\ unmet \subseteq Forces

(* TypeOK of Caps, and of the history.                                         *)
HTypeOK == TypeOK /\ HistTypeOK

FlagsOf(x) == [enabled |-> x.enabled, visible |-> x.visible]

WatchMir(x, y, h) ==
    [wrote   |-> h.wrote \/ (x.enabled /\ ~y.enabled),
     base    |-> IF y.entry = Nil THEN Nil
                 ELSE IF x.entry = Nil THEN FlagsOf(x) ELSE h.base,
     touched |-> x.entry # Nil /\ y.entry # Nil /\ h.touched]

WatchWorld(x, y, h) == [h EXCEPT !.touched = @ \/ FlagsOf(x) # FlagsOf(y)]

Watched(Watch(_, _, _)) ==
    [f \in Forces |-> [t \in Techs |-> Watch(cell[f][t], cell'[f][t], hist[f][t])]]

(* A MIR4 row with an enablement proof records a write of MIR4's controller.   *)
HInit ==
    /\ Init
    /\ hist = [f \in Forces |-> [t \in Techs |->
                 [wrote |-> old[f][t] # Nil /\ old[f][t].cap /\ ~old[f][t].unowned,
                  base |-> Nil, touched |-> FALSE]]]
    /\ unmet = {}

(* Forces whose boundary event MIR is about to handle.                         *)
Meeting == {f \in Forces : \E k \in {"created", "reset"} : Head(events) = Event(k, f, Nil)}

(* A cell as the handler's reconciliation finds it: the row of a force that    *)
(* starts over is dropped first.                                               *)
Opening(f, t) == IF f \in Meeting THEN [cell[f][t] EXCEPT !.entry = Nil] ELSE cell[f][t]

HMir ==
    /\ MirNext
    /\ hist' = [f \in Forces |-> [t \in Techs |->
                  WatchMir(Opening(f, t), cell'[f][t], hist[f][t])]]
    /\ unmet' = unmet \ Meeting

(* The game starts a force over: what MIR wrote there is gone.                 *)
HBoundary(f) ==
    /\ Boundary(f)
    /\ hist' = [hist EXCEPT ![f] = [t \in Techs |->
                  [hist[f][t] EXCEPT !.wrote = FALSE, !.touched = TRUE]]]
    /\ unmet' = unmet \cup {f}

HWorld ==
    /\ WorldNext
    /\ hist' = Watched(WatchWorld)
    /\ UNCHANGED unmet

HNext == HMir \/ HWorld \/ \E f \in Forces : HBoundary(f)

HSpec == HInit /\ [][HNext]_hvars
-----------------------------------------------------------------------------
(* Safety                                                                      *)

(* A ledger row that grants a restoration right (disabled = true) exists only  *)
(* where MIR itself turned the technology off since the force last started     *)
(* over: no sequence of foreign flag writes, policy changes, imports or        *)
(* discovery observations can manufacture the right (lifecycle.lua: "A record  *)
(* exists only after this runtime changed an enabled technology to disabled"). *)
RightsProven ==
    \A f \in Forces, t \in Techs :
        (cell[f][t].entry # Nil /\ cell[f][t].entry.disabled = TRUE)
            => hist[f][t].wrote \/ f \in unmet \/ f \notin alive

(* Once every event is handled the ledger lists exactly the technologies held  *)
(* above their cap, and policy-disabled rows kept for a later configuration:   *)
(* no cap goes unnoticed and no row outlives its cap.                          *)
LedgerMatchesCaps ==
    Quiet => \A f \in alive, t \in Techs :
        /\ Capped(config.rows[t], cell[f][t].level) => cell[f][t].entry # Nil
        /\ cell[f][t].entry # Nil =>
              Capped(config.rows[t], cell[f][t].level) \/ Retained(config.rows[t])
-----------------------------------------------------------------------------
(* Action properties                                                           *)

TurnsOn(f, t) == ~cell[f][t].enabled /\ cell'[f][t].enabled

(* MIR turns a technology on only where it turned it off itself, or where      *)
(* Discovery Tree was last seen to reveal it: a data-stage default or a        *)
(* foreign disablement survives every cap change.                              *)
OnlyOwnRestored ==
    [][HMir => \A f \in alive, t \in Techs :
         TurnsOn(f, t) => hist[f][t].wrote]_hvars

(* While Discovery Tree is present MIR reveals nothing.                        *)
HiddenStaysHidden ==
    [][HMir /\ config.discovery # "absent" =>
         \A f \in alive, t \in Techs : ~TurnsOn(f, t)]_hvars

(* Closing a ledger row whose flags nobody else wrote gives both back as MIR   *)
(* found them, while its technology is admitted; and one that policy merely    *)
(* disables keeps its row, for a later configuration to give them back by.     *)
BaselineReturned ==
    [][HMir => \A f \in alive, t \in Techs :
         (/\ cell[f][t].entry # Nil /\ cell'[f][t].entry = Nil
          /\ hist[f][t].base # Nil /\ ~hist[f][t].touched
          /\ Admitted(config.rows[t]) \/ Retained(config.rows[t])
          /\ f \notin Meeting)
            => FlagsOf(cell'[f][t]) = hist[f][t].base]_hvars
=============================================================================
