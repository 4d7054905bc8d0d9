----------------------------- MODULE CapsProofs -----------------------------
(* Proofs about Caps and CapsHistory for every set of forces, technologies and *)
(* configurations: types; that every restoration right MIR holds is proven,    *)
(* that MIR turns on only what it turned off, and nothing while Discovery Tree *)
(* is present; that the ledger lists exactly what is capped and gives back     *)
(* what it found; that no research above its cap completes and no invested     *)
(* research is lost.                                                           *)
EXTENDS CapsHistory, FiniteSetTheorems, SequenceTheorems, WellFoundedInduction, TLAPS

(* Induction over the naturals, for a set: the form of it whose proof and uses *)
(* need no operator as a parameter.                                            *)
LEMMA NatSetInduction ==
    ASSUME NEW S, 0 \in S, \A n \in Nat : n \in S => n + 1 \in S
    PROVE  \A n \in Nat : n \in S
<1>. SUFFICES ASSUME NEW m \in Nat, m \notin S PROVE FALSE
  OBVIOUS
<1>. DEFINE T == {n \in Nat : n \notin S}
            Below == {ss \in Nat \X Nat : ss[1] < ss[2]}
<1>1. IsWellFoundedOn(Below, Nat)
  <2>1. OpToRel(<, Nat) = Below
    BY Zenon DEF OpToRel
  <2>. QED
    BY <2>1, NatLessThanWellFounded, Zenon
<1>2. T \subseteq Nat /\ T # {}
  OBVIOUS
<1>3. PICK x \in T : \A y \in T : ~ (<<y, x>> \in Below)
  <2>. HIDE DEF Below, T
  <2>. QED
    BY <1>1, <1>2, WFMin, Zenon
<1>4. x # 0 /\ x - 1 \in Nat /\ x - 1 \in S
  <2>1. x # 0 /\ x - 1 \in Nat
    OBVIOUS
  <2>2. x - 1 \in T => <<x - 1, x>> \in Below
    BY <2>1
  <2>. QED
    BY <2>1, <2>2, <1>3
<1>. QED
  BY <1>4
-----------------------------------------------------------------------------
(* A ledger row that may turn its technology on again: MIR's own disablement,  *)
(* or a technology Discovery Tree showed when MIR last turned it off.          *)
Right(x) == x.entry # Nil /\ (x.entry.disabled = TRUE \/ x.entry.discovery = TRUE)

(* Such a row exists only where MIR turned the technology off since the force  *)
(* last started over, or where its start is yet to be handled.                 *)
RightsKnown ==
    \A f \in Forces, t \in Techs :
        Right(cell[f][t]) => hist[f][t].wrote \/ f \in unmet \/ f \notin alive

(* The start of a force is handled before anything else happens.               *)
UnmetNext == unmet # {} => events # <<>> /\ unmet \subseteq Meeting

(* The import has not run yet only while its configuration event is first in   *)
(* line; nothing else can then be handled and the game stands still.           *)
ImportPending ==
    (\E f \in Forces, t \in Techs : old[f][t] # Nil)
        => events # <<>> /\ Head(events) = Event("configured", Nil, Nil)

(* A MIR4 row the import will turn into a right records a write of MIR4.       *)
OldRightsProven ==
    \A f \in Forces, t \in Techs :
        (old[f][t] # Nil /\ old[f][t].cap /\ ~old[f][t].unowned) => hist[f][t].wrote

IInv ==
    /\ CellTypeOK
    /\ HistTypeOK
    /\ RightsKnown
    /\ UnmetNext
    /\ ImportPending
    /\ OldRightsProven
-----------------------------------------------------------------------------
(* One pass over one technology                                                *)

(* The prototype policy keeps a cell a cell and its level, and grants a right  *)
(* only with a write of its own or for a row the import vouches for.           *)
LEMMA PolicyOffCell ==
    ASSUME NEW row, NEW x \in Cells, NEW imported \in BOOLEAN
    PROVE  LET y == PolicyOff(row, x, imported)
           IN  /\ y \in Cells
               /\ Right(y) => Right(x) \/ (x.enabled /\ ~y.enabled)
               /\ y.enabled => x.enabled
  BY NilAssumption DEF PolicyOff, Cells, Entries, NoEntry, Maybe, Right

(* Capping keeps a cell a cell; a right it grants comes with its own write.    *)
LEMMA CapOffCell ==
    ASSUME NEW x \in Cells, NEW imported \in BOOLEAN, NEW obs \in Maybe
    PROVE  LET y == CapOff(x, imported, obs)
           IN  /\ y \in Cells /\ ~y.enabled
               /\ y.level = x.level /\ y.entry \in Entries
               /\ Right(y) => Right(x) \/ (x.enabled /\ ~y.enabled)
<1> DEFINE found    == IF x.entry = Nil THEN NoEntry ELSE x.entry
           observed == IF obs # Nil /\ (obs = TRUE \/ found.discovery = Nil)
                       THEN x.enabled ELSE found.discovery
           right    == IF found.disabled # Nil THEN found.disabled
                       ELSE x.enabled /\ (x.entry = Nil \/ imported)
           prior    == IF obs # Nil THEN Nil
                       ELSE IF ~x.visible /\ found.visible = Nil THEN FALSE
                       ELSE found.visible
           shown    == IF obs = Nil THEN TRUE
                       ELSE IF found.visible # Nil THEN found.visible ELSE x.visible
           entry    == [disabled |-> right, visible |-> prior, discovery |-> observed]
           y        == [x EXCEPT !.enabled = FALSE, !.visible = shown, !.entry = entry]
<1>1. found \in Entries
  BY DEF Cells, NoEntry, Entries, Maybe
<1>2. right \in Maybe
  BY <1>1 DEF Entries, Maybe, Cells
<1>3. observed \in Maybe /\ prior \in Maybe /\ shown \in BOOLEAN
  BY <1>1 DEF Entries, Maybe, Cells
<1>4. entry \in Entries
  BY <1>2, <1>3 DEF Entries
<1>5. y \in Cells
  BY <1>3, <1>4 DEF Cells
<1>6. right = TRUE => Right(x) \/ x.enabled
  BY <1>1 DEF Right, NoEntry, Cells, Entries, Maybe
<1>7. observed = TRUE => Right(x) \/ x.enabled
  BY <1>1, NilAssumption DEF Right, NoEntry, Cells, Entries, Maybe
<1>8. /\ y.entry.disabled = right /\ y.entry.discovery = observed /\ ~y.enabled
      /\ y.level = x.level /\ y.entry = entry
  BY DEF Cells
<1>. HIDE DEF found, observed, right, prior, shown
<1>9. Right(y) => right = TRUE \/ observed = TRUE
  BY <1>8 DEF Right
<1>. USE DEF found, observed, right, prior, shown
<1>. QED
  BY <1>4, <1>5, <1>6, <1>7, <1>8, <1>9 DEF CapOff

(* A release keeps a cell a cell, leaves no ledger row, and turns on only by   *)
(* the right of the row, without Discovery Tree.                               *)
LEMMA ReleaseCell ==
    ASSUME NEW x \in Cells, NEW obs \in Maybe, x.entry # Nil
    PROVE  LET y == Release(x, obs)
           IN  /\ y \in Cells /\ y.entry = Nil
               /\ y.enabled => x.enabled \/ (Right(x) /\ obs = Nil)
<1> DEFINE y == Release(x, obs)
<1>1. y \in Cells /\ y.entry = Nil
  BY NilAssumption DEF Release, Cells, Entries, Maybe
<1>2. y.enabled => x.enabled \/ (Right(x) /\ obs = Nil)
  BY NilAssumption DEF Release, Cells, Entries, Maybe, Right
<1>. QED  BY <1>1, <1>2

(* What one pass of MIR over a technology may do: the cell stays a cell, a     *)
(* right in the ledger was there before or comes with MIR's own disablement,   *)
(* and only a right turns the technology on.                                   *)
Passes(x, y, obs) ==
    /\ y \in Cells
    /\ Right(y) => Right(x) \/ (x.enabled /\ ~y.enabled)
    /\ y.enabled => x.enabled \/ (Right(x) /\ obs = Nil)

(* The whole of reconcile_force on one technology, prototype policy included.  *)
LEMMA ReconcilePasses ==
    ASSUME NEW row \in Rows, NEW x \in Cells, NEW imported \in BOOLEAN,
           NEW obs \in Maybe, NEW policy \in BOOLEAN
    PROVE  Passes(x, ReconcileCell(row, IF policy THEN PolicyOff(row, x, imported) ELSE x,
                                   imported, obs), obs)
<1> DEFINE z == IF policy THEN PolicyOff(row, x, imported) ELSE x
           y == ReconcileCell(row, z, imported, obs)
<1>1. /\ z \in Cells
      /\ Right(z) => Right(x) \/ (x.enabled /\ ~z.enabled)
      /\ z.enabled => x.enabled
  BY PolicyOffCell DEF Cells
<1>2. z # x => Retained(row) /\ ~z.enabled
  BY DEF PolicyOff, Cells
<1>3. Retained(row) => ~Admitted(row) /\ ~Capped(row, z.level)
  BY DEF Retained, Admitted, Limited, Withheld, Capped, Rows
<1>. SUFFICES Passes(x, y, obs)  BY DEF z, y
<1>. HIDE DEF z, y
<1>4. CASE Capped(row, z.level)
  <2>1. y = CapOff(z, imported, obs) /\ z = x
    BY <1>2, <1>3, <1>4 DEF ReconcileCell, y
  <2>. QED  BY <2>1, <1>1, CapOffCell DEF Passes
<1>5. CASE ~Capped(row, z.level) /\ Admitted(row) /\ z.entry # Nil
  <2>1. y = Release(z, obs)
    BY <1>5 DEF ReconcileCell, y
  <2>2. z = x
    BY <1>2, <1>3, <1>5
  <2>3. /\ y \in Cells /\ y.entry = Nil
        /\ y.enabled => x.enabled \/ (Right(x) /\ obs = Nil)
    BY <2>1, <2>2, <1>1, <1>5, ReleaseCell
  <2>. QED  BY <2>3 DEF Passes, Right
<1>6. CASE ~Capped(row, z.level) /\ ~(Admitted(row) /\ z.entry # Nil)
  <2>1. y = Bound(row, z)
    BY <1>6 DEF ReconcileCell, y
  <2>2. y = z \/ y = [z EXCEPT !.entry = Nil]
    BY <2>1 DEF Bound
  <2>3. CASE y = z
    BY <2>3, <1>1, <1>2 DEF Passes
  <2>4. CASE y = [z EXCEPT !.entry = Nil]
    BY <2>4, <1>1 DEF Passes, Right, Cells
  <2>. QED  BY <2>2, <2>3, <2>4
<1>. QED  BY <1>4, <1>5, <1>6

(* reconcile_force on every technology of every force of a pass.               *)
LEMMA ReconciledPasses ==
    ASSUME CellTypeOK, NEW F, NEW S, NEW policy \in BOOLEAN, NEW fresh, NEW obs \in Maybe,
           NEW cells \in [Forces -> [Techs -> Cells]]
    PROVE  LET r == Reconciled(cells, F, S, policy, fresh, obs)
           IN  /\ r \in [Forces -> [Techs -> Cells]]
               /\ \A f \in Forces, t \in Techs : Passes(cells[f][t], r[f][t], obs)
<1> DEFINE r == Reconciled(cells, F, S, policy, fresh, obs)
<1>1. ASSUME NEW f \in Forces, NEW t \in Techs
      PROVE  Passes(cells[f][t], r[f][t], obs)
  <2>1. config.rows[t] \in Rows
    BY ConfigsAssumption DEF CellTypeOK
  <2>2. cells[f][t] \in Cells /\ (<<f, t>> \in fresh) \in BOOLEAN
    OBVIOUS
  <2>3. Passes(cells[f][t],
               ReconcileCell(config.rows[t],
                 IF policy THEN PolicyOff(config.rows[t], cells[f][t], <<f, t>> \in fresh)
                 ELSE cells[f][t], <<f, t>> \in fresh, obs), obs)
    BY <2>1, <2>2, ReconcilePasses
  <2>4. Passes(cells[f][t], cells[f][t], obs)
    BY <2>2 DEF Passes
  <2>5. r[f][t] = cells[f][t] \/
        r[f][t] = ReconcileCell(config.rows[t],
                    IF policy THEN PolicyOff(config.rows[t], cells[f][t], <<f, t>> \in fresh)
                    ELSE cells[f][t], <<f, t>> \in fresh, obs)
    BY DEF Reconciled
  <2>. QED  BY <2>3, <2>4, <2>5
<1>2. r \in [Forces -> [Techs -> Cells]]
  <2>1. \A f \in Forces, t \in Techs : r[f][t] \in Cells
    BY <1>1 DEF Passes
  <2>. QED  BY <2>1 DEF Reconciled
<1>. QED  BY <1>1, <1>2
-----------------------------------------------------------------------------
(* A step of MIR                                                               *)

(* What every handler does to the ledger.                                      *)
LedgerEffect ==
    /\ cell' \in [Forces -> [Techs -> Cells]]
    /\ \A f \in Forces, t \in Techs : Right(cell'[f][t]) =>
         \/ Right(cell[f][t]) /\ f \notin Meeting
         \/ cell[f][t].enabled /\ ~cell'[f][t].enabled
         \/ hist[f][t].wrote
    /\ \A f \in Forces, t \in Techs : TurnsOn(f, t) =>
         /\ (Right(cell[f][t]) /\ f \notin Meeting) \/ hist[f][t].wrote
         /\ config.discovery = "absent"

MirEffect ==
    /\ config' = config /\ alive' = alive
    /\ LedgerEffect
    /\ \/ old' = old /\ Head(events) # Event("configured", Nil, Nil)
       \/ old' = [f \in Forces |-> [t \in Techs |-> Nil]]

(* Discovery Tree's observation is a boolean, or nil without the mod.          *)
LEMMA ObservationMaybe ==
    ASSUME NEW k
    PROVE  /\ Observation(k) \in Maybe
           /\ Observation(k) = Nil => config.discovery = "absent"
  BY NilAssumption DEF Observation, Maybe, Fresh

(* A pass over cells that differ from the present ones only by dropped ledger  *)
(* rows, and by rows the history vouches for.                                  *)
LEMMA PassEffect ==
    ASSUME CellTypeOK,
           NEW cells \in [Forces -> [Techs -> Cells]], NEW k, NEW F, NEW S,
           NEW policy \in BOOLEAN, NEW fresh,
           \A f \in Forces, t \in Techs :
             /\ cells[f][t].enabled = cell[f][t].enabled
             /\ Right(cells[f][t]) => \/ Right(cell[f][t]) /\ f \notin Meeting
                                      \/ hist[f][t].wrote,
           cell' = Reconciled(cells, F, S, policy, fresh, Observation(k))
    PROVE  LedgerEffect
<1>1. /\ cell' \in [Forces -> [Techs -> Cells]]
      /\ \A f \in Forces, t \in Techs : Passes(cells[f][t], cell'[f][t], Observation(k))
  BY ReconciledPasses, ObservationMaybe
<1>2. ASSUME NEW f \in Forces, NEW t \in Techs, TurnsOn(f, t)
      PROVE  /\ (Right(cell[f][t]) /\ f \notin Meeting) \/ hist[f][t].wrote
             /\ config.discovery = "absent"
  <2>1. Right(cells[f][t]) /\ Observation(k) = Nil
    BY <1>1, <1>2 DEF Passes, TurnsOn
  <2>. QED  BY <2>1, ObservationMaybe
<1>3. ASSUME NEW f \in Forces, NEW t \in Techs, Right(cell'[f][t])
      PROVE  \/ Right(cell[f][t]) /\ f \notin Meeting
             \/ cell[f][t].enabled /\ ~cell'[f][t].enabled
             \/ hist[f][t].wrote
  BY <1>1, <1>3 DEF Passes
<1>. QED  BY <1>1, <1>2, <1>3 DEF LedgerEffect

(* Dropping the ledger rows of some forces.                                    *)
LEMMA ClearedCells ==
    ASSUME CellTypeOK, NEW F
    PROVE  /\ Cleared(cell, F) \in [Forces -> [Techs -> Cells]]
           /\ \A f \in Forces, t \in Techs :
                /\ Cleared(cell, F)[f][t].enabled = cell[f][t].enabled
                /\ Right(Cleared(cell, F)[f][t]) => Right(cell[f][t]) /\ f \notin F
<1>1. ASSUME NEW f \in Forces, NEW t \in Techs
      PROVE  /\ Cleared(cell, F)[f][t] \in Cells
             /\ Cleared(cell, F)[f][t].enabled = cell[f][t].enabled
             /\ Right(Cleared(cell, F)[f][t]) => Right(cell[f][t]) /\ f \notin F
  <2>1. cell[f][t] \in Cells
    BY DEF CellTypeOK
  <2>2. Cleared(cell, F)[f][t] =
          IF f \in F THEN [cell[f][t] EXCEPT !.entry = Nil] ELSE cell[f][t]
    BY DEF Cleared
  <2>. QED  BY <2>1, <2>2 DEF Cells, Right
<1>2. Cleared(cell, F) \in [Forces -> [Techs -> Cells]]
  BY <1>1 DEF Cleared
<1>. QED  BY <1>1, <1>2

(* The import of one technology leaves its native state alone, and adds a      *)
(* right only for a proof of MIR4's.                                           *)
LEMMA ImportedCell ==
    ASSUME CellTypeOK, NEW f \in Forces, NEW t \in Techs, NEW x \in Cells
    PROVE  LET y == ImportCell(f, t, x)
           IN  /\ y \in Cells
               /\ y.enabled = x.enabled /\ y.level = x.level
               /\ Right(y) => Right(x) \/ (old[f][t] # Nil /\ old[f][t].cap /\ ~old[f][t].unowned)
<1> DEFINE y == ImportCell(f, t, x)
           right == IF old[f][t].cap /\ ~old[f][t].unowned /\ ~x.enabled THEN TRUE ELSE Nil
           entry == [NoEntry EXCEPT !.visible = old[f][t].visible, !.disabled = right]
<1>1. CASE ~Importable(f, t, x)
  BY <1>1 DEF ImportCell
<1>2. CASE Importable(f, t, x)
  <2>1. old[f][t] \in OldRows
    BY <1>2 DEF Importable, CellTypeOK
  <2>2. right \in Maybe /\ old[f][t].visible \in BOOLEAN
    BY <2>1 DEF Maybe, OldRows
  <2>3. entry \in Entries /\ entry.disabled = right /\ entry.discovery = Nil
    BY <2>2 DEF Entries, NoEntry, Maybe
  <2>4. right = TRUE => old[f][t] # Nil /\ old[f][t].cap /\ ~old[f][t].unowned
    BY <1>2, NilAssumption DEF Importable
  <2>5. y = [x EXCEPT !.entry = entry]
    BY <1>2 DEF ImportCell
  <2>. HIDE DEF y, right, entry
  <2>6. y \in Cells /\ y.enabled = x.enabled /\ y.level = x.level /\ y.entry = entry
    BY <2>3, <2>5 DEF Cells
  <2>. QED  BY <2>3, <2>4, <2>6, NilAssumption DEF Right, y
<1>. QED  BY <1>1, <1>2

(* The import of every technology; a proof of MIR4's is in the history.        *)
LEMMA ImportedCells ==
    ASSUME CellTypeOK, NEW cells \in [Forces -> [Techs -> Cells]]
    PROVE  /\ Imported(cells) \in [Forces -> [Techs -> Cells]]
           /\ \A f \in Forces, t \in Techs :
                /\ Imported(cells)[f][t].enabled = cells[f][t].enabled
                /\ OldRightsProven /\ Right(Imported(cells)[f][t])
                     => Right(cells[f][t]) \/ hist[f][t].wrote
<1>1. ASSUME NEW f \in Forces, NEW t \in Techs
      PROVE  /\ ImportCell(f, t, cells[f][t]) \in Cells
             /\ ImportCell(f, t, cells[f][t]).enabled = cells[f][t].enabled
             /\ OldRightsProven /\ Right(ImportCell(f, t, cells[f][t]))
                  => Right(cells[f][t]) \/ hist[f][t].wrote
  BY ImportedCell DEF OldRightsProven
<1>2. \A f \in Forces, t \in Techs : Imported(cells)[f][t] = ImportCell(f, t, cells[f][t])
  BY DEF Imported
<1>3. Imported(cells) \in [Forces -> [Techs -> Cells]]
  BY <1>1 DEF Imported
<1>. QED  BY <1>1, <1>2, <1>3

(* A handler that leaves the cells alone.                                      *)
LEMMA SameCells ==
    ASSUME CellTypeOK, Meeting = {}, cell' = cell
    PROVE  LedgerEffect
  BY DEF LedgerEffect, CellTypeOK, TurnsOn

(* Only a handler of the force's own boundary event meets it.                  *)
LEMMA MeetingOf ==
    ASSUME NEW e, Head(events) = e
    PROVE  /\ e.kind \notin {"created", "reset"} => Meeting = {}
           /\ \A f \in Forces : f \in Meeting => e.force = f
  BY DEF Meeting, Event

(* Every handler of MIR has the effect MirEffect.                              *)
LEMMA MirStep ==
    ASSUME CellTypeOK, OldRightsProven, MirNext
    PROVE  MirEffect
<1>0. cell \in [Forces -> [Techs -> Cells]] /\ alive \subseteq Forces
  BY DEF CellTypeOK
<1>1. CASE OnInit
  <2>1. Meeting = {}
    BY <1>1, MeetingOf DEF OnInit, Taken, Event
  <2>2. cell' = Reconciled(cell, alive, Techs, TRUE, {}, Observation("init"))
    BY <1>1 DEF OnInit, ReconcileAll
  <2>8. LedgerEffect
    BY <1>0, <2>1, <2>2, PassEffect
  <2>9. config' = config /\ alive' = alive /\ old' = old /\ Head(events) # Event("configured", Nil, Nil)
    BY <1>1 DEF OnInit, Taken, Event
  <2>. QED  BY <2>8, <2>9 DEF MirEffect
<1>2. CASE OnConfigurationChanged
  <2> DEFINE kept  == Cleared(cell, Forces \ alive)
             cells == Imported(kept)
  <2>1. Meeting = {}
    BY <1>2, MeetingOf DEF OnConfigurationChanged, Taken, Event
  <2>2. cell' = Reconciled(cells, alive, Techs, TRUE, Reenabled(cell), Observation("configured"))
    BY <1>2 DEF OnConfigurationChanged, ReconcileAll
  <2>3. /\ kept \in [Forces -> [Techs -> Cells]]
        /\ \A f \in Forces, t \in Techs :
             /\ kept[f][t].enabled = cell[f][t].enabled
             /\ Right(kept[f][t]) => Right(cell[f][t])
    BY ClearedCells
  <2>. HIDE DEF kept
  <2>4. /\ cells \in [Forces -> [Techs -> Cells]]
        /\ \A f \in Forces, t \in Techs :
             /\ cells[f][t].enabled = kept[f][t].enabled
             /\ Right(cells[f][t]) => Right(kept[f][t]) \/ hist[f][t].wrote
    BY <2>3, ImportedCells
  <2>. HIDE DEF cells
  <2>5. \A f \in Forces, t \in Techs :
          /\ cells[f][t].enabled = cell[f][t].enabled
          /\ Right(cells[f][t]) => (Right(cell[f][t]) /\ f \notin Meeting) \/ hist[f][t].wrote
    BY <2>1, <2>3, <2>4
  <2>8. LedgerEffect
    BY <2>2, <2>4, <2>5, PassEffect
  <2>9. config' = config /\ alive' = alive /\ old' = [f \in Forces |-> [t \in Techs |-> Nil]]
    BY <1>2 DEF OnConfigurationChanged, Taken, Event
  <2>. QED  BY <2>8, <2>9 DEF MirEffect
<1>3. CASE OnResearch
  <2>1. PICK k \in {"finished", "reversed", "started"}, f \in alive, t \in Techs :
          /\ Taken(Event(k, f, t))
          /\ IF Fresh(k) THEN ReconcileAll(k, {f}, cell, {}) ELSE ReconcileNamed(k, f, t)
    BY <1>3 DEF OnResearch
  <2>2. Meeting = {}
    BY <2>1, MeetingOf DEF Taken, Event
  <2>3. \E F, S : \E policy \in BOOLEAN :
          cell' = Reconciled(cell, F, S, policy, {}, Observation(k))
    BY <2>1 DEF ReconcileAll, ReconcileNamed
  <2>8. LedgerEffect
    BY <1>0, <2>1, <2>2, <2>3, PassEffect
  <2>9. config' = config /\ alive' = alive /\ old' = old /\ Head(events) # Event("configured", Nil, Nil)
    BY <2>1, <1>3 DEF OnResearch, Taken, Event
  <2>. QED  BY <2>8, <2>9 DEF MirEffect
<1>4. CASE OnResearchCancelled
  <2>1. PICK f \in alive, t \in Techs :
          /\ Taken(Event("cancelled", f, t))
          /\ IF Fresh("cancelled") THEN ReconcileAll("cancelled", {f}, cell, {})
             ELSE QueuesFiltered({f}, {}, FALSE) /\ UNCHANGED cell
    BY <1>4 DEF OnResearchCancelled
  <2>2. Meeting = {}
    BY <2>1, MeetingOf DEF Taken, Event
  <2>3. \/ cell' = Reconciled(cell, {f}, Techs, TRUE, {}, Observation("cancelled"))
        \/ cell' = cell
    BY <2>1 DEF ReconcileAll
  <2>8. LedgerEffect
    BY <1>0, <2>1, <2>2, <2>3, PassEffect, SameCells
  <2>9. config' = config /\ alive' = alive /\ old' = old /\ Head(events) # Event("configured", Nil, Nil)
    BY <2>1, <1>4 DEF OnResearchCancelled, Taken, Event
  <2>. QED  BY <2>8, <2>9 DEF MirEffect
<1>5. CASE OnResearchQueued
  <2>1. PICK f \in alive, t \in Techs :
          /\ Taken(Event("queued", f, t))
          /\ IF Fresh("queued") THEN ReconcileAll("queued", {f}, cell, {})
             ELSE events' = Tail(events) /\ UNCHANGED <<cell, queue, work>>
    BY <1>5 DEF OnResearchQueued
  <2>2. Meeting = {}
    BY <2>1, MeetingOf DEF Taken, Event
  <2>3. \/ cell' = Reconciled(cell, {f}, Techs, TRUE, {}, Observation("queued"))
        \/ cell' = cell
    BY <2>1 DEF ReconcileAll
  <2>8. LedgerEffect
    BY <1>0, <2>1, <2>2, <2>3, PassEffect, SameCells
  <2>9. config' = config /\ alive' = alive /\ old' = old /\ Head(events) # Event("configured", Nil, Nil)
    BY <2>1, <1>5 DEF OnResearchQueued, Taken, Event
  <2>. QED  BY <2>8, <2>9 DEF MirEffect
<1>6. CASE OnDiscoveryTreeChanged
  <2>1. Meeting = {}
    BY <1>6, MeetingOf DEF OnDiscoveryTreeChanged, Taken, Event
  <2>2. cell' = Reconciled(cell, alive, Techs, TRUE, {}, Observation("setting"))
    BY <1>6 DEF OnDiscoveryTreeChanged, ReconcileAll
  <2>8. LedgerEffect
    BY <1>0, <2>1, <2>2, PassEffect
  <2>9. config' = config /\ alive' = alive /\ old' = old /\ Head(events) # Event("configured", Nil, Nil)
    BY <1>6 DEF OnDiscoveryTreeChanged, Taken, Event
  <2>. QED  BY <2>8, <2>9 DEF MirEffect
<1>7. CASE OnTechnologyEffectsReset
  <2>1. PICK f \in alive :
          Taken(Event("effects", f, Nil)) /\ ReconcileAll("effects", {f}, cell, {})
    BY <1>7 DEF OnTechnologyEffectsReset
  <2>2. Meeting = {}
    BY <2>1, MeetingOf DEF Taken, Event
  <2>3. cell' = Reconciled(cell, {f}, Techs, TRUE, {}, Observation("effects"))
    BY <2>1 DEF ReconcileAll
  <2>8. LedgerEffect
    BY <1>0, <2>1, <2>2, <2>3, PassEffect
  <2>9. config' = config /\ alive' = alive /\ old' = old /\ Head(events) # Event("configured", Nil, Nil)
    BY <2>1, <1>7 DEF OnTechnologyEffectsReset, Taken, Event
  <2>. QED  BY <2>8, <2>9 DEF MirEffect
<1>8. CASE OnForceBoundary
  <2>1. PICK k \in {"created", "reset"}, f \in alive :
          Taken(Event(k, f, Nil)) /\ ReconcileAll(k, {f}, Cleared(cell, {f}), {})
    BY <1>8 DEF OnForceBoundary
  <2>2. \A g \in Forces : g \in Meeting => g = f
    BY <2>1, MeetingOf DEF Taken, Event
  <2>3. cell' = Reconciled(Cleared(cell, {f}), {f}, Techs, TRUE, {}, Observation(k))
    BY <2>1 DEF ReconcileAll
  <2> DEFINE cells == Cleared(cell, {f})
  <2>4. /\ cells \in [Forces -> [Techs -> Cells]]
        /\ \A g \in Forces, t \in Techs :
             /\ cells[g][t].enabled = cell[g][t].enabled
             /\ Right(cells[g][t]) => \/ Right(cell[g][t]) /\ g \notin Meeting
                                      \/ hist[g][t].wrote
    BY <2>2, ClearedCells
  <2>5. cell' = Reconciled(cells, {f}, Techs, TRUE, {}, Observation(k))
    BY <2>3
  <2>. HIDE DEF cells
  <2>8. LedgerEffect
    BY <2>4, <2>5, PassEffect
  <2>9. config' = config /\ alive' = alive /\ old' = old /\ Head(events) # Event("configured", Nil, Nil)
    BY <2>1, <1>8 DEF OnForceBoundary, Taken, Event
  <2>. QED  BY <2>8, <2>9 DEF MirEffect
<1>9. CASE OnForcesMerged
  <2>1. PICK f \in alive, s \in Forces \ alive :
          /\ Taken([Event("merged", f, Nil) EXCEPT !.source = s])
          /\ ReconcileAll("merged", {f}, Cleared(cell, {s}), {})
    BY <1>9 DEF OnForcesMerged
  <2>2. Meeting = {}
    BY <2>1, MeetingOf DEF Taken, Event
  <2>3. cell' = Reconciled(Cleared(cell, {s}), {f}, Techs, TRUE, {}, Observation("merged"))
    BY <2>1 DEF ReconcileAll
  <2> DEFINE cells == Cleared(cell, {s})
  <2>4. /\ cells \in [Forces -> [Techs -> Cells]]
        /\ \A g \in Forces, t \in Techs :
             /\ cells[g][t].enabled = cell[g][t].enabled
             /\ Right(cells[g][t]) => \/ Right(cell[g][t]) /\ g \notin Meeting
                                      \/ hist[g][t].wrote
    BY <2>2, ClearedCells
  <2>5. cell' = Reconciled(cells, {f}, Techs, TRUE, {}, Observation("merged"))
    BY <2>3
  <2>. HIDE DEF cells
  <2>8. LedgerEffect
    BY <2>4, <2>5, PassEffect
  <2>9. config' = config /\ alive' = alive /\ old' = old /\ Head(events) # Event("configured", Nil, Nil)
    BY <2>1, <1>9 DEF OnForcesMerged, Taken, Event
  <2>. QED  BY <2>8, <2>9 DEF MirEffect
<1>. QED
  BY <1>1, <1>2, <1>3, <1>4, <1>5, <1>6, <1>7, <1>8, <1>9 DEF MirNext
-----------------------------------------------------------------------------
(* A step of the World                                                         *)

(* The World writes levels and flags, never the ledger; it destroys forces,    *)
(* and creates one only as a boundary; while the import waits it cannot act    *)
(* except through other mods' writes, which raise no event.                    *)
WorldEffect ==
    /\ config' \in Configs /\ alive' \subseteq Forces
    /\ cell' \in [Forces -> [Techs -> Cells]]
    /\ \A f \in Forces, t \in Techs : cell'[f][t].entry = cell[f][t].entry
    /\ old' = old
    /\ Quiet \/ events' = events

(* Levels stay within the bound when a technology completes or is reversed.    *)
LEMMA LevelSteps ==
    ASSUME NEW n \in Levels
    PROVE  /\ 1 \in Levels
           /\ n < MaxLevel => n + 1 \in Levels
           /\ n > 1 => n - 1 \in Levels
  BY BoundsAssumption DEF Levels

(* Writing the enablement flag leaves the ledger row alone.                    *)
LEMMA EnabledWrite ==
    ASSUME NEW x \in Cells, NEW b \in BOOLEAN
    PROVE  [x EXCEPT !.enabled = b] \in Cells /\ [x EXCEPT !.enabled = b].entry = x.entry
  BY DEF Cells

(* Every step of the World has the effect WorldEffect and creates no force.    *)
LEMMA WorldStep ==
    ASSUME CellTypeOK, WorldNext
    PROVE  WorldEffect /\ alive' \subseteq alive
<1> USE DEF WorldEffect
<1>0. /\ config \in Configs /\ alive \subseteq Forces
      /\ cell \in [Forces -> [Techs -> Cells]]
      /\ \A f \in Forces, t \in Techs : cell[f][t] \in Cells
  BY DEF CellTypeOK
<1>1. CASE cell' = cell /\ old' = old /\ (Quiet \/ events' = events)
           /\ config' \in Configs /\ alive' = alive
  BY <1>0, <1>1
<1>2. CASE Enqueue \/ CancelCurrent \/ Research \/ ResetEffects \/ ChangeSetting
  BY <1>0, <1>1, <1>2 DEF Enqueue, CancelCurrent, Research, ResetEffects, ChangeSetting
<1>3. CASE LoadConfiguration
  BY <1>0, <1>1, <1>3 DEF LoadConfiguration
<1>4. CASE Finish \/ Grant
  <2>1. PICK f \in alive, t \in Techs :
          cell[f][t].level < MaxLevel /\ cell' = [cell EXCEPT ![f][t].level = @ + 1]
    BY <1>4 DEF Finish, Grant, Completes
  <2>2. f \in Forces /\ cell[f][t] \in Cells /\ cell[f][t].level + 1 \in Levels
    BY <1>0, <2>1, LevelSteps DEF Cells
  <2>3. [cell[f][t] EXCEPT !.level = @ + 1] \in Cells
    BY <2>2 DEF Cells
  <2>4. cell' \in [Forces -> [Techs -> Cells]]
    BY <1>0, <2>1, <2>2, <2>3
  <2>5. \A g \in Forces, u \in Techs : cell'[g][u].entry = cell[g][u].entry
    BY <1>0, <2>1, <2>2 DEF Cells
  <2>6. Quiet /\ old' = old /\ config' = config /\ alive' = alive
    BY <1>4 DEF Finish, Grant
  <2>. QED  BY <1>0, <2>4, <2>5, <2>6, SMTT(30)
<1>5. CASE Unresearch
  <2>1. PICK f \in alive, t \in Techs :
          cell[f][t].level > 1 /\ cell' = [cell EXCEPT ![f][t].level = @ - 1]
    BY <1>5 DEF Unresearch
  <2>2. f \in Forces /\ cell[f][t] \in Cells /\ cell[f][t].level - 1 \in Levels
    BY <1>0, <2>1, LevelSteps DEF Cells
  <2>3. [cell[f][t] EXCEPT !.level = @ - 1] \in Cells
    BY <2>2 DEF Cells
  <2>4. cell' \in [Forces -> [Techs -> Cells]]
    BY <1>0, <2>1, <2>2, <2>3
  <2>5. \A g \in Forces, u \in Techs : cell'[g][u].entry = cell[g][u].entry
    BY <1>0, <2>1, <2>2 DEF Cells
  <2>6. Quiet /\ old' = old /\ config' = config /\ alive' = alive
    BY <1>5 DEF Unresearch
  <2>. QED  BY <1>0, <2>4, <2>5, <2>6, SMTT(30)
<1>6. CASE MergeForces
  <2>1. PICK s \in alive, d \in alive :
          /\ alive' = alive \ {s}
          /\ cell' = [cell EXCEPT ![d] = [t \in Techs |->
                       [cell[d][t] EXCEPT !.level = IF cell[s][t].level > @
                                                    THEN cell[s][t].level ELSE @]]]
    BY <1>6 DEF MergeForces
  <2>2. s \in Forces /\ d \in Forces
    BY <1>0
  <2>3. \A t \in Techs :
          /\ [cell[d][t] EXCEPT !.level = IF cell[s][t].level > @
                                          THEN cell[s][t].level ELSE @] \in Cells
          /\ [cell[d][t] EXCEPT !.level = IF cell[s][t].level > @
                                          THEN cell[s][t].level ELSE @].entry = cell[d][t].entry
    BY <1>0, <2>2 DEF Cells
  <2>4. cell' \in [Forces -> [Techs -> Cells]]
    BY <1>0, <2>1, <2>2, <2>3
  <2>5. \A g \in Forces, u \in Techs : cell'[g][u].entry = cell[g][u].entry
    BY <1>0, <2>1, <2>2, <2>3
  <2>6. Quiet /\ old' = old /\ config' = config
    BY <1>6 DEF MergeForces
  <2>. QED  BY <1>0, <2>1, <2>4, <2>5, <2>6
<1>7. CASE ForeignEnabled \/ ForeignVisible
  <2>1. PICK f \in alive, t \in Techs : \E x \in Cells :
          /\ x.entry = cell[f][t].entry
          /\ cell' = [cell EXCEPT ![f][t] = x]
    <3>1. CASE ForeignEnabled
      <4>1. PICK f \in alive, t \in Techs : cell' = [cell EXCEPT ![f][t].enabled = ~@]
        BY <3>1 DEF ForeignEnabled
      <4> DEFINE x == [cell[f][t] EXCEPT !.enabled = ~@]
      <4>2. x \in Cells /\ x.entry = cell[f][t].entry
        BY <1>0 DEF Cells
      <4>3. cell' = [cell EXCEPT ![f][t] = x]
        BY <4>1
      <4>. QED  BY <4>2, <4>3
    <3>2. CASE ForeignVisible
      <4>1. PICK f \in alive, t \in Techs : cell' = [cell EXCEPT ![f][t].visible = ~@]
        BY <3>2 DEF ForeignVisible
      <4> DEFINE x == [cell[f][t] EXCEPT !.visible = ~@]
      <4>2. x \in Cells /\ x.entry = cell[f][t].entry
        BY <1>0 DEF Cells
      <4>3. cell' = [cell EXCEPT ![f][t] = x]
        BY <4>1
      <4>. QED  BY <4>2, <4>3
    <3>. QED  BY <1>7, <3>1, <3>2
  <2>2. PICK x \in Cells : /\ x.entry = cell[f][t].entry
                          /\ cell' = [cell EXCEPT ![f][t] = x]
    BY <2>1
  <2>4. cell' \in [Forces -> [Techs -> Cells]]
    BY <1>0, <2>2
  <2>5. \A g \in Forces, u \in Techs : cell'[g][u].entry = cell[g][u].entry
    BY <1>0, <2>2
  <2>6. events' = events /\ old' = old /\ config' = config /\ alive' = alive
    BY <1>7 DEF ForeignEnabled, ForeignVisible
  <2>. QED  BY <1>0, <2>4, <2>5, <2>6
<1>8. CASE DiscoveryTreeReveals
  <2>1. PICK shown \in [Forces -> SUBSET Techs] :
          cell' = [f \in Forces |-> [t \in Techs |->
            IF f \in alive /\ Head(events).force \in {f, Nil}
            THEN [cell[f][t] EXCEPT !.enabled = t \in shown[f]] ELSE cell[f][t]]]
    BY <1>8 DEF DiscoveryTreeReveals
  <2>2. ASSUME NEW f \in Forces, NEW t \in Techs
        PROVE  /\ [cell[f][t] EXCEPT !.enabled = t \in shown[f]] \in Cells
               /\ [cell[f][t] EXCEPT !.enabled = t \in shown[f]].entry = cell[f][t].entry
    <3> DEFINE b == t \in shown[f]
    <3>1. b \in BOOLEAN /\ cell[f][t] \in Cells
      BY <1>0
    <3>. HIDE DEF b
    <3>2. /\ [cell[f][t] EXCEPT !.enabled = b] \in Cells
          /\ [cell[f][t] EXCEPT !.enabled = b].entry = cell[f][t].entry
      BY <3>1, EnabledWrite
    <3>. QED  BY <3>2 DEF b
  <2>3. cell' \in [Forces -> [Techs -> Cells]]
    BY <1>0, <2>1, <2>2
  <2>4. \A g \in Forces, u \in Techs : cell'[g][u].entry = cell[g][u].entry
    BY <2>1, <2>2
  <2>5. events' = events /\ old' = old /\ config' = config /\ alive' = alive
    BY <1>8 DEF DiscoveryTreeReveals
  <2>. QED  BY <1>0, <2>3, <2>4, <2>5
<1>. QED
  BY <1>2, <1>3, <1>4, <1>5, <1>6, <1>7, <1>8 DEF WorldNext
-----------------------------------------------------------------------------
(* The start of a force                                                        *)

(* A reset or a creation gives the force its prototypes' flags and first       *)
(* levels, leaves the ledger and every other force alone, and is quiet.        *)
LEMMA BoundaryStep ==
    ASSUME CellTypeOK, NEW f \in Forces, Boundary(f)
    PROVE  /\ Quiet /\ config' = config /\ old' = old
           /\ alive' \subseteq Forces
           /\ \A g \in Forces \ {f} : g \in alive => g \in alive'
           /\ \A g \in Forces \ {f} : g \in alive' => g \in alive
           /\ cell' \in [Forces -> [Techs -> Cells]]
           /\ \A g \in Forces, t \in Techs : cell'[g][t].entry = cell[g][t].entry
           /\ \E k \in {"created", "reset"} : events' = <<Event(k, f, Nil)>>
<1>0. /\ config \in Configs /\ alive \subseteq Forces
      /\ cell \in [Forces -> [Techs -> Cells]]
  BY DEF CellTypeOK
<1>1. cell' = [cell EXCEPT ![f] = NativeDefault(f)]
  BY DEF Boundary, ResetForce, CreateForce
<1>2. ASSUME NEW t \in Techs
      PROVE  NativeDefault(f)[t] \in Cells /\ NativeDefault(f)[t].entry = cell[f][t].entry
  <2> DEFINE b == DefaultEnabled(config.rows[t])
             y == [cell[f][t] EXCEPT !.level = 1, !.visible = FALSE, !.enabled = b]
  <2>1. b \in BOOLEAN
    BY DEF DefaultEnabled
  <2>2. cell[f][t] \in Cells /\ 1 \in Levels
    BY <1>0, BoundsAssumption DEF Levels
  <2>3. NativeDefault(f)[t] = y
    BY DEF NativeDefault
  <2>. HIDE DEF b
  <2>4. y \in Cells /\ y.entry = cell[f][t].entry
    BY <2>1, <2>2 DEF Cells
  <2>. QED  BY <2>3, <2>4
<1>3. NativeDefault(f) \in [Techs -> Cells]
  BY <1>2, Zenon DEF NativeDefault
<1>4. cell' \in [Forces -> [Techs -> Cells]]
  BY <1>0, <1>1, <1>3
<1>5. \A g \in Forces, t \in Techs : cell'[g][t].entry = cell[g][t].entry
  BY <1>0, <1>1, <1>2
<1>6. /\ Quiet /\ config' = config /\ old' = old
      /\ alive' = alive \/ alive' = alive \cup {f}
  BY DEF Boundary, ResetForce, CreateForce
<1>7. \E k \in {"created", "reset"} : events' = <<Event(k, f, Nil)>>
  BY DEF Boundary, ResetForce, CreateForce
<1>. QED  BY <1>0, <1>4, <1>5, <1>6, <1>7
-----------------------------------------------------------------------------
(* The invariant                                                               *)

(* The initial states of every save satisfy the invariant.                     *)
LEMMA InvInit == HInit => IInv
<1>. SUFFICES ASSUME HInit PROVE IInv
  OBVIOUS
<1>1. CellTypeOK
  <2>1. config \in Configs /\ alive \subseteq Forces
    BY DEF HInit, Init
  <2>2. cell \in [Forces -> [Techs -> Cells]]
    <3>1. [level: Levels, enabled: BOOLEAN, visible: BOOLEAN, entry: {Nil}] \subseteq Cells
      BY DEF Cells
    <3>. QED  BY <3>1 DEF HInit, Init
  <2>3. old \in [Forces -> [Techs -> OldRows \cup {Nil}]]
    <3>1. CASE OldGames
      BY <3>1 DEF HInit, Init
    <3>2. CASE ~OldGames
      BY <3>2 DEF HInit, Init
    <3>. QED  BY <3>1, <3>2
  <2>. QED  BY <2>1, <2>2, <2>3 DEF CellTypeOK
<1>2. /\ hist \in [Forces -> [Techs -> Histories]]
      /\ \A f \in Forces, t \in Techs :
           hist[f][t].wrote = (old[f][t] # Nil /\ old[f][t].cap /\ ~old[f][t].unowned)
  BY DEF HInit, Histories, Flags
<1>3. HistTypeOK
  BY <1>2 DEF HistTypeOK, HInit
<1>4. RightsKnown /\ UnmetNext
  <2>1. \A f \in Forces, t \in Techs : cell[f][t].entry = Nil
    BY DEF HInit, Init
  <2>. QED  BY <2>1 DEF RightsKnown, Right, UnmetNext, HInit
<1>5. ImportPending
  <2>1. CASE OldGames
    <3>1. events = <<Event("configured", Nil, Nil)>>
      BY <2>1 DEF HInit, Init
    <3>. QED  BY <3>1 DEF ImportPending
  <2>2. CASE ~OldGames
    BY <2>2 DEF HInit, Init, ImportPending
  <2>. QED  BY <2>1, <2>2
<1>6. OldRightsProven
  BY <1>2 DEF OldRightsProven
<1>. QED  BY <1>1, <1>3, <1>4, <1>5, <1>6 DEF IInv

(* What the history records of a step of MIR.                                  *)
WatchesMir ==
    hist' = [f \in Forces |-> [t \in Techs |->
               WatchMir(Opening(f, t), cell'[f][t], hist[f][t])]]

(* A cell a handler opens is the present one, its row dropped on a new start.  *)
LEMMA OpeningCell ==
    ASSUME cell \in [Forces -> [Techs -> Cells]], NEW f \in Forces, NEW t \in Techs
    PROVE  /\ Opening(f, t) \in Cells
           /\ FlagsOf(Opening(f, t)) = FlagsOf(cell[f][t])
           /\ Opening(f, t).enabled = cell[f][t].enabled
           /\ Opening(f, t).visible = cell[f][t].visible
           /\ Opening(f, t).entry = IF f \in Meeting THEN Nil ELSE cell[f][t].entry
<1> DEFINE x == cell[f][t]
<1>1. x \in Cells
  OBVIOUS
<1>2. Opening(f, t) = IF f \in Meeting THEN [x EXCEPT !.entry = Nil] ELSE x
  BY DEF Opening
<1>. HIDE DEF x
<1>3. CASE f \in Meeting
  BY <1>1, <1>2, <1>3 DEF Cells, FlagsOf, x
<1>4. CASE f \notin Meeting
  BY <1>1, <1>2, <1>4 DEF Cells, FlagsOf, x
<1>. QED  BY <1>3, <1>4

(* The history of one technology after a step of MIR.                          *)
LEMMA WatchedMir ==
    ASSUME HistTypeOK, WatchesMir,
           cell \in [Forces -> [Techs -> Cells]], cell' \in [Forces -> [Techs -> Cells]]
    PROVE  /\ hist' \in [Forces -> [Techs -> Histories]]
           /\ \A f \in Forces, t \in Techs :
                hist'[f][t].wrote = (hist[f][t].wrote \/ (cell[f][t].enabled /\ ~cell'[f][t].enabled))
<1>1. \A f \in Forces, t \in Techs :
        hist'[f][t] = WatchMir(Opening(f, t), cell'[f][t], hist[f][t])
  BY DEF WatchesMir
<1>2. ASSUME NEW x \in Cells, NEW y \in Cells, NEW h \in Histories
      PROVE  /\ WatchMir(x, y, h) \in Histories
             /\ WatchMir(x, y, h).wrote = (h.wrote \/ (x.enabled /\ ~y.enabled))
  <2>1. FlagsOf(x) \in Flags
    BY DEF FlagsOf, Flags, Cells
  <2>. QED  BY <2>1 DEF WatchMir, Histories
<1>3. ASSUME NEW f \in Forces, NEW t \in Techs
      PROVE  /\ hist'[f][t] \in Histories
             /\ hist'[f][t].wrote = (hist[f][t].wrote \/ (cell[f][t].enabled /\ ~cell'[f][t].enabled))
  <2> DEFINE x == Opening(f, t)
             y == cell'[f][t]
             h == hist[f][t]
  <2>1. x \in Cells /\ y \in Cells /\ h \in Histories /\ x.enabled = cell[f][t].enabled
    BY OpeningCell DEF HistTypeOK
  <2>2. hist'[f][t] = WatchMir(x, y, h)
    BY <1>1
  <2>. HIDE DEF x, y, h
  <2>3. /\ hist'[f][t] \in Histories
        /\ hist'[f][t].wrote = (h.wrote \/ (x.enabled /\ ~y.enabled))
    BY <2>1, <2>2, <1>2
  <2>. QED  BY <2>1, <2>3 DEF y, h
<1>4. hist' = [f \in Forces |-> [t \in Techs |-> hist'[f][t]]]
  BY DEF WatchesMir
<1>. QED  BY <1>3, <1>4

(* What the history records of a step of the World.                            *)
LEMMA WatchedWorld ==
    ASSUME HistTypeOK, hist' = Watched(WatchWorld)
    PROVE  /\ hist' \in [Forces -> [Techs -> Histories]]
           /\ \A f \in Forces, t \in Techs : hist'[f][t].wrote = hist[f][t].wrote
<1>1. \A f \in Forces, t \in Techs :
        hist'[f][t] = WatchWorld(cell[f][t], cell'[f][t], hist[f][t])
  BY DEF Watched
<1>2. ASSUME NEW x, NEW y, NEW h \in Histories
      PROVE  /\ WatchWorld(x, y, h) \in Histories
             /\ WatchWorld(x, y, h).wrote = h.wrote
  <2> DEFINE b == h.touched \/ FlagsOf(x) # FlagsOf(y)
  <2>1. b \in BOOLEAN
    OBVIOUS
  <2>2. WatchWorld(x, y, h) = [h EXCEPT !.touched = b]
    BY Zenon DEF WatchWorld
  <2>. HIDE DEF b
  <2>. QED  BY <2>1, <2>2 DEF Histories
<1>3. ASSUME NEW f \in Forces, NEW t \in Techs
      PROVE  hist'[f][t] \in Histories /\ hist'[f][t].wrote = hist[f][t].wrote
  <2> DEFINE h == hist[f][t]
  <2>1. h \in Histories
    BY DEF HistTypeOK
  <2>2. PICK x, y : hist'[f][t] = WatchWorld(x, y, h)
    BY <1>1
  <2>. HIDE DEF h
  <2>3. hist'[f][t] \in Histories /\ hist'[f][t].wrote = h.wrote
    BY <2>1, <2>2, <1>2
  <2>. QED  BY <2>3 DEF h
<1>4. hist' = [f \in Forces |-> [t \in Techs |-> hist'[f][t]]]
  BY DEF Watched
<1>. QED  BY <1>3, <1>4

(* A handler of MIR preserves the invariant.                                   *)
LEMMA InvMir == IInv /\ HMir => IInv'
<1>. SUFFICES ASSUME IInv, HMir PROVE IInv'
  OBVIOUS
<1>1. CellTypeOK /\ HistTypeOK /\ RightsKnown /\ UnmetNext /\ ImportPending /\ OldRightsProven
  BY DEF IInv
<1>2. MirEffect /\ WatchesMir /\ unmet' = unmet \ Meeting
  BY <1>1, MirStep DEF HMir, WatchesMir
<1>3. old' = [f \in Forces |-> [t \in Techs |-> Nil]]
      \/ (old' = old /\ \A f \in Forces, t \in Techs : old[f][t] = Nil)
  BY <1>1, <1>2 DEF MirEffect, ImportPending
<1>4. \A f \in Forces, t \in Techs : old'[f][t] = Nil
  BY <1>3
<1>5. CellTypeOK'
  <2>1. old' \in [Forces -> [Techs -> OldRows \cup {Nil}]]
    BY <1>1, <1>3 DEF CellTypeOK
  <2>. QED  BY <2>1, <1>1, <1>2 DEF CellTypeOK, MirEffect, LedgerEffect
<1>6. /\ hist' \in [Forces -> [Techs -> Histories]]
      /\ \A f \in Forces, t \in Techs :
           hist'[f][t].wrote = (hist[f][t].wrote \/ (cell[f][t].enabled /\ ~cell'[f][t].enabled))
  BY <1>1, <1>2, <1>5, WatchedMir DEF CellTypeOK
<1>7. HistTypeOK'
  BY <1>1, <1>2, <1>6 DEF HistTypeOK
<1>8. RightsKnown'
  <2>1. ASSUME NEW f \in Forces, NEW t \in Techs, Right(cell'[f][t])
        PROVE  hist'[f][t].wrote \/ f \in unmet' \/ f \notin alive'
    <3>1. CASE Right(cell[f][t]) /\ f \notin Meeting
      <4>1. hist[f][t].wrote \/ f \in unmet \/ f \notin alive
        BY <1>1, <3>1 DEF RightsKnown
      <4>. QED  BY <4>1, <3>1, <1>2, <1>6 DEF MirEffect
    <3>2. CASE (cell[f][t].enabled /\ ~cell'[f][t].enabled) \/ hist[f][t].wrote
      BY <3>2, <1>6
    <3>. QED  BY <2>1, <3>1, <3>2, <1>2 DEF MirEffect, LedgerEffect
  <2>. QED  BY <2>1 DEF RightsKnown
<1>9. ImportPending' /\ OldRightsProven'
  BY <1>4 DEF ImportPending, OldRightsProven
<1>10. UnmetNext'
  BY <1>1, <1>2 DEF UnmetNext
<1>. QED  BY <1>5, <1>7, <1>8, <1>9, <1>10 DEF IInv

(* A step of the World preserves the invariant.                                *)
LEMMA InvWorld == IInv /\ HWorld => IInv'
<1>. SUFFICES ASSUME IInv, HWorld PROVE IInv'
  OBVIOUS
<1>1. CellTypeOK /\ HistTypeOK /\ RightsKnown /\ UnmetNext /\ ImportPending /\ OldRightsProven
  BY DEF IInv
<1>2. WorldEffect /\ alive' \subseteq alive /\ hist' = Watched(WatchWorld) /\ unmet' = unmet
  BY <1>1, WorldStep DEF HWorld
<1>3. CellTypeOK'
  BY <1>1, <1>2 DEF CellTypeOK, WorldEffect
<1>4. /\ hist' \in [Forces -> [Techs -> Histories]]
      /\ \A f \in Forces, t \in Techs : hist'[f][t].wrote = hist[f][t].wrote
  BY <1>1, <1>2, WatchedWorld
<1>5. HistTypeOK'
  BY <1>1, <1>2, <1>4 DEF HistTypeOK
<1>6. RightsKnown'
  BY <1>1, <1>2, <1>4 DEF RightsKnown, WorldEffect, Right
<1>7. ImportPending'
  BY <1>1, <1>2 DEF ImportPending, WorldEffect, Quiet
<1>8. OldRightsProven'
  BY <1>1, <1>2, <1>4 DEF OldRightsProven, WorldEffect
<1>9. UnmetNext'
  BY <1>1, <1>2 DEF UnmetNext, Meeting, WorldEffect, Quiet
<1>. QED  BY <1>3, <1>5, <1>6, <1>7, <1>8, <1>9 DEF IInv

(* The start of a force preserves the invariant.                               *)
LEMMA InvBoundary == ASSUME NEW f \in Forces PROVE IInv /\ HBoundary(f) => IInv'
<1>. SUFFICES ASSUME IInv, HBoundary(f) PROVE IInv'
  OBVIOUS
<1>1. CellTypeOK /\ HistTypeOK /\ RightsKnown /\ UnmetNext /\ ImportPending /\ OldRightsProven
  BY DEF IInv
<1>2. /\ Boundary(f) /\ unmet' = unmet \cup {f}
      /\ hist' = [hist EXCEPT ![f] = [t \in Techs |->
                    [hist[f][t] EXCEPT !.wrote = FALSE, !.touched = TRUE]]]
  BY Zenon DEF HBoundary
<1>3. /\ Quiet /\ config' = config /\ old' = old
      /\ alive' \subseteq Forces
      /\ \A g \in Forces \ {f} : g \in alive => g \in alive'
      /\ \A g \in Forces \ {f} : g \in alive' => g \in alive
      /\ cell' \in [Forces -> [Techs -> Cells]]
      /\ \A g \in Forces, t \in Techs : cell'[g][t].entry = cell[g][t].entry
      /\ \E k \in {"created", "reset"} : events' = <<Event(k, f, Nil)>>
  BY <1>1, <1>2, BoundaryStep, Zenon
<1>4. CellTypeOK'
  BY <1>1, <1>3 DEF CellTypeOK
<1>5. [t \in Techs |-> [hist[f][t] EXCEPT !.wrote = FALSE, !.touched = TRUE]]
        \in [Techs -> Histories]
  <2>1. \A t \in Techs : hist[f][t] \in Histories
    BY <1>1 DEF HistTypeOK
  <2>2. \A h \in Histories : [h EXCEPT !.wrote = FALSE, !.touched = TRUE] \in Histories
    BY DEF Histories
  <2>. QED  BY <2>1, <2>2, Zenon
<1>6. /\ hist' \in [Forces -> [Techs -> Histories]]
      /\ \A g \in Forces \ {f} : hist'[g] = hist[g]
  BY <1>1, <1>2, <1>5, Zenon DEF HistTypeOK
<1>7. HistTypeOK'
  BY <1>1, <1>2, <1>6, Zenon DEF HistTypeOK
<1>8. RightsKnown'
  BY <1>1, <1>2, <1>3, <1>6, Zenon DEF RightsKnown, Right
<1>9. \A g \in Forces, t \in Techs : old'[g][t] = Nil
  BY <1>1, <1>3 DEF ImportPending, Quiet
<1>10. ImportPending' /\ OldRightsProven'
  BY <1>9 DEF ImportPending, OldRightsProven
<1>11. UnmetNext'
  <2>1. unmet = {}
    BY <1>1, <1>3 DEF UnmetNext, Quiet
  <2>2. PICK k \in {"created", "reset"} : events' = <<Event(k, f, Nil)>>
    BY <1>3
  <2>3. events' # <<>> /\ Head(events') = Event(k, f, Nil)
    BY <2>2
  <2>4. f \in Meeting'
    BY <2>3 DEF Meeting
  <2>. QED  BY <2>1, <2>3, <2>4, <1>2, Zenon DEF UnmetNext
<1>. QED  BY <1>4, <1>7, <1>8, <1>10, <1>11 DEF IInv

(* The invariant is inductive.                                                 *)
LEMMA InvNext == IInv /\ [HNext]_hvars => IInv'
<1>1. CASE HNext
  BY <1>1, InvMir, InvWorld, InvBoundary DEF HNext
<1>2. CASE UNCHANGED hvars
  <2>1. UNCHANGED <<config, alive, cell, events, old, hist, unmet>>
    BY <1>2 DEF hvars, vars
  <2>. QED
    BY <2>1 DEF IInv, CellTypeOK, HistTypeOK, RightsKnown, Right, UnmetNext, Meeting,
                ImportPending, OldRightsProven
<1>. QED  BY <1>1, <1>2
-----------------------------------------------------------------------------
(* What a step of MIR does to each cell                                        *)

(* The event's handler reconciles t on f, whatever is subscribed.              *)
Covers(e, f, t) ==
    \/ e.kind \in {"init", "configured"}
    \/ e.kind \in {"created", "reset", "merged"} /\ e.force = f
    \/ e.kind \in {"finished", "reversed"} /\ e.force = f /\ e.tech = t

(* reconcile_force on one technology, prototype policy included.               *)
OnePass(row, x, policy, new, obs) ==
    ReconcileCell(row, IF policy THEN PolicyOff(row, x, new) ELSE x, new, obs)

(* t on f is reconciled, as the handler opened it or as the import left it.    *)
Reconciles(f, t) ==
    \E policy, new \in BOOLEAN, x \in Cells :
        /\ \/ x = Opening(f, t) /\ ~new
           \/ x = ImportCell(f, t, cell[f][t]) /\ f \notin Meeting
        /\ new => Importable(f, t, cell[f][t])
        /\ cell'[f][t] = OnePass(config.rows[t], x, policy, new, Observation(Head(events).kind))

(* What becomes of t on f: left alone by a handler that is not about it,       *)
(* dropped with its force, or reconciled.                                      *)
Handled(f, t) ==
    \/ /\ cell'[f][t] = cell[f][t] /\ f \notin Meeting
       /\ f \in alive => ~Covers(Head(events), f, t)
    \/ cell'[f][t] = [cell[f][t] EXCEPT !.entry = Nil] /\ f \notin alive
    \/ f \in alive /\ Reconciles(f, t)

(* A pass over present cells, the rows of the forces D dropped, nothing fresh. *)
LEMMA PassHandles ==
    ASSUME CellTypeOK, NEW D \in SUBSET Forces, D \cap alive = Meeting,
           NEW F \in SUBSET alive, NEW S, Meeting \subseteq F,
           NEW k, NEW policy \in BOOLEAN, Head(events).kind = k,
           \A f \in alive, t \in Techs : Covers(Head(events), f, t) => f \in F /\ t \in S,
           cell' = Reconciled(Cleared(cell, D), F, S, policy, {}, Observation(k)),
           NEW f \in Forces, NEW t \in Techs, f \in Meeting => t \in S
    PROVE  Handled(f, t)
<1>1. cell \in [Forces -> [Techs -> Cells]] /\ alive \subseteq Forces
  BY DEF CellTypeOK
<1>2. Cleared(cell, D)[f][t] = IF f \in D THEN [cell[f][t] EXCEPT !.entry = Nil] ELSE cell[f][t]
  BY DEF Cleared
<1>3. CASE f \in F /\ t \in S
  <2>1. Cleared(cell, D)[f][t] = Opening(f, t)
    BY <1>2, <1>3 DEF Opening
  <2>2. cell'[f][t] = OnePass(config.rows[t], Opening(f, t), policy, FALSE, Observation(k))
    <3>1. cell'[f][t] = OnePass(config.rows[t], Cleared(cell, D)[f][t], policy,
                                <<f, t>> \in {}, Observation(k))
      BY <1>3, Zenon DEF Reconciled, OnePass
    <3>2. (<<f, t>> \in {}) = FALSE
      OBVIOUS
    <3>. QED  BY <2>1, <3>1, <3>2, Zenon
  <2>3. Opening(f, t) \in Cells
    BY <1>1, OpeningCell
  <2>4. Reconciles(f, t)
    BY <2>2, <2>3 DEF Reconciles
  <2>. QED  BY <1>3, <2>4 DEF Handled
<1>4. CASE ~(f \in F /\ t \in S)
  <2>1. cell'[f][t] = Cleared(cell, D)[f][t]
    BY <1>4 DEF Reconciled
  <2>2. f \in alive => ~Covers(Head(events), f, t)
    BY <1>4
  <2>3. f \notin Meeting /\ (f \in D => f \notin alive)
    BY <1>4
  <2>. QED  BY <1>2, <2>1, <2>2, <2>3 DEF Handled
<1>. QED  BY <1>3, <1>4

(* A pass that drops no row first.                                             *)
LEMMA PlainPassHandles ==
    ASSUME CellTypeOK, Meeting = {}, NEW F \in SUBSET alive, NEW S, NEW k, NEW policy \in BOOLEAN,
           Head(events).kind = k,
           \A f \in alive, t \in Techs : Covers(Head(events), f, t) => f \in F /\ t \in S,
           cell' = Reconciled(cell, F, S, policy, {}, Observation(k))
    PROVE  \A f \in Forces, t \in Techs : Handled(f, t)
<1>1. Cleared(cell, {}) = cell
  BY DEF Cleared, CellTypeOK
<1>2. cell' = Reconciled(Cleared(cell, {}), F, S, policy, {}, Observation(k))
  BY <1>1
<1>3. {} \in SUBSET Forces /\ {} \cap alive = Meeting /\ Meeting \subseteq F
  OBVIOUS
<1>. QED  BY <1>2, <1>3, PassHandles

(* A handler that leaves the cells alone is about none of them.                *)
LEMMA SameHandles ==
    ASSUME Meeting = {}, cell' = cell,
           \A f \in alive, t \in Techs : ~Covers(Head(events), f, t)
    PROVE  \A f \in Forces, t \in Techs : Handled(f, t)
  BY DEF Handled

(* The one-time import and the reconciliation of a configuration change.       *)
LEMMA ConfigurationHandles ==
    ASSUME CellTypeOK, OnConfigurationChanged
    PROVE  \A f \in Forces, t \in Techs : Handled(f, t)
<1> DEFINE kept  == Cleared(cell, Forces \ alive)
           cells == Imported(kept)
<1>1. cell \in [Forces -> [Techs -> Cells]] /\ alive \subseteq Forces
  BY DEF CellTypeOK
<1>2. /\ cell' = Reconciled(cells, alive, Techs, TRUE, Reenabled(cell), Observation("configured"))
      /\ Head(events).kind = "configured"
  BY DEF OnConfigurationChanged, ReconcileAll, Taken, Event
<1>. SUFFICES ASSUME NEW f \in Forces, NEW t \in Techs PROVE Handled(f, t)
  OBVIOUS
<1>3. kept[f][t] = IF f \in alive THEN cell[f][t] ELSE [cell[f][t] EXCEPT !.entry = Nil]
  BY DEF Cleared
<1>4. cells[f][t] = ImportCell(f, t, kept[f][t])
  BY DEF Imported
<1>5. CASE f \in alive
  <2> DEFINE x   == ImportCell(f, t, cell[f][t])
             new == <<f, t>> \in Reenabled(cell)
  <2>1. cells[f][t] = x
    BY <1>3, <1>4, <1>5
  <2>2. kept \in [Forces -> [Techs -> Cells]]
    BY ClearedCells
  <2>3. cells \in [Forces -> [Techs -> Cells]]
    BY <2>2, ImportedCells
  <2>4. x \in Cells
    <3>. HIDE DEF cells, x
    <3>. QED  BY <2>1, <2>3
  <2>5. new \in BOOLEAN /\ (new => Importable(f, t, cell[f][t]))
    BY DEF Reenabled
  <2>6. cell'[f][t] = OnePass(config.rows[t], cells[f][t], TRUE, new, Observation("configured"))
    BY <1>2, <1>5, Zenon DEF Reconciled, OnePass
  <2>7. Reconciles(f, t)
    <3>. HIDE DEF x, new
    <3>1. cell'[f][t] = OnePass(config.rows[t], x, TRUE, new, Observation(Head(events).kind))
      BY <1>2, <2>1, <2>6
    <3>2. f \notin Meeting
      BY <1>2, MeetingOf
    <3>. QED  BY <2>4, <2>5, <3>1, <3>2 DEF Reconciles, x
  <2>. QED  BY <1>5, <2>7 DEF Handled
<1>6. CASE f \notin alive
  <2>1. cell'[f][t] = cells[f][t]
    BY <1>2, <1>6 DEF Reconciled
  <2>2. ~Importable(f, t, kept[f][t])
    BY <1>6 DEF Importable
  <2>3. cell'[f][t] = [cell[f][t] EXCEPT !.entry = Nil]
    BY <1>3, <1>4, <1>6, <2>1, <2>2 DEF ImportCell
  <2>. QED  BY <1>6, <2>3 DEF Handled
<1>. QED  BY <1>5, <1>6

(* Every handler of MIR treats every cell as Handled says.                     *)
LEMMA MirHandles ==
    ASSUME CellTypeOK, MirNext
    PROVE  \A f \in Forces, t \in Techs : Handled(f, t)
<1>0. alive \subseteq Forces
  BY DEF CellTypeOK
<1>1. CASE OnInit \/ OnDiscoveryTreeChanged
  <2>1. PICK k \in {"init", "setting"} :
          Taken(Event(k, Nil, Nil)) /\ ReconcileAll(k, alive, cell, {})
    BY <1>1 DEF OnInit, OnDiscoveryTreeChanged
  <2>2. Meeting = {}
    BY <2>1, MeetingOf DEF Taken, Event
  <2>3. Head(events).kind = k
    BY <2>1 DEF Taken, Event
  <2>4. cell' = Reconciled(cell, alive, Techs, TRUE, {}, Observation(k))
    BY <2>1 DEF ReconcileAll
  <2>. QED  BY <2>2, <2>3, <2>4, PlainPassHandles
<1>2. CASE OnConfigurationChanged
  BY <1>2, ConfigurationHandles
<1>3. CASE OnResearch
  <2>1. PICK k \in {"finished", "reversed", "started"}, f \in alive, t \in Techs :
          /\ Taken(Event(k, f, t))
          /\ IF Fresh(k) THEN ReconcileAll(k, {f}, cell, {}) ELSE ReconcileNamed(k, f, t)
    BY <1>3 DEF OnResearch
  <2>2. Meeting = {}
    BY <2>1, MeetingOf DEF Taken, Event
  <2>3. Head(events).kind = k /\ Head(events).force = f /\ Head(events).tech = t
    BY <2>1 DEF Taken, Event
  <2>4. PICK S \in {Techs, {t}}, policy \in BOOLEAN :
          cell' = Reconciled(cell, {f}, S, policy, {}, Observation(k))
    BY <2>1 DEF ReconcileAll, ReconcileNamed
  <2>5. \A g \in alive, u \in Techs : Covers(Head(events), g, u) => g \in {f} /\ u \in S
    BY <2>3, <2>4 DEF Covers
  <2>. QED  BY <2>2, <2>3, <2>4, <2>5, PlainPassHandles
<1>4. CASE OnResearchCancelled \/ OnResearchQueued
  <2>1. PICK k \in {"cancelled", "queued"}, f \in alive, t \in Techs :
          Taken(Event(k, f, t)) /\ (ReconcileAll(k, {f}, cell, {}) \/ cell' = cell)
    BY <1>4 DEF OnResearchCancelled, OnResearchQueued
  <2>2. Meeting = {}
    BY <2>1, MeetingOf DEF Taken, Event
  <2>3. Head(events).kind = k
    BY <2>1 DEF Taken, Event
  <2>4. \A g \in alive, u \in Techs : ~Covers(Head(events), g, u)
    BY <2>3 DEF Covers
  <2>5. CASE cell' = cell
    BY <2>2, <2>4, <2>5, SameHandles
  <2>6. CASE ReconcileAll(k, {f}, cell, {})
    <3>1. cell' = Reconciled(cell, {f}, Techs, TRUE, {}, Observation(k))
      BY <2>6 DEF ReconcileAll
    <3>. QED  BY <2>2, <2>3, <2>4, <3>1, PlainPassHandles
  <2>. QED  BY <2>1, <2>5, <2>6
<1>5. CASE OnTechnologyEffectsReset
  <2>1. PICK f \in alive :
          Taken(Event("effects", f, Nil)) /\ ReconcileAll("effects", {f}, cell, {})
    BY <1>5 DEF OnTechnologyEffectsReset
  <2>2. Meeting = {}
    BY <2>1, MeetingOf DEF Taken, Event
  <2>3. Head(events).kind = "effects"
    BY <2>1 DEF Taken, Event
  <2>4. cell' = Reconciled(cell, {f}, Techs, TRUE, {}, Observation("effects"))
    BY <2>1 DEF ReconcileAll
  <2>5. \A g \in alive, u \in Techs : ~Covers(Head(events), g, u)
    BY <2>3 DEF Covers
  <2>. QED  BY <2>2, <2>3, <2>4, <2>5, PlainPassHandles
<1>6. CASE OnForceBoundary
  <2>1. PICK k \in {"created", "reset"}, f \in alive :
          Taken(Event(k, f, Nil)) /\ ReconcileAll(k, {f}, Cleared(cell, {f}), {})
    BY <1>6 DEF OnForceBoundary
  <2>2. Head(events) = Event(k, f, Nil)
    BY <2>1 DEF Taken
  <2>3. Meeting = {f}
    BY <1>0, <2>2, MeetingOf DEF Meeting, Event
  <2>4. cell' = Reconciled(Cleared(cell, {f}), {f}, Techs, TRUE, {}, Observation(k))
    BY <2>1 DEF ReconcileAll
  <2>5. \A g \in alive, u \in Techs : Covers(Head(events), g, u) => g \in {f}
    BY <2>2 DEF Covers, Event
  <2>6. {f} \in SUBSET Forces /\ {f} \cap alive = Meeting /\ Head(events).kind = k
    BY <1>0, <2>2, <2>3 DEF Event
  <2>. QED  BY <2>3, <2>4, <2>5, <2>6, PassHandles
<1>7. CASE OnForcesMerged
  <2>1. PICK f \in alive, s \in Forces \ alive :
          /\ Taken([Event("merged", f, Nil) EXCEPT !.source = s])
          /\ ReconcileAll("merged", {f}, Cleared(cell, {s}), {})
    BY <1>7 DEF OnForcesMerged
  <2>2. Meeting = {}
    BY <2>1, MeetingOf DEF Taken, Event
  <2>3. Head(events).kind = "merged" /\ Head(events).force = f
    BY <2>1 DEF Taken, Event
  <2>4. cell' = Reconciled(Cleared(cell, {s}), {f}, Techs, TRUE, {}, Observation("merged"))
    BY <2>1 DEF ReconcileAll
  <2>5. \A g \in alive, u \in Techs : Covers(Head(events), g, u) => g \in {f}
    BY <2>3 DEF Covers
  <2>6. {s} \in SUBSET Forces /\ {s} \cap alive = Meeting
    BY <2>2
  <2>. QED  BY <2>2, <2>3, <2>4, <2>5, <2>6, PassHandles
<1>. QED
  BY <1>1, <1>2, <1>3, <1>4, <1>5, <1>6, <1>7 DEF MirNext
-----------------------------------------------------------------------------
(* The ledger follows the caps                                                 *)

(* The ledger row of a cell is what its level and its row ask for.             *)
Matching(row, x) ==
    /\ Capped(row, x.level) => x.entry # Nil
    /\ x.entry # Nil => Capped(row, x.level) \/ Retained(row)

(* Every cell matches, or the event first in line has it reconciled.           *)
LedgerFollows ==
    \A f \in alive, t \in Techs :
        \/ Matching(config.rows[t], cell[f][t])
        \/ events # <<>> /\ Covers(Head(events), f, t)

(* The prototype policy leaves the level alone.                                *)
LEMMA PolicyOffLevel ==
    ASSUME NEW row, NEW x \in Cells, NEW imported \in BOOLEAN
    PROVE  PolicyOff(row, x, imported).level = x.level
  BY DEF PolicyOff, Cells

(* One pass leaves the cell with the row its level asks for.                   *)
LEMMA OnePassMatches ==
    ASSUME NEW row \in Rows, NEW x \in Cells, NEW policy \in BOOLEAN,
           NEW new \in BOOLEAN, NEW obs \in Maybe
    PROVE  Matching(row, OnePass(row, x, policy, new, obs))
<1> DEFINE z == IF policy THEN PolicyOff(row, x, new) ELSE x
           y == ReconcileCell(row, z, new, obs)
<1>1. z \in Cells
  BY PolicyOffCell
<1>. HIDE DEF z
<1>2. CASE Capped(row, z.level)
  <2>1. y = CapOff(z, new, obs)
    BY <1>2 DEF ReconcileCell
  <2>3. y.level = z.level /\ y.entry # Nil
    BY <1>1, <2>1, CapOffCell, EntryAssumption
  <2>. QED  BY <1>2, <2>3 DEF Matching, OnePass, z
<1>3. CASE ~Capped(row, z.level) /\ Admitted(row) /\ z.entry # Nil
  <2>1. y = Release(z, obs)
    BY <1>3 DEF ReconcileCell
  <2>2. y.level = z.level /\ y.entry = Nil
    BY <1>1, <2>1 DEF Release, Cells
  <2>. QED  BY <1>3, <2>2 DEF Matching, OnePass, z
<1>4. CASE ~Capped(row, z.level) /\ ~(Admitted(row) /\ z.entry # Nil)
  <2>1. y = IF Admitted(row) \/ Retained(row) THEN z ELSE [z EXCEPT !.entry = Nil]
    BY <1>4 DEF ReconcileCell, Bound
  <2>2. y.level = z.level
    BY <1>1, <2>1 DEF Cells
  <2>3. y.entry # Nil => Retained(row)
    BY <1>1, <1>4, <2>1 DEF Cells
  <2>. QED  BY <1>4, <2>2, <2>3 DEF Matching, OnePass, z
<1>. QED  BY <1>2, <1>3, <1>4

(* A step of MIR: what the handled event is about is reconciled, the rest      *)
(* matched already.                                                            *)
LEMMA FollowsMir ==
    ASSUME CellTypeOK, OldRightsProven, LedgerFollows, MirNext
    PROVE  LedgerFollows'
<1>1. config' = config /\ alive' = alive /\ alive \subseteq Forces
  BY MirStep DEF MirEffect, CellTypeOK
<1>2. ASSUME NEW f \in alive, NEW t \in Techs
      PROVE  Matching(config.rows[t], cell'[f][t])
  <2>1. Handled(f, t)
    BY <1>1, MirHandles
  <2>2. CASE cell'[f][t] = cell[f][t] /\ ~Covers(Head(events), f, t)
    BY <2>2 DEF LedgerFollows
  <2>3. CASE Reconciles(f, t)
    <3>1. config.rows[t] \in Rows
      BY ConfigsAssumption DEF CellTypeOK
    <3>2. PICK policy \in BOOLEAN, new \in BOOLEAN, x \in Cells :
            cell'[f][t] = OnePass(config.rows[t], x, policy, new, Observation(Head(events).kind))
      BY <2>3 DEF Reconciles
    <3>. QED  BY <3>1, <3>2, OnePassMatches, ObservationMaybe
  <2>. QED  BY <2>1, <2>2, <2>3 DEF Handled
<1>. QED  BY <1>1, <1>2 DEF LedgerFollows

(* When the game is quiet every cell matches.                                  *)
LEMMA QuietMatches ==
    LedgerFollows /\ Quiet => \A f \in alive, t \in Techs : Matching(config.rows[t], cell[f][t])
  BY DEF LedgerFollows, Quiet

(* Without a cap nothing is capped.                                            *)
LEMMA NothingCapped ==
    ASSUME ~CapsActive, NEW t \in Techs, NEW level
    PROVE  ~Capped(config.rows[t], level)
  BY DEF CapsActive, Capped, Limited, OverLimit

(* The level of one technology changes, and MIR hears of it where it caps.     *)
LEMMA FollowsLevel ==
    ASSUME CellTypeOK, LedgerFollows, Quiet, config' = config, alive' = alive,
           NEW f \in alive, NEW t \in Techs, NEW n,
           cell' = [cell EXCEPT ![f][t].level = n],
           NEW k \in {"finished", "reversed"},
           CapsActive => events' # <<>> /\ Head(events') = Event(k, f, t)
    PROVE  LedgerFollows'
<1>1. \A g \in alive, u \in Techs : Matching(config.rows[u], cell[g][u])
  BY QuietMatches
<1>2. /\ cell \in [Forces -> [Techs -> Cells]] /\ alive \subseteq Forces
      /\ cell[f][t] \in Cells
  BY DEF CellTypeOK
<1>3. cell'[f][t].entry = cell[f][t].entry
  BY <1>2 DEF Cells
<1>4. \A g \in Forces, u \in Techs : <<g, u>> # <<f, t>> => cell'[g][u] = cell[g][u]
  BY <1>2
<1>5. CASE CapsActive
  <2>1. Covers(Head(events'), f, t)
    BY <1>5 DEF Covers, Event
  <2>. QED  BY <1>1, <1>2, <1>4, <1>5, <2>1 DEF LedgerFollows
<1>6. CASE ~CapsActive
  <2>1. Matching(config.rows[t], cell'[f][t])
    BY <1>1, <1>3, <1>6, NothingCapped DEF Matching
  <2>. QED  BY <1>1, <1>2, <1>4, <2>1 DEF LedgerFollows
<1>. QED  BY <1>5, <1>6

(* A step of the World raises an event for every level it changes.             *)
LEMMA FollowsWorld ==
    ASSUME CellTypeOK, LedgerFollows, WorldNext
    PROVE  LedgerFollows'
<1>0. /\ cell \in [Forces -> [Techs -> Cells]] /\ alive \subseteq Forces
      /\ \A f \in Forces, t \in Techs : cell[f][t] \in Cells
  BY DEF CellTypeOK
<1>1. CASE Enqueue \/ CancelCurrent \/ Research \/ ResetEffects \/ ChangeSetting
  <2>1. Quiet /\ config' = config /\ alive' = alive /\ cell' = cell
    BY <1>1 DEF Enqueue, CancelCurrent, Research, ResetEffects, ChangeSetting
  <2>. QED  BY <2>1, QuietMatches DEF LedgerFollows
<1>2. CASE LoadConfiguration
  <2>1. events' # <<>> /\ Head(events') = Event("configured", Nil, Nil)
    BY <1>2 DEF LoadConfiguration
  <2>. QED  BY <2>1 DEF LedgerFollows, Covers, Event
<1>3. CASE Finish \/ Grant
  <2>1. PICK f \in alive, t \in Techs : Completes(f, t)
    BY <1>3 DEF Finish, Grant
  <2>2. Quiet /\ config' = config /\ alive' = alive
    BY <1>3 DEF Finish, Grant
  <2>3. cell' = [cell EXCEPT ![f][t].level = cell[f][t].level + 1]
    BY <1>0, <2>1 DEF Completes
  <2>4. ASSUME CapsActive PROVE events' # <<>> /\ Head(events') = Event("finished", f, t)
    <3>1. PICK more : events' = Raised("finished", f, t) \o more
                      /\ \E k, u : more \in {<<>>, Raised(k, f, u)}
      BY <2>1 DEF Completes
    <3>2. Raised("finished", f, t) = <<Event("finished", f, t)>>
      BY <2>4 DEF Raised, Subscribed, NamedKinds
    <3>3. more = <<>> \/ \E e : more = <<e>>
      BY <3>1 DEF Raised
    <3>4. CASE more = <<>>
      BY <3>1, <3>2, <3>4
    <3>5. ASSUME NEW e, more = <<e>>
          PROVE  events' # <<>> /\ Head(events') = Event("finished", f, t)
      BY <3>1, <3>2, <3>5
    <3>. QED  BY <3>3, <3>4, <3>5
  <2>. QED  BY <2>2, <2>3, <2>4, FollowsLevel
<1>4. CASE Unresearch
  <2>1. PICK f \in alive, t \in Techs :
          /\ cell' = [cell EXCEPT ![f][t].level = @ - 1]
          /\ events' = Raised("reversed", f, t)
    BY <1>4 DEF Unresearch
  <2>2. Quiet /\ config' = config /\ alive' = alive
    BY <1>4 DEF Unresearch
  <2>3. cell' = [cell EXCEPT ![f][t].level = cell[f][t].level - 1]
    BY <1>0, <2>1
  <2>4. CapsActive => events' = <<Event("reversed", f, t)>>
    BY <2>1 DEF Raised, Subscribed, NamedKinds
  <2>5. CapsActive => events' # <<>> /\ Head(events') = Event("reversed", f, t)
    BY <2>4
  <2>. QED  BY <2>2, <2>3, <2>5, FollowsLevel
<1>5. CASE MergeForces
  <2>1. PICK s \in alive, d \in alive :
          /\ s # d
          /\ alive' = alive \ {s}
          /\ cell' = [cell EXCEPT ![d] = [t \in Techs |->
                       [cell[d][t] EXCEPT !.level = IF cell[s][t].level > @
                                                    THEN cell[s][t].level ELSE @]]]
          /\ events' = <<[Event("merged", d, Nil) EXCEPT !.source = s]>>
    BY <1>5 DEF MergeForces
  <2>2. Quiet /\ config' = config
    BY <1>5 DEF MergeForces
  <2>3. \A t \in Techs : events' # <<>> /\ Covers(Head(events'), d, t)
    BY <2>1 DEF Covers, Event
  <2>4. \A g \in Forces \ {d} : cell'[g] = cell[g]
    BY <1>0, <2>1
  <2>. QED  BY <1>0, <2>1, <2>2, <2>3, <2>4, QuietMatches DEF LedgerFollows
<1>6. CASE ForeignEnabled \/ ForeignVisible \/ DiscoveryTreeReveals
  <2>1. config' = config /\ alive' = alive /\ events' = events
    BY <1>6 DEF ForeignEnabled, ForeignVisible, DiscoveryTreeReveals
  <2>2. \A f \in Forces, t \in Techs : /\ cell'[f][t].level = cell[f][t].level
                                       /\ cell'[f][t].entry = cell[f][t].entry
    <3>1. CASE ForeignEnabled
      <4>1. PICK f \in alive, t \in Techs : cell' = [cell EXCEPT ![f][t].enabled = ~@]
        BY <3>1 DEF ForeignEnabled
      <4>. QED  BY <1>0, <4>1 DEF Cells
    <3>2. CASE ForeignVisible
      <4>1. PICK f \in alive, t \in Techs : cell' = [cell EXCEPT ![f][t].visible = ~@]
        BY <3>2 DEF ForeignVisible
      <4>. QED  BY <1>0, <4>1 DEF Cells
    <3>3. CASE DiscoveryTreeReveals
      <4>1. PICK shown \in [Forces -> SUBSET Techs] :
              cell' = [f \in Forces |-> [t \in Techs |->
                IF f \in alive /\ Head(events).force \in {f, Nil}
                THEN [cell[f][t] EXCEPT !.enabled = t \in shown[f]] ELSE cell[f][t]]]
        BY <3>3 DEF DiscoveryTreeReveals
      <4>2. ASSUME NEW x \in Cells, NEW b
            PROVE  [x EXCEPT !.enabled = b].level = x.level /\ [x EXCEPT !.enabled = b].entry = x.entry
        BY DEF Cells
      <4>. QED  BY <1>0, <4>1, <4>2
    <3>. QED  BY <1>6, <3>1, <3>2, <3>3
  <2>. QED  BY <1>0, <2>1, <2>2 DEF LedgerFollows, Matching
<1>. QED
  BY <1>1, <1>2, <1>3, <1>4, <1>5, <1>6 DEF WorldNext

(* The start of a force has it reconciled.                                     *)
LEMMA FollowsBoundary ==
    ASSUME CellTypeOK, LedgerFollows, NEW f \in Forces, Boundary(f)
    PROVE  LedgerFollows'
<1>1. /\ Quiet /\ config' = config /\ alive' \in {alive, alive \cup {f}}
      /\ cell' = [cell EXCEPT ![f] = NativeDefault(f)]
      /\ \E k \in {"created", "reset"} : events' = <<Event(k, f, Nil)>>
  BY DEF Boundary, ResetForce, CreateForce
<1>2. \A g \in Forces \ {f} : cell'[g] = cell[g]
  BY <1>1 DEF CellTypeOK
<1>3. \A t \in Techs : events' # <<>> /\ Covers(Head(events'), f, t)
  BY <1>1 DEF Covers, Event
<1>4. alive' \subseteq Forces
  BY <1>1 DEF CellTypeOK
<1>. QED  BY <1>1, <1>2, <1>3, <1>4, QuietMatches DEF LedgerFollows

(* The first event reconciles everything; every step keeps the ledger in step. *)
LEMMA FollowsInvariant ==
    /\ HInit => LedgerFollows
    /\ IInv /\ LedgerFollows /\ [HNext]_hvars => LedgerFollows'
<1>1. ASSUME HInit PROVE LedgerFollows
  <2>1. events # <<>> /\ Head(events).kind \in {"init", "configured"}
    BY <1>1 DEF HInit, Init, Event
  <2>. QED  BY <2>1 DEF LedgerFollows, Covers
<1>2. ASSUME IInv, LedgerFollows, [HNext]_hvars PROVE LedgerFollows'
  <2>1. CellTypeOK /\ OldRightsProven
    BY <1>2 DEF IInv
  <2>2. CASE UNCHANGED hvars
    <3>1. UNCHANGED <<config, alive, cell, events>>
      BY <2>2 DEF hvars, vars
    <3>. QED  BY <1>2, <3>1 DEF LedgerFollows
  <2>3. CASE MirNext
    BY <1>2, <2>1, <2>3, FollowsMir
  <2>4. CASE WorldNext
    BY <1>2, <2>1, <2>4, FollowsWorld
  <2>5. ASSUME NEW f \in Forces, Boundary(f) PROVE LedgerFollows'
    BY <1>2, <2>1, <2>5, FollowsBoundary
  <2>. QED  BY <1>2, <2>2, <2>3, <2>4, <2>5, Zenon DEF HNext, HMir, HWorld, HBoundary
<1>. QED  BY <1>1, <1>2
-----------------------------------------------------------------------------
(* What MIR found is what it gives back                                        *)

(* A ledger row names the flags its history opened with, while nobody else     *)
(* writes them: enablement in the row, visibility in the row or in the cell.   *)
Returns(x, h) ==
    x.entry # Nil =>
        /\ x.entry.discovery = Nil /\ x.entry.disabled \in BOOLEAN
        /\ h.base # Nil /\ ~h.touched =>
             /\ x.entry.disabled = h.base.enabled
             /\ (IF x.entry.visible # Nil THEN x.entry.visible ELSE x.visible) = h.base.visible

AllReturn ==
    \A f \in Forces, t \in Techs : old[f][t] = Nil /\ Returns(cell[f][t], hist[f][t])

(* Closing the row of an admitted technology gives the flags back, and that of *)
(* one that policy disables is not closed, unless it could.                    *)
GivesBack(row, x, y, h) ==
    (x.entry # Nil /\ y.entry = Nil /\ h.base # Nil /\ ~h.touched
        /\ (Admitted(row) \/ Retained(row)))
        => FlagsOf(y) = h.base

(* A cell left alone keeps its promise, and one without a row makes none.      *)
LEMMA KeptReturns ==
    ASSUME NEW x \in Cells, NEW y \in Cells, NEW h \in Histories, Returns(x, h),
           y = x \/ y.entry = Nil
    PROVE  Returns(y, WatchMir(x, y, h))
  BY DEF Returns, WatchMir

(* The prototype policy writes enablement only, and records it as its own.     *)
LEMMA PolicyOffReturns ==
    ASSUME NEW row, NEW x \in Cells, NEW h \in Histories, Returns(x, h)
    PROVE  LET y == PolicyOff(row, x, FALSE)
           IN  Returns(y, WatchMir(x, y, h)) /\ (x.entry # Nil => y.entry # Nil)
<1> DEFINE y == PolicyOff(row, x, FALSE)
<1>1. y \in Cells
  BY PolicyOffCell
<1>2. CASE ~(Retained(row) /\ x.enabled)
  <2>1. y = x
    BY <1>2 DEF PolicyOff
  <2>. QED  BY <1>1, <2>1, KeptReturns
<1>3. CASE Retained(row) /\ x.enabled /\ x.entry = Nil
  <2> DEFINE e == [NoEntry EXCEPT !.disabled = TRUE]
  <2>1. y = [x EXCEPT !.enabled = FALSE, !.entry = e]
    BY <1>3 DEF PolicyOff
  <2>2. e.disabled = TRUE /\ e.visible = Nil /\ e.discovery = Nil
    BY DEF NoEntry
  <2>. HIDE DEF e, y
  <2>3. y.visible = x.visible /\ y.entry = e
    BY <2>1 DEF Cells
  <2>4. WatchMir(x, y, h).base \in {Nil, FlagsOf(x)}
    BY <1>3 DEF WatchMir
  <2>5. FlagsOf(x).enabled = TRUE /\ FlagsOf(x).visible = x.visible
    BY <1>3 DEF FlagsOf, Cells
  <2>6. Returns(y, WatchMir(x, y, h))
    BY <2>2, <2>3, <2>4, <2>5 DEF Returns
  <2>. QED  BY <1>3, <2>6 DEF y
<1>4. CASE Retained(row) /\ x.enabled /\ x.entry # Nil
  <2>1. x.entry.disabled \in BOOLEAN
    BY <1>4 DEF Returns
  <2>2. y = [x EXCEPT !.enabled = FALSE]
    <3>1. x.entry.disabled # Nil
      BY <2>1, NilAssumption
    <3>2. y = [x EXCEPT !.enabled = FALSE, !.entry = x.entry]
      BY <1>4, <3>1, Zenon DEF PolicyOff
    <3>. QED  BY <3>2 DEF Cells
  <2>. HIDE DEF y
  <2>3. y.visible = x.visible /\ y.entry = x.entry
    BY <2>2 DEF Cells
  <2>4. /\ WatchMir(x, y, h).base \in {Nil, h.base}
        /\ WatchMir(x, y, h).touched = h.touched
    BY <1>4, <2>3 DEF WatchMir, Histories
  <2>. QED  BY <1>4, <2>3, <2>4 DEF Returns, y
<1>. QED  BY <1>2, <1>3, <1>4

(* Capping records what it finds, or keeps what an open row recorded.          *)
LEMMA CapOffReturns ==
    ASSUME NEW x \in Cells, NEW h \in Histories, Returns(x, h)
    PROVE  LET y == CapOff(x, FALSE, Nil)
           IN  Returns(y, WatchMir(x, y, h)) /\ y.entry # Nil
<1> DEFINE y == CapOff(x, FALSE, Nil)
           found == IF x.entry = Nil THEN NoEntry ELSE x.entry
           right == IF found.disabled # Nil THEN found.disabled ELSE x.enabled /\ x.entry = Nil
           prior == IF ~x.visible /\ found.visible = Nil THEN FALSE ELSE found.visible
           e     == [disabled |-> right, visible |-> prior, discovery |-> found.discovery]
<1>1. y = [x EXCEPT !.enabled = FALSE, !.visible = TRUE, !.entry = e]
  BY DEF CapOff
<1>2. y \in Cells /\ y.entry # Nil
  <2>1. Nil \in Maybe /\ FALSE \in BOOLEAN
    BY DEF Maybe
  <2>2. y \in Cells /\ y.entry \in Entries
    BY <2>1, CapOffCell
  <2>. QED  BY <2>2, EntryAssumption
<1>. HIDE DEF y
<1>3. y.visible = TRUE /\ y.entry = e
  BY <1>1 DEF Cells
<1>4. CASE x.entry = Nil
  <2>1. found = [disabled |-> Nil, visible |-> Nil, discovery |-> Nil]
    BY <1>4 DEF NoEntry
  <2>2. /\ right = x.enabled
        /\ prior = (IF ~x.visible THEN FALSE ELSE Nil)
        /\ found.discovery = Nil
    <3>1. found.disabled = Nil /\ found.visible = Nil /\ found.discovery = Nil
      BY <2>1
    <3>. HIDE DEF found
    <3>2. right = x.enabled
      BY <1>4, <3>1 DEF Cells
    <3>3. prior = (IF ~x.visible THEN FALSE ELSE Nil)
      BY <3>1
    <3>. QED  BY <3>1, <3>2, <3>3
  <2>3. WatchMir(x, y, h).base \in {Nil, FlagsOf(x)}
    BY <1>4 DEF WatchMir
  <2>4. FlagsOf(x).enabled = x.enabled /\ FlagsOf(x).visible = x.visible
    BY DEF FlagsOf
  <2>5. (IF prior # Nil THEN prior ELSE TRUE) = x.visible /\ x.enabled \in BOOLEAN
    BY <2>2, NilAssumption DEF Cells
  <2>. HIDE DEF found, right, prior
  <2>6. y.entry.disabled = right /\ y.entry.visible = prior /\ y.entry.discovery = found.discovery
    BY <1>3
  <2>. QED  BY <1>2, <1>3, <2>2, <2>3, <2>4, <2>5, <2>6 DEF Returns, y
<1>5. CASE x.entry # Nil
  <2>1. found = x.entry /\ x.entry.disabled \in BOOLEAN /\ x.entry.discovery = Nil
    BY <1>5 DEF Returns
  <2>2. right = x.entry.disabled
    BY <2>1, NilAssumption
  <2>3. (IF prior # Nil THEN prior ELSE TRUE)
          = IF x.entry.visible # Nil THEN x.entry.visible ELSE x.visible
    BY <2>1, NilAssumption DEF Cells
  <2>4. /\ WatchMir(x, y, h).base \in {Nil, h.base}
        /\ WatchMir(x, y, h).touched = h.touched
    BY <1>2, <1>5 DEF WatchMir, Histories
  <2>. HIDE DEF found, right, prior
  <2>6. y.entry.disabled = right /\ y.entry.visible = prior /\ y.entry.discovery = found.discovery
    BY <1>3
  <2>. QED  BY <1>2, <1>3, <1>5, <2>1, <2>2, <2>3, <2>4, <2>6 DEF Returns, y
<1>. QED  BY <1>4, <1>5

(* A release gives back what the row and its history name.                     *)
LEMMA ReleaseReturns ==
    ASSUME NEW row, NEW x \in Cells, NEW h \in Histories, Returns(x, h), x.entry # Nil
    PROVE  GivesBack(row, x, Release(x, Nil), h)
<1> DEFINE y == Release(x, Nil)
<1>1. SUFFICES ASSUME h.base # Nil, ~h.touched PROVE FlagsOf(y) = h.base
  BY DEF GivesBack
<1>2. h.base \in Flags
  BY <1>1 DEF Histories
<1>3. /\ x.entry.discovery = Nil /\ x.entry.disabled \in BOOLEAN
      /\ x.entry.disabled = h.base.enabled
      /\ (IF x.entry.visible # Nil THEN x.entry.visible ELSE x.visible) = h.base.visible
  BY <1>1 DEF Returns
<1>4. x.entry.disabled # Nil
  BY <1>3, NilAssumption
<1>5. y = [x EXCEPT !.enabled = x.entry.disabled, !.entry = Nil,
             !.visible = IF x.entry.visible # Nil THEN x.entry.visible ELSE x.visible]
  BY <1>3, <1>4 DEF Release
<1>6. y.enabled = h.base.enabled /\ y.visible = h.base.visible
  BY <1>3, <1>5 DEF Cells
<1>. HIDE DEF y
<1>. QED  BY <1>2, <1>6 DEF FlagsOf, Flags

(* One pass keeps the promise, or fulfils it.                                  *)
LEMMA OnePassReturns ==
    ASSUME NEW row \in Rows, NEW x \in Cells, NEW h \in Histories, NEW policy \in BOOLEAN,
           Returns(x, h), NEW y, y = OnePass(row, x, policy, FALSE, Nil)
    PROVE  Returns(y, WatchMir(x, y, h)) /\ GivesBack(row, x, y, h)
<1> DEFINE z == IF policy THEN PolicyOff(row, x, FALSE) ELSE x
<1>1. y = ReconcileCell(row, z, FALSE, Nil)
  BY DEF OnePass
<1>2. z \in Cells /\ Returns(z, WatchMir(x, z, h)) /\ (x.entry # Nil => z.entry # Nil)
  <2>1. CASE policy
    BY <2>1, PolicyOffCell, PolicyOffReturns
  <2>2. CASE ~policy
    BY <2>2, KeptReturns
  <2>. QED  BY <2>1, <2>2
<1>3. z # x => Retained(row)
  BY DEF PolicyOff
<1>4. Retained(row) => ~Admitted(row) /\ \A n : ~Capped(row, n)
  BY DEF Retained, Admitted, Limited, Withheld, Capped, Rows
<1>. HIDE DEF z
<1>5. CASE Capped(row, z.level)
  <2>1. y = CapOff(x, FALSE, Nil)
    BY <1>1, <1>3, <1>4, <1>5 DEF ReconcileCell
  <2>2. Returns(y, WatchMir(x, y, h)) /\ y.entry # Nil
    BY <2>1, CapOffReturns
  <2>. QED  BY <2>2 DEF GivesBack
<1>6. CASE ~Capped(row, z.level) /\ Admitted(row) /\ z.entry # Nil
  <2>1. z = x
    BY <1>3, <1>4, <1>6
  <2>2. y = Release(x, Nil)
    BY <1>1, <1>6, <2>1 DEF ReconcileCell
  <2>3. Nil \in Maybe
    BY DEF Maybe
  <2>4. y.entry = Nil
    BY <1>6, <2>1, <2>2, <2>3, ReleaseCell
  <2>5. GivesBack(row, x, y, h)
    BY <1>6, <2>1, <2>2, ReleaseReturns
  <2>. QED  BY <2>4, <2>5 DEF Returns
<1>7. CASE ~Capped(row, z.level) /\ ~(Admitted(row) /\ z.entry # Nil)
  <2>1. y = IF Admitted(row) \/ Retained(row) THEN z ELSE [z EXCEPT !.entry = Nil]
    BY <1>1, <1>7 DEF ReconcileCell, Bound
  <2>2. CASE y = z
    BY <1>2, <1>7, <2>2 DEF GivesBack
  <2>3. CASE y = [z EXCEPT !.entry = Nil] /\ ~Admitted(row) /\ ~Retained(row)
    <3>1. y.entry = Nil
      BY <1>2, <2>3 DEF Cells
    <3>. QED  BY <2>3, <3>1 DEF Returns, GivesBack
  <2>. QED  BY <2>1, <2>2, <2>3
<1>. QED  BY <1>5, <1>6, <1>7

(* A step of MIR keeps every promise, and fulfils those it closes.             *)
LEMMA ReturnsMir ==
    ASSUME IInv, AllReturn, config.discovery = "absent", HMir
    PROVE  /\ \A f \in Forces, t \in Techs : Returns(cell'[f][t], hist'[f][t])
           /\ \A f \in alive, t \in Techs : f \notin Meeting =>
                GivesBack(config.rows[t], cell[f][t], cell'[f][t], hist[f][t])
<1>0. /\ CellTypeOK /\ HistTypeOK /\ OldRightsProven /\ MirNext
      /\ cell \in [Forces -> [Techs -> Cells]] /\ alive \subseteq Forces
  BY DEF IInv, CellTypeOK, HMir
<1>. SUFFICES ASSUME NEW f \in Forces, NEW t \in Techs
              PROVE  /\ Returns(cell'[f][t], hist'[f][t])
                     /\ f \in alive /\ f \notin Meeting =>
                          GivesBack(config.rows[t], cell[f][t], cell'[f][t], hist[f][t])
  BY <1>0
<1> DEFINE row == config.rows[t]
           x   == Opening(f, t)
           h   == hist[f][t]
           y   == cell'[f][t]
<1>1. hist'[f][t] = WatchMir(x, y, h)
  BY DEF HMir
<1>2. x \in Cells /\ h \in Histories /\ row \in Rows
  BY <1>0, OpeningCell, ConfigsAssumption DEF HistTypeOK, CellTypeOK
<1>3. Returns(x, h)
  <2>1. x.entry = Nil \/ x = cell[f][t]
    BY <1>0, OpeningCell DEF Opening
  <2>. QED  BY <2>1 DEF AllReturn, Returns
<1>4. f \notin Meeting => x = cell[f][t]
  BY DEF Opening
<1>5. Handled(f, t)
  BY <1>0, MirHandles
<1>6. y \in Cells
  BY <1>0, MirStep DEF MirEffect, LedgerEffect
<1>7. CASE f \in alive /\ Reconciles(f, t)
  <2>1. Observation(Head(events).kind) = Nil
    BY DEF Observation
  <2>2. old[f][t] = Nil
    BY DEF AllReturn
  <2>3. PICK policy \in BOOLEAN, new \in BOOLEAN, z \in Cells :
          /\ \/ z = x /\ ~new
             \/ z = ImportCell(f, t, cell[f][t]) /\ f \notin Meeting
          /\ new => Importable(f, t, cell[f][t])
          /\ y = OnePass(row, z, policy, new, Nil)
    BY <1>7, <2>1 DEF Reconciles
  <2>4. ~Importable(f, t, cell[f][t])
    BY <2>2 DEF Importable
  <2>5. new = FALSE /\ z = x
    BY <1>4, <2>3, <2>4 DEF ImportCell
  <2>. HIDE DEF x, y, h, row
  <2>6. y = OnePass(row, x, policy, FALSE, Nil)
    BY <2>3, <2>5
  <2>7. Returns(y, WatchMir(x, y, h)) /\ GivesBack(row, x, y, h)
    BY <1>2, <1>3, <2>6, OnePassReturns
  <2>8. Returns(cell'[f][t], hist'[f][t])
    BY <1>1, <2>7 DEF y
  <2>. QED  BY <1>4, <2>7, <2>8 DEF x, y, h, row
<1>8. CASE (y = cell[f][t] /\ f \notin Meeting) \/ (y = [cell[f][t] EXCEPT !.entry = Nil] /\ f \notin alive)
  <2>1. y = x \/ (y.entry = Nil /\ f \notin alive)
    BY <1>0, <1>4, <1>8 DEF Cells
  <2>. HIDE DEF x, y, h, row
  <2>2. Returns(y, WatchMir(x, y, h))
    BY <1>2, <1>3, <1>6, <2>1, KeptReturns
  <2>3. f \in alive => GivesBack(row, x, y, h)
    BY <2>1 DEF GivesBack
  <2>4. Returns(cell'[f][t], hist'[f][t])
    BY <1>1, <2>2 DEF y
  <2>. QED  BY <1>4, <2>3, <2>4 DEF x, y, h, row
<1>. QED  BY <1>5, <1>7, <1>8 DEF Handled

(* The World writes no ledger row, and a written flag touches the history.     *)
LEMMA ReturnsWorld ==
    ASSUME IInv, AllReturn, HWorld
    PROVE  \A f \in Forces, t \in Techs : Returns(cell'[f][t], hist'[f][t])
<1>1. /\ CellTypeOK /\ HistTypeOK /\ hist' = Watched(WatchWorld)
      /\ cell \in [Forces -> [Techs -> Cells]] /\ cell' \in [Forces -> [Techs -> Cells]]
      /\ \A f \in Forces, t \in Techs : cell'[f][t].entry = cell[f][t].entry
  BY WorldStep DEF IInv, HWorld, WorldEffect, CellTypeOK
<1>2. ASSUME NEW x \in Cells, NEW y \in Cells, NEW h \in Histories,
             Returns(x, h), y.entry = x.entry
      PROVE  Returns(y, WatchWorld(x, y, h))
  <2> DEFINE g == WatchWorld(x, y, h)
  <2>1. g.base = h.base /\ (g.touched <=> h.touched \/ FlagsOf(x) # FlagsOf(y))
    BY DEF WatchWorld, Histories
  <2>2. FlagsOf(x) = FlagsOf(y) => x.visible = y.visible
    <3>1. FlagsOf(x).visible = x.visible /\ FlagsOf(y).visible = y.visible
      BY DEF FlagsOf
    <3>. QED  BY <3>1
  <2>. HIDE DEF g
  <2>3. Returns(y, g)
    BY <1>2, <2>1, <2>2 DEF Returns
  <2>. QED  BY <2>3 DEF g
<1>. SUFFICES ASSUME NEW f \in Forces, NEW t \in Techs
              PROVE  Returns(cell'[f][t], hist'[f][t])
  OBVIOUS
<1>3. hist'[f][t] = WatchWorld(cell[f][t], cell'[f][t], hist[f][t])
  BY <1>1 DEF Watched
<1>4. Returns(cell[f][t], hist[f][t])
  BY DEF AllReturn
<1>5. cell[f][t] \in Cells /\ cell'[f][t] \in Cells /\ hist[f][t] \in Histories
  BY <1>1 DEF HistTypeOK
<1>. QED  BY <1>1, <1>2, <1>3, <1>4, <1>5

(* The start of a force touches all of its rows and no other.                  *)
LEMMA ReturnsBoundary ==
    ASSUME IInv, AllReturn, NEW f \in Forces, HBoundary(f)
    PROVE  \A g \in Forces, t \in Techs : Returns(cell'[g][t], hist'[g][t])
<1>1. /\ CellTypeOK /\ HistTypeOK /\ cell \in [Forces -> [Techs -> Cells]]
      /\ \A g \in Forces, t \in Techs : cell'[g][t].entry = cell[g][t].entry
      /\ cell' = [cell EXCEPT ![f] = NativeDefault(f)]
  BY BoundaryStep, Zenon DEF IInv, HBoundary, CellTypeOK, Boundary, ResetForce, CreateForce
<1>2. hist' = [hist EXCEPT ![f] = [t \in Techs |->
                 [hist[f][t] EXCEPT !.wrote = FALSE, !.touched = TRUE]]]
  BY Zenon DEF HBoundary
<1>. SUFFICES ASSUME NEW g \in Forces, NEW t \in Techs
              PROVE  Returns(cell'[g][t], hist'[g][t])
  OBVIOUS
<1>3. Returns(cell[g][t], hist[g][t])
  BY DEF AllReturn
<1>4. CASE g = f
  <2>1. hist[f][t] \in Histories /\ hist'[f][t] = [hist[f][t] EXCEPT !.wrote = FALSE, !.touched = TRUE]
    BY <1>1, <1>2, Zenon DEF HistTypeOK
  <2>2. hist'[f][t].touched
    BY <2>1 DEF Histories
  <2>. QED  BY <1>1, <1>3, <1>4, <2>2 DEF Returns
<1>5. CASE g # f
  <2>1. cell'[g] = cell[g] /\ hist'[g] = hist[g]
    BY <1>1, <1>2, <1>5, Zenon DEF HistTypeOK
  <2>. QED  BY <1>3, <2>1
<1>. QED  BY <1>4, <1>5

(* In a new game without Discovery Tree every row keeps its promise.           *)
LEMMA ReturnsInvariant ==
    ASSUME ~OldGames, \A c \in Configs : c.discovery = "absent"
    PROVE  /\ HInit => AllReturn
           /\ IInv /\ AllReturn /\ [HNext]_hvars => AllReturn'
<1>1. ASSUME HInit PROVE AllReturn
  <2>1. \A f \in Forces, t \in Techs : old[f][t] = Nil /\ cell[f][t].entry = Nil
    BY <1>1 DEF HInit, Init
  <2>. QED  BY <2>1 DEF AllReturn, Returns
<1>2. ASSUME IInv, AllReturn, [HNext]_hvars PROVE AllReturn'
  <2>1. config.discovery = "absent" /\ CellTypeOK /\ OldRightsProven
    BY <1>2 DEF IInv, CellTypeOK
  <2>2. \A f \in Forces, t \in Techs : old[f][t] = Nil
    BY <1>2 DEF AllReturn
  <2>3. CASE UNCHANGED hvars
    <3>1. UNCHANGED <<cell, old, hist>>
      BY <2>3 DEF hvars, vars
    <3>. QED  BY <1>2, <3>1 DEF AllReturn
  <2>4. CASE HMir
    <3>1. old' = old \/ old' = [f \in Forces |-> [t \in Techs |-> Nil]]
      BY <2>1, <2>4, MirStep DEF HMir, MirEffect
    <3>. QED  BY <1>2, <2>1, <2>2, <2>4, <3>1, ReturnsMir DEF AllReturn
  <2>5. CASE HWorld
    <3>1. old' = old
      BY <2>1, <2>5, WorldStep DEF HWorld, WorldEffect
    <3>. QED  BY <1>2, <2>2, <2>5, <3>1, ReturnsWorld DEF AllReturn
  <2>6. ASSUME NEW f \in Forces, HBoundary(f) PROVE AllReturn'
    <3>1. old' = old
      BY <2>1, <2>6, BoundaryStep, Zenon DEF HBoundary
    <3>. QED  BY <1>2, <2>2, <2>6, <3>1, ReturnsBoundary DEF AllReturn
  <2>. QED  BY <1>2, <2>3, <2>4, <2>5, <2>6 DEF HNext
<1>. QED  BY <1>1, <1>2

(* Whatever the forces, technologies, configurations and other mods, MIR's     *)
(* ledger rows and the native cells they govern keep their types.              *)
THEOREM LedgerTypeCorrect == HSpec => [](CellTypeOK /\ HistTypeOK)
<1>1. IInv => CellTypeOK /\ HistTypeOK
  BY DEF IInv
<1>. QED  BY <1>1, InvInit, InvNext, PTL DEF HSpec

(* No history of play, resets, merges, imports, Discovery Tree and other mods  *)
(* leaves MIR a restoration right for a technology it did not turn off itself  *)
(* (caps.lua M.reconcile, lifecycle.lua merge_legacy_rows).                    *)
THEOREM RightsAreProven == HSpec => []RightsProven
<1>1. IInv => RightsProven
  BY DEF IInv, RightsKnown, RightsProven, Right
<1>. QED  BY <1>1, InvInit, InvNext, PTL DEF HSpec

(* A step of MIR that turns a technology on had turned it off, and happens     *)
(* without Discovery Tree.                                                     *)
LEMMA TurnsOnOwn ==
    IInv /\ HMir => \A f \in alive, t \in Techs :
                      TurnsOn(f, t) => hist[f][t].wrote /\ config.discovery = "absent"
<1>. SUFFICES ASSUME IInv, HMir, NEW f \in alive, NEW t \in Techs, TurnsOn(f, t)
              PROVE  hist[f][t].wrote /\ config.discovery = "absent"
  OBVIOUS
<1>1. MirEffect /\ f \in Forces
  BY MirStep DEF IInv, HMir, CellTypeOK
<1>2. /\ (Right(cell[f][t]) /\ f \notin Meeting) \/ hist[f][t].wrote
      /\ config.discovery = "absent"
  BY <1>1 DEF MirEffect, LedgerEffect
<1>3. CASE Right(cell[f][t]) /\ f \notin Meeting
  <2>1. f \notin unmet
    BY <1>3 DEF IInv, UnmetNext
  <2>. QED  BY <1>1, <1>2, <1>3, <2>1 DEF IInv, RightsKnown
<1>. QED  BY <1>2, <1>3

(* Whatever caps, configurations, imports and other mods do, MIR turns a       *)
(* technology on only after it turned it off itself since the force last       *)
(* started over (caps.lua M.reconcile's release).                              *)
THEOREM OnlyOwnAreRestored == HSpec => OnlyOwnRestored
<1>1. IInv /\ [HNext]_hvars =>
        [HMir => \A f \in alive, t \in Techs : TurnsOn(f, t) => hist[f][t].wrote]_hvars
  BY TurnsOnOwn
<1>. QED  BY <1>1, InvInit, InvNext, PTL DEF HSpec, OnlyOwnRestored

(* While Discovery Tree is present no handler of MIR turns any technology on.  *)
THEOREM HiddenStayHidden == HSpec => HiddenStaysHidden
<1>1. IInv /\ [HNext]_hvars =>
        [HMir /\ config.discovery # "absent" =>
           \A f \in alive, t \in Techs : ~TurnsOn(f, t)]_hvars
  BY TurnsOnOwn
<1>. QED  BY <1>1, InvInit, InvNext, PTL DEF HSpec, HiddenStaysHidden

(* Whatever the forces, technologies, caps and configurations, once every      *)
(* event is handled the ledger lists exactly what is held above its cap, and   *)
(* policy-disabled rows: no cap goes unnoticed and no row outlives its cap     *)
(* (lifecycle.lua reconcile_force, discard_unbound_ownership).                 *)
THEOREM LedgerIsExact == HSpec => []LedgerMatchesCaps
<1>1. HInit => IInv /\ LedgerFollows
  BY InvInit, FollowsInvariant
<1>2. (IInv /\ LedgerFollows) /\ [HNext]_hvars => (IInv /\ LedgerFollows)'
  BY InvNext, FollowsInvariant
<1>3. IInv /\ LedgerFollows => LedgerMatchesCaps
  BY QuietMatches DEF LedgerMatchesCaps, Matching
<1>. QED  BY <1>1, <1>2, <1>3, PTL DEF HSpec

(* In a new game without Discovery Tree, whatever caps, configurations and     *)
(* other mods do, closing a ledger row whose technology is still admitted and  *)
(* whose flags nobody else wrote gives both flags back as MIR found them       *)
(* (caps.lua M.reconcile).                                                     *)
THEOREM BaselineIsReturned ==
    ASSUME ~OldGames, \A c \in Configs : c.discovery = "absent"
    PROVE  HSpec => BaselineReturned
<1>1. HInit => IInv /\ AllReturn
  BY InvInit, ReturnsInvariant
<1>2. (IInv /\ AllReturn) /\ [HNext]_hvars => (IInv /\ AllReturn)'
  BY InvNext, ReturnsInvariant
<1>3. (IInv /\ AllReturn) /\ [HNext]_hvars =>
        [HMir => \A f \in alive, t \in Techs :
           (/\ cell[f][t].entry # Nil /\ cell'[f][t].entry = Nil
            /\ hist[f][t].base # Nil /\ ~hist[f][t].touched
            /\ Admitted(config.rows[t]) \/ Retained(config.rows[t])
            /\ f \notin Meeting)
              => FlagsOf(cell'[f][t]) = hist[f][t].base]_hvars
  <2>1. IInv => config.discovery = "absent"
    BY DEF IInv, CellTypeOK
  <2>. QED  BY <2>1, ReturnsMir DEF GivesBack
<1>. QED  BY <1>1, <1>2, <1>3, PTL DEF HSpec, BaselineReturned
-----------------------------------------------------------------------------
(* What flattening a sequence of sequences of X yields.                        *)
LEMMA Flattened ==
    ASSUME NEW X, NEW n \in Nat, NEW parts \in [1 .. n -> Seq(X)]
    PROVE  FlattenSeq(parts) \in Seq(X)
<1> DEFINE whole == CHOOSE f : f = [i \in 1 .. n |-> IF i = 1 THEN parts[i] ELSE f[i - 1] \o parts[i]]
           S == {m \in Nat : \E f : f = [i \in 1 .. m |->
                               IF i = 1 THEN parts[i] ELSE f[i - 1] \o parts[i]]}
<1>1. Len(parts) = n
  OBVIOUS
<1>2. n \in S
  <2>1. 0 \in S
    <3> DEFINE f == [i \in 1 .. 0 |-> {}]
    <3>1. f = [i \in 1 .. 0 |-> IF i = 1 THEN parts[i] ELSE f[i - 1] \o parts[i]]
      OBVIOUS
    <3>. QED  BY <3>1
  <2>2. ASSUME NEW m \in Nat, m \in S PROVE m + 1 \in S
    <3>1. PICK f : f = [i \in 1 .. m |-> IF i = 1 THEN parts[i] ELSE f[i - 1] \o parts[i]]
      BY <2>2
    <3> DEFINE g == [i \in 1 .. m + 1 |->
                       IF i <= m THEN f[i]
                       ELSE IF i = 1 THEN parts[i] ELSE f[m] \o parts[i]]
    <3>2. \A i \in 1 .. m : f[i] = IF i = 1 THEN parts[i] ELSE f[i - 1] \o parts[i]
      BY <3>1
    <3>3. ASSUME NEW i \in 1 .. m + 1
          PROVE  g[i] = IF i = 1 THEN parts[i] ELSE g[i - 1] \o parts[i]
      <4>1. CASE i <= m
        BY <3>2, <4>1
      <4>2. CASE i = m + 1 /\ i # 1
        <5>1. (m + 1) - 1 = m /\ m \in 1 .. m + 1 /\ m + 1 \in 1 .. m + 1 /\ ~(m + 1 <= m)
          BY <4>2
        <5>2. g[m] = f[m]
          BY <5>1
        <5>3. g[m + 1] = f[m] \o parts[m + 1]
          BY <4>2, <5>1, Zenon
        <5>. QED  BY <4>2, <5>1, <5>2, <5>3
      <4>3. CASE i = 1 /\ m = 0
        BY <4>3
      <4>. QED  BY <4>1, <4>2, <4>3
    <3>4. g = [i \in 1 .. m + 1 |-> IF i = 1 THEN parts[i] ELSE g[i - 1] \o parts[i]]
      BY <3>3
    <3>. HIDE DEF g
    <3>5. \E h : h = [i \in 1 .. m + 1 |-> IF i = 1 THEN parts[i] ELSE h[i - 1] \o parts[i]]
      BY <3>4
    <3>6. m + 1 \in Nat
      OBVIOUS
    <3>. QED  BY <3>5, <3>6, Zenon
  <2>. HIDE DEF S
  <2>. QED  BY <2>1, <2>2, NatSetInduction
<1>3. whole = [i \in 1 .. n |-> IF i = 1 THEN parts[i] ELSE whole[i - 1] \o parts[i]]
  BY <1>2, Zenon
<1>. HIDE DEF whole, S
<1>4. \A i \in 1 .. n : whole[i] = IF i = 1 THEN parts[i] ELSE whole[i - 1] \o parts[i]
  BY <1>3
<1> DEFINE T == {m \in Nat : m \in 1 .. n => whole[m] \in Seq(X)}
<1>5. n \in T
  <2>1. 0 \in T
    OBVIOUS
  <2>2. ASSUME NEW m \in Nat, m \in T PROVE m + 1 \in T
    <3>1. SUFFICES ASSUME m + 1 \in 1 .. n PROVE whole[m + 1] \in Seq(X)
      OBVIOUS
    <3>2. parts[m + 1] \in Seq(X)
      BY <3>1
    <3>3. CASE m = 0
      BY <1>4, <3>1, <3>2, <3>3
    <3>4. CASE m # 0
      <4>1. m \in 1 .. n /\ (m + 1) - 1 = m /\ m + 1 # 1
        BY <3>1, <3>4
      <4>2. whole[m] \in Seq(X)
        BY <2>2, <4>1
      <4>3. whole[m + 1] = whole[(m + 1) - 1] \o parts[m + 1]
        BY <1>4, <3>1, <4>1, Zenon
      <4>. QED  BY <3>2, <4>1, <4>2, <4>3
    <3>. QED  BY <3>3, <3>4
  <2>. HIDE DEF T
  <2>. QED  BY <2>1, <2>2, NatSetInduction
<1>6. CASE n = 0
  <2>1. parts = <<>>
    BY <1>6
  <2>. QED  BY <1>1, <1>6, <2>1 DEF FlattenSeq
<1>7. CASE n # 0
  <2>1. FlattenSeq(parts) = whole[n]
    BY <1>1, <1>7, Zenon DEF FlattenSeq, whole
  <2>2. n \in 1 .. n
    BY <1>7
  <2>. QED  BY <1>5, <2>1, <2>2
<1>. QED  BY <1>6, <1>7

(* One sequence flattens to itself.                                            *)
LEMMA FlattenedOne ==
    ASSUME NEW X, NEW n, n = 1, NEW parts \in [1 .. n -> Seq(X)]
    PROVE  FlattenSeq(parts) = parts[1]
<1> DEFINE whole == CHOOSE f : f = [i \in 1 .. n |-> IF i = 1 THEN parts[i] ELSE f[i - 1] \o parts[i]]
<1>1. Len(parts) = n
  OBVIOUS
<1>2. \E f : f = [i \in 1 .. n |-> IF i = 1 THEN parts[i] ELSE f[i - 1] \o parts[i]]
  <2> DEFINE f == [i \in 1 .. n |-> parts[i]]
  <2>1. f = [i \in 1 .. n |-> IF i = 1 THEN parts[i] ELSE f[i - 1] \o parts[i]]
    OBVIOUS
  <2>. HIDE DEF f
  <2>. QED  BY <2>1
<1>3. whole = [i \in 1 .. n |-> IF i = 1 THEN parts[i] ELSE whole[i - 1] \o parts[i]]
  BY <1>2, Zenon
<1>4. n # 0
  OBVIOUS
<1>5. FlattenSeq(parts) = whole[n]
  BY <1>1, <1>4, Zenon DEF FlattenSeq
<1>. HIDE DEF whole
<1>. QED  BY <1>3, <1>5

(* A finite set listed.                                                        *)
LEMMA Listed ==
    ASSUME NEW S, IsFiniteSet(S)
    PROVE  Cardinality(S) \in Nat /\ SetToSeq(S) \in [1 .. Cardinality(S) -> S]
<1>1. Cardinality(S) \in Nat /\ ExistsBijection(1 .. Cardinality(S), S)
  BY FS_CardinalityType
<1>2. \E f \in [1 .. Cardinality(S) -> S] : IsInjective(f)
  BY <1>1, Zenon DEF ExistsBijection, Bijection, Injection
<1>3. SetToSeq(S) \in [1 .. Cardinality(S) -> S]
  BY <1>2, Zenon DEF SetToSeq
<1>. QED  BY <1>1, <1>3

(* The first entry of a queue one longer.                                      *)
LEMMA HeadOfAppend ==
    ASSUME NEW X, NEW q \in Seq(X), NEW x \in X
    PROVE  /\ Append(q, x) \in Seq(X) /\ Append(q, x) # <<>>
           /\ Len(Append(q, x)) = Len(q) + 1
           /\ Head(Append(q, x)) = IF q = <<>> THEN x ELSE Head(q)
<1>1. /\ Append(q, x) \in Seq(X) /\ Len(Append(q, x)) = Len(q) + 1
      /\ \A i \in 1 .. Len(q) : Append(q, x)[i] = q[i]
      /\ Append(q, x)[Len(q) + 1] = x
  OBVIOUS
<1>2. Len(q) \in Nat /\ (q = <<>> <=> Len(q) = 0)
  OBVIOUS
<1>3. Append(q, x) # <<>> /\ Head(Append(q, x)) = Append(q, x)[1]
  BY <1>1, <1>2
<1>4. q # <<>> => Head(q) = q[1] /\ 1 \in 1 .. Len(q)
  BY <1>2
<1>. QED  BY <1>1, <1>2, <1>3, <1>4

(* What filter_queue has kept of q after each of its first n entries.          *)
IsFilter(kept, q, n, unavailable, S, cells) ==
    kept = [m \in 0 .. n |->
             IF m = 0 THEN <<>> ELSE Filtered(kept[m - 1], q[m], unavailable, S, cells)]

(* The recursive function of filter_queue exists.                              *)
LEMMA FilterExists ==
    ASSUME NEW q, NEW n \in Nat, NEW unavailable, NEW S, NEW cells
    PROVE  \E kept : IsFilter(kept, q, n, unavailable, S, cells)
<1>. USE DEF IsFilter
<1> DEFINE T == {k \in Nat : \E f : f = [m \in 0 .. k |->
                   IF m = 0 THEN <<>> ELSE Filtered(f[m - 1], q[m], unavailable, S, cells)]}
<1>1. 0 \in T
  <2> DEFINE f == [m \in 0 .. 0 |-> <<>>]
  <2>1. f = [m \in 0 .. 0 |->
               IF m = 0 THEN <<>> ELSE Filtered(f[m - 1], q[m], unavailable, S, cells)]
    OBVIOUS
  <2>. QED  BY <2>1
<1>2. ASSUME NEW k \in Nat, k \in T PROVE k + 1 \in T
  <2>1. PICK f : f = [m \in 0 .. k |->
                   IF m = 0 THEN <<>> ELSE Filtered(f[m - 1], q[m], unavailable, S, cells)]
    BY <1>2
  <2> DEFINE g == [m \in 0 .. k + 1 |-> IF m <= k THEN f[m]
                                        ELSE Filtered(f[k], q[m], unavailable, S, cells)]
  <2>2. \A m \in 0 .. k :
          f[m] = IF m = 0 THEN <<>> ELSE Filtered(f[m - 1], q[m], unavailable, S, cells)
    BY <2>1
  <2>3. \A m \in 0 .. k + 1 :
          g[m] = IF m = 0 THEN <<>> ELSE Filtered(g[m - 1], q[m], unavailable, S, cells)
    BY <2>2
  <2>4. g = [m \in 0 .. k + 1 |->
               IF m = 0 THEN <<>> ELSE Filtered(g[m - 1], q[m], unavailable, S, cells)]
    BY <2>3
  <2>. HIDE DEF g
  <2>5. \E h : h = [m \in 0 .. k + 1 |->
                 IF m = 0 THEN <<>> ELSE Filtered(h[m - 1], q[m], unavailable, S, cells)]
    BY <2>4
  <2>6. k + 1 \in Nat
    OBVIOUS
  <2>. QED  BY <2>5, <2>6, Zenon
<1>. HIDE DEF T
<1>3. n \in T
  BY <1>1, <1>2, NatSetInduction
<1>. QED  BY <1>3 DEF T

(* So filter_queue computes it.                                                *)
LEMMA FilterFunction ==
    ASSUME NEW q, Len(q) \in Nat, NEW unavailable, NEW S, NEW cells
    PROVE  LET kept == CHOOSE f : IsFilter(f, q, Len(q), unavailable, S, cells)
           IN  IsFilter(kept, q, Len(q), unavailable, S, cells)
<1>1. \E f : IsFilter(f, q, Len(q), unavailable, S, cells)
  BY FilterExists
<1>. QED  BY <1>1, Zenon

(* What filter_queue keeps: a shorter queue whose first entry may be           *)
(* researched, and the first entry of the old queue exactly if that may be.    *)
LEMMA FilterKeeps ==
    ASSUME NEW q \in Seq(Techs), NEW unavailable, NEW S, NEW cells,
           NEW r, r = FilterQueue(q, unavailable, S, cells)
    PROVE  /\ r \in Seq(Techs) /\ Len(r) <= Len(q)
           /\ r # <<>> => ~Disallowed(<<>>, Head(r), unavailable, S, cells)
           /\ q # <<>> /\ ~Disallowed(<<>>, Head(q), unavailable, S, cells)
                => r # <<>> /\ Head(r) = Head(q)
           /\ q # <<>> /\ Disallowed(<<>>, Head(q), unavailable, S, cells) => Len(r) < Len(q)
<1> DEFINE kept == CHOOSE f : f = [m \in 0 .. Len(q) |->
                     IF m = 0 THEN <<>> ELSE Filtered(f[m - 1], q[m], unavailable, S, cells)]
           Admits(t) == ~Disallowed(<<>>, t, unavailable, S, cells)
           Good(m) == /\ kept[m] \in Seq(Techs) /\ Len(kept[m]) <= m
                      /\ kept[m] # <<>> => Admits(Head(kept[m]))
                      /\ m # 0 /\ Admits(q[1]) => kept[m] # <<>> /\ Head(kept[m]) = q[1]
                      /\ m # 0 /\ ~Admits(q[1]) => Len(kept[m]) <= m - 1
           T == {m \in Nat : m <= Len(q) => Good(m)}
<1>1. r = kept[Len(q)]
  BY Zenon DEF FilterQueue
<1>2. Len(q) \in Nat
  OBVIOUS
<1>3. kept = [m \in 0 .. Len(q) |->
                IF m = 0 THEN <<>> ELSE Filtered(kept[m - 1], q[m], unavailable, S, cells)]
  <2>1. LET k == CHOOSE f : IsFilter(f, q, Len(q), unavailable, S, cells)
        IN  IsFilter(k, q, Len(q), unavailable, S, cells)
    BY <1>2, FilterFunction
  <2>. QED  BY <2>1, Zenon DEF IsFilter
<1>. HIDE DEF kept
<1>4. kept[0] = <<>>
  BY <1>2, <1>3
<1>5. ASSUME NEW m \in Nat, m + 1 <= Len(q)
      PROVE  kept[m + 1] = IF Disallowed(kept[m], q[m + 1], unavailable, S, cells) THEN kept[m]
                           ELSE Append(kept[m], q[m + 1])
  <2>1. m + 1 \in 0 .. Len(q) /\ m + 1 # 0 /\ (m + 1) - 1 = m
    BY <1>2, <1>5
  <2>. QED  BY <1>3, <2>1 DEF Filtered
<1>6. 0 \in T
  <2>1. <<>> \in Seq(Techs) /\ Len(<<>>) <= 0
    OBVIOUS
  <2>. HIDE DEF Admits
  <2>2. Good(0)
    BY <1>4, <2>1
  <2>. QED  BY <2>2
<1>7. ASSUME NEW m \in Nat, m \in T PROVE m + 1 \in T
  <2>1. SUFFICES ASSUME m + 1 <= Len(q) PROVE Good(m + 1)
    OBVIOUS
  <2>2. Good(m) /\ q[m + 1] \in Techs
    BY <1>2, <1>7, <2>1
  <2>3. CASE Disallowed(kept[m], q[m + 1], unavailable, S, cells)
    <3>1. kept[m + 1] = kept[m]
      BY <1>5, <2>1, <2>3
    <3>2. m = 0 => ~Admits(q[1])
      BY <1>4, <2>3
    <3>. HIDE DEF Admits
    <3>3. Len(kept[m]) \in Nat /\ Len(kept[m]) <= m
      BY <2>2
    <3>4. Len(kept[m + 1]) <= m + 1 /\ Len(kept[m + 1]) <= (m + 1) - 1
      BY <3>1, <3>3
    <3>. QED  BY <2>2, <3>1, <3>2, <3>4
  <2>4. CASE ~Disallowed(kept[m], q[m + 1], unavailable, S, cells)
    <3>1. kept[m + 1] = Append(kept[m], q[m + 1])
      BY <1>5, <2>1, <2>4
    <3>2. kept[m] = <<>> => Admits(q[m + 1])
      BY <2>4
    <3>3. /\ kept[m + 1] \in Seq(Techs) /\ kept[m + 1] # <<>>
          /\ Len(kept[m + 1]) = Len(kept[m]) + 1
          /\ Head(kept[m + 1]) = IF kept[m] = <<>> THEN q[m + 1] ELSE Head(kept[m])
      BY <2>2, <3>1, HeadOfAppend
    <3>4. Len(kept[m]) \in Nat
      BY <2>2
    <3>. HIDE DEF Admits
    <3>5. Len(kept[m + 1]) <= m + 1
      BY <2>2, <3>3, <3>4
    <3>6. Admits(Head(kept[m + 1]))
      BY <2>2, <3>2, <3>3
    <3>7. Admits(q[1]) => Head(kept[m + 1]) = q[1]
      BY <1>4, <2>2, <3>3
    <3>8. ASSUME ~Admits(q[1]) PROVE Len(kept[m + 1]) <= (m + 1) - 1
      <4>1. m # 0
        BY <1>4, <3>2, <3>8
      <4>2. Len(kept[m]) <= m - 1
        BY <2>2, <3>8, <4>1
      <4>. QED  BY <3>3, <3>4, <4>2
    <3>. QED  BY <3>3, <3>5, <3>6, <3>7, <3>8
  <2>. QED  BY <2>3, <2>4
<1>8. Len(q) \in T
  <2>. HIDE DEF T
  <2>. QED  BY <1>2, <1>6, <1>7, NatSetInduction
<1>9. Good(Len(q))
  BY <1>2, <1>8
<1>10. q # <<>> => Len(q) # 0 /\ Head(q) = q[1]
  OBVIOUS
<1>. HIDE DEF T
<1>. QED  BY <1>1, <1>2, <1>9, <1>10

(* What a filter keeps is of any set that has all it admits.                   *)
LEMMA FilterWithin ==
    ASSUME NEW q \in Seq(Techs), NEW unavailable, NEW S, NEW cells, NEW A \in SUBSET Techs,
           \A before \in Seq(Techs), i \in 1 .. Len(q) :
              ~Disallowed(before, q[i], unavailable, S, cells) => q[i] \in A,
           NEW r, r = FilterQueue(q, unavailable, S, cells)
    PROVE  r \in Seq(A)
<1> DEFINE kept == CHOOSE f : f = [m \in 0 .. Len(q) |->
                     IF m = 0 THEN <<>> ELSE Filtered(f[m - 1], q[m], unavailable, S, cells)]
           T == {m \in Nat : m <= Len(q) => kept[m] \in Seq(A)}
<1>1. r = kept[Len(q)]
  BY Zenon DEF FilterQueue
<1>2. Len(q) \in Nat
  OBVIOUS
<1>3. kept = [m \in 0 .. Len(q) |->
                IF m = 0 THEN <<>> ELSE Filtered(kept[m - 1], q[m], unavailable, S, cells)]
  <2>1. LET k == CHOOSE f : IsFilter(f, q, Len(q), unavailable, S, cells)
        IN  IsFilter(k, q, Len(q), unavailable, S, cells)
    BY <1>2, FilterFunction
  <2>. QED  BY <2>1, Zenon DEF IsFilter
<1>. HIDE DEF kept
<1>4. kept[0] = <<>>
  BY <1>2, <1>3
<1>5. 0 \in T
  <2>1. <<>> \in Seq(A)
    OBVIOUS
  <2>2. kept[0] \in Seq(A)
    BY <1>4, <2>1
  <2>. QED  BY <2>2
<1>6. ASSUME NEW m \in Nat, m \in T PROVE m + 1 \in T
  <2>1. SUFFICES ASSUME m + 1 <= Len(q) PROVE kept[m + 1] \in Seq(A)
    OBVIOUS
  <2>2. m + 1 \in 0 .. Len(q) /\ m + 1 # 0 /\ (m + 1) - 1 = m /\ m + 1 \in 1 .. Len(q)
    BY <1>2, <2>1
  <2>3. kept[m + 1] = IF Disallowed(kept[m], q[m + 1], unavailable, S, cells) THEN kept[m]
                      ELSE Append(kept[m], q[m + 1])
    BY <1>3, <2>2 DEF Filtered
  <2>4. kept[m] \in Seq(A) /\ kept[m] \in Seq(Techs)
    <3>1. kept[m] \in Seq(A)
      BY <1>2, <1>6, <2>1
    <3>. QED  BY <3>1
  <2>. QED  BY <2>2, <2>3, <2>4
<1>7. Len(q) \in T
  <2>. HIDE DEF T
  <2>. QED  BY <1>2, <1>5, <1>6, NatSetInduction
<1>. QED  BY <1>1, <1>2, <1>7

-----------------------------------------------------------------------------
(* What a filter does to the queues                                            *)

(* Judged first in line, an entry is judged at the present level.              *)
LEMMA FirstDisallowed ==
    ASSUME CellTypeOK, NEW f \in Forces, NEW t \in Techs, NEW unavailable, NEW S
    PROVE  Disallowed(<<>>, t, unavailable, S, cell[f])
             <=> t \in unavailable \/ (t \in S /\ Capped(config.rows[t], cell[f][t].level))
<1> DEFINE none == {i \in DOMAIN <<>> : <<>>[i] = t}
<1>1. none = {}
  OBVIOUS
<1>2. Cardinality(none) = 0
  BY <1>1, FS_EmptySet
<1>3. cell[f][t].level \in Nat
  BY BoundsAssumption DEF CellTypeOK, Cells, Levels
<1>4. cell[f][t].level + Cardinality(none) = cell[f][t].level
  BY <1>2, <1>3
<1>. HIDE DEF none
<1>. QED  BY <1>4 DEF Disallowed, none

(* An entry above its cap is disallowed wherever in line it is judged.         *)
LEMMA CappedDisallowed ==
    ASSUME CellTypeOK, NEW f \in Forces, NEW t \in Techs, NEW before \in Seq(Techs),
           NEW unavailable, NEW S, t \in S, Capped(config.rows[t], cell[f][t].level)
    PROVE  Disallowed(before, t, unavailable, S, cell[f])
<1> DEFINE line == {i \in DOMAIN before : before[i] = t}
<1>1. Cardinality(line) \in Nat
  <2>1. IsFiniteSet(1 .. Len(before))
    BY FS_Interval
  <2>2. line \subseteq 1 .. Len(before)
    OBVIOUS
  <2>. QED  BY <2>1, <2>2, FS_Subset, FS_CardinalityType
<1>2. cell[f][t].level \in Nat /\ config.rows[t].limit \in Nat
  BY BoundsAssumption, ConfigsAssumption DEF CellTypeOK, Cells, Levels, Rows
<1>. HIDE DEF line
<1>3. Capped(config.rows[t], cell[f][t].level + Cardinality(line))
  BY <1>1, <1>2 DEF Capped, OverLimit
<1>. QED  BY <1>3 DEF Disallowed, line

Open(f) == WithoutUnavailable(queue[f], cell[f])
Kept(f, S) == WithinCaps(Open(f), S, cell[f])
Rest(f, S, lost, policy) == TakenOver(Open(f), Kept(f, S), lost, policy, cell[f])

(* What a filter by the limits of S may keep.                                  *)
Fitting(f, S) == {t \in Techs : t \in S => ~Capped(config.rows[t], cell[f][t].level)}

(* The queue of f without its unavailable entries.                             *)
LEMMA OpenQueue ==
    ASSUME TypeOK, NEW f \in Forces
    PROVE  /\ Open(f) \in Seq(Techs) /\ Len(Open(f)) <= Len(queue[f])
           /\ queue[f] # <<>> /\ ~Unavailable(Head(queue[f]))
                => Open(f) # <<>> /\ Head(Open(f)) = Head(queue[f])
           /\ \/ Current(Open(f)) = Current(queue[f])
              \/ Len(Open(f)) < Len(queue[f])
<1>1. queue[f] \in Seq(Techs) /\ CellTypeOK
  BY DEF TypeOK
<1> DEFINE gone == {t \in Techs : Unavailable(t)}
<1>2. Open(f) = FilterQueue(queue[f], gone, {}, cell[f])
  BY DEF Open, WithoutUnavailable
<1>. HIDE DEF gone
<1>3. /\ Open(f) \in Seq(Techs) /\ Len(Open(f)) <= Len(queue[f])
      /\ queue[f] # <<>> /\ ~Disallowed(<<>>, Head(queue[f]), gone, {}, cell[f])
           => Open(f) # <<>> /\ Head(Open(f)) = Head(queue[f])
      /\ queue[f] # <<>> /\ Disallowed(<<>>, Head(queue[f]), gone, {}, cell[f])
           => Len(Open(f)) < Len(queue[f])
  BY <1>1, <1>2, FilterKeeps
<1>4. queue[f] # <<>> => Head(queue[f]) \in Techs
  BY <1>1
<1>5. queue[f] # <<>> /\ ~Unavailable(Head(queue[f]))
        => ~Disallowed(<<>>, Head(queue[f]), gone, {}, cell[f])
  <2>1. ASSUME NEW t \in Techs
        PROVE  Disallowed(<<>>, t, gone, {}, cell[f]) => t \in gone
    BY <1>1, FirstDisallowed
  <2>. QED  BY <1>4, <2>1 DEF gone
<1>6. queue[f] = <<>> => Open(f) = <<>>
  BY <1>3
<1>. QED  BY <1>3, <1>5, <1>6 DEF Current

(* The queue of f as filter_queue leaves it.                                   *)
LEMMA KeptQueue ==
    ASSUME TypeOK, NEW f \in Forces, NEW S
    PROVE  /\ Kept(f, S) \in Seq(Techs) /\ Len(Kept(f, S)) <= Len(queue[f])
           /\ Kept(f, S) \in Seq(Fitting(f, S))
           /\ Open(f) # <<>> /\ Head(Kept(f, S)) # Head(Open(f)) =>
                Capped(config.rows[Head(Open(f))], cell[f][Head(Open(f))].level)
           /\ Open(f) # <<>> /\ Kept(f, S) = <<>> =>
                Capped(config.rows[Head(Open(f))], cell[f][Head(Open(f))].level)
           /\ Open(f) = <<>> => Kept(f, S) = <<>>
           /\ \/ Current(Kept(f, S)) = Current(queue[f])
              \/ Len(Kept(f, S)) < Len(queue[f])
<1>1. queue[f] \in Seq(Techs) /\ CellTypeOK
  BY DEF TypeOK
<1> DEFINE o == Open(f)
           r == Kept(f, S)
<1>2. o \in Seq(Techs) /\ Len(o) <= Len(queue[f])
  BY OpenQueue
<1>3. r = FilterQueue(o, {}, S, cell[f])
  BY DEF Kept, WithinCaps
<1>. HIDE DEF o, r
<1>4. /\ r \in Seq(Techs) /\ Len(r) <= Len(o)
      /\ r # <<>> => ~Disallowed(<<>>, Head(r), {}, S, cell[f])
      /\ o # <<>> /\ ~Disallowed(<<>>, Head(o), {}, S, cell[f]) => r # <<>> /\ Head(r) = Head(o)
      /\ o # <<>> /\ Disallowed(<<>>, Head(o), {}, S, cell[f]) => Len(r) < Len(o)
  BY <1>2, <1>3, FilterKeeps
<1>5. (r # <<>> => Head(r) \in Techs) /\ (o # <<>> => Head(o) \in Techs)
  BY <1>2, <1>4
<1>. DEFINE Over(t) == Capped(config.rows[t], cell[f][t].level)
<1>6. \A t \in Techs : Disallowed(<<>>, t, {}, S, cell[f]) <=> t \in S /\ Over(t)
  BY <1>1, FirstDisallowed
<1>7. r \in Seq(Fitting(f, S))
  <2>1. Fitting(f, S) \in SUBSET Techs
    BY DEF Fitting
  <2>2. \A before \in Seq(Techs), i \in 1 .. Len(o) :
           ~Disallowed(before, o[i], {}, S, cell[f]) => o[i] \in Fitting(f, S)
    <3>1. \A i \in 1 .. Len(o) : o[i] \in Techs
      BY <1>2
    <3>. QED  BY <1>1, <3>1, CappedDisallowed DEF Fitting
  <2>. QED  BY <1>2, <1>3, <2>1, <2>2, FilterWithin
<1>8. o # <<>> /\ (r = <<>> \/ Head(r) # Head(o))
        => Over(Head(o))
  <2>. HIDE DEF Over
  <2>. QED  BY <1>4, <1>5, <1>6
<1>9. Len(r) <= Len(queue[f])
  BY <1>1, <1>2, <1>4
<1>10. o = <<>> => r = <<>>
  BY <1>4
<1>11. Current(r) = Current(queue[f]) \/ Len(r) < Len(queue[f])
  <2>1. Len(r) \in Nat /\ Len(o) \in Nat /\ Len(queue[f]) \in Nat
    BY <1>1, <1>2, <1>4
  <2>2. Current(o) = Current(queue[f]) \/ Len(o) < Len(queue[f])
    BY OpenQueue DEF o
  <2>3. Current(r) = Current(o) \/ Len(r) < Len(o)
    BY <1>4, <1>10 DEF Current
  <2>. QED  BY <1>2, <1>4, <2>1, <2>2, <2>3
<1>. QED  BY <1>4, <1>7, <1>8, <1>9, <1>10, <1>11 DEF o, r

(* The queue of f as the setter takes it over: its first entry is gone only if *)
(* it was above its cap, or not enabled.                                       *)
LEMMA RestQueue ==
    ASSUME TypeOK, NEW f \in Forces, NEW S, NEW lost, NEW policy,
           NEW r, r = Rest(f, S, lost, policy)
    PROVE  /\ r \in Seq(Techs) /\ Len(r) <= Len(queue[f])
           /\ r # <<>> /\ Head(r) \in S => ~Capped(config.rows[Head(r)], cell[f][Head(r)].level)
           /\ Current(r) = Current(queue[f]) \/ Len(r) < Len(queue[f])
           /\ \A t \in Techs : t = Current(Open(f)) /\ Current(r) # t =>
                \/ Capped(config.rows[t], cell[f][t].level)
                \/ ~cell[f][t].enabled \/ (policy /\ Retained(config.rows[t]))
<1> DEFINE o == Open(f)
           k == Kept(f, S)
           gone == lost \ Firm(o, policy, cell[f])
<1>1. /\ k \in Seq(Techs) /\ Len(k) <= Len(queue[f]) /\ k \in Seq(Fitting(f, S))
      /\ Current(k) = Current(queue[f]) \/ Len(k) < Len(queue[f])
  BY KeptQueue
<1>2. \A t \in Techs : t = Current(o) /\ Current(k) # t =>
          Capped(config.rows[t], cell[f][t].level)
  <2>. SUFFICES ASSUME NEW t \in Techs, t = Current(o), Current(k) # t
                PROVE  Capped(config.rows[t], cell[f][t].level)
    OBVIOUS
  <2>1. o # <<>> /\ Head(o) = t
    BY NilAssumption DEF Current
  <2>2. k = <<>> \/ Head(k) # t
    BY DEF Current
  <2>. QED  BY <2>1, <2>2, KeptQueue
<1>3. r = IF o = k THEN k ELSE FilterQueue(k, gone, {}, cell[f])
  BY DEF Rest, TakenOver
<1>4. CellTypeOK /\ Len(queue[f]) \in Nat /\ Len(k) \in Nat
  BY <1>1 DEF TypeOK
<1>. HIDE DEF o, k, gone
<1>5. r \in Seq(Techs) /\ Len(r) <= Len(k) /\ r \in Seq(Fitting(f, S))
  <2>1. CASE o = k
    BY <1>1, <1>3, <1>4, <2>1
  <2>2. CASE o # k
    <3>1. r = FilterQueue(k, gone, {}, cell[f])
      BY <1>3, <2>2
    <3>2. Fitting(f, S) \in SUBSET Techs
      BY DEF Fitting
    <3>3. \A i \in 1 .. Len(k) : k[i] \in Fitting(f, S)
      BY <1>1
    <3>4. r \in Seq(Fitting(f, S))
      BY <1>1, <3>1, <3>2, <3>3, FilterWithin
    <3>. QED  BY <1>1, <3>1, <3>4, FilterKeeps
  <2>. QED  BY <2>1, <2>2
<1>6. \/ Current(r) = Current(k)
      \/ Len(r) < Len(k) /\ Current(k) \in gone
  <2>1. CASE o = k
    BY <1>3, <2>1
  <2>2. CASE o # k
    <3>1. r = FilterQueue(k, gone, {}, cell[f])
      BY <1>3, <2>2
    <3>2. CASE k = <<>>
      BY <1>4, <1>5, <3>2 DEF Current
    <3>3. CASE k # <<>>
      <4>1. Head(k) \in Techs /\ Current(k) = Head(k)
        BY <1>1, <3>3 DEF Current
      <4>2. Disallowed(<<>>, Head(k), gone, {}, cell[f]) <=> Head(k) \in gone
        BY <1>4, <4>1, FirstDisallowed
      <4>3. CASE Head(k) \in gone
        BY <1>1, <3>1, <3>3, <4>1, <4>2, <4>3, FilterKeeps
      <4>4. CASE Head(k) \notin gone
        <5>1. r # <<>> /\ Head(r) = Head(k)
          BY <1>1, <3>1, <3>3, <4>2, <4>4, FilterKeeps
        <5>. QED  BY <4>1, <5>1 DEF Current
      <4>. QED  BY <4>3, <4>4
    <3>. QED  BY <3>2, <3>3
  <2>. QED  BY <2>1, <2>2
<1>7. r # <<>> /\ Head(r) \in S => ~Capped(config.rows[Head(r)], cell[f][Head(r)].level)
  <2>1. r # <<>> => Head(r) \in Fitting(f, S)
    BY <1>5
  <2>. QED  BY <2>1 DEF Fitting
<1>8. Len(r) <= Len(queue[f]) /\ (Current(r) = Current(queue[f]) \/ Len(r) < Len(queue[f]))
  <2>1. Len(r) \in Nat
    BY <1>5
  <2>. QED  BY <1>1, <1>4, <1>5, <1>6, <2>1
<1>9. ASSUME NEW t \in Techs, t = Current(o), Current(r) # t
      PROVE  \/ Capped(config.rows[t], cell[f][t].level)
             \/ ~cell[f][t].enabled \/ (policy /\ Retained(config.rows[t]))
  <2>1. CASE Current(k) # t
    BY <1>2, <1>9, <2>1
  <2>2. CASE Current(k) = t
    <3>1. t \in gone
      BY <1>6, <1>9, <2>2
    <3>2. t \notin Firm(o, policy, cell[f])
      BY <3>1 DEF gone
    <3>. QED  BY <1>9, <3>2, NilAssumption DEF Firm
  <2>. QED  BY <2>1, <2>2
<1>. QED  BY <1>5, <1>7, <1>8, <1>9 DEF o

(* Events are of the declared kinds.                                           *)
LEMMA RaisedEvents ==
    ASSUME NEW k \in NamedKinds \cup ForceKinds \cup GlobalKinds,
           NEW f \in Forces \cup {Nil}, NEW t \in Techs \cup {Nil}
    PROVE  /\ Event(k, f, t) \in Events
           /\ Raised(k, f, t) \in Seq(Events)
           /\ Subscribed(k) => Raised(k, f, t) = <<Event(k, f, t)>>
<1>1. Event(k, f, t) \in Events
  BY DEF Event, Events
<1>. QED  BY <1>1 DEF Raised

(* A new head is announced, where MIR hears of it.                             *)
LEMMA HeadAnnounced ==
    ASSUME NEW f \in Forces, NEW q \in Seq(Techs), NEW r \in Seq(Techs)
    PROVE  /\ HeadEvents(f, q, r) \in Seq(Events)
           /\ r # <<>> /\ Current(q) # Current(r) /\ Subscribed("started") =>
                \E i \in 1 .. Len(HeadEvents(f, q, r)) :
                  HeadEvents(f, q, r)[i] = Event("started", f, Head(r))
<1> DEFINE a == IF q = <<>> THEN <<>> ELSE Raised("cancelled", f, Current(q))
           b == IF r = <<>> THEN <<>> ELSE Raised("started", f, Current(r))
<1>1. /\ q # <<>> => Current(q) \in Techs
      /\ r # <<>> => Current(r) = Head(r) /\ Head(r) \in Techs
  BY DEF Current
<1>2. "cancelled" \in NamedKinds /\ "started" \in NamedKinds
  BY DEF NamedKinds
<1>3. a \in Seq(Events)
  BY <1>1, <1>2, RaisedEvents
<1>4. b \in Seq(Events) /\ (r # <<>> /\ Subscribed("started") => b = <<Event("started", f, Head(r))>>)
  BY <1>1, <1>2, RaisedEvents
<1>5. HeadEvents(f, q, r) = IF Current(q) = Current(r) THEN <<>> ELSE a \o b
  BY DEF HeadEvents
<1>. HIDE DEF a, b
<1>6. a \o b \in Seq(Events)
  BY <1>3, <1>4
<1>7. ASSUME r # <<>>, Subscribed("started")
      PROVE  /\ Len(a) + 1 \in 1 .. Len(a \o b)
             /\ (a \o b)[Len(a) + 1] = Event("started", f, Head(r))
  <2> DEFINE e == Event("started", f, Head(r))
  <2>. HIDE DEF e
  <2>1. b = <<e>>
    BY <1>4, <1>7 DEF e
  <2>2. Len(b) = 1 /\ b[1] = e /\ Len(a) \in Nat
    BY <1>3, <2>1
  <2>3. Len(a \o b) = Len(a) + 1
    <3>1. Len(a \o b) = Len(a) + Len(b)
      BY <1>3, <1>4, ConcatProperties
    <3>. QED  BY <2>2, <3>1
  <2>4. (a \o b)[Len(a) + 1] = b[1]
    <3>1. \A i \in 1 .. Len(a) + Len(b) :
            (a \o b)[i] = IF i <= Len(a) THEN a[i] ELSE b[i - Len(a)]
      BY <1>3, <1>4, ConcatProperties
    <3>2. /\ Len(a) + 1 \in 1 .. Len(a) + Len(b) /\ ~(Len(a) + 1 <= Len(a))
          /\ (Len(a) + 1) - Len(a) = 1
      BY <2>2
    <3>. QED  BY <3>1, <3>2
  <2>. QED  BY <2>2, <2>3, <2>4 DEF e
<1>. QED  BY <1>5, <1>6, <1>7, SMTT(30)

(* The queues of the forces F after a handler that limits the technologies S:  *)
(* filtered, with the announcements of what was filtered behind the rest.      *)
QueueEffect(F, S, policy) ==
    \E raised \in Seq(Events), drops \in BOOLEAN, lost \in [F -> SUBSET Techs] :
        /\ events' = Tail(events) \o raised
        /\ queue' = [f \in Forces |-> IF f \in F THEN Rest(f, S, lost[f], policy) ELSE queue[f]]
        /\ work' = [f \in Forces |-> IF f \notin F THEN work[f]
              ELSE WorkAfter(WorkAfter(work[f], queue[f], Open(f), drops),
                             Open(f), Rest(f, S, lost[f], policy), drops)]
        /\ \A f \in Forces : F = {f} => raised = HeadEvents(f, queue[f], Rest(f, S, lost[f], policy))
        /\ (\A f \in F : Current(queue[f]) = Current(Rest(f, S, lost[f], policy))) => raised = <<>>

(* The filter of the handlers has that effect.                                 *)
LEMMA FilteredEffect ==
    ASSUME TypeOK, NEW F \in SUBSET Forces, NEW S, NEW policy, QueuesFiltered(F, S, policy)
    PROVE  QueueEffect(F, S, policy)
<1>1. IsFiniteSet(F)
  BY ForcesAssumption, FS_Subset
<1> DEFINE n == Cardinality(F)
           list == SetToSeq(F)
<1>2. n \in Nat /\ list \in [1 .. n -> F]
  BY <1>1, Listed
<1>3. PICK drops \in BOOLEAN, lost \in [F -> SUBSET Techs] :
        /\ queue' = [f \in Forces |-> IF f \notin F THEN queue[f]
              ELSE TakenOver([g \in F |-> Open(g)][f], WithinCaps([g \in F |-> Open(g)][f], S, cell[f]),
                             lost[f], policy, cell[f])]
        /\ work' = [f \in Forces |-> IF f \notin F THEN work[f]
              ELSE WorkAfter(WorkAfter(work[f], queue[f], [g \in F |-> Open(g)][f], drops),
                             [g \in F |-> Open(g)][f], queue'[f], drops)]
        /\ events' = Tail(events) \o FlattenSeq([i \in 1 .. n |->
              HeadEvents(list[i], queue[list[i]], queue'[list[i]])])
  BY Zenon DEF QueuesFiltered, Open
<1>4. queue' = [f \in Forces |-> IF f \in F THEN Rest(f, S, lost[f], policy) ELSE queue[f]]
  BY <1>3, Zenon DEF Kept, Rest
<1>5. \A f \in F : queue'[f] = Rest(f, S, lost[f], policy)
  BY <1>4
<1>6. work' = [f \in Forces |-> IF f \notin F THEN work[f]
        ELSE WorkAfter(WorkAfter(work[f], queue[f], Open(f), drops),
                       Open(f), Rest(f, S, lost[f], policy), drops)]
  BY <1>3, <1>5, Zenon
<1> DEFINE rest(f) == Rest(f, S, lost[f], policy)
           part(f) == HeadEvents(f, queue[f], rest(f))
           parts == [i \in 1 .. n |-> part(list[i])]
           raised == FlattenSeq(parts)
<1>7. ASSUME NEW f \in F PROVE part(f) \in Seq(Events)
  <2>1. queue[f] \in Seq(Techs) /\ rest(f) \in Seq(Techs)
    BY RestQueue DEF TypeOK
  <2>. HIDE DEF rest
  <2>. QED  BY <2>1, HeadAnnounced
<1>8. events' = Tail(events) \o raised
  <2>1. \A i \in 1 .. n : queue'[list[i]] = rest(list[i])
    <3>. HIDE DEF n, list
    <3>. QED  BY <1>2, <1>5
  <2>2. [i \in 1 .. n |-> HeadEvents(list[i], queue[list[i]], queue'[list[i]])] = parts
    <3>. HIDE DEF n, list, rest
    <3>. QED  BY <2>1, Zenon
  <2>. QED  BY <1>3, <2>2
<1>. HIDE DEF part
<1>9. parts \in [1 .. n -> Seq(Events)]
  <2>. HIDE DEF n, list
  <2>. QED  BY <1>2, <1>7
<1>10. raised \in Seq(Events)
  <2>. HIDE DEF n, parts
  <2>. QED  BY <1>2, <1>9, Flattened
<1>11. ASSUME NEW f \in Forces, F = {f} PROVE raised = HeadEvents(f, queue[f], rest(f))
  <2>1. n = 1
    BY <1>11, FS_Singleton
  <2>2. raised = parts[1]
    <3>. HIDE DEF n, parts
    <3>. QED  BY <1>9, <2>1, FlattenedOne
  <2>3. list[1] = f
    <3>. HIDE DEF n, list
    <3>. QED  BY <1>2, <1>11, <2>1
  <2>4. parts[1] = part(list[1])
    <3>. HIDE DEF n, list
    <3>. QED  BY <2>1
  <2>. QED  BY <2>2, <2>3, <2>4 DEF part
<1>12. ASSUME \A f \in F : Current(queue[f]) = Current(rest(f)) PROVE raised = <<>>
  <2>1. \A f \in F : part(f) = <<>>
    BY <1>12 DEF part, HeadEvents
  <2>2. <<>> \in Seq({}) /\ \A s \in Seq({}) : s = <<>>
    OBVIOUS
  <2>3. parts \in [1 .. n -> Seq({})]
    <3>. HIDE DEF n, list
    <3>. QED  BY <1>2, <2>1, <2>2
  <2>4. raised \in Seq({})
    <3>. HIDE DEF n, parts
    <3>. QED  BY <1>2, <2>3, Flattened
  <2>. QED  BY <2>2, <2>4
<1>. HIDE DEF raised
<1>. QED  BY <1>4, <1>6, <1>8, <1>10, <1>11, <1>12 DEF QueueEffect

(* The event's handler filters t out of the queue of f where it is capped.     *)
Filters(e, f, t) == Covers(e, f, t) \/ (e.kind = "started" /\ e.force = f /\ e.tech = t)

(* A pass of the prototype policy leaves no retained technology enabled.       *)
Retires(F) == \A f \in F, t \in Techs : Retained(config.rows[t]) => ~cell'[f][t].enabled

LEMMA PolicyRetires ==
    ASSUME NEW F \in SUBSET Forces, NEW cells \in [Forces -> [Techs -> Cells]], NEW fresh, NEW obs,
           cell' = Reconciled(cells, F, Techs, TRUE, fresh, obs)
    PROVE  Retires(F)
<1>1. ASSUME NEW f \in F, NEW t \in Techs, Retained(config.rows[t]) PROVE ~cell'[f][t].enabled
  <2> DEFINE row == config.rows[t]
             new == <<f, t>> \in fresh
             x == PolicyOff(row, cells[f][t], new)
  <2>1. cell'[f][t] = ReconcileCell(row, x, new, obs)
    BY DEF Reconciled
  <2>2. cells[f][t] \in Cells /\ Retained(row)
    BY <1>1
  <2>3. ~x.enabled
    BY <2>2 DEF PolicyOff, Cells
  <2>. HIDE DEF x, row, new
  <2>4. ~Admitted(row) /\ ~Capped(row, x.level)
    BY <2>2 DEF Retained, Admitted, Limited, Withheld, Capped
  <2>5. ReconcileCell(row, x, new, obs) = x
    BY <2>2, <2>4 DEF ReconcileCell, Bound
  <2>. QED  BY <2>1, <2>3, <2>5
<1>. QED  BY <1>1 DEF Retires

(* Every handler filters the queues of the forces its event is about: at every *)
(* technology, or one force at the technology the event names.                 *)
MirFilters ==
    \E F \in SUBSET Forces : \E S : \E policy \in BOOLEAN :
        /\ QueueEffect(F, S, policy)
        /\ policy => Retires(F)
        /\ S = Techs \/ \E f \in Forces : F = {f}
        /\ \A f \in alive, t \in Techs : Filters(Head(events), f, t) => f \in F /\ t \in S

(* The filter of a pass over all technologies, with the policy before it.      *)
LEMMA PassFilters ==
    ASSUME TypeOK, NEW F \in SUBSET Forces, NEW k, NEW fresh,
           NEW cells \in [Forces -> [Techs -> Cells]], ReconcileAll(k, F, cells, fresh)
    PROVE  QueueEffect(F, Techs, TRUE) /\ Retires(F)
<1>1. QueueEffect(F, Techs, TRUE)
  BY FilteredEffect DEF ReconcileAll
<1>2. Retires(F)
  BY PolicyRetires DEF ReconcileAll
<1>. QED  BY <1>1, <1>2

LEMMA MirFilterSteps ==
    ASSUME TypeOK, MirNext
    PROVE  MirFilters /\ events # <<>> /\ relayed' = FALSE /\ config' = config /\ alive' = alive
<1>0. alive \subseteq Forces /\ CellTypeOK /\ cell \in [Forces -> [Techs -> Cells]]
  BY DEF TypeOK, CellTypeOK
<1>1. CASE OnInit \/ OnDiscoveryTreeChanged \/ OnConfigurationChanged
  <2>1. PICK k, fresh, cells :
          /\ k \in {"init", "setting", "configured"}
          /\ cells \in {cell, Imported(Cleared(cell, Forces \ alive))}
          /\ Taken(Event(k, Nil, Nil)) /\ ReconcileAll(k, alive, cells, fresh)
    <3>1. \E cells \in {cell, Imported(Cleared(cell, Forces \ alive))}, fresh \in {{}, Reenabled(cell)},
             k \in {"init", "setting", "configured"} :
               Taken(Event(k, Nil, Nil)) /\ ReconcileAll(k, alive, cells, fresh)
      <4>1. CASE OnInit
        BY <4>1 DEF OnInit
      <4>2. CASE OnDiscoveryTreeChanged
        BY <4>2 DEF OnDiscoveryTreeChanged
      <4>3. CASE OnConfigurationChanged
        BY <4>3 DEF OnConfigurationChanged
      <4>. QED  BY <1>1, <4>1, <4>2, <4>3
    <3>. QED  BY <3>1
  <2>2. Imported(Cleared(cell, Forces \ alive)) \in [Forces -> [Techs -> Cells]]
    <3> DEFINE kept == Cleared(cell, Forces \ alive)
    <3>1. kept \in [Forces -> [Techs -> Cells]]
      BY <1>0, ClearedCells
    <3>. HIDE DEF kept
    <3>2. Imported(kept) \in [Forces -> [Techs -> Cells]]
      BY <1>0, <3>1, ImportedCells
    <3>. QED  BY <3>2 DEF kept
  <2>3. cells \in [Forces -> [Techs -> Cells]]
    BY <1>0, <2>1, <2>2
  <2>4. \A f \in alive, t \in Techs : Filters(Head(events), f, t) => f \in alive /\ t \in Techs
    OBVIOUS
  <2>5. QueueEffect(alive, Techs, TRUE) /\ Retires(alive)
    BY <1>0, <2>1, <2>3, PassFilters
  <2>. QED  BY <1>0, <2>1, <2>4, <2>5 DEF MirFilters, Taken
<1>2. CASE OnResearch
  <2>1. PICK k \in {"finished", "reversed", "started"}, f \in alive, t \in Techs :
          /\ Taken(Event(k, f, t))
          /\ IF Fresh(k) THEN ReconcileAll(k, {f}, cell, {}) ELSE ReconcileNamed(k, f, t)
    BY <1>2 DEF OnResearch
  <2>2. Head(events).kind = k /\ Head(events).force = f /\ Head(events).tech = t
    BY <2>1 DEF Taken, Event
  <2>3. {f} \in SUBSET Forces /\ f \in Forces
    BY <1>0
  <2>4. PICK S \in {Techs, {t}}, policy \in BOOLEAN :
          QueueEffect({f}, S, policy) /\ (policy => Retires({f}))
    <3>1. CASE Fresh(k)
      <4>1. QueueEffect({f}, Techs, TRUE) /\ Retires({f})
        BY <1>0, <2>1, <2>3, <3>1, PassFilters
      <4>. QED  BY <4>1
    <3>2. CASE ~Fresh(k)
      <4>1. QueueEffect({f}, {t}, FALSE)
        BY <2>1, <2>3, <3>2, FilteredEffect DEF ReconcileNamed
      <4>. QED  BY <4>1
    <3>. QED  BY <3>1, <3>2
  <2>5. \A g \in alive, u \in Techs : Filters(Head(events), g, u) => g \in {f} /\ u \in S
    BY <2>2, <2>4 DEF Filters, Covers
  <2>6. S = Techs \/ \E g \in Forces : {f} = {g}
    BY <2>3
  <2>7. MirFilters
    BY <2>3, <2>4, <2>5, <2>6 DEF MirFilters
  <2>8. events # <<>> /\ relayed' = FALSE /\ config' = config /\ alive' = alive
    BY <2>1 DEF Taken
  <2>. QED  BY <2>7, <2>8
<1>3. CASE OnResearchCancelled \/ OnResearchQueued
  <2>1. PICK k \in {"cancelled", "queued"}, f \in alive, t \in Techs :
          /\ Taken(Event(k, f, t))
          /\ \/ ReconcileAll(k, {f}, cell, {})
             \/ QueuesFiltered({f}, {}, FALSE)
             \/ events' = Tail(events) /\ UNCHANGED <<queue, work>>
    BY <1>3 DEF OnResearchCancelled, OnResearchQueued
  <2>2. Head(events).kind = k
    BY <2>1 DEF Taken, Event
  <2>3. \A g \in alive, u \in Techs : ~Filters(Head(events), g, u)
    BY <2>2 DEF Filters, Covers
  <2>4. {f} \in SUBSET Forces /\ f \in Forces
    BY <1>0
  <2>5. CASE ReconcileAll(k, {f}, cell, {})
    <3>1. QueueEffect({f}, Techs, TRUE) /\ Retires({f})
      BY <1>0, <2>4, <2>5, PassFilters
    <3>. QED  BY <2>1, <2>3, <2>4, <3>1 DEF MirFilters, Taken
  <2>6. CASE QueuesFiltered({f}, {}, FALSE)
    <3>1. QueueEffect({f}, {}, FALSE)
      BY <2>4, <2>6, FilteredEffect
    <3>. QED  BY <2>1, <2>3, <2>4, <3>1 DEF MirFilters, Taken
  <2>7. CASE events' = Tail(events) /\ UNCHANGED <<queue, work>>
    <3>1. events \in Seq(Events) /\ events # <<>>
      BY <2>1 DEF TypeOK, Taken
    <3>2. <<>> \in Seq(Events) /\ Tail(events) \o <<>> = Tail(events)
      BY <3>1
    <3> DEFINE none == [f_1 \in {} |-> {}]
    <3>3. none \in [{} -> SUBSET Techs]
      OBVIOUS
    <3>. HIDE DEF none
    <3>4. /\ queue = [g \in Forces |-> IF g \in {} THEN Rest(g, Techs, none[g], FALSE) ELSE queue[g]]
          /\ work = [g \in Forces |-> IF g \notin {} THEN work[g]
                ELSE WorkAfter(WorkAfter(work[g], queue[g], Open(g), TRUE),
                               Open(g), Rest(g, Techs, none[g], FALSE), TRUE)]
      BY DEF TypeOK
    <3>5. \A g \in Forces : {} # {g}
      OBVIOUS
    <3>6. QueueEffect({}, Techs, FALSE)
      BY <2>7, <3>2, <3>3, <3>4, <3>5 DEF QueueEffect
    <3>. QED  BY <2>1, <2>3, <3>6 DEF MirFilters, Taken
  <2>. QED  BY <2>1, <2>5, <2>6, <2>7
<1>4. CASE OnTechnologyEffectsReset \/ OnForceBoundary \/ OnForcesMerged
  <2>1. PICK k, f, s, cells :
          /\ k \in {"effects", "created", "reset", "merged"} /\ f \in alive
          /\ cells \in {cell, Cleared(cell, {f}), Cleared(cell, {s})}
          /\ Taken([Event(k, f, Nil) EXCEPT !.source = s]) /\ ReconcileAll(k, {f}, cells, {})
    <3>1. \A k, f : [Event(k, f, Nil) EXCEPT !.source = Nil] = Event(k, f, Nil)
      BY DEF Event
    <3>2. CASE OnTechnologyEffectsReset
      BY <3>1, <3>2, Zenon DEF OnTechnologyEffectsReset
    <3>3. CASE OnForceBoundary
      <4>1. PICK k \in {"created", "reset"}, f \in alive :
              Taken(Event(k, f, Nil)) /\ ReconcileAll(k, {f}, Cleared(cell, {f}), {})
        BY <3>3 DEF OnForceBoundary
      <4>2. Taken([Event(k, f, Nil) EXCEPT !.source = Nil])
        BY <3>1, <4>1, Zenon
      <4>3. Cleared(cell, {f}) \in {cell, Cleared(cell, {f}), Cleared(cell, {Nil})}
        OBVIOUS
      <4>4. k \in {"effects", "created", "reset", "merged"}
        BY <4>1
      <4>. QED  BY <4>1, <4>2, <4>3, <4>4, Zenon
    <3>4. CASE OnForcesMerged
      BY <3>4, Zenon DEF OnForcesMerged
    <3>. QED  BY <1>4, <3>2, <3>3, <3>4
  <2>2. Head(events).kind = k /\ Head(events).force = f
    BY <2>1 DEF Taken, Event
  <2>3. \A g \in alive, u \in Techs : Filters(Head(events), g, u) => g \in {f} /\ u \in Techs
    BY <2>1, <2>2 DEF Filters, Covers
  <2>4. {f} \in SUBSET Forces /\ f \in Forces
    BY <1>0, <2>1
  <2>5. cells \in [Forces -> [Techs -> Cells]]
    BY <1>0, <2>1, ClearedCells
  <2>6. QueueEffect({f}, Techs, TRUE) /\ Retires({f})
    BY <2>1, <2>4, <2>5, PassFilters
  <2>. QED  BY <2>1, <2>3, <2>4, <2>6 DEF MirFilters, Taken
<1>. QED
  BY <1>1, <1>2, <1>3, <1>4 DEF MirNext

-----------------------------------------------------------------------------
(* Types of the whole state, without its history                               *)

(* One pass keeps a cell a cell and its level.                                 *)
LEMMA OnePassLevel ==
    ASSUME NEW row \in Rows, NEW x \in Cells, NEW policy \in BOOLEAN,
           NEW new \in BOOLEAN, NEW obs \in Maybe, NEW y, y = OnePass(row, x, policy, new, obs)
    PROVE  y \in Cells /\ y.level = x.level
<1> DEFINE z == IF policy THEN PolicyOff(row, x, new) ELSE x
<1>1. z \in Cells /\ z.level = x.level
  BY PolicyOffCell, PolicyOffLevel
<1>2. y = ReconcileCell(row, z, new, obs)
  BY DEF OnePass
<1>. HIDE DEF z
<1>3. CASE Capped(row, z.level)
  BY <1>1, <1>2, <1>3, CapOffCell DEF ReconcileCell
<1>4. CASE ~Capped(row, z.level) /\ Admitted(row) /\ z.entry # Nil
  <2>1. y = Release(z, obs)
    BY <1>2, <1>4 DEF ReconcileCell
  <2>2. y \in Cells
    BY <1>1, <1>4, <2>1, ReleaseCell
  <2>. QED  BY <1>1, <2>1, <2>2 DEF Release, Cells
<1>5. CASE ~Capped(row, z.level) /\ ~(Admitted(row) /\ z.entry # Nil)
  <2>1. y = z \/ y = [z EXCEPT !.entry = Nil]
    BY <1>2, <1>5 DEF ReconcileCell, Bound
  <2>. QED  BY <1>1, <2>1 DEF Cells
<1>. QED  BY <1>3, <1>4, <1>5

(* MIR never writes a level.                                                   *)
LEMMA MirKeepsLevels ==
    ASSUME CellTypeOK, MirNext, NEW f \in Forces, NEW t \in Techs
    PROVE  cell'[f][t] \in Cells /\ cell'[f][t].level = cell[f][t].level
<1>1. cell \in [Forces -> [Techs -> Cells]] /\ cell[f][t] \in Cells /\ config.rows[t] \in Rows
  BY ConfigsAssumption DEF CellTypeOK
<1>2. Handled(f, t)
  BY MirHandles
<1>3. CASE cell'[f][t] = cell[f][t]
  BY <1>1, <1>3
<1>4. CASE cell'[f][t] = [cell[f][t] EXCEPT !.entry = Nil]
  BY <1>1, <1>4 DEF Cells
<1>5. CASE Reconciles(f, t)
  <2>1. PICK policy \in BOOLEAN, new \in BOOLEAN, x \in Cells :
          /\ x = Opening(f, t) \/ x = ImportCell(f, t, cell[f][t])
          /\ cell'[f][t] = OnePass(config.rows[t], x, policy, new, Observation(Head(events).kind))
    BY <1>5 DEF Reconciles
  <2>2. x.level = cell[f][t].level
    <3>1. Opening(f, t).level = cell[f][t].level
      BY <1>1 DEF Opening, Cells
    <3>2. ImportCell(f, t, cell[f][t]).level = cell[f][t].level
      BY <1>1, ImportedCell
    <3>. QED  BY <2>1, <3>1, <3>2
  <2>. QED  BY <1>1, <2>1, <2>2, OnePassLevel, ObservationMaybe
<1>. QED  BY <1>2, <1>3, <1>4, <1>5 DEF Handled

(* The cells of a step of MIR are the old ones or those of a pass.             *)
LEMMA MirShape ==
    ASSUME MirNext
    PROVE  /\ cell' = cell \/ cell' = [f \in Forces |-> [t \in Techs |-> cell'[f][t]]]
           /\ old' = old \/ old' = [f \in Forces |-> [t \in Techs |-> Nil]]
<1>1. ASSUME NEW c, NEW F, NEW S, NEW p, NEW fresh, NEW o, cell' = Reconciled(c, F, S, p, fresh, o)
      PROVE  cell' = [f \in Forces |-> [t \in Techs |-> cell'[f][t]]]
  BY <1>1 DEF Reconciled
<1>2. cell' = cell \/ \E c, F, S, p, fresh, o : cell' = Reconciled(c, F, S, p, fresh, o)
  BY Zenon DEF MirNext, OnInit, OnConfigurationChanged, OnResearch, OnResearchCancelled,
       OnResearchQueued, OnDiscoveryTreeChanged, OnTechnologyEffectsReset,
       OnForceBoundary, OnForcesMerged, ReconcileAll, ReconcileNamed
<1>3. old' = old \/ old' = [f \in Forces |-> [t \in Techs |-> Nil]]
  BY DEF MirNext, OnInit, OnConfigurationChanged, OnResearch, OnResearchCancelled,
       OnResearchQueued, OnDiscoveryTreeChanged, OnTechnologyEffectsReset,
       OnForceBoundary, OnForcesMerged
<1>. QED  BY <1>1, <1>2, <1>3

(* Saving or losing progress keeps it progress.                                *)
LEMMA WorkAfterType ==
    ASSUME NEW w \in [Techs -> 0 .. 1], NEW q, NEW r, NEW drops
    PROVE  /\ WorkAfter(w, q, r, drops) \in [Techs -> 0 .. 1]
           /\ \A t \in Techs : WorkAfter(w, q, r, drops)[t] # w[t] =>
                t = Current(q) /\ Current(r) # Current(q) /\ ~Unavailable(t)
<1> DEFINE c == Current(q)
           zero == [w EXCEPT ![c] = 0]
           lost == drops /\ q # r /\ Current(r) # c /\ ~Unavailable(c)
<1>1. WorkAfter(w, q, r, drops) = IF lost THEN zero ELSE w
  BY Zenon DEF WorkAfter
<1>2. lost => Current(r) # c /\ ~Unavailable(c)
  OBVIOUS
<1>. HIDE DEF lost, c
<1>3. zero \in [Techs -> 0 .. 1] /\ \A t \in Techs : zero[t] # w[t] => t = c
  <2>1. zero = [t \in Techs |-> IF t = c THEN 0 ELSE w[t]]
    OBVIOUS
  <2>2. 0 \in 0 .. 1
    OBVIOUS
  <2>. HIDE DEF zero
  <2>. QED  BY <2>1, <2>2
<1>. HIDE DEF zero
<1>. QED  BY <1>1, <1>2, <1>3 DEF c

(* A step of MIR keeps every type.                                             *)
LEMMA MirTypes ==
    ASSUME TypeOK, MirNext
    PROVE  TypeOK'
<1>1. CellTypeOK /\ config' = config /\ alive' = alive /\ relayed' = FALSE /\ events # <<>>
  BY MirFilterSteps DEF TypeOK
<1>2. cell' \in [Forces -> [Techs -> Cells]]
  <2>1. \A f \in Forces, t \in Techs : cell'[f][t] \in Cells
    BY <1>1, MirKeepsLevels
  <2>. QED  BY <1>1, <2>1, MirShape DEF CellTypeOK
<1>3. old' \in [Forces -> [Techs -> OldRows \cup {Nil}]]
  BY <1>1, MirShape DEF CellTypeOK
<1>4. CellTypeOK'
  BY <1>1, <1>2, <1>3 DEF CellTypeOK
<1>5. PICK F, S, policy : F \in SUBSET Forces /\ QueueEffect(F, S, policy)
  BY MirFilterSteps DEF MirFilters
<1>6. PICK raised \in Seq(Events), drops \in BOOLEAN, lost \in [F -> SUBSET Techs] :
        /\ events' = Tail(events) \o raised
        /\ queue' = [f \in Forces |-> IF f \in F THEN Rest(f, S, lost[f], policy) ELSE queue[f]]
        /\ work' = [f \in Forces |-> IF f \notin F THEN work[f]
              ELSE WorkAfter(WorkAfter(work[f], queue[f], Open(f), drops),
                             Open(f), Rest(f, S, lost[f], policy), drops)]
  BY <1>5 DEF QueueEffect
<1> DEFINE rest(f) == Rest(f, S, lost[f], policy)
<1>7. events' \in Seq(Events)
  <2>1. Tail(events) \in Seq(Events)
    BY <1>1 DEF TypeOK
  <2>. QED  BY <1>6, <2>1
<1>8. queue' \in [Forces -> Seq(Techs)] /\ \A f \in Forces : Len(queue'[f]) <= MaxQueue
  <2>1. ASSUME NEW f \in Forces
        PROVE  /\ queue[f] \in Seq(Techs) /\ Len(queue[f]) <= MaxQueue
               /\ rest(f) \in Seq(Techs) /\ Len(rest(f)) <= MaxQueue
    <3>1. /\ queue[f] \in Seq(Techs) /\ Len(queue[f]) <= MaxQueue
          /\ rest(f) \in Seq(Techs) /\ Len(rest(f)) <= Len(queue[f])
      BY RestQueue DEF TypeOK
    <3>2. MaxQueue \in Nat /\ Len(queue[f]) \in Nat /\ Len(rest(f)) \in Nat
      BY <3>1, BoundsAssumption
    <3>. QED  BY <3>1, <3>2
  <2>. QED  BY <1>6, <2>1
<1>9. work' \in [Forces -> [Techs -> 0 .. 1]]
  <2>1. ASSUME NEW f \in Forces
        PROVE  WorkAfter(WorkAfter(work[f], queue[f], Open(f), drops), Open(f), rest(f), drops)
                 \in [Techs -> 0 .. 1]
    <3>1. work[f] \in [Techs -> 0 .. 1]
      BY DEF TypeOK
    <3>2. \A q, r : \A w \in [Techs -> 0 .. 1] : WorkAfter(w, q, r, drops) \in [Techs -> 0 .. 1]
      BY WorkAfterType
    <3>. QED  BY <3>1, <3>2
  <2>2. work \in [Forces -> [Techs -> 0 .. 1]]
    BY DEF TypeOK
  <2>. QED  BY <1>6, <2>1, <2>2
<1>. QED  BY <1>1, <1>4, <1>7, <1>8, <1>9 DEF TypeOK

(* The rest of a queue whose first entry is gone.                              *)
LEMMA TailOf ==
    ASSUME NEW q \in Seq(Techs), q # <<>>
    PROVE  /\ Tail(q) \in Seq(Techs) /\ Len(Tail(q)) <= Len(q)
           /\ Current(q) = Head(q) /\ Head(q) \in Techs
  BY DEF Current

(* The completion of a technology keeps the types.                             *)
LEMMA CompletesTypes ==
    ASSUME TypeOK, NEW f \in Forces, NEW t \in Techs, Completes(f, t)
    PROVE  /\ queue' \in [Forces -> Seq(Techs)] /\ \A g \in Forces : Len(queue'[g]) <= MaxQueue
           /\ work' \in [Forces -> [Techs -> 0 .. 1]]
           /\ events' \in Seq(Events)
<1> DEFINE rest == IF Current(queue[f]) = t THEN Tail(queue[f]) ELSE queue[f]
           more == IF rest # queue[f] /\ rest # <<>> THEN Raised("started", f, Head(rest)) ELSE <<>>
<1>1. /\ queue \in [Forces -> Seq(Techs)] /\ queue[f] \in Seq(Techs) /\ Len(queue[f]) <= MaxQueue
      /\ \A g \in Forces : Len(queue[g]) <= MaxQueue
      /\ work \in [Forces -> [Techs -> 0 .. 1]] /\ MaxQueue \in Nat
  BY BoundsAssumption DEF TypeOK
<1>2. /\ queue' = [queue EXCEPT ![f] = rest]
      /\ work' = [work EXCEPT ![f][t] = 0]
      /\ events' = Raised("finished", f, t) \o more
  BY DEF Completes
<1>3. rest \in Seq(Techs) /\ Len(rest) <= MaxQueue
  <2>1. CASE Current(queue[f]) = t
    <3>1. queue[f] # <<>>
      BY <2>1, NilAssumption DEF Current
    <3>2. Tail(queue[f]) \in Seq(Techs) /\ Len(Tail(queue[f])) <= Len(queue[f])
      BY <1>1, <3>1, TailOf
    <3>3. Len(Tail(queue[f])) \in Nat /\ Len(queue[f]) \in Nat
      BY <1>1, <3>2
    <3>. QED  BY <1>1, <2>1, <3>2, <3>3
  <2>2. CASE Current(queue[f]) # t
    BY <1>1, <2>2
  <2>. QED  BY <2>1, <2>2
<1>. HIDE DEF rest
<1>4. more \in Seq(Events)
  <2>1. CASE rest # <<>>
    <3>1. Head(rest) \in Techs
      BY <1>3, <2>1
    <3>2. Raised("started", f, Head(rest)) \in Seq(Events)
      BY <3>1, RaisedEvents DEF NamedKinds
    <3>. QED  BY <3>2
  <2>. QED  BY <2>1
<1>5. Raised("finished", f, t) \in Seq(Events)
  BY RaisedEvents DEF NamedKinds
<1>. HIDE DEF more
<1>6. events' \in Seq(Events)
  BY <1>2, <1>4, <1>5
<1>7. queue' \in [Forces -> Seq(Techs)] /\ \A g \in Forces : Len(queue'[g]) <= MaxQueue
  BY <1>1, <1>2, <1>3
<1>8. work' \in [Forces -> [Techs -> 0 .. 1]]
  BY <1>1, <1>2
<1>. QED  BY <1>6, <1>7, <1>8

(* One event is a sequence of events.                                          *)
LEMMA OneEvent ==
    ASSUME NEW k \in NamedKinds \cup ForceKinds \cup GlobalKinds,
           NEW f \in Forces \cup {Nil}, NEW s \in Forces \cup {Nil}
    PROVE  /\ <<Event(k, f, Nil)>> \in Seq(Events)
           /\ <<[Event(k, f, Nil) EXCEPT !.source = s]>> \in Seq(Events)
<1>1. Event(k, f, Nil) \in Events /\ [Event(k, f, Nil) EXCEPT !.source = s] \in Events
  BY DEF Event, Events
<1> DEFINE a == Event(k, f, Nil)
           b == [Event(k, f, Nil) EXCEPT !.source = s]
<1>. HIDE DEF a, b
<1>2. a \in Events /\ b \in Events => <<a>> \in Seq(Events) /\ <<b>> \in Seq(Events)
  OBVIOUS
<1>. QED  BY <1>1, <1>2 DEF a, b

(* A step of the World keeps every type.                                       *)
LEMMA WorldTypes ==
    ASSUME TypeOK, WorldNext
    PROVE  TypeOK'
<1>0. /\ CellTypeOK /\ alive \subseteq Forces
      /\ queue \in [Forces -> Seq(Techs)] /\ \A f \in Forces : Len(queue[f]) <= MaxQueue
      /\ \A f \in Forces : queue[f] \in Seq(Techs)
      /\ work \in [Forces -> [Techs -> 0 .. 1]]
      /\ events \in Seq(Events) /\ relayed \in BOOLEAN /\ MaxQueue \in Nat
  BY BoundsAssumption DEF TypeOK, CellTypeOK
<1>1. CellTypeOK'
  <2>1. WorldEffect
    BY <1>0, WorldStep
  <2>. QED  BY <1>0, <2>1 DEF WorldEffect, CellTypeOK
<1>2. relayed' \in BOOLEAN
  BY <1>0 DEF WorldNext, Enqueue, CancelCurrent, Research, Finish, Grant, Unresearch, ResetEffects,
       ChangeSetting, MergeForces, LoadConfiguration, ForeignEnabled, ForeignVisible,
       DiscoveryTreeReveals
<1>. SUFFICES /\ queue' \in [Forces -> Seq(Techs)] /\ \A f \in Forces : Len(queue'[f]) <= MaxQueue
              /\ work' \in [Forces -> [Techs -> 0 .. 1]]
              /\ events' \in Seq(Events)
  BY <1>1, <1>2 DEF TypeOK
<1>3. CASE Enqueue
  <2>1. PICK f \in alive, t \in Techs :
          /\ Len(queue[f]) < MaxQueue
          /\ queue' = [queue EXCEPT ![f] = Append(@, t)]
          /\ events' = (IF queue[f] = <<>> THEN Raised("started", f, t) ELSE <<>>)
                         \o Raised("queued", f, t)
    BY <1>3 DEF Enqueue
  <2>2. /\ f \in Forces /\ Append(queue[f], t) \in Seq(Techs)
        /\ Len(Append(queue[f], t)) = Len(queue[f]) + 1
    BY <1>0, HeadOfAppend
  <2>3. Len(Append(queue[f], t)) <= MaxQueue
    BY <1>0, <2>1, <2>2
  <2>4. queue' \in [Forces -> Seq(Techs)] /\ \A g \in Forces : Len(queue'[g]) <= MaxQueue
    BY <1>0, <2>1, <2>2, <2>3
  <2>5. Raised("started", f, t) \in Seq(Events) /\ Raised("queued", f, t) \in Seq(Events)
    BY <2>2, RaisedEvents DEF NamedKinds
  <2>6. events' \in Seq(Events)
    BY <2>1, <2>5
  <2>. QED  BY <1>0, <1>3, <2>4, <2>6 DEF Enqueue
<1>4. CASE CancelCurrent
  <2>1. PICK f \in alive :
          /\ queue[f] # <<>>
          /\ queue' = [queue EXCEPT ![f] = Tail(@)]
          /\ events' = HeadEvents(f, queue[f], Tail(queue[f]))
    BY <1>4 DEF CancelCurrent
  <2>2. f \in Forces /\ Tail(queue[f]) \in Seq(Techs) /\ Len(Tail(queue[f])) <= Len(queue[f])
    BY <1>0, <2>1, TailOf
  <2>3. Len(Tail(queue[f])) <= MaxQueue
    <3>1. Len(Tail(queue[f])) \in Nat /\ Len(queue[f]) \in Nat
      BY <1>0, <2>2
    <3>. QED  BY <1>0, <2>2, <3>1
  <2>4. queue' \in [Forces -> Seq(Techs)] /\ \A g \in Forces : Len(queue'[g]) <= MaxQueue
    BY <1>0, <2>1, <2>2, <2>3
  <2>5. events' \in Seq(Events)
    BY <1>0, <2>1, <2>2, HeadAnnounced
  <2>. QED  BY <1>0, <1>4, <2>4, <2>5 DEF CancelCurrent
<1>5. CASE Research
  <2>1. PICK f \in alive : queue[f] # <<>> /\ work' = [work EXCEPT ![f][Head(queue[f])] = 1]
    BY <1>5 DEF Research
  <2>2. f \in Forces /\ Head(queue[f]) \in Techs
    BY <1>0, <2>1, TailOf
  <2>3. work' \in [Forces -> [Techs -> 0 .. 1]]
    BY <1>0, <2>1, <2>2
  <2>. QED  BY <1>0, <1>5, <2>3 DEF Research
<1>6. CASE Finish \/ Grant
  <2>1. PICK f \in alive, t \in Techs : Completes(f, t)
    BY <1>6 DEF Finish, Grant
  <2>. QED  BY <1>0, <2>1, CompletesTypes
<1>7. CASE Unresearch \/ ResetEffects
  <2>1. PICK k \in {"reversed", "effects"}, f \in alive, t \in Techs \cup {Nil} :
          events' = Raised(k, f, t) /\ UNCHANGED <<queue, work>>
    BY <1>7 DEF Unresearch, ResetEffects
  <2>2. f \in Forces \cup {Nil} /\ k \in NamedKinds \cup ForceKinds \cup GlobalKinds
    BY <1>0 DEF NamedKinds, ForceKinds
  <2>3. Raised(k, f, t) \in Seq(Events)
    BY <2>2, RaisedEvents
  <2>. QED  BY <1>0, <2>1, <2>3
<1>8. CASE ChangeSetting
  <2>1. Raised("setting", Nil, Nil) \in Seq(Events)
    BY RaisedEvents DEF GlobalKinds
  <2>. QED  BY <1>0, <1>8, <2>1 DEF ChangeSetting
<1>9. CASE MergeForces
  <2>1. PICK s \in alive, d \in alive :
          /\ queue' = [queue EXCEPT ![s] = <<>>]
          /\ work' = [work EXCEPT ![s] = Idle]
          /\ events' = <<[Event("merged", d, Nil) EXCEPT !.source = s]>>
    BY <1>9 DEF MergeForces
  <2>2. s \in Forces /\ d \in Forces /\ "merged" \in NamedKinds \cup ForceKinds \cup GlobalKinds
    BY <1>0 DEF ForceKinds
  <2>3. events' \in Seq(Events)
    BY <2>1, <2>2, OneEvent
  <2>4. Idle \in [Techs -> 0 .. 1]
    BY DEF Idle
  <2>5. Len(<<>>) <= MaxQueue /\ <<>> \in Seq(Techs)
    BY <1>0
  <2>6. queue' \in [Forces -> Seq(Techs)] /\ \A g \in Forces : Len(queue'[g]) <= MaxQueue
    BY <1>0, <2>1, <2>2, <2>5
  <2>7. work' \in [Forces -> [Techs -> 0 .. 1]]
    BY <1>0, <2>1, <2>2, <2>4
  <2>. QED  BY <2>3, <2>6, <2>7
<1>10. CASE LoadConfiguration
  <2>1. <<Event("configured", Nil, Nil)>> \in Seq(Events)
    BY OneEvent DEF GlobalKinds
  <2>. QED  BY <1>0, <1>10, <2>1 DEF LoadConfiguration
<1>11. CASE ForeignEnabled \/ ForeignVisible \/ DiscoveryTreeReveals
  BY <1>0, <1>11 DEF ForeignEnabled, ForeignVisible, DiscoveryTreeReveals
<1>. QED
  BY <1>3, <1>4, <1>5, <1>6, <1>7, <1>8, <1>9, <1>10, <1>11 DEF WorldNext

(* The start of a force keeps every type.                                      *)
LEMMA BoundaryTypes ==
    ASSUME TypeOK, NEW f \in Forces, Boundary(f)
    PROVE  TypeOK'
<1>0. /\ CellTypeOK /\ queue \in [Forces -> Seq(Techs)] /\ \A g \in Forces : Len(queue[g]) <= MaxQueue
      /\ work \in [Forces -> [Techs -> 0 .. 1]] /\ relayed \in BOOLEAN /\ MaxQueue \in Nat
  BY BoundsAssumption DEF TypeOK
<1>1. CellTypeOK'
  <2>1. /\ config' = config /\ old' = old /\ alive' \subseteq Forces
        /\ cell' \in [Forces -> [Techs -> Cells]]
    BY <1>0, BoundaryStep
  <2>. QED  BY <1>0, <2>1 DEF CellTypeOK
<1>2. PICK k \in {"created", "reset"} : events' = <<Event(k, f, Nil)>>
  BY DEF Boundary, ResetForce, CreateForce
<1>3. events' \in Seq(Events)
  <2>1. k \in NamedKinds \cup ForceKinds \cup GlobalKinds
    BY DEF ForceKinds
  <2>. QED  BY <1>2, <2>1, OneEvent
<1>4. relayed' = relayed
  BY DEF Boundary, ResetForce, CreateForce
<1>5. queue' = queue \/ queue' = [queue EXCEPT ![f] = <<>>]
  BY DEF Boundary, ResetForce, CreateForce
<1>6. work' = work \/ work' = [work EXCEPT ![f] = Idle]
  BY DEF Boundary, ResetForce, CreateForce
<1>7. queue' \in [Forces -> Seq(Techs)] /\ \A g \in Forces : Len(queue'[g]) <= MaxQueue
  <2>1. Len(<<>>) <= MaxQueue /\ <<>> \in Seq(Techs)
    BY <1>0
  <2>. QED  BY <1>0, <1>5, <2>1
<1>8. work' \in [Forces -> [Techs -> 0 .. 1]]
  <2>1. Idle \in [Techs -> 0 .. 1]
    BY DEF Idle
  <2>. QED  BY <1>0, <1>6, <2>1
<1>. QED  BY <1>0, <1>1, <1>3, <1>4, <1>7, <1>8 DEF TypeOK

(* Types hold at the start, and every step keeps them.                         *)
LEMMA TypeInvariant ==
    /\ Init => TypeOK
    /\ TypeOK /\ [Next]_vars => TypeOK'
<1>1. ASSUME Init PROVE TypeOK
  <2>1. CellTypeOK
    <3>1. cell \in [Forces -> [Techs -> Cells]]
      BY <1>1 DEF Init, Cells
    <3>2. old \in [Forces -> [Techs -> OldRows \cup {Nil}]]
      BY <1>1 DEF Init
    <3>. QED  BY <1>1, <3>1, <3>2 DEF Init, CellTypeOK
  <2>2. queue \in [Forces -> Seq(Techs)] /\ \A f \in Forces : Len(queue[f]) <= MaxQueue
    <3>1. Len(<<>>) <= MaxQueue /\ <<>> \in Seq(Techs)
      BY BoundsAssumption
    <3>. QED  BY <1>1, <3>1 DEF Init
  <2>3. work \in [Forces -> [Techs -> 0 .. 1]]
    BY <1>1 DEF Init, Idle
  <2>4. events \in Seq(Events)
    <3>1. \E k \in {"configured", "init"} : events = <<Event(k, Nil, Nil)>>
      BY <1>1 DEF Init
    <3>2. {"configured", "init"} \subseteq NamedKinds \cup ForceKinds \cup GlobalKinds
      BY DEF GlobalKinds
    <3>. QED  BY <3>1, <3>2, OneEvent
  <2>. QED  BY <1>1, <2>1, <2>2, <2>3, <2>4 DEF Init, TypeOK
<1>2. ASSUME TypeOK, [Next]_vars PROVE TypeOK'
  <2>1. CASE MirNext
    BY <1>2, <2>1, MirTypes
  <2>2. CASE WorldNext
    BY <1>2, <2>2, WorldTypes
  <2>3. CASE \E f \in Forces : Boundary(f)
    BY <1>2, <2>3, BoundaryTypes
  <2>4. CASE UNCHANGED vars
    BY <1>2, <2>4 DEF TypeOK, CellTypeOK, vars
  <2>. QED  BY <1>2, <2>1, <2>2, <2>3, <2>4 DEF Next
<1>. QED  BY <1>1, <1>2

(* Every variable of caps, its queues and events included, keeps its type:     *)
(* queues within the game's bound, events of the declared kinds only.          *)
THEOREM CapsTypeCorrect == Spec => []TypeOK
<1>. QED  BY TypeInvariant, PTL DEF Spec
-----------------------------------------------------------------------------
(* The first entry of a queue                                                  *)

CappedHead(f) ==
    queue[f] # <<>> /\ Capped(config.rows[Head(queue[f])], cell[f][Head(queue[f])].level)

(* A research above its cap is first in line only while an event is yet to be  *)
(* handled that filters it out.                                                *)
HeadWatched(f) ==
    CappedHead(f) => \E i \in DOMAIN events : Filters(events[i], f, Head(queue[f]))

HeadsWatched == \A f \in alive : HeadWatched(f)

LEMMA QuietHeads ==
    HeadsWatched /\ Quiet => \A f \in alive : ~CappedHead(f)
<1>. SUFFICES ASSUME HeadsWatched, Quiet, NEW f \in alive PROVE ~CappedHead(f)
  OBVIOUS
<1>1. DOMAIN events = {}
  BY DEF Quiet
<1>. QED  BY <1>1 DEF HeadsWatched, HeadWatched

(* Events after the first move up; events raised join at the end.              *)
MovesUp(q, more, r) ==
    /\ \A i \in DOMAIN q : i # 1 => i - 1 \in DOMAIN r /\ r[i - 1] = q[i]
    /\ \A i \in 1 .. Len(more) : \E j \in DOMAIN r : r[j] = more[i]

LEMMA EventsMoveUp ==
    ASSUME NEW q \in Seq(Events), q # <<>>, NEW more \in Seq(Events)
    PROVE  MovesUp(q, more, Tail(q) \o more)
<1> DEFINE a == Tail(q)
           r == a \o more
<1>1. /\ a \in Seq(Events) /\ Len(a) = Len(q) - 1 /\ Len(q) \in Nat \ {0}
      /\ \A i \in 1 .. Len(q) - 1 : a[i] = q[i + 1]
      /\ DOMAIN q = 1 .. Len(q) /\ Len(more) \in Nat
  OBVIOUS
<1>. HIDE DEF a, r
<1>2. /\ r \in Seq(Events) /\ Len(r) = Len(a) + Len(more)
      /\ \A i \in 1 .. Len(a) + Len(more) : r[i] = IF i <= Len(a) THEN a[i] ELSE more[i - Len(a)]
  <2>1. r = a \o more
    BY DEF r
  <2>. QED  BY <1>1, <2>1, ConcatProperties
<1>3. DOMAIN r = 1 .. Len(a) + Len(more)
  BY <1>1, <1>2
<1>4. ASSUME NEW i \in DOMAIN q, i # 1 PROVE i - 1 \in DOMAIN r /\ r[i - 1] = q[i]
  <2>1. i \in Nat /\ i - 1 \in 1 .. Len(a) /\ i - 1 \in 1 .. Len(a) + Len(more) /\ (i - 1) + 1 = i
    BY <1>1, <1>4
  <2>2. a[i - 1] = q[i]
    BY <1>1, <2>1
  <2>. QED  BY <1>2, <1>3, <2>1, <2>2
<1>5. ASSUME NEW i \in 1 .. Len(more) PROVE \E j \in DOMAIN r : r[j] = more[i]
  <2>1. /\ Len(a) + i \in 1 .. Len(a) + Len(more) /\ ~(Len(a) + i <= Len(a))
        /\ (Len(a) + i) - Len(a) = i
    BY <1>1
  <2>2. r[Len(a) + i] = more[i]
    BY <1>2, <2>1
  <2>. QED  BY <1>3, <2>1, <2>2
<1>. QED  BY <1>4, <1>5 DEF MovesUp, a, r

(* A handler either drops a capped first entry or leaves its watcher in line.  *)
LEMMA HeadsMir ==
    ASSUME TypeOK, HeadsWatched, MirNext
    PROVE  HeadsWatched'
<1>1. /\ MirFilters /\ events # <<>> /\ config' = config /\ alive' = alive
      /\ CellTypeOK /\ events \in Seq(Events)
  BY MirFilterSteps DEF TypeOK
<1>2. PICK F, S, policy :
        /\ F \in SUBSET Forces /\ QueueEffect(F, S, policy)
        /\ S = Techs \/ \E f \in Forces : F = {f}
        /\ \A f \in alive, t \in Techs : Filters(Head(events), f, t) => f \in F /\ t \in S
  BY <1>1 DEF MirFilters
<1>3. PICK raised \in Seq(Events), lost \in [F -> SUBSET Techs] :
        /\ events' = Tail(events) \o raised
        /\ queue' = [f \in Forces |-> IF f \in F THEN Rest(f, S, lost[f], policy) ELSE queue[f]]
        /\ \A f \in Forces : F = {f} =>
             raised = HeadEvents(f, queue[f], Rest(f, S, lost[f], policy))
  BY <1>2 DEF QueueEffect
<1> DEFINE rest(f) == Rest(f, S, lost[f], policy)
<1>4. /\ \A i \in DOMAIN events : i # 1 => i - 1 \in DOMAIN events' /\ events'[i - 1] = events[i]
      /\ \A i \in 1 .. Len(raised) : \E j \in DOMAIN events' : events'[j] = raised[i]
  <2>1. events \in Seq(Events) /\ events # <<>> /\ raised \in Seq(Events)
    BY <1>1
  <2>2. MovesUp(events, raised, Tail(events) \o raised)
    BY <2>1, EventsMoveUp
  <2>3. MovesUp(events, raised, events')
    BY <1>3, <2>2
  <2>. QED  BY <2>3 DEF MovesUp
<1>5. Head(events) = events[1]
  BY <1>1
<1>. SUFFICES ASSUME NEW f \in alive, CappedHead(f)'
              PROVE  \E j \in DOMAIN events' : Filters(events'[j], f, Head(queue'[f]))
  BY <1>1 DEF HeadsWatched, HeadWatched, Filters, Covers
<1>6. f \in Forces /\ queue[f] \in Seq(Techs) /\ rest(f) \in Seq(Techs)
  BY <1>1, RestQueue DEF CellTypeOK, TypeOK
<1> DEFINE t == Head(queue'[f])
<1>7. queue'[f] = IF f \in F THEN rest(f) ELSE queue[f]
  BY <1>3, <1>6
<1>8. queue'[f] # <<>> /\ t \in Techs
  BY <1>6, <1>7 DEF CappedHead
<1>9. Capped(config.rows[t], cell[f][t].level)
  <2>1. Capped(config.rows[t], cell'[f][t].level)
    BY <1>1 DEF CappedHead
  <2>2. cell'[f][t].level = cell[f][t].level
    <3>. HIDE DEF t
    <3>. QED  BY <1>1, <1>6, <1>8, MirKeepsLevels
  <2>. QED  BY <2>1, <2>2
<1>. HIDE DEF t
<1>10. ASSUME queue[f] # <<>>, Head(queue[f]) = t, f \notin F \/ t \notin S
       PROVE  \E j \in DOMAIN events' : Filters(events'[j], f, t)
  <2>1. PICK i \in DOMAIN events : Filters(events[i], f, t)
    BY <1>9, <1>10 DEF HeadsWatched, HeadWatched, CappedHead
  <2>2. i # 1
    BY <1>2, <1>5, <1>8, <1>10, <2>1
  <2>. QED  BY <1>4, <2>1, <2>2
<1>11. CASE f \notin F
  BY <1>7, <1>8, <1>10, <1>11 DEF t
<1>12. CASE f \in F
  <2>1. queue'[f] = rest(f)
    BY <1>7, <1>12
  <2>2. t \notin S
    BY <1>6, <1>8, <1>9, <2>1, RestQueue DEF t
  <2>3. F = {f}
    BY <1>2, <1>8, <1>12, <2>2
  <2>4. raised = HeadEvents(f, queue[f], rest(f))
    BY <1>3, <1>6, <2>3
  <2>5. CASE Current(queue[f]) = t
    <3>1. queue[f] # <<>> /\ Head(queue[f]) = t
      BY <1>8, <2>5, NilAssumption DEF Current
    <3>. QED  BY <1>10, <2>2, <3>1 DEF t
  <2>6. CASE Current(queue[f]) # t
    <3>1. Current(rest(f)) = t /\ rest(f) # <<>> /\ Head(rest(f)) = t
      BY <1>8, <2>1 DEF Current, t
    <3>2. Subscribed("started")
      BY <1>8, <1>9, NothingCapped DEF Subscribed, NamedKinds
    <3>3. PICK i \in 1 .. Len(raised) : raised[i] = Event("started", f, t)
      BY <1>6, <2>4, <2>6, <3>1, <3>2, HeadAnnounced
    <3>4. PICK j \in DOMAIN events' : events'[j] = Event("started", f, t)
      BY <1>4, <3>3
    <3>5. Filters(events'[j], f, t)
      BY <3>4 DEF Filters, Event
    <3>. QED  BY <3>5 DEF t
  <2>. QED  BY <2>5, <2>6
<1>. QED  BY <1>11, <1>12

(* A first entry whose level and place are those of a quiet game is uncapped.  *)
LEMMA SameHead ==
    ASSUME HeadsWatched, Quiet, config' = config, NEW f \in alive,
           queue[f] # <<>>, queue'[f] # <<>>, Head(queue'[f]) = Head(queue[f]),
           cell'[f][Head(queue[f])].level = cell[f][Head(queue[f])].level
    PROVE  HeadWatched(f)'
<1>1. ~CappedHead(f)
  BY QuietHeads
<1>2. ~CappedHead(f)'
  BY <1>1 DEF CappedHead
<1>. QED  BY <1>2 DEF HeadWatched

(* A queue and levels that stay as they are keep a quiet game's first entries. *)
LEMMA SameQueue ==
    ASSUME HeadsWatched, Quiet, config' = config, NEW f \in alive, queue'[f] = queue[f],
           \A t \in Techs : cell'[f][t].level = cell[f][t].level, queue[f] \in Seq(Techs)
    PROVE  HeadWatched(f)'
<1>1. CASE queue[f] = <<>>
  BY <1>1 DEF HeadWatched, CappedHead
<1>2. CASE queue[f] # <<>>
  <2>1. Head(queue[f]) \in Techs
    BY <1>2
  <2>. QED  BY <1>2, <2>1, SameHead
<1>. QED  BY <1>1, <1>2

(* An event in line that filters all of f watches whatever is first.           *)
LEMMA CoveredHead ==
    ASSUME NEW f, NEW i \in DOMAIN events', Filters(events'[i], f, Head(queue'[f]))
    PROVE  HeadWatched(f)'
  BY DEF HeadWatched, Filters, Covers

(* What is raised is in line.                                                  *)
LEMMA InLine ==
    ASSUME NEW e, NEW a, NEW b, a = <<>> \/ \E x : a = <<x>>, b = <<>> \/ \E x : b = <<x>>
    PROVE  /\ a = <<e>> => 1 \in DOMAIN (a \o b) /\ (a \o b)[1] = e
           /\ b = <<e>> => \E i \in DOMAIN (a \o b) : (a \o b)[i] = e
<1>1. ASSUME a = <<e>> PROVE 1 \in DOMAIN (a \o b) /\ (a \o b)[1] = e
  <2>1. CASE b = <<>>
    BY <1>1, <2>1
  <2>2. ASSUME NEW x, b = <<x>> PROVE 1 \in DOMAIN (a \o b) /\ (a \o b)[1] = e
    BY <1>1, <2>2
  <2>. QED  BY <2>1, <2>2
<1>2. ASSUME b = <<e>> PROVE \E i \in DOMAIN (a \o b) : (a \o b)[i] = e
  <2>1. CASE a = <<>>
    BY <1>2, <2>1
  <2>2. ASSUME NEW x, a = <<x>> PROVE \E i \in DOMAIN (a \o b) : (a \o b)[i] = e
    <3>1. 2 \in DOMAIN (a \o b) /\ (a \o b)[2] = e
      BY <1>2, <2>2
    <3>. QED  BY <3>1
  <2>. QED  BY <2>1, <2>2
<1>. QED  BY <1>1, <1>2

(* A completed technology is announced before a capped one can be first.       *)
LEMMA HeadsCompletes ==
    ASSUME TypeOK, HeadsWatched, Quiet, NEW f \in alive, NEW t \in Techs, Completes(f, t),
           config' = config, alive' = alive
    PROVE  HeadsWatched'
<1> DEFINE q == queue[f]
           rest == IF Current(q) = t THEN Tail(q) ELSE q
           a == Raised("finished", f, t)
           b == IF rest # q /\ rest # <<>> THEN Raised("started", f, Head(rest)) ELSE <<>>
<1>1. /\ f \in Forces /\ q \in Seq(Techs) /\ \A g \in alive : queue[g] \in Seq(Techs)
      /\ queue \in [Forces -> Seq(Techs)] /\ alive \subseteq Forces
      /\ cell \in [Forces -> [Techs -> Cells]]
  BY DEF TypeOK, CellTypeOK
<1>2. /\ cell' = [cell EXCEPT ![f][t].level = @ + 1]
      /\ queue' = [queue EXCEPT ![f] = rest]
      /\ events' = a \o b
  BY DEF Completes
<1>3. /\ queue'[f] = rest /\ \A g \in alive \ {f} : queue'[g] = queue[g]
      /\ \A g \in Forces, u \in Techs : <<g, u>> # <<f, t>> => cell'[g][u] = cell[g][u]
  BY <1>1, <1>2
<1>4. ASSUME NEW g \in alive \ {f} PROVE HeadWatched(g)'
  BY <1>1, <1>3, <1>4, SameQueue
<1>5. HeadWatched(f)'
  <2>1. CASE rest = <<>>
    BY <1>3, <2>1 DEF HeadWatched, CappedHead
  <2>2. CASE rest # <<>> /\ ~CapsActive
    <3>1. Head(rest) \in Techs
      <4>1. q # <<>> => Tail(q) \in Seq(Techs)
        BY <1>1
      <4>2. Current(q) = t => q # <<>>
        BY NilAssumption DEF Current
      <4>3. rest \in Seq(Techs)
        BY <1>1, <4>1, <4>2
      <4>. HIDE DEF rest
      <4>. QED  BY <2>2, <4>3
    <3>2. ~CapsActive'
      BY <2>2 DEF CapsActive
    <3>. HIDE DEF rest
    <3>3. ~CappedHead(f)'
      BY <1>3, <2>2, <3>1, NothingCapped DEF CappedHead
    <3>. QED  BY <3>3 DEF HeadWatched
  <2>3. CASE rest # <<>> /\ CapsActive
    <3>1. Subscribed("finished") /\ Subscribed("started")
      BY <2>3 DEF Subscribed, NamedKinds
    <3>2. /\ a = <<Event("finished", f, t)>>
          /\ rest # q => b = <<Event("started", f, Head(rest))>>
          /\ b = <<>> \/ \E x : b = <<x>>
      BY <2>3, <3>1 DEF Raised
    <3>. HIDE DEF a, b, rest, q
    <3>3. CASE Head(rest) = t
      <4>1. 1 \in DOMAIN events' /\ events'[1] = Event("finished", f, t)
        BY <1>2, <3>2, InLine
      <4>2. Filters(Event("finished", f, t), f, t)
        BY DEF Filters, Covers, Event
      <4>3. Filters(events'[1], f, Head(queue'[f]))
        BY <1>3, <3>3, <4>1, <4>2
      <4>. QED  BY <4>1, <4>3, CoveredHead
    <3>4. CASE Head(rest) # t /\ rest # q
      <4> DEFINE e == Event("started", f, Head(rest))
      <4>0. b = <<e>> /\ (a = <<>> \/ \E x : a = <<x>>)
        BY <3>2, <3>4
      <4>. HIDE DEF e
      <4>4. \E i \in DOMAIN events' : events'[i] = e
        BY <1>2, <4>0, InLine
      <4>1. \E i \in DOMAIN events' : events'[i] = Event("started", f, Head(rest))
        BY <4>4 DEF e
      <4>2. PICK i \in DOMAIN events' : events'[i] = Event("started", f, Head(rest))
        BY <4>1
      <4>3. Filters(events'[i], f, Head(queue'[f]))
        BY <1>3, <4>2 DEF Filters, Event
      <4>. QED  BY <4>2, <4>3, CoveredHead
    <3>5. CASE Head(rest) # t /\ rest = q
      <4>1. q # <<>> /\ Head(q) \in Techs
        BY <1>1, <2>3, <3>5
      <4>2. cell'[f][Head(q)].level = cell[f][Head(q)].level
        BY <1>1, <1>3, <3>5, <4>1
      <4>. QED  BY <1>3, <3>5, <4>1, <4>2, SameHead DEF q
    <3>. QED  BY <3>3, <3>4, <3>5
  <2>. QED  BY <2>1, <2>2, <2>3
<1>. QED  BY <1>4, <1>5 DEF HeadsWatched

(* A step of the World announces every research it puts first or relevels.     *)
LEMMA HeadsWorld ==
    ASSUME TypeOK, HeadsWatched, WorldNext
    PROVE  HeadsWatched'
<1>0. /\ alive \subseteq Forces /\ cell \in [Forces -> [Techs -> Cells]]
      /\ queue \in [Forces -> Seq(Techs)] /\ \A g \in Forces : queue[g] \in Seq(Techs)
      /\ \A g \in Forces, u \in Techs : cell[g][u] \in Cells
  BY DEF TypeOK, CellTypeOK
<1>1. CASE Enqueue
  <2>1. PICK f \in alive, t \in Techs :
          /\ queue' = [queue EXCEPT ![f] = Append(@, t)]
          /\ events' = (IF queue[f] = <<>> THEN Raised("started", f, t) ELSE <<>>)
                         \o Raised("queued", f, t)
    BY <1>1 DEF Enqueue
  <2>2. Quiet /\ config' = config /\ alive' = alive /\ cell' = cell
    BY <1>1 DEF Enqueue
  <2>3. /\ f \in Forces /\ queue'[f] = Append(queue[f], t)
        /\ \A g \in alive \ {f} : queue'[g] = queue[g]
    BY <1>0, <2>1
  <2>4. ASSUME NEW g \in alive \ {f} PROVE HeadWatched(g)'
    BY <1>0, <2>2, <2>3, <2>4, SameQueue
  <2>5. /\ queue'[f] # <<>>
        /\ Head(queue'[f]) = IF queue[f] = <<>> THEN t ELSE Head(queue[f])
    BY <1>0, <2>3, HeadOfAppend
  <2>6. ASSUME queue[f] # <<>> PROVE HeadWatched(f)'
    BY <2>2, <2>5, <2>6, SameHead
  <2>7. ASSUME queue[f] = <<>>, ~CapsActive PROVE HeadWatched(f)'
    <3>1. ~CapsActive'
      BY <2>2, <2>7 DEF CapsActive
    <3>2. ~CappedHead(f)'
      BY <2>2, <2>5, <2>7, NothingCapped DEF CappedHead
    <3>. QED  BY <3>2 DEF HeadWatched
  <2>8. ASSUME queue[f] = <<>>, CapsActive PROVE HeadWatched(f)'
    <3> DEFINE a == Raised("started", f, t)
               b == Raised("queued", f, t)
    <3>1. a = <<Event("started", f, t)>> /\ (b = <<>> \/ \E x : b = <<x>>) /\ events' = a \o b
      BY <2>1, <2>8 DEF Raised, Subscribed, NamedKinds
    <3>. HIDE DEF a, b
    <3>2. 1 \in DOMAIN events' /\ events'[1] = Event("started", f, t)
      BY <3>1, InLine
    <3>3. Filters(events'[1], f, Head(queue'[f]))
      BY <2>5, <2>8, <3>2 DEF Filters, Event
    <3>. QED  BY <3>2, <3>3, CoveredHead
  <2>. QED  BY <2>2, <2>4, <2>6, <2>7, <2>8 DEF HeadsWatched
<1>2. CASE CancelCurrent
  <2>1. PICK f \in alive :
          /\ queue[f] # <<>>
          /\ queue' = [queue EXCEPT ![f] = Tail(@)]
          /\ events' = HeadEvents(f, queue[f], Tail(queue[f]))
    BY <1>2 DEF CancelCurrent
  <2>2. Quiet /\ config' = config /\ alive' = alive /\ cell' = cell
    BY <1>2 DEF CancelCurrent
  <2>3. /\ f \in Forces /\ queue'[f] = Tail(queue[f]) /\ queue[f] \in Seq(Techs)
        /\ \A g \in alive \ {f} : queue'[g] = queue[g]
    BY <1>0, <2>1
  <2>4. ASSUME NEW g \in alive \ {f} PROVE HeadWatched(g)'
    BY <1>0, <2>2, <2>3, <2>4, SameQueue
  <2>5. ASSUME Tail(queue[f]) = <<>> PROVE HeadWatched(f)'
    BY <2>3, <2>5 DEF HeadWatched, CappedHead
  <2>6. ASSUME Tail(queue[f]) # <<>>, Current(queue[f]) = Current(Tail(queue[f]))
        PROVE  HeadWatched(f)'
    BY <2>1, <2>2, <2>3, <2>6, SameHead DEF Current
  <2>7. ASSUME Tail(queue[f]) # <<>>, Current(queue[f]) # Current(Tail(queue[f]))
        PROVE  HeadWatched(f)'
    <3> DEFINE u == Head(Tail(queue[f]))
    <3>1. Tail(queue[f]) \in Seq(Techs) /\ u \in Techs
      BY <2>1, <2>3, <2>7, TailOf
    <3>. HIDE DEF u
    <3>2. CASE CapsActive
      <4>1. Subscribed("started")
        BY <3>2 DEF Subscribed, NamedKinds
      <4>2. PICK i \in 1 .. Len(events') : events'[i] = Event("started", f, u)
        BY <2>1, <2>3, <2>7, <3>1, <4>1, HeadAnnounced DEF u
      <4>3. events' \in Seq(Events)
        BY <2>1, <2>3, <3>1, HeadAnnounced
      <4>4. i \in DOMAIN events'
        BY <4>2, <4>3
      <4>5. Filters(events'[i], f, Head(queue'[f]))
        BY <2>3, <4>2 DEF Filters, Event, u
      <4>. QED  BY <4>4, <4>5, CoveredHead
    <3>3. CASE ~CapsActive
      <4>1. ~CappedHead(f)'
        BY <2>2, <2>3, <3>1, <3>3, NothingCapped DEF CappedHead, u
      <4>. QED  BY <4>1 DEF HeadWatched
    <3>. QED  BY <3>2, <3>3
  <2>. QED  BY <2>2, <2>4, <2>5, <2>6, <2>7 DEF HeadsWatched
<1>3. CASE Research \/ ResetEffects \/ ChangeSetting
  <2>1. Quiet /\ config' = config /\ alive' = alive /\ cell' = cell /\ queue' = queue
    BY <1>3 DEF Research, ResetEffects, ChangeSetting
  <2>. QED  BY <1>0, <2>1, SameQueue DEF HeadsWatched
<1>4. CASE Finish \/ Grant
  <2>1. PICK f \in alive, t \in Techs : Completes(f, t)
    BY <1>4 DEF Finish, Grant
  <2>2. Quiet /\ config' = config /\ alive' = alive
    BY <1>4 DEF Finish, Grant
  <2>. QED  BY <2>1, <2>2, HeadsCompletes
<1>5. CASE Unresearch
  <2>1. PICK f \in alive, t \in Techs :
          /\ cell' = [cell EXCEPT ![f][t].level = @ - 1]
          /\ events' = Raised("reversed", f, t)
    BY <1>5 DEF Unresearch
  <2>2. Quiet /\ config' = config /\ alive' = alive /\ queue' = queue
    BY <1>5 DEF Unresearch
  <2>3. \A g \in Forces, u \in Techs : <<g, u>> # <<f, t>> => cell'[g][u] = cell[g][u]
    BY <1>0, <2>1
  <2>4. ASSUME NEW g \in alive PROVE HeadWatched(g)'
    <3>1. CASE queue[g] = <<>>
      BY <2>2, <3>1 DEF HeadWatched, CappedHead
    <3>2. CASE queue[g] # <<>> /\ <<g, Head(queue[g])>> # <<f, t>>
      <4>1. Head(queue[g]) \in Techs
        BY <1>0, <3>2
      <4>. QED  BY <1>0, <2>2, <2>3, <3>2, <4>1, SameHead
    <3>3. CASE queue[g] # <<>> /\ g = f /\ Head(queue[g]) = t /\ CapsActive
      <4>1. events' = <<Event("reversed", f, t)>>
        BY <2>1, <3>3 DEF Raised, Subscribed, NamedKinds
      <4>2. 1 \in DOMAIN events' /\ events'[1] = Event("reversed", f, t)
        BY <4>1
      <4>3. Filters(events'[1], f, Head(queue'[f]))
        BY <2>2, <3>3, <4>2 DEF Filters, Covers, Event
      <4>. QED  BY <3>3, <4>2, <4>3, CoveredHead
    <3>4. CASE queue[g] # <<>> /\ g = f /\ Head(queue[g]) = t /\ ~CapsActive
      <4>1. ~CappedHead(g)'
        BY <2>2, <3>4, NothingCapped DEF CappedHead
      <4>. QED  BY <4>1 DEF HeadWatched
    <3>. QED  BY <3>1, <3>2, <3>3, <3>4
  <2>. QED  BY <2>2, <2>4 DEF HeadsWatched
<1>6. CASE MergeForces
  <2>1. PICK s \in alive, d \in alive :
          /\ s # d
          /\ alive' = alive \ {s}
          /\ cell' = [cell EXCEPT ![d] = [t \in Techs |->
                       [cell[d][t] EXCEPT !.level = IF cell[s][t].level > @
                                                    THEN cell[s][t].level ELSE @]]]
          /\ queue' = [queue EXCEPT ![s] = <<>>]
          /\ events' = <<[Event("merged", d, Nil) EXCEPT !.source = s]>>
    BY <1>6 DEF MergeForces
  <2>2. Quiet /\ config' = config
    BY <1>6 DEF MergeForces
  <2>3. 1 \in DOMAIN events' /\ \A t : Filters(events'[1], d, t)
    BY <2>1 DEF Filters, Covers, Event
  <2>4. HeadWatched(d)'
    BY <2>3, CoveredHead
  <2>5. ASSUME NEW g \in alive' \ {d} PROVE HeadWatched(g)'
    <3>1. g \in alive /\ queue'[g] = queue[g] /\ cell'[g] = cell[g]
      BY <1>0, <2>1, <2>5
    <3>. QED  BY <1>0, <2>2, <3>1, SameQueue
  <2>. QED  BY <2>4, <2>5 DEF HeadsWatched
<1>7. CASE LoadConfiguration
  <2>1. 1 \in DOMAIN events' /\ \A f, t : Filters(events'[1], f, t)
    BY <1>7 DEF LoadConfiguration, Filters, Covers, Event
  <2>. QED  BY <2>1, CoveredHead DEF HeadsWatched
<1>8. CASE ForeignEnabled \/ ForeignVisible \/ DiscoveryTreeReveals
  <2>1. config' = config /\ alive' = alive /\ events' = events /\ queue' = queue
    BY <1>8 DEF ForeignEnabled, ForeignVisible, DiscoveryTreeReveals
  <2>2. \A f \in Forces, t \in Techs : cell'[f][t].level = cell[f][t].level
    <3>1. CASE ForeignEnabled
      <4>1. PICK f \in alive, t \in Techs : cell' = [cell EXCEPT ![f][t].enabled = ~@]
        BY <3>1 DEF ForeignEnabled
      <4>. QED  BY <1>0, <4>1 DEF Cells
    <3>2. CASE ForeignVisible
      <4>1. PICK f \in alive, t \in Techs : cell' = [cell EXCEPT ![f][t].visible = ~@]
        BY <3>2 DEF ForeignVisible
      <4>. QED  BY <1>0, <4>1 DEF Cells
    <3>3. CASE DiscoveryTreeReveals
      <4>1. PICK shown \in [Forces -> SUBSET Techs] :
              cell' = [f \in Forces |-> [t \in Techs |->
                IF f \in alive /\ Head(events).force \in {f, Nil}
                THEN [cell[f][t] EXCEPT !.enabled = t \in shown[f]] ELSE cell[f][t]]]
        BY <3>3 DEF DiscoveryTreeReveals
      <4>2. ASSUME NEW x \in Cells, NEW b PROVE [x EXCEPT !.enabled = b].level = x.level
        BY DEF Cells
      <4>. QED  BY <1>0, <4>1, <4>2
    <3>. QED  BY <1>8, <3>1, <3>2, <3>3
  <2>3. \A f \in alive : queue[f] # <<>> => f \in Forces /\ Head(queue[f]) \in Techs
    BY <1>0
  <2>4. ASSUME NEW f \in alive PROVE HeadWatched(f)'
    <3>1. CappedHead(f)' => CappedHead(f)
      BY <2>1, <2>2, <2>3 DEF CappedHead
    <3>2. HeadWatched(f)
      BY DEF HeadsWatched
    <3>. QED  BY <2>1, <3>1, <3>2 DEF HeadWatched, Filters, Covers
  <2>. QED  BY <2>1, <2>4 DEF HeadsWatched
<1>. QED
  BY <1>1, <1>2, <1>3, <1>4, <1>5, <1>6, <1>7, <1>8 DEF WorldNext

(* A force that starts over is announced.                                      *)
LEMMA HeadsBoundary ==
    ASSUME TypeOK, HeadsWatched, NEW f \in Forces, Boundary(f)
    PROVE  HeadsWatched'
<1>0. queue \in [Forces -> Seq(Techs)] /\ alive \subseteq Forces /\ cell \in [Forces -> [Techs -> Cells]]
  BY DEF TypeOK, CellTypeOK
<1>1. /\ Quiet /\ config' = config /\ alive' \in {alive, alive \cup {f}}
      /\ cell' = [cell EXCEPT ![f] = NativeDefault(f)]
      /\ queue' = queue \/ queue' = [queue EXCEPT ![f] = <<>>]
      /\ \E k \in {"created", "reset"} : events' = <<Event(k, f, Nil)>>
  BY DEF Boundary, ResetForce, CreateForce
<1>2. 1 \in DOMAIN events' /\ \A t : Filters(events'[1], f, t)
  BY <1>1 DEF Filters, Covers, Event
<1>3. HeadWatched(f)'
  BY <1>2, CoveredHead
<1>4. ASSUME NEW g \in alive' \ {f} PROVE HeadWatched(g)'
  <2>1. g \in alive /\ queue'[g] = queue[g] /\ cell'[g] = cell[g] /\ queue[g] \in Seq(Techs)
    BY <1>0, <1>1, <1>4
  <2>. QED  BY <1>1, <2>1, SameQueue
<1>. QED  BY <1>3, <1>4 DEF HeadsWatched

LEMMA HeadsInvariant ==
    /\ Init => HeadsWatched
    /\ TypeOK /\ HeadsWatched /\ [Next]_vars => HeadsWatched'
<1>1. ASSUME Init PROVE HeadsWatched
  <2>1. \A f \in alive : queue[f] = <<>>
    BY <1>1 DEF Init
  <2>. QED  BY <2>1 DEF HeadsWatched, HeadWatched, CappedHead
<1>2. ASSUME TypeOK, HeadsWatched, [Next]_vars PROVE HeadsWatched'
  <2>1. CASE MirNext
    BY <1>2, <2>1, HeadsMir
  <2>2. CASE WorldNext
    BY <1>2, <2>2, HeadsWorld
  <2>3. CASE \E f \in Forces : Boundary(f)
    BY <1>2, <2>3, HeadsBoundary
  <2>4. CASE UNCHANGED vars
    BY <1>2, <2>4 DEF HeadsWatched, HeadWatched, CappedHead, Filters, Covers, vars
  <2>. QED  BY <1>2, <2>1, <2>2, <2>3, <2>4 DEF Next
<1>. QED  BY <1>1, <1>2

(* The player's research never completes a level above the cap: a research     *)
(* first in line above its cap waits on an event, and the game on every event. *)
THEOREM NoOverCapIsCompleted == Spec => NoOverCapCompletion
<1>1. ASSUME TypeOK, HeadsWatched, Finish, NEW f \in alive, NEW t \in Techs,
             cell'[f][t].level > cell[f][t].level
      PROVE  ~Capped(config.rows[t], cell[f][t].level)
  <2>1. PICK g \in alive, u \in Techs : Current(queue[g]) = u /\ Completes(g, u)
    BY <1>1 DEF Finish
  <2>2. /\ cell \in [Forces -> [Techs -> Cells]] /\ f \in Forces /\ cell[f][t] \in Cells
        /\ cell' = [cell EXCEPT ![g][u].level = @ + 1]
    BY <1>1, <2>1 DEF TypeOK, CellTypeOK, Completes
  <2>3. cell[f][t].level \in Nat
    BY <2>2, BoundsAssumption DEF Cells, Levels
  <2>4. <<f, t>> = <<g, u>>
    BY <1>1, <2>2, <2>3
  <2>5. queue[g] # <<>> /\ Head(queue[g]) = u
    BY <2>1, NilAssumption DEF Current
  <2>6. ~CappedHead(g)
    BY <1>1, QuietHeads DEF Finish
  <2>. QED  BY <2>4, <2>5, <2>6 DEF CappedHead
<1>2. TypeOK /\ HeadsWatched /\ [Next]_vars =>
        [Finish => \A f \in alive, t \in Techs :
           cell'[f][t].level > cell[f][t].level => ~Capped(config.rows[t], cell[f][t].level)]_vars
  BY <1>1
<1>. QED  BY <1>2, TypeInvariant, HeadsInvariant, PTL DEF Spec, NoOverCapCompletion

(* MIR loses the progress of no research that stays current or becomes         *)
(* unavailable, and of no other but one above its cap, or not enabled before   *)
(* and after, whatever the setter leaves out of a queue.                       *)
THEOREM WorkIsKept == Spec => WorkKept
<1> DEFINE Lawful(f, t) ==
             /\ ~Unavailable(t) /\ t # Current(queue'[f])
             /\ \/ Capped(config.rows[t], cell[f][t].level)
                \/ ~(cell[f][t].enabled /\ cell'[f][t].enabled)
<1>1. ASSUME TypeOK, MirNext, NEW f \in Forces, NEW t \in Techs, work'[f][t] < work[f][t]
      PROVE  Lawful(f, t)
  <2>1. PICK F, S, policy :
          F \in SUBSET Forces /\ QueueEffect(F, S, policy) /\ (policy => Retires(F))
    BY <1>1, MirFilterSteps DEF MirFilters
  <2>2. PICK drops \in BOOLEAN, lost \in [F -> SUBSET Techs] :
          /\ queue' = [g \in Forces |-> IF g \in F THEN Rest(g, S, lost[g], policy) ELSE queue[g]]
          /\ work' = [g \in Forces |-> IF g \notin F THEN work[g]
              ELSE WorkAfter(WorkAfter(work[g], queue[g], Open(g), drops),
                             Open(g), Rest(g, S, lost[g], policy), drops)]
    BY <2>1 DEF QueueEffect
  <2> DEFINE r == Rest(f, S, lost[f], policy)
             w == work[f]
             v == WorkAfter(w, queue[f], Open(f), drops)
             z == WorkAfter(v, Open(f), r, drops)
  <2>3. w \in [Techs -> 0 .. 1]
    BY <1>1 DEF TypeOK
  <2>4. /\ work'[f] = IF f \in F THEN z ELSE w
        /\ f \in F => queue'[f] = r
    BY <2>2
  <2>5. v \in [Techs -> 0 .. 1]
    BY <2>3, WorkAfterType
  <2>6. v[t] # w[t] => t = Current(queue[f]) /\ Current(Open(f)) # t /\ ~Unavailable(t)
    BY <2>3, WorkAfterType
  <2>7. z[t] # v[t] => t = Current(Open(f)) /\ Current(r) # t /\ ~Unavailable(t)
    <3>. HIDE DEF v, r
    <3>. QED  BY <2>5, WorkAfterType
  <2>8. t = Current(Open(f)) /\ Current(r) # t =>
          \/ Capped(config.rows[t], cell[f][t].level)
          \/ ~cell[f][t].enabled \/ (policy /\ Retained(config.rows[t]))
    BY <1>1, RestQueue
  <2>. HIDE DEF w, v, z, r
  <2>9. z[t] # w[t] /\ f \in F
    <3>1. work'[f][t] < w[t] /\ w[t] \in 0 .. 1
      BY <1>1, <2>3 DEF w
    <3>. QED  BY <2>4, <3>1
  <2>10. v[t] = w[t]
    <3>1. SUFFICES ASSUME v[t] # w[t] PROVE FALSE
      OBVIOUS
    <3>2. queue[f] # <<>> /\ Head(queue[f]) = t
      BY <2>6, <3>1, NilAssumption DEF Current
    <3>3. Open(f) # <<>> /\ Head(Open(f)) = t
      BY <1>1, <2>6, <3>1, <3>2, OpenQueue
    <3>. QED  BY <2>6, <3>1, <3>3 DEF Current
  <2>11. policy /\ Retained(config.rows[t]) => ~cell'[f][t].enabled
    BY <2>1, <2>9 DEF Retires
  <2>. QED  BY <2>4, <2>7, <2>8, <2>9, <2>10, <2>11
<1>2. TypeOK /\ [Next]_vars =>
        [MirNext => \A f \in Forces, t \in Techs : work'[f][t] < work[f][t] => Lawful(f, t)]_vars
  BY <1>1
<1>. QED  BY <1>2, TypeInvariant, PTL DEF Spec, WorkKept

(* Whatever events wait, a handler takes one and adds others only for a queue  *)
(* that got shorter, and no queue grows until all are handled: the events that *)
(* MIR's own queue rewrites raise cannot keep each other alive.                *)
THEOREM EventsAreFinite == Spec => EventsRunOut
<1>1. ASSUME TypeOK, MirNext
      PROVE  /\ \A f \in Forces : Len(queue'[f]) <= Len(queue[f])
             /\ events' = Tail(events) \/ \E f \in Forces : Len(queue'[f]) < Len(queue[f])
  <2>1. PICK F, S, policy : F \in SUBSET Forces /\ QueueEffect(F, S, policy)
    BY <1>1, MirFilterSteps DEF MirFilters
  <2>2. PICK raised \in Seq(Events), lost \in [F -> SUBSET Techs] :
          /\ events' = Tail(events) \o raised
          /\ queue' = [f \in Forces |-> IF f \in F THEN Rest(f, S, lost[f], policy) ELSE queue[f]]
          /\ (\A f \in F : Current(queue[f]) = Current(Rest(f, S, lost[f], policy)))
               => raised = <<>>
    BY <2>1 DEF QueueEffect
  <2> DEFINE rest(f) == Rest(f, S, lost[f], policy)
  <2>3. ASSUME NEW f \in Forces
        PROVE  /\ Len(queue'[f]) <= Len(queue[f])
               /\ f \in F => queue'[f] = rest(f)
               /\ \/ Current(rest(f)) = Current(queue[f])
                  \/ Len(rest(f)) < Len(queue[f])
    <3>1. queue[f] \in Seq(Techs) /\ Len(queue[f]) \in Nat
      BY <1>1 DEF TypeOK
    <3>2. /\ Len(rest(f)) <= Len(queue[f])
          /\ \/ Current(rest(f)) = Current(queue[f])
             \/ Len(rest(f)) < Len(queue[f])
      BY <1>1, RestQueue
    <3>3. queue'[f] = IF f \in F THEN rest(f) ELSE queue[f]
      BY <2>2
    <3>. QED  BY <3>1, <3>2, <3>3
  <2>4. CASE raised = <<>>
    <3>1. events \in Seq(Events)
      BY <1>1 DEF TypeOK
    <3>2. events # <<>>
      BY <1>1, MirFilterSteps
    <3>3. Tail(events) \in Seq(Events)
      BY <3>1, <3>2
    <3>. QED  BY <2>2, <2>3, <2>4, <3>3
  <2>5. CASE raised # <<>>
    <3>1. PICK f \in F : Current(queue[f]) # Current(rest(f))
      BY <2>2, <2>5
    <3>. QED  BY <2>1, <2>3, <3>1
  <2>. QED  BY <2>4, <2>5
<1>2. ASSUME TypeOK, [Next]_vars, ~Quiet, ~MirNext
      PROVE  UNCHANGED <<queue, events>>
  <2>1. CASE WorldNext
    BY <1>2, <2>1 DEF WorldNext, Enqueue, CancelCurrent, Research, Finish, Grant, Unresearch,
         ResetEffects, ChangeSetting, MergeForces, LoadConfiguration, ForeignEnabled,
         ForeignVisible, DiscoveryTreeReveals
  <2>2. CASE \E f \in Forces : Boundary(f)
    BY <1>2, <2>2 DEF Boundary, ResetForce, CreateForce
  <2>3. CASE UNCHANGED vars
    BY <2>3 DEF vars
  <2>. QED  BY <1>2, <2>1, <2>2, <2>3 DEF Next
<1>3. TypeOK /\ [Next]_vars =>
        [~Quiet =>
           /\ \A f \in Forces : Len(queue'[f]) <= Len(queue[f])
           /\ IF MirNext
              THEN events' = Tail(events) \/ \E f \in Forces : Len(queue'[f]) < Len(queue[f])
              ELSE UNCHANGED <<queue, events>>]_vars
  <2>. SUFFICES ASSUME TypeOK, [Next]_vars, ~Quiet
                PROVE  /\ \A f \in Forces : Len(queue'[f]) <= Len(queue[f])
                       /\ IF MirNext
                          THEN \/ events' = Tail(events)
                               \/ \E f \in Forces : Len(queue'[f]) < Len(queue[f])
                          ELSE UNCHANGED <<queue, events>>
    OBVIOUS
  <2>1. CASE MirNext
    BY <1>1, <2>1
  <2>2. CASE ~MirNext
    <3>1. UNCHANGED <<queue, events>>
      BY <1>2, <2>2
    <3>2. \A f \in Forces : Len(queue[f]) \in Nat
      BY DEF TypeOK
    <3>. QED  BY <2>2, <3>1, <3>2
  <2>. QED  BY <2>1, <2>2
<1>. QED  BY <1>3, TypeInvariant, PTL DEF Spec, EventsRunOut
=============================================================================
