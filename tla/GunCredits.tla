----------------------------- MODULE GunCredits -----------------------------
(* Paid gun-speed levels across changes of the public technology's effects:    *)
(* runtime/native_gun_credits.lua and the event subscriptions of               *)
(* runtime/bootstrap.lua that serve it.                                        *)
(*                                                                             *)
(* One public technology pays every included category per level.  A startup    *)
(* setting or another mod may take categories out and put them back.  Two      *)
(* hidden holder technologies per category, one adding and one subtracting     *)
(* the category's effect, keep what was paid; the ledger in storage remembers  *)
(* the mask that earned it.  A refusal is a Lua error: the game stops and the  *)
(* player is left with the last save.                                          *)
EXTENDS Integers, FiniteSets

CONSTANTS
    Forces,         \* force indexes
    Categories,     \* gun-speed categories of the public technology
    Nil,            \* Lua's nil
    Limit,          \* levels a holder can represent, MAX
    MaxCompleted,   \* bound on paid levels
    MaxQueue        \* bound on the entries of the public technology in a queue

(* What is loaded: MIR is added to a game; the first load of a save of a       *)
(* published edition, which paid every category; or of any other.              *)
Origins == {"new", "published", "unknown"}

ASSUME BoundsAssumption == Limit \in Nat /\ MaxCompleted \in Nat /\ MaxQueue \in Nat
ASSUME CategoriesAssumption == Categories # {}

(* Native counts of one force: levels of the public technology, and of the     *)
(* holders of each category.                                                   *)
Natives == [completed: Nat, positive: [Categories -> Int], negative: [Categories -> Int]]

(* forces[force.index]                                                         *)
Records == [included: SUBSET Categories, payable: SUBSET Categories,
            completed: Int, pending: Nat,
            positive: [Categories -> Int], negative: [Categories -> Int]]
ASSUME NilAssumption == Nil \notin Records

VARIABLES
    alive,          \* forces that exist
    mask,           \* categories the loaded public prototype pays
    native,         \* native[f]
    queue,          \* entries of the public technology in the force's queue
    ledger,         \* storage.mir_native_gun_credits.forces, Nil where absent
    pendingActive,  \* pending_active, lost when the game is closed
    bound,          \* the research events are subscribed for pending work
    event,          \* the raised event MIR has not handled yet, or Nil
    refused         \* a refusal stopped the game

gvars == <<alive, mask, native, queue, ledger, pendingActive, bound, event, refused>>

NoEvent == [kind |-> "none", force |-> Nil, source |-> Nil, count |-> 0, published |-> FALSE]
Raised(k, f) == [NoEvent EXCEPT !.kind = k, !.force = f]

(* The part of the types the theorems rest on.                                 *)
NativeTypeOK ==
    /\ alive \subseteq Forces /\ mask \subseteq Categories
    /\ native \in [Forces -> Natives]
    /\ queue \in [Forces -> Nat]
    /\ ledger \in [Forces -> Records \cup {Nil}]

(* Ledger rows, holders and flags have their types; a holder level never falls *)
(* below what the engine can store.                                            *)
GunTypeOK ==
    /\ NativeTypeOK
    /\ \A f \in Forces, c \in Categories :
         native[f].positive[c] \in 0 .. Limit /\ native[f].negative[c] \in 0 .. Limit
    /\ pendingActive \in BOOLEAN /\ bound \in BOOLEAN /\ refused \in BOOLEAN

Quiet == event = NoEvent
Smaller(a, b) == IF a < b THEN a ELSE b
Storable(n) == n \in 0 .. Limit - 1
-----------------------------------------------------------------------------
(* plan_force, for a force with native state n and ledger row prior            *)

(* The player has put research into the technology; begun: saved progress.     *)
Invested(f, begun) == native[f].completed > 0 \/ queue[f] > 0 \/ begun

(* The mask under which the completed levels were paid.                        *)
Previous(f, prior, published, fresh, begun) ==
    IF prior # Nil THEN prior.included
    ELSE IF ~fresh /\ Invested(f, begun) /\ published THEN Categories
    ELSE mask

(* Mutant of Earned: retired credit is not counted on re-admission.            *)
EarnedAfresh(f, c, previous) ==
    IF c \in previous THEN native[f].completed - native[f].negative[c] ELSE 0

Earned(f, c, previous) ==
    native[f].positive[c]
      + IF c \in previous THEN native[f].completed - native[f].negative[c] ELSE 0

(* Work still queued when the last category retires keeps its mask; a later    *)
(* configuration can only find less of it.                                     *)
Retires(prior, previous) == prior = Nil \/ previous # {}

PendingWork(f, prior, previous) ==
    IF mask # {} THEN 0
    ELSE IF Retires(prior, previous) THEN queue[f]
    ELSE Smaller(prior.pending, queue[f])

Payable(f, prior, previous) ==
    IF PendingWork(f, prior, previous) = 0 THEN mask
    ELSE IF Retires(prior, previous) THEN previous ELSE prior.payable

Plan(f, prior, published, fresh, begun) ==
    LET previous  == Previous(f, prior, published, fresh, begun)
        earned(c) == Earned(f, c, previous)
    IN  [included |-> mask, completed |-> native[f].completed,
         pending  |-> PendingWork(f, prior, previous),
         payable  |-> Payable(f, prior, previous),
         positive |-> [c \in Categories |-> IF c \in mask THEN 0 ELSE earned(c)],
         negative |-> [c \in Categories |-> IF c \in mask THEN native[f].completed - earned(c)
                                            ELSE 0]]

(* The refusals of observe and plan_force.                                     *)
Refuses(f, prior, published, fresh, begun) ==
    LET n == native[f]
        p == Plan(f, prior, published, fresh, begun)
    IN  \/ \E c \in Categories : ~Storable(n.positive[c]) \/ ~Storable(n.negative[c])
        \/ ~Storable(n.completed)
        \/ prior # Nil /\ (prior.positive # n.positive \/ prior.negative # n.negative)
        \/ prior # Nil /\ prior.included = {} /\ prior.pending > 0 /\ prior.completed # n.completed
        \/ prior = Nil /\ \E c \in Categories : n.positive[c] # 0 \/ n.negative[c] # 0
        \/ prior = Nil /\ ~fresh /\ Invested(f, begun) /\ ~published /\ mask # Categories
        \/ \E c \in Categories : ~Storable(p.positive[c]) \/ ~Storable(p.negative[c])
-----------------------------------------------------------------------------
(* Handlers                                                                    *)

PendingIn(rows) == \E f \in Forces : rows[f] # Nil /\ rows[f].pending > 0

(* refresh_pending, and the subscription bootstrap keeps in step with it       *)
Refreshed(rows) == pendingActive' = PendingIn(rows) /\ bound' = PendingIn(rows)

Refused ==
    /\ refused' = TRUE
    /\ UNCHANGED <<alive, mask, native, queue, ledger, pendingActive, bound>>

(* preflight and apply for the forces F; the rows of the forces gone are       *)
(* dropped.  Every force is planned before any holder is written.              *)
Reconcile(F, gone, published, fresh) ==
    \E begun \in BOOLEAN :
      LET prior(f)  == IF fresh THEN Nil ELSE ledger[f]
          record(f) == Plan(f, prior(f), published, fresh, begun)
          rows      == [f \in Forces |-> IF f \in F THEN record(f)
                                         ELSE IF f \in gone THEN Nil ELSE ledger[f]]
      IN  IF \E f \in F : Refuses(f, prior(f), published, fresh, begun) THEN Refused
          ELSE /\ native' = [f \in Forces |-> IF f \notin F THEN native[f]
                     ELSE [native[f] EXCEPT !.positive = record(f).positive,
                                            !.negative = record(f).negative]]
               /\ ledger' = rows
               /\ Refreshed(rows)
               /\ UNCHANGED <<alive, mask, queue, refused>>

Takes(k) == ~refused /\ event.kind = k /\ event' = NoEvent

OnInit == Takes("init") /\ Reconcile(alive, {}, FALSE, TRUE)

OnConfigurationChanged ==
    Takes("configured") /\ Reconcile(alive, {}, event.published, FALSE)

(* on_force_created and on_force_reset                                         *)
OnForceCreated == Takes("created") /\ Reconcile({event.force}, {}, FALSE, TRUE)

OnForcesMerged ==
    Takes("merged") /\ Reconcile({event.force}, {event.source}, FALSE, FALSE)

(* Mutant of Credited: the row keeps the old count of completed levels.        *)
CreditedStale(row) ==
    [row EXCEPT !.positive = [c \in Categories |-> IF c \in row.payable THEN @[c] + 1 ELSE @[c]],
                !.pending = @ - 1]

(* The row after one credited completion.                                      *)
Credited(row) ==
    [row EXCEPT !.positive = [c \in Categories |-> IF c \in row.payable THEN @[c] + 1 ELSE @[c]],
                !.completed = @ + 1, !.pending = @ - 1,
                !.payable = IF row.pending = 1 THEN row.included ELSE @]

Unexpected(f) ==
    LET row == ledger[f]
        n   == native[f]
    IN  \/ mask # {} \/ n.completed # row.completed + 1 \/ ~Storable(n.completed)
        \/ n.positive # row.positive \/ n.negative # row.negative
        \/ \E c \in row.payable : ~Storable(row.positive[c] + 1)

OnResearchFinished ==
    /\ Takes("finished")
    /\ LET f == event.force
       IN  IF ~pendingActive \/ ledger[f] = Nil \/ ledger[f].pending = 0
           THEN UNCHANGED <<alive, mask, native, queue, ledger, pendingActive, bound, refused>>
           ELSE IF Unexpected(f) THEN Refused
           ELSE /\ ledger' = [ledger EXCEPT ![f] = Credited(@)]
                /\ native' = [native EXCEPT ![f].positive = Credited(ledger[f]).positive]
                /\ Refreshed(ledger')
                /\ UNCHANGED <<alive, mask, queue, refused>>

(* Mutants of Withdrawn: a cancellation counts once whatever its size, and one  *)
(* of more than the row waits for is not clamped.                              *)
WithdrawnUnclamped(row, n) ==
    [row EXCEPT !.pending = @ - n, !.payable = IF row.pending = n THEN row.included ELSE @]
WithdrawnOnce(row, n) ==
    [row EXCEPT !.pending = IF @ > 0 THEN @ - 1 ELSE 0,
                !.payable = IF row.pending <= 1 THEN row.included ELSE @]

Withdrawn(row, n) ==
    [row EXCEPT !.pending = IF @ > n THEN @ - n ELSE 0,
                !.payable = IF row.pending <= n THEN row.included ELSE @]

OnResearchCancelled ==
    /\ Takes("cancelled")
    /\ LET f == event.force
       IN  IF ~pendingActive \/ ledger[f] = Nil
           THEN UNCHANGED <<ledger, pendingActive, bound>>
           ELSE /\ ledger' = [ledger EXCEPT ![f] = Withdrawn(@, event.count)]
                /\ Refreshed(ledger')
    /\ UNCHANGED <<alive, mask, native, queue, refused>>

GunNext ==
    \/ OnInit \/ OnConfigurationChanged \/ OnForceCreated \/ OnForcesMerged
    \/ OnResearchFinished \/ OnResearchCancelled
-----------------------------------------------------------------------------
(* The engine, players and scripts                                             *)

Heard(e) == event' = IF bound THEN e ELSE NoEvent

(* The technology can be queued while a category keeps it public.              *)
Enqueue(f) ==
    /\ ~refused /\ Quiet /\ f \in alive /\ mask # {} /\ queue[f] < MaxQueue
    /\ queue' = [queue EXCEPT ![f] = @ + 1]
    /\ UNCHANGED <<alive, mask, native, ledger, pendingActive, bound, event, refused>>

(* Another level, of the queue or, by a script, without it.                    *)
Complete(f, queued) ==
    /\ ~refused /\ Quiet /\ f \in alive /\ native[f].completed < MaxCompleted
    /\ queued => queue[f] > 0
    /\ native' = [native EXCEPT ![f].completed = @ + 1]
    /\ queue' = [queue EXCEPT ![f] = IF queued THEN @ - 1 ELSE @]
    /\ Heard(Raised("finished", f))
    /\ UNCHANGED <<alive, mask, ledger, pendingActive, bound, refused>>

(* The reversal of a level by a script, which this component does not observe. *)
Unresearch(f) ==
    /\ ~refused /\ Quiet /\ f \in alive /\ native[f].completed > 0
    /\ native' = [native EXCEPT ![f].completed = @ - 1]
    /\ UNCHANGED <<alive, mask, queue, ledger, pendingActive, bound, event, refused>>

(* on_research_cancelled carries the cancelled technologies and their counts.  *)
Cancel(f, n) ==
    /\ ~refused /\ Quiet /\ f \in alive /\ n <= queue[f]
    /\ queue' = [queue EXCEPT ![f] = @ - n]
    /\ Heard([Raised("cancelled", f) EXCEPT !.count = n])
    /\ UNCHANGED <<alive, mask, native, ledger, pendingActive, bound, refused>>

Unpaid == [completed |-> 0, positive |-> [c \in Categories |-> 0],
           negative |-> [c \in Categories |-> 0]]

(* A force is reset, or created at a free index.                               *)
Begin(f) ==
    /\ ~refused /\ Quiet
    /\ alive' = alive \cup {f}
    /\ native' = [native EXCEPT ![f] = Unpaid]
    /\ queue' = [queue EXCEPT ![f] = 0]
    /\ event' = Raised("created", f)
    /\ UNCHANGED <<mask, ledger, pendingActive, bound, refused>>

(* The destination keeps its own technologies.                                 *)
Merge(s, d) ==
    /\ ~refused /\ Quiet /\ s \in alive /\ d \in alive \ {s}
    /\ alive' = alive \ {s}
    /\ native' = [native EXCEPT ![s] = Unpaid]
    /\ queue' = [queue EXCEPT ![s] = 0]
    /\ event' = [Raised("merged", d) EXCEPT !.source = s]
    /\ UNCHANGED <<mask, ledger, pendingActive, bound, refused>>

(* Mutant of Load: on_load does not rebuild the flag.                          *)
LoadUnaware(included) ==
    /\ ~refused /\ Quiet
    /\ mask' = included
    /\ pendingActive' = FALSE /\ bound' = FALSE
    /\ event' = Raised("configured", Nil) \/ (included = mask /\ event' = NoEvent)
    /\ UNCHANGED <<alive, native, queue, ledger, refused>>

(* The save is closed and loaded, perhaps with other inputs; on_load rebuilds  *)
(* the flag and the subscription from the ledger.                              *)
Load(included) ==
    /\ ~refused /\ Quiet
    /\ mask' = included
    /\ Refreshed(ledger)
    /\ event' = Raised("configured", Nil) \/ (included = mask /\ event' = NoEvent)
    /\ UNCHANGED <<alive, native, queue, ledger, refused>>
-----------------------------------------------------------------------------
Init ==
    /\ \E o \in Origins :
         event = IF o = "new" THEN Raised("init", Nil)
                 ELSE [Raised("configured", Nil) EXCEPT !.published = (o = "published")]
    /\ alive \in (SUBSET Forces) \ {{}}
    /\ mask \in SUBSET Categories
    /\ native \in [Forces -> {[Unpaid EXCEPT !.completed = n] : n \in 0 .. MaxCompleted}]
    /\ queue \in [Forces -> 0 .. MaxQueue]
    /\ \A f \in Forces : (f \notin alive \/ event.kind = "init")
                           => native[f] = Unpaid /\ queue[f] = 0
    /\ ledger = [f \in Forces |-> Nil]
    /\ pendingActive = FALSE /\ bound = FALSE /\ refused = FALSE

EngineNext ==
    \/ \E f \in Forces : \/ Enqueue(f) \/ Unresearch(f) \/ Begin(f)
                         \/ \E q \in BOOLEAN : Complete(f, q)
                         \/ \E n \in 1 .. MaxQueue : Cancel(f, n)
                         \/ \E s \in Forces : Merge(s, f)
    \/ \E included \in SUBSET Categories : Load(included)

Next == GunNext \/ EngineNext

Spec == Init /\ [][Next]_gvars
-----------------------------------------------------------------------------
(* While a ledger row waits for queued work the research events are            *)
(* subscribed, through saves, loads, merges and configuration changes, and     *)
(* they are released when no row waits (pending_active, credit_pending).       *)
PendingHeard ==
    Quiet /\ ~refused => bound = PendingIn(ledger) /\ pendingActive = bound

(* A row never waits for more work than the force still has queued: nothing    *)
(* but the work queued when the technology retired can be credited later.      *)
PendingQueued ==
    Quiet /\ ~refused => \A f \in alive :
        mask = {} => ledger[f] # Nil /\ ledger[f].pending <= queue[f]
=============================================================================
