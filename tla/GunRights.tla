------------------------------ MODULE GunRights ------------------------------
(* GunCredits with the levels each force has paid for, which the history only  *)
(* watches, and the property the component exists for.                         *)
EXTENDS GunCredits

VARIABLES
    paid,       \* paid[f][c], levels of category c the force has paid for
    owed,       \* queued work of the force from before the technology retired
    promise,    \* promise[f], the mask that work was queued under
    foul        \* the save's origin is unknown, or a script moved a level

rvars == <<gvars, paid, owed, promise, foul>>

(* What the force has natively, in levels of category c.                       *)
Effect(f, c) ==
    native[f].positive[c]
      + IF c \in mask THEN native[f].completed - native[f].negative[c] ELSE 0

PaidNow(f) == IF mask # {} THEN mask ELSE IF owed[f] > 0 THEN promise[f] ELSE {}

(* A published edition paid every category for every level.                    *)
RInit ==
    /\ Init
    /\ paid = [f \in Forces |-> [c \in Categories |->
                 IF event.published \/ c \in mask THEN native[f].completed ELSE 0]]
    /\ owed = [f \in Forces |-> IF event.published /\ mask = {} THEN queue[f] ELSE 0]
    /\ promise = [f \in Forces |-> IF event.published THEN Categories ELSE mask]
    /\ foul = (event.kind = "configured" /\ ~event.published)

RComplete(f, queued) ==
    /\ Complete(f, queued)
    /\ paid' = [paid EXCEPT ![f] = [c \in Categories |->
                  IF c \in PaidNow(f) THEN @[c] + 1 ELSE @[c]]]
    /\ owed' = [owed EXCEPT ![f] = IF mask = {} /\ @ > 0 THEN @ - 1 ELSE @]
    /\ foul' = (foul \/ ~queued)
    /\ UNCHANGED promise

RUnresearch(f) ==
    /\ Unresearch(f)
    /\ paid' = [paid EXCEPT ![f] = [c \in Categories |-> IF c \in mask THEN @[c] - 1 ELSE @[c]]]
    /\ foul' = TRUE
    /\ UNCHANGED <<owed, promise>>

RCancel(f, n) ==
    /\ Cancel(f, n)
    /\ owed' = [owed EXCEPT ![f] = IF @ > n THEN @ - n ELSE 0]
    /\ UNCHANGED <<paid, promise, foul>>

(* A force that starts over, or is gone, has paid for nothing.                 *)
Forgotten(f) ==
    /\ paid' = [paid EXCEPT ![f] = [c \in Categories |-> 0]]
    /\ owed' = [owed EXCEPT ![f] = 0]
    /\ promise' = [promise EXCEPT ![f] = mask]
    /\ UNCHANGED foul

RLoad(included) ==
    /\ Load(included)
    /\ owed' = [f \in Forces |-> IF included # {} THEN 0
                                 ELSE IF mask # {} THEN queue[f] ELSE owed[f]]
    /\ promise' = [f \in Forces |-> IF mask # {} THEN mask ELSE promise[f]]
    /\ UNCHANGED <<paid, foul>>

RNext ==
    \/ GunNext /\ UNCHANGED <<paid, owed, promise, foul>>
    \/ \E f \in Forces :
         \/ Enqueue(f) /\ UNCHANGED <<paid, owed, promise, foul>>
         \/ RUnresearch(f)
         \/ Begin(f) /\ Forgotten(f)
         \/ \E q \in BOOLEAN : RComplete(f, q)
         \/ \E n \in 1 .. MaxQueue : RCancel(f, n)
         \/ \E s \in Forces : Merge(s, f) /\ Forgotten(s)
    \/ \E included \in SUBSET Categories : RLoad(included)

RSpec == RInit /\ [][RNext]_rvars
-----------------------------------------------------------------------------
(* Whatever categories were taken out and put back, in whatever order, and     *)
(* whatever was completed or cancelled meanwhile, each force has natively      *)
(* exactly the levels of each category it paid for: nothing is lost, granted   *)
(* or counted twice (plan_force, apply_counts, on_research_finished).          *)
PaidKept ==
    Quiet /\ ~refused => \A f \in alive, c \in Categories : Effect(f, c) = paid[f][c]

(* Research, cancellations, resets, merges, saves and changes of the included  *)
(* categories alone never lead to a refusal: only scripted levels, a save of   *)
(* unknown origin or a level count no holder can represent (credit_failure).   *)
RefusedForCause == refused => foul \/ \E f \in Forces : ~Storable(native[f].completed)
=============================================================================
