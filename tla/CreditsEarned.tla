---------------------------- MODULE CreditsEarned ----------------------------
(* NativeCredits with the levels each recipe has earned, which the history     *)
(* only watches, and the properties the component exists for.                  *)
EXTENDS NativeCredits

CONSTANT Strict     \* a recipe new to the inputs earns nothing from older work

ASSUME StrictAssumption == Strict \in BOOLEAN

VARIABLES
    earned,     \* earned[f][r], levels of r the force has been paid for
    promise,    \* promise[f][r], whether work queued before retirement is paid
                \* r, or Nil: it is paid what the technology pays
    foul        \* the inputs dropped a recipe, or the save is of unknown origin

evars == <<cvars, earned, promise, foul>>

(* The levels of r in effect on f, the technology's and the carriers'.         *)
Effect(f, r) == native[f].credit[r] + Paid(Included(r)) * native[f].done

(* What the next completed level pays.                                         *)
Pays(f, r) == IF config.private /\ r \in Family /\ promise[f][r] # Nil THEN promise[f][r] ELSE Included(r)

EInit ==
    /\ Init
    /\ earned = [f \in Forces |-> [r \in Recipes |->
                   IF event.origin # "none" /\ r \in Family
                   THEN Paid(r \in Published) * native[f].done
                   ELSE Paid(Included(r)) * native[f].done]]
    /\ promise = [f \in Forces |-> [r \in Family |->
                    IF event.origin # "none" THEN r \in Published ELSE Nil]]
    /\ foul = (event.kind = "configured"
                 /\ ( event.origin \in {"none", IF config.private THEN "public" ELSE "private"}
                      \/ ~(Published \subseteq config.listed) ))

EComplete(f) ==
    /\ Complete(f)
    /\ earned' = [earned EXCEPT ![f] = [r \in Recipes |-> @[r] + Paid(Pays(f, r))]]
    /\ UNCHANGED <<promise, foul>>

(* A force that starts over, or is gone, has earned nothing.                   *)
Forgotten(f) ==
    /\ earned' = [earned EXCEPT ![f] = [r \in Recipes |-> 0]]
    /\ promise' = [promise EXCEPT ![f] = [r \in Family |-> Nil]]
    /\ UNCHANGED foul

(* What f's queued work will be paid of r under the inputs c: as before, but   *)
(* for a recipe newly listed.                                                  *)
Promised(f, r, c) ==
    IF config.private /\ native[f].queued = 0 THEN Nil
    ELSE IF r \notin config.listed \cap c.listed THEN IF Strict THEN FALSE ELSE Nil
    ELSE IF config.private THEN promise[f][r] ELSE Included(r)

ELoad(c) ==
    /\ Load(c)
    /\ promise' = [f \in Forces |-> [r \in Family |-> Promised(f, r, c)]]
    /\ foul' = (foul \/ ~(config.listed \subseteq c.listed))
    /\ UNCHANGED earned

ENext ==
    \/ MirNext /\ UNCHANGED <<earned, promise, foul>>
    \/ \E f \in Forces :
         \/ Enqueue(f) /\ UNCHANGED <<earned, promise, foul>>
         \/ EComplete(f)
         \/ Start(f) /\ Forgotten(f)
         \/ \E n \in 1 .. MaxQueue : Cancel(f, n) /\ UNCHANGED <<earned, promise, foul>>
         \/ \E s \in Forces : Merge(s, f) /\ Forgotten(s)
    \/ \E c \in Configs : ELoad(c)

ESpec == EInit /\ [][ENext]_evars
-----------------------------------------------------------------------------
(* Whatever is included, left out, hidden and put back, in whatever order, and *)
(* whatever completes or is cancelled meanwhile, every recipe has in effect    *)
(* exactly the levels it earned; a recipe whose carriers went had earned none  *)
(* (preflight_family_transition, reconcile_force, on_research_finished).       *)
EarnedKept ==
    Playing => \A f \in alive, r \in Recipes : Effect(f, r) = earned[f][r]

(* Play, saves, resets, merges and inputs that only add recipes never stop the *)
(* game: a refusal means dropped recipes, an unexplained save or a level count *)
(* no carrier can represent (family_failure).                                  *)
RefusedForCause ==
    refused => foul \/ \E f \in Forces : ~Representable(native[f].done)

(* While hidden work is owed other pay than the technology gives, the flag     *)
(* that makes MIR look at completions is up, across loads too (refresh_pending,*)
(* on_load).                                                                   *)
OwedHeard ==
    (Playing /\ config.private) =>
      \A f \in alive, r \in config.listed :
        (native[f].queued > 0 /\ Pays(f, r) # Included(r)) => pendingActive

(* Work queued before the technology was hidden earns no recipe it did not pay *)
(* when it was queued ("The changed private vector would pay a recipe the old  *)
(* work did not earn. Its literal false right must survive",                   *)
(* tests/test_native_family_paid_credits.py:880).                              *)
NothingMinted ==
    Playing => \A f \in alive, r \in Recipes : Effect(f, r) <= earned[f][r]
=============================================================================
