---------------------------- MODULE SpoilageProofs ----------------------------
(* Proofs about SpoilageHistory for every range, every set of forces, every    *)
(* value of the setting and every number of levels: the types, and that what   *)
(* MIR writes comes to one share and to what foreign writes made it leave in.  *)
EXTENDS SpoilageHistory, WellFoundedInduction, TLAPS

(* What the history adds to the types.                                         *)
HistTypeOK == SpoilageTypeOK /\ own \in Int /\ seen \in Int /\ left \in Int

(* The saved contribution is what MIR's writes come to, beyond what they left  *)
(* behind, and it was saved with the last of them.                             *)
Linked ==
    IF state = Nil THEN own = left
    ELSE own = left + state.applied /\ seen = state.last

(* The saved record is that of one write of MIR's.                             *)
Recorded == state # Nil => state.applied = state.last - state.baseline

(* Between events the saved write is the one the present levels call for, and  *)
(* an inactive feature has none.                                               *)
Settled ==
    Quiet =>
      /\ config.kind = "on" =>
           state # Nil /\ state.last = Clamp(state.baseline + config.step * Highest)
      /\ config.kind \in {"off", "missing", "removed"} => state = Nil

IInv == HistTypeOK /\ Linked /\ Recorded /\ Settled
-----------------------------------------------------------------------------
(* A nonempty set of naturals with an upper bound has a greatest element, and  *)
(* Max finds it.                                                               *)
LEMMA MaxOfBounded ==
    ASSUME NEW n \in Nat, NEW S \in SUBSET (0 .. n), S # {}
    PROVE  Max(S) \in S
<1> DEFINE T == {n - s : s \in S}
<1>1. T \subseteq Nat /\ T # {}
  <2>1. \A s \in S : n - s \in Nat
    BY SMT
  <2> QED  BY <2>1, Zenon
<1>2. PICK x \in T : \A y \in T : <<y, x>> \notin OpToRel(<, Nat)
  <2>1. IsWellFoundedOn(OpToRel(<, Nat), Nat)
    BY NatLessThanWellFounded, Zenon
  <2> QED  BY <1>1, <2>1, WFMin, Zenon
<1>3. \A y \in T : ~(y < x)
  BY <1>1, <1>2 DEF OpToRel
<1>4. PICK s \in S : x = n - s
  BY Zenon
<1>5. \A y \in S : s >= y
  <2> SUFFICES ASSUME NEW y \in S PROVE s >= y
    OBVIOUS
  <2>1. n - y \in T
    BY Zenon
  <2>2. ~(n - y < n - s)
    BY <2>1, <1>3, <1>4, Zenon
  <2> HIDE DEF T
  <2> QED  BY <2>2
<1> QED  BY <1>5 DEF Max

(* The levels that count are a number of levels.                               *)
LEMMA HighestType ==
    ASSUME SpoilageTypeOK
    PROVE  Highest \in 0 .. MaxLevel
<1> DEFINE S == {0} \cup {level[f] : f \in alive \cap Forces}
<1>1. MaxLevel \in Nat /\ S \subseteq 0 .. MaxLevel /\ S # {}
  BY ForcesAssumption DEF SpoilageTypeOK
<1>2. Max(S) \in S
  <2> HIDE DEF S
  <2> QED  BY <1>1, MaxOfBounded
<1> QED  BY <1>1, <1>2, Zenon DEF Highest

(* What is written stays in the range.                                         *)
LEMMA ClampRange ==
    ASSUME NEW x \in Int
    PROVE  Clamp(x) \in Steps /\ (x \in Steps => Clamp(x) = x)
  BY RangeAssumption DEF Clamp, Steps

(* A saved record is no nil, and its fields are numbers.                       *)
LEMMA StateType ==
    ASSUME SpoilageTypeOK
    PROVE  /\ modifier \in Int /\ Steps \subseteq Int
           /\ state # Nil => /\ state.baseline \in Steps /\ state.applied \in Int
                             /\ state.last \in Steps
           /\ config.step \in Nat
<1>1. Steps \subseteq Int
  BY RangeAssumption DEF Steps
<1>2. modifier \in Steps /\ state \in States \cup {Nil} /\ config \in Configs
  BY DEF SpoilageTypeOK
<1>3. \A s \in States : s.baseline \in Steps /\ s.applied \in Int /\ s.last \in Steps
  BY DEF States
<1>4. \A c \in Configs : c.step \in PerLevel \cup {0}
  BY DEF Configs
<1>5. config.step \in Nat
  <2>1. PerLevel \cup {0} \subseteq Nat
    BY PerLevelAssumption
  <2> QED  BY <1>2, <1>4, <2>1, Zenon
<1> QED  BY <1>1, <1>2, <1>3, <1>5, Zenon
-----------------------------------------------------------------------------
(* MIR's own step                                                              *)

(* The baseline is what the modifier would be without MIR, kept in range.      *)
LEMMA BaselineIsWithout ==
    ASSUME IInv, config.kind = "on"
    PROVE  Baseline \in Steps /\ Without \in Int /\ Baseline = Clamp(Without)
<1> USE DEF IInv, HistTypeOK
<1>1. modifier \in Steps /\ modifier \in Int
  BY StateType DEF SpoilageTypeOK
<1>2. CASE state = Nil
  <2>1. Without = modifier
    BY <1>1, <1>2 DEF Without, Linked
  <2> QED  BY <1>1, <1>2, <2>1, ClampRange DEF Baseline
<1>3. CASE state # Nil
  <2>1. Without = modifier - state.applied /\ state.applied \in Int
    BY <1>1, <1>3, StateType DEF Without, Linked
  <2>2. CASE Overtaken
    BY <1>1, <1>3, <2>1, <2>2, ClampRange DEF Baseline
  <2>3. CASE ~Overtaken
    <3>1. Baseline = state.baseline /\ state.baseline \in Steps
      BY <1>3, <2>3, StateType DEF Baseline
    <3>2. modifier = state.last /\ state.applied = state.last - state.baseline
      BY <1>3, <2>3 DEF Overtaken, Recorded
    <3>3. state.last \in Int /\ state.baseline \in Int
      BY <1>3, StateType
    <3>4. Without = state.baseline
      BY <2>1, <3>2, <3>3
    <3> QED  BY <3>1, <3>3, <3>4, ClampRange
  <2> QED  BY <2>2, <2>3
<1> QED  BY <1>2, <1>3

(* Contributing writes one record that satisfies everything.                   *)
LEMMA ContributeStep ==
    ASSUME IInv, HHandle, config.kind = "on"
    PROVE  IInv'
<1> USE DEF IInv, HistTypeOK
<1> DEFINE wanted == Baseline + config.step * Highest
<1>1. /\ Baseline \in Steps /\ Baseline \in Int /\ wanted \in Int
      /\ Clamp(wanted) \in Steps /\ Clamp(wanted) \in Int
  <2>1. Baseline \in Steps /\ Baseline \in Int
    BY BaselineIsWithout, StateType
  <2>2. config.step * Highest \in Int
    BY HighestType, StateType, ForcesAssumption
  <2>3. wanted \in Int
    BY <2>1, <2>2
  <2> HIDE DEF wanted
  <2> QED  BY <2>1, <2>3, ClampRange, StateType
<1>2. /\ modifier' = Clamp(wanted)
      /\ state' = [baseline |-> Baseline, applied |-> Clamp(wanted) - Baseline,
                   last |-> Clamp(wanted)]
      /\ event' = Nil /\ UNCHANGED <<config, level, alive>>
  BY DEF HHandle, Handle, Reconcile, Contribute
<1>3. /\ own' = own + (modifier' - modifier) /\ seen' = modifier'
      /\ left' = left + (Baseline - Without)
  BY BaselineIsWithout DEF HHandle
<1>4. state' \in States /\ state' # Nil
  BY <1>1, <1>2, NilAssumption, StateType DEF States
<1>5. own' \in Int /\ seen' \in Int /\ left' \in Int /\ modifier \in Int
  BY <1>1, <1>2, <1>3, BaselineIsWithout, StateType
<1>6. HistTypeOK'
  BY <1>1, <1>2, <1>4, <1>5 DEF SpoilageTypeOK
<1> HIDE DEF wanted
<1>7. Linked'
  <2>1. state'.applied = Clamp(wanted) - Baseline /\ state'.last = Clamp(wanted)
    BY <1>2
  <2>2. Without = modifier - (own - left)
    BY DEF Without
  <2>3. own' = left' + (Clamp(wanted) - Baseline)
    BY <1>1, <1>2, <1>3, <1>5, <2>2
  <2> QED  BY <1>2, <1>3, <1>4, <2>1, <2>3 DEF Linked
<1>8. Recorded'
  BY <1>1, <1>2 DEF Recorded
<1>9. Settled'
  <2>1. Highest' = Highest
    BY <1>2 DEF Highest
  <2>2. state'.baseline = Baseline /\ state'.last = Clamp(wanted)
    BY <1>2
  <2> QED  BY <1>2, <1>4, <2>1, <2>2 DEF Settled, wanted, Clamp
<1> QED  BY <1>6, <1>7, <1>8, <1>9

(* Retiring leaves no record, and either takes MIR's part out or, after a      *)
(* foreign write, counts it as left.                                           *)
LEMMA RetireStep ==
    ASSUME IInv, HHandle, config.kind \in {"off", "missing", "removed"}
    PROVE  IInv'
<1> USE DEF IInv, HistTypeOK
<1>1. /\ modifier' = IF state = Nil \/ Overtaken THEN modifier ELSE Clamp(state.baseline)
      /\ state' = Nil /\ event' = Nil /\ UNCHANGED <<config, level, alive>>
  BY DEF HHandle, Handle, Reconcile, Retire
<1>2. /\ own' = own + (modifier' - modifier) /\ seen' = modifier'
      /\ left' = IF modifier # seen THEN own ELSE left
  BY DEF HHandle
<1>3. modifier \in Steps /\ modifier \in Int
  BY StateType DEF SpoilageTypeOK
<1>4. modifier' \in Steps /\ own' = left'
  <2>1. CASE state = Nil \/ Overtaken
    BY <1>1, <1>2, <1>3, <2>1 DEF Linked, Overtaken
  <2>2. CASE state # Nil /\ ~Overtaken
    <3>1. modifier' = state.baseline /\ state.baseline \in Steps
      BY <1>1, <2>2, StateType, ClampRange
    <3>2. modifier = state.last /\ seen = state.last /\ own = left + state.applied
      BY <2>2 DEF Overtaken, Linked
    <3>3. state.applied = state.last - state.baseline
      BY <2>2 DEF Recorded
    <3>4. state.last \in Int /\ state.baseline \in Int
      BY <2>2, StateType
    <3>5. modifier # seen => FALSE
      BY <3>2
    <3> QED  BY <1>2, <3>1, <3>2, <3>3, <3>4, <3>5
  <2> QED  BY <2>1, <2>2
<1>5. modifier' \in Int /\ own' \in Int /\ left' \in Int /\ seen' \in Int
  BY <1>2, <1>3, <1>4, StateType
<1>6. HistTypeOK'
  BY <1>1, <1>4, <1>5 DEF SpoilageTypeOK
<1> QED  BY <1>1, <1>4, <1>6 DEF Linked, Recorded, Settled

(* Where the modifier cannot be read nothing changes but the event.            *)
LEMMA UnreadableStep ==
    ASSUME IInv, HHandle, config.kind = "unreadable"
    PROVE  IInv'
<1> USE DEF IInv, HistTypeOK
<1>1. event' = Nil /\ UNCHANGED <<config, modifier, level, alive, state>>
  BY DEF HHandle, Handle, Reconcile
<1>2. own' = own + (modifier - modifier) /\ UNCHANGED <<seen, left>>
  BY <1>1 DEF HHandle
<1>3. own' = own
  BY <1>2, StateType
<1> QED  BY <1>1, <1>2, <1>3 DEF Linked, Recorded, Settled, SpoilageTypeOK

LEMMA HandleStep ==
    ASSUME IInv, HHandle
    PROVE  IInv'
<1>1. config.kind \in {"on", "off", "missing", "removed", "unreadable"}
  BY DEF IInv, HistTypeOK, SpoilageTypeOK, Configs
<1> QED  BY <1>1, ContributeStep, RetireStep, UnreadableStep
-----------------------------------------------------------------------------
(* The game and the other mods                                                 *)

(* A foreign write moves the modifier alone.                                   *)
LEMMA ForeignStep ==
    ASSUME IInv, UNCHANGED <<own, seen, left>>, NEW x \in Steps, ForeignWrite(x)
    PROVE  IInv'
<1>1. modifier' = x /\ UNCHANGED <<config, level, alive, state, event, own, seen, left>>
  BY DEF ForeignWrite
<1>2. HistTypeOK'
  BY <1>1 DEF IInv, HistTypeOK, SpoilageTypeOK
<1>3. Linked' /\ Recorded' /\ Settled'
  BY <1>1 DEF IInv, Linked, Recorded, Settled, Quiet, Highest
<1> QED  BY <1>2, <1>3 DEF IInv

(* Forces that gain or lose levels, come or go, are heard about while the      *)
(* feature is on; while it is inactive there is nothing to keep.               *)
LEMMA PlayStep ==
    ASSUME IInv, UNCHANGED <<own, seen, left>>,
           \/ \E f \in Forces \cup Aliens : Finish(f) \/ Reverse(f) \/ StartOver(f)
           \/ \E f, g \in Forces : Merge(f, g)
    PROVE  IInv'
<1> USE DEF IInv, HistTypeOK
<1>1. event' = Raised /\ UNCHANGED <<config, modifier, state, own, seen, left>>
  BY DEF Finish, Reverse, StartOver, Merge
<1>2. Quiet
  BY DEF Finish, Reverse, StartOver, Merge, Playable
<1>3. level' \in [Forces \cup Aliens -> 0 .. MaxLevel]
  <2>1. level \in [Forces \cup Aliens -> 0 .. MaxLevel] /\ MaxLevel \in Nat
    BY ForcesAssumption DEF SpoilageTypeOK
  <2>2. ASSUME NEW f \in Forces \cup Aliens, Finish(f) \/ Reverse(f) \/ StartOver(f)
        PROVE  level' \in [Forces \cup Aliens -> 0 .. MaxLevel]
    BY <2>1, <2>2 DEF Finish, Reverse, StartOver
  <2>3. ASSUME NEW f \in Forces, NEW g \in Forces, Merge(f, g)
        PROVE  level' \in [Forces \cup Aliens -> 0 .. MaxLevel]
    BY <2>1, <2>3 DEF Merge
  <2> QED  BY <2>2, <2>3
<1>4. alive' \subseteq Forces \cup Aliens
  BY DEF SpoilageTypeOK, Finish, Reverse, StartOver, Merge
<1>5. HistTypeOK'
  BY <1>1, <1>3, <1>4 DEF SpoilageTypeOK, Raised
<1>6. Linked' /\ Recorded'
  BY <1>1 DEF Linked, Recorded
<1>7. Settled'
  <2>1. config.kind = "on" => ~Quiet'
    BY <1>1, NilNoEvent DEF Raised, Quiet
  <2> QED  BY <1>1, <1>2, <2>1 DEF Settled
<1> QED  BY <1>5, <1>6, <1>7

(* A load is followed by its configuration event.                              *)
LEMMA LoadStep ==
    ASSUME IInv, UNCHANGED <<own, seen, left>>, NEW c \in Configs, LoadConfiguration(c)
    PROVE  IInv'
<1> USE DEF IInv, HistTypeOK
<1>1. /\ config' = c /\ event' = "configured"
      /\ UNCHANGED <<modifier, alive, state, own, seen, left>>
      /\ level' = IF c.kind \in {"on", "off"} THEN level ELSE [f \in DOMAIN level |-> 0]
  BY DEF LoadConfiguration
<1>2. level' \in [Forces \cup Aliens -> 0 .. MaxLevel]
  BY <1>1, ForcesAssumption DEF SpoilageTypeOK
<1>3. HistTypeOK'
  BY <1>1, <1>2 DEF SpoilageTypeOK
<1> QED  BY <1>1, <1>3, NilNoEvent DEF Linked, Recorded, Settled, Quiet
-----------------------------------------------------------------------------
LEMMA InitInv ==
    ASSUME HInit
    PROVE  IInv
<1>1. modifier = 0 /\ own = 0 /\ seen = 0 /\ left = 0 /\ state = Nil /\ config \in Configs
      /\ level = [f \in Forces \cup Aliens |-> 0]
  BY DEF HInit, Init
<1>2. 0 \in Steps /\ 0 \in 0 .. MaxLevel
  BY RangeAssumption, ForcesAssumption DEF Steps
<1>3. alive \subseteq Forces \cup Aliens
  BY Zenon DEF HInit, Init
<1>4. event = IF config.kind \in {"on", "off", "missing"} THEN "init" ELSE Nil
  BY DEF HInit, Init
<1>5. HistTypeOK
  BY <1>1, <1>2, <1>3, <1>4 DEF HistTypeOK, SpoilageTypeOK
<1>6. Settled
  BY <1>1, <1>4, NilNoEvent DEF Settled, Quiet
<1> QED  BY <1>1, <1>5, <1>6 DEF IInv, Linked, Recorded

LEMMA NextInv ==
    ASSUME IInv, [HNext]_shvars
    PROVE  IInv'
<1>1. CASE HHandle
  BY <1>1, HandleStep
<1>2. CASE (\E x \in Steps : ForeignWrite(x)) /\ UNCHANGED <<own, seen, left>>
  BY <1>2, ForeignStep
<1>3. CASE /\ \/ \E f \in Forces \cup Aliens : Finish(f) \/ Reverse(f) \/ StartOver(f)
              \/ \E f, g \in Forces : Merge(f, g)
           /\ UNCHANGED <<own, seen, left>>
  BY <1>3, PlayStep
<1>4. CASE (\E c \in Configs : LoadConfiguration(c)) /\ UNCHANGED <<own, seen, left>>
  BY <1>4, LoadStep
<1>5. CASE UNCHANGED shvars
  BY <1>5 DEF shvars, svars, IInv, HistTypeOK, SpoilageTypeOK, Linked, Recorded, Settled,
              Quiet, Highest
<1> QED  BY <1>1, <1>2, <1>3, <1>4, <1>5 DEF HNext

(* Settled and Linked say what ContributedOnce says of MIR's writes.           *)
LEMMA InvImplies ==
    ASSUME IInv
    PROVE  ContributedOnce
<1> USE DEF IInv, HistTypeOK
<1> SUFFICES ASSUME Quiet
             PROVE  /\ config.kind = "on"
                         => seen = Clamp(seen - (own - left) + config.step * Highest)
                    /\ config.kind \in {"off", "missing", "removed"} => own = left
  <2>1. config.kind \in {"on", "off", "missing", "removed", "unreadable"}
    BY DEF SpoilageTypeOK, Configs
  <2> QED  BY <2>1, Zenon DEF ContributedOnce
<1>1. ASSUME config.kind = "on"
      PROVE  seen = Clamp(seen - (own - left) + config.step * Highest)
  <2>1. state # Nil /\ seen = state.last /\ own = left + state.applied
    BY <1>1 DEF Settled, Linked
  <2>2. seen - (own - left) = state.baseline
    BY <2>1, StateType DEF Recorded
  <2> QED  BY <1>1, <2>1, <2>2 DEF Settled
<1>2. ASSUME config.kind \in {"off", "missing", "removed"}
      PROVE  own = left
  BY <1>2 DEF Settled, Linked
<1> QED  BY <1>1, <1>2

(* The modifier stays in the range the code clamps it to, the saved record is  *)
(* whole or absent (spoilage.lua, spoilage_contribution.lua).                  *)
THEOREM SpoilageTypeCorrect == HSpec => []SpoilageTypeOK
<1>1. IInv => SpoilageTypeOK
  BY DEF IInv, HistTypeOK
<1> QED  BY <1>1, InitInv, NextInv, PTL DEF HSpec

(* All of MIR's writes come to one share while the feature is on and to none   *)
(* while it is not, beyond what foreign writes made MIR leave in, whatever is  *)
(* switched, retuned, removed, written by others or lost with a force          *)
(* (spoilage.lua reconcile, spoilage_contribution.lua retire).                 *)
THEOREM ShareHeldOnce == HSpec => []ContributedOnce
<1> QED  BY InitInv, NextInv, InvImplies, PTL DEF HSpec
=============================================================================
