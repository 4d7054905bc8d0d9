------------------------------- MODULE Spoilage -------------------------------
(* MIR's share of the one global spoil-time modifier (runtime/spoilage.lua,    *)
(* spoilage_contribution.lua, scripted_effects.lua and the removal branch of   *)
(* bootstrap.lua).  The modifier is a product of what everybody contributed;   *)
(* here every factor is its logarithm, a number of steps: a product is a sum,  *)
(* a quotient a difference, and the range 0.01 .. 100 is Lo .. Hi.             *)
EXTENDS Integers, FiniteSets, FiniteSetsExt

CONSTANTS
    Forces,         \* players' forces
    Aliens,         \* the enemy and neutral forces
    Nil,
    Lo, Hi,         \* MIN_MODIFIER and MAX_MODIFIER
    PerLevel,       \* the values of effect_percent, in steps per level
    MaxLevel        \* bound: completed levels of a force

ASSUME RangeAssumption == Lo \in Int /\ Hi \in Int /\ Lo <= 0 /\ 0 <= Hi
ASSUME PerLevelAssumption == PerLevel \subseteq Nat
ASSUME ForcesAssumption ==
    Forces \cap Aliens = {} /\ IsFiniteSet(Forces) /\ Forces # {} /\ MaxLevel \in Nat
ASSUME NilAssumption == Nil \notin [baseline : Int, applied : Int, last : Int]
ASSUME NilNoEvent == Nil \notin {"init", "configured", "heard"}

VARIABLES
    config,         \* what the loaded mods and settings make of the feature
    modifier,       \* difficulty_settings.spoil_time_modifier
    level,          \* completed levels of the technology, by force
    alive,          \* forces that exist
    state,          \* storage.mir.spoilage_preservation
    event           \* the event MIR has yet to handle

svars == <<config, modifier, level, alive, state, event>>

(* "on" with a level's worth; "off" by setting; "missing" when no technology   *)
(* was generated; without Space Age the modifier may be unreadable.            *)
Configs ==
    [kind : {"on"}, step : PerLevel] \cup
    [kind : {"off", "missing", "removed", "unreadable"}, step : {0}]

Steps == Lo .. Hi
States == [baseline : Steps, applied : Int, last : Steps]

SpoilageTypeOK ==
    /\ config \in Configs
    /\ modifier \in Steps
    /\ level \in [Forces \cup Aliens -> 0 .. MaxLevel]
    /\ alive \subseteq Forces \cup Aliens
    /\ state \in States \cup {Nil}
    /\ event \in {Nil, "init", "configured", "heard"}

Quiet == event = Nil

(* Mutant of Clamp: the upper limit forgotten.                                 *)
ClampBelow(x) == IF x <= Lo THEN Lo ELSE x

Clamp(x) == IF x <= Lo THEN Lo ELSE IF x >= Hi THEN Hi ELSE x

(* Enemy and neutral levels are not counted.                                   *)
Highest == Max({0} \cup {level[f] : f \in alive \cap Forces})
-----------------------------------------------------------------------------
(* MIR                                                                         *)

(* A saved contribution that no longer explains the modifier was overtaken by  *)
(* a foreign write, which is read as having kept MIR's factor in place.        *)
Overtaken == state # Nil /\ modifier # state.last

(* Mutant of Baseline: the saved one is kept although the modifier moved.      *)
BaselineKept == IF state = Nil THEN Clamp(modifier) ELSE state.baseline

Baseline ==
    IF state = Nil THEN Clamp(modifier)
    ELSE IF Overtaken THEN Clamp(modifier - state.applied)
    ELSE state.baseline

Contribute ==
    LET target == Clamp(Baseline + config.step * Highest)
    IN  /\ modifier' = target
        /\ state' = [baseline |-> Baseline, applied |-> target - Baseline, last |-> target]

Retire ==
    /\ modifier' = IF state = Nil \/ Overtaken THEN modifier ELSE Clamp(state.baseline)
    /\ state' = Nil

Reconcile ==
    CASE config.kind = "on"         -> Contribute
      [] config.kind = "unreadable" -> UNCHANGED <<modifier, state>>
      [] OTHER                      -> Retire

(* on_init, on_configuration_changed and the named research, reset and force   *)
(* events all reconcile against the forces as they are now.                    *)
Handle ==
    /\ event # Nil
    /\ Reconcile
    /\ event' = Nil
    /\ UNCHANGED <<config, level, alive>>
-----------------------------------------------------------------------------
(* The game and the other mods                                                 *)

(* Scripted effects subscribe only while Space Age is loaded and one of them   *)
(* is enabled.                                                                 *)
Raised == IF config.kind \in {"on", "missing"} THEN "heard" ELSE Nil

Playable(f) == Quiet /\ f \in alive /\ config.kind \in {"on", "off"}

Finish(f) ==
    /\ Playable(f)
    /\ level[f] < MaxLevel
    /\ level' = [level EXCEPT ![f] = @ + 1]
    /\ event' = Raised
    /\ UNCHANGED <<config, modifier, alive, state>>

Reverse(f) ==
    /\ Playable(f)
    /\ level[f] > 0
    /\ level' = [level EXCEPT ![f] = @ - 1]
    /\ event' = Raised
    /\ UNCHANGED <<config, modifier, alive, state>>

(* LuaForce.reset, or a new force at an index that was free.                   *)
StartOver(f) ==
    /\ Quiet /\ f \in Forces
    /\ level' = [level EXCEPT ![f] = 0]
    /\ alive' = alive \cup {f}
    /\ event' = Raised
    /\ UNCHANGED <<config, modifier, state>>

Merge(source, destination) ==
    /\ Quiet /\ source # destination /\ {source, destination} \subseteq alive \cap Forces
    /\ alive' = alive \ {source}
    /\ level' = [level EXCEPT ![source] = 0]
    /\ event' = Raised
    /\ UNCHANGED <<config, modifier, state>>

(* Another mod, possibly in its own handler of the event MIR handles next.     *)
ForeignWrite(x) ==
    /\ x # modifier /\ config.kind # "unreadable"
    /\ modifier' = x
    /\ UNCHANGED <<config, level, alive, state, event>>

(* The save is loaded with other mods or settings.  Levels of a technology     *)
(* that is not there are lost.                                                 *)
LoadConfiguration(c) ==
    /\ Quiet /\ c # config
    /\ config' = c
    /\ level' = IF c.kind \in {"on", "off"} THEN level ELSE [f \in DOMAIN level |-> 0]
    /\ event' = "configured"
    /\ UNCHANGED <<modifier, alive, state>>

Init ==
    /\ config \in Configs
    /\ modifier = 0
    /\ level = [f \in Forces \cup Aliens |-> 0]
    /\ alive \in {S \cup Aliens : S \in (SUBSET Forces) \ {{}}}
    /\ state = Nil
    /\ event = IF config.kind \in {"on", "off", "missing"} THEN "init" ELSE Nil

Next ==
    \/ Handle
    \/ \E f \in Forces \cup Aliens : Finish(f) \/ Reverse(f) \/ StartOver(f)
    \/ \E f, g \in Forces : Merge(f, g)
    \/ \E x \in Steps : ForeignWrite(x)
    \/ \E c \in Configs : LoadConfiguration(c)

Spec == Init /\ [][Next]_svars /\ WF_svars(Handle)
=============================================================================
