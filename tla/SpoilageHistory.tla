--------------------------- MODULE SpoilageHistory ---------------------------
(* Spoilage with an account of MIR's own writes, which the history only        *)
(* watches and never sets back.  Foreign writers are taken to scale the        *)
(* modifier they find, as MIR itself reads them.                               *)
EXTENDS Spoilage

VARIABLES
    own,        \* the steps by which all of MIR's writes so far moved the modifier
    seen,       \* the modifier as MIR last left it
    left        \* what of own MIR will never take out again

shvars == <<svars, own, seen, left>>

HInit == Init /\ own = 0 /\ seen = modifier /\ left = 0

(* What the modifier would be without the part of own that is not given up.    *)
Without == modifier - (own - left)

(* Two things leave MIR's steps in the modifier for good: the feature is       *)
(* retired after another writer moved the modifier, and all MIR has put in is  *)
(* in there still; or the modifier is moved so low that it cannot hold MIR's   *)
(* part, and what does not fit in the range is taken for the others'.          *)
HHandle ==
    /\ Handle
    /\ own' = own + (modifier' - modifier)
    /\ seen' = IF config.kind = "unreadable" THEN seen ELSE modifier'
    /\ left' = CASE config.kind = "on"         -> left + (Clamp(Without) - Without)
                 [] config.kind = "unreadable" -> left
                 [] OTHER                      -> IF modifier # seen THEN own ELSE left

HNext ==
    \/ HHandle
    \/ /\ \/ \E f \in Forces \cup Aliens : Finish(f) \/ Reverse(f) \/ StartOver(f)
          \/ \E f, g \in Forces : Merge(f, g)
          \/ \E x \in Steps : ForeignWrite(x)
          \/ \E c \in Configs : LoadConfiguration(c)
       /\ UNCHANGED <<own, seen, left>>

HSpec == HInit /\ [][HNext]_shvars
-----------------------------------------------------------------------------
(* However often the feature is switched, re-tuned, removed and added back,    *)
(* and whatever forces come, go or lose levels, all of MIR's writes together   *)
(* come to one share, for the highest level of a player force, while the       *)
(* feature is on, and to nothing while it is inactive; beyond that they come   *)
(* only to what foreign writes made MIR leave in.  That remainder is not taken *)
(* for a share later: a share is added on top of it (spoilage.lua reconcile,   *)
(* spoilage_contribution.lua retire and try_retire).                           *)
ContributedOnce ==
    Quiet =>
      CASE config.kind = "on"         -> seen = Clamp(seen - (own - left) + config.step * Highest)
        [] config.kind = "unreadable" -> TRUE
        [] OTHER                      -> own = left
=============================================================================
