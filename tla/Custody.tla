------------------------------- MODULE Custody -------------------------------
(* What freezing and verifying a release promise about its output directory:   *)
(* it is claimed once, sealed once for one commit, and then only spoiled from  *)
(* outside; a verification accepts only what it looked at while it was sealed. *)

CONSTANTS Processes, Commits, None

VARIABLES
    box,        \* "none", "filling", "spoiled", or the commit it is sealed for
    looking,    \* looking[p], the seal p's verification set out from
    accepted    \* accepted[p], the commit p's verification confirmed

cvars == <<box, looking, accepted>>

Sealed == box[1] = "sealed"

Init ==
    /\ box = <<"none", None>>
    /\ looking = [p \in Processes |-> None]
    /\ accepted = [p \in Processes |-> None]

Claim ==
    /\ box = <<"none", None>> /\ box' = <<"filling", None>>
    /\ UNCHANGED <<looking, accepted>>

Seal ==
    /\ box = <<"filling", None>> /\ \E c \in Commits : box' = <<"sealed", c>>
    /\ UNCHANGED <<looking, accepted>>

Spoil ==
    /\ box # <<"none", None>> /\ box' = <<"spoiled", None>>
    /\ UNCHANGED <<looking, accepted>>

Look(p) ==
    /\ Sealed /\ looking' = [looking EXCEPT ![p] = box[2]]
    /\ accepted' = [accepted EXCEPT ![p] = None] /\ UNCHANGED box

Accept(p) ==
    /\ looking[p] # None /\ accepted' = [accepted EXCEPT ![p] = looking[p]]
    /\ looking' = [looking EXCEPT ![p] = None] /\ UNCHANGED box

Leave(p) ==
    /\ looking' = [looking EXCEPT ![p] = None]
    /\ accepted' = [accepted EXCEPT ![p] = None] /\ UNCHANGED box

Next ==
    \/ Claim \/ Seal \/ Spoil
    \/ \E p \in Processes : Look(p) \/ Accept(p) \/ Leave(p)

Spec == Init /\ [][Next]_cvars
=============================================================================
