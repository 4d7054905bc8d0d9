------------------------------ MODULE MCCredits ------------------------------
(* Small instances of CreditsEarned for TLC.                                   *)
EXTENDS CreditsEarned, TLC

Permutable == Permutations(Forces)
=============================================================================
