------------------------------ MODULE MCSpoilage ------------------------------
(* Small instances of SpoilageHistory for TLC.                                 *)
EXTENDS SpoilageHistory, TLC

Lowest == -1
Permutable == Permutations(Forces)

CONSTANT MaxLeft        \* bound: what MIR leaves behind, in steps

MCNext == HNext /\ left' <= MaxLeft
MCSpec == HInit /\ [][MCNext]_shvars
=============================================================================
