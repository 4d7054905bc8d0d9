----------------------------- MODULE MCGunRights -----------------------------
(* Small instances of GunRights for TLC.                                       *)
EXTENDS GunRights, TLC

Permutable == Permutations(Forces) \cup Permutations(Categories)
=============================================================================
