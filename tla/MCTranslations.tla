---------------------------- MODULE MCTranslations ----------------------------
(* Small instances of Translations for TLC: catalogue views of one and of two  *)
(* labels.                                                                     *)
EXTENDS Translations, TLC

CONSTANTS k1, k2

OneView == ("mir" :> <<k1, k2>>)
TwoViews == ("mir" :> <<k1>>) @@ ("all" :> <<k1, k2>>)

Elsewhere == Permutations(Sites)
=============================================================================
