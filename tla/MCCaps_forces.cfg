SPECIFICATION HSpec
CONSTANTS
  Forces = {f1, f2}
  Techs = {t1}
  Nil = Nil
  Configs <- Switching
  MaxLevel = 2
  MaxQueue = 0
  OldGames = FALSE
SYMMETRY Permutable
INVARIANTS LedgerMatchesCaps
PROPERTIES BaselineReturned
