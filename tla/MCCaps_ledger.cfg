SPECIFICATION HSpec
CONSTANTS
  Forces = {f1}
  Techs = {t1}
  Nil = Nil
  Configs <- AllConfigs
  MaxLevel = 3
  MaxQueue = 2
  OldGames = TRUE
INVARIANTS RightsProven LedgerMatchesCaps
PROPERTIES OnlyOwnRestored HiddenStaysHidden
