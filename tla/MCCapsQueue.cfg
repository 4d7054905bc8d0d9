SPECIFICATION QueueSpec
CONSTANTS
  Forces = {f1}
  t1 = t1
  t2 = t2
  Techs = {t1, t2}
  Nil = Nil
  Configs <- Capping
  MaxLevel = 3
  MaxQueue = 2
  OldGames = FALSE
PROPERTIES NoOverCapCompletion WorkKept EventsDrain
