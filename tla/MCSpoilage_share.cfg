SPECIFICATION MCSpec
CONSTANTS
  Forces = {f1, f2}
  Aliens = {enemy}
  Nil = Nil
  Lo <- Lowest
  Hi = 3
  PerLevel = {0, 1, 2}
  MaxLevel = 2
  MaxLeft = 8
SYMMETRY Permutable
INVARIANTS SpoilageTypeOK ContributedOnce
