SPECIFICATION ESpec
CONSTANTS
  Forces = {f1}
  Family = {steel}
  Overlaps = {copper}
  Published = {steel}
  Nil = Nil
  Limit = 3
  Strict = TRUE
  MaxLevel = 2
  MaxQueue = 1
CHECK_DEADLOCK FALSE
INVARIANTS NothingMinted
