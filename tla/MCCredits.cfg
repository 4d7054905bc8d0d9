SPECIFICATION ESpec
CONSTANTS
  Forces = {f1, f2}
  Family = {steel}
  Overlaps = {copper}
  Published = {steel}
  Nil = Nil
  Limit = 2
  Strict = FALSE
  MaxLevel = 2
  MaxQueue = 2
SYMMETRY Permutable
CHECK_DEADLOCK FALSE
INVARIANTS CreditTypeOK EarnedKept RefusedForCause OwedHeard
