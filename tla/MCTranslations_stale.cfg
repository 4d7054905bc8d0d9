SPECIFICATION Spec
CONSTANTS
  Players = {1}
  Sites = {home, away}
  k1 = k1
  k2 = k2
  Keys = {k1, k2}
  Catalogue <- OneView
  LastId = 2
  Window = 1
  Work = 2
  Batch = 1
  Expiry = 1
  Refusable = {}
  Nil = Nil
SYMMETRY Elsewhere
INVARIANTS NotStranded
