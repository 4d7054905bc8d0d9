SPECIFICATION Spec
CONSTANTS
  Players = {1}
  Sites = {home, away}
  k1 = k1
  k2 = k2
  Keys = {k1, k2}
  Catalogue <- TwoViews
  LastId = 2
  Window = 1
  Work = 1
  Batch = 2
  Expiry = 1
  Refusable = {k1}
  Nil = Nil
SYMMETRY Elsewhere
INVARIANTS LabelsFresh Subscribed WindowKept JoinerAgrees
PROPERTY ExpiredReleased
