SPECIFICATION MCSpec
CONSTANTS
  Retained = {13, 210}
  Early = {9}
  RetainedOrder <- MCRetained
  EarlyOrder <- MCEarly
  Refused = Refused
  Nil = Nil
  Processes = {p, q}
  good = good
  broken = broken
  r1 = r1
  r2 = r2
  e1 = e1
  q = q
  v1 = v1
  v2 = v2
  Sources = {good, broken}
  Player <- MCPlayer
  Records = {r1, r2}
  EarlyRecords = {e1}
  Editions <- MCEditions
  Edits <- MCEdits
  Tools = {v1, v2}
  MaxCommits = 2
  MaxTampers = 1
INVARIANTS ReleasesTypeOK IntactVerifies SealedPlayable PackagesRight
PROPERTIES CustodyKept
CHECK_DEADLOCK FALSE
