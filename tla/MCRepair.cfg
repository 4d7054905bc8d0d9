SPECIFICATION MCSpec
CONSTANTS
  Ids = {a, b, third}
  home = home
  Places = {home, abroad}
  third = third
  Nil = Nil
  Quiet = 2
  Interval = 2
  Pending = 2
  Budget = 1
  MaxHealth = 2
INVARIANTS RepairTypeOK QueueIsMembers BoundWhileQueued
PROPERTIES RepairsPatiently Served
