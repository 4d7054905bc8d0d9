SPECIFICATION MCSpec
CONSTANTS
  Refused = Refused
  Same <- SameJsonValue
  Changes <- ChangedFields
  Assign <- Assigned
  Lua <- LuaValue
  Nil = Nil
  b0 = b0
  bPatched = bPatched
  p0 = p0
  pReordered = pReordered
  pRemoves = pRemoves
  pAgain = pAgain
  c0 = c0
  cExtra = cExtra
  cFlag = cFlag
  cReordered = cReordered
  expected = expected
  another = another
  malformed = malformed
  k = k
  l = l
  s = s
  t = t
  r = r
  w = w
  Builders = {k, l}
  Composers = {s, t}
  Recoverers = {r}
  Comparers = {w}
  Captures = {b0, bPatched, p0, pReordered, pRemoves, pAgain, c0, cExtra, cFlag, cReordered}
  Capture <- MCCapture
  Roots <- MCRoots
  Archives = {expected, another, malformed}
  Zipped <- MCZipped
  Expected = expected
  Target = 210
  Published <- MCPublished
  Reviews <- MCReviews
  Profiles <- MCProfiles
  MaxChanges = 2
INVARIANTS ComposedExactly Restored VerdictExact LikeWithLike
PROPERTIES OthersKept
CHECK_DEADLOCK FALSE
