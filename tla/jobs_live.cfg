SPECIFICATION EachFairSpec
CONSTANTS
  j1 = j1
  w1 = w1
  w2 = w2
  Jobs = {j1}
  Workers = {w1, w2}
  Slots = {1}
  Keys = {}
  NoKey = NoKey
  Periods = {p1}
  NoPeriod = NoPeriod
  Concurrency = 1
  MaxAttempts = 2
  MaxStops = 1
  MaxCrashes = 1
  MaxClaims = 3
  parent = parent
  child = child
  cParent = cParent
  s1 = s1
  s2 = s2
CHECK_DEADLOCK FALSE
INVARIANTS TypeOK DeadOnlyAfterAllAttempts
PROPERTIES FencedUntilHandedBack FinishedIsTrueAndFinal EveryJobSettles EveryEntrySettles
