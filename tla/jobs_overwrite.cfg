SPECIFICATION Spec
CONSTANTS
  j1 = j1
  j2 = j2
  w1 = w1
  w2 = w2
  k1 = k1
  Jobs = {j1}
  Workers = {w1, w2}
  Slots = {1}
  Keys = {}
  NoKey = NoKey
  Periods = {}
  NoPeriod = NoPeriod
  Concurrency = 1
  MaxAttempts = 2
  MaxStops = 1
  MaxCrashes = 0
  MaxClaims = 2
PROPERTY OutcomeFromLatestClaim
