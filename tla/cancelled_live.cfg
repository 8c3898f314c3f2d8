SPECIFICATION AllSpec
CONSTANTS
  Parts = {"gst"}
  r1 = r1
  r2 = r2
  r3 = r3
  r4 = r4
  b1 = b1
  b2 = b2
  p1 = p1
  p2 = p2
  Jobs = {p1, p2}
  Workers = {w}
  Slots = {1}
  Keys = {"key"}
  NoKey = "no key"
  Periods = {"day"}
  NoPeriod = "no period"
  Concurrency = 1
  MaxAttempts = 2
  MaxStops = 1
  MaxCrashes = 1
  MaxClaims = 2
  Requests = {p1, p2}
  Runners = {w}
  MaxPortalEvents = 2
  Plans = {"basic", "pro"}
  Checkouts = {n1}
  Deliveries = {p1, p2}
  MaxSubs = 2
  MaxSent = 3
  Total = 2
  LinkRequests = {n1, n2}
  MaxLinks = 2
  MaxRefunds = 2
  MaxEdits = 1
  MaxEvents = 1
  Reqs = {r1}
  Bodies = {b1}
  BodyOf <- LastOther
CHECK_DEADLOCK FALSE
INVARIANT CancelledHasNothingLive
