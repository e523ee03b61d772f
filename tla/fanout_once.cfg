SPECIFICATION Spec
CONSTANTS
  u1 = u1  u2 = u2  u3 = u3  p1 = p1  p2 = p2  r1 = r1  r2 = r2  r3 = r3
  Units = {u1, u2, u3}
  Paths = {p1, p2}
  Rows = {r1, r2, r3}
  PathOf <- SharedPaths
  UnitOf <- SharedRows
  Dynamic = TRUE
  Prepares = TRUE
  WaitsForAll = TRUE
  OneResultFile = FALSE
  MaxRetries = 0
  MaxRuns = 2
  FaultKinds = {"pod","delete","lie","register","count"}
  MaxFaults = 3
INVARIANTS OnlySurplusLandsTwice CleanRunSucceeds FanOutInv
PROPERTIES KeepsPromise
