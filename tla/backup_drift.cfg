SPECIFICATION Spec
CONSTANTS
  u1 = u1  u2 = u2  u3 = u3  p1 = p1  p2 = p2  r1 = r1  r2 = r2  r3 = r3
  Units = {u1,u2}
  Paths = {p1, p2}
  Rows = {r1, r2, r3}
  PathOf <- PrivatePaths
  TableOf <- OneTable
  UnitOf <- PrivateRows
  Dynamic = TRUE
  BatchSize = 1
  FaultKinds = {"crash", "export", "datax", "drift", "lie"}
  MaxFaults = 3
INVARIANTS NoRowLandsTwice
