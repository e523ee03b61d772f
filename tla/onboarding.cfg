SPECIFICATION FairSpec
CONSTANTS
  a = a  b = b  k = k  s = s  u1 = u1  u2 = u2
  c1 = c1
  TdColumns <- Table
  HiveOrders <- Existing
  Key = k  Static = {s}
  TypeChoices <- AllTypes
  KeySpellings = {"upper", "lower"}
  NewSpellings = {"upper"}
  Units <- PlanOrder  Rows <- RowsOf
  Limits = {1, 2}
  BatchSize = 1
  LowerTableName = TRUE
  Creators = {c1}
  NoTable = NoTable  NoSpec = NoSpec
  FaultKinds = {"ddl", "source", "datax", "lose", "register", "count", "drop", "delete", "keys",
                "crash"}
  MaxFaults = 2
INVARIANTS TypeOK PositionsAgree PassIsEarned ScratchIsCleared
PROPERTIES TableStaysUnlessForced ValidateEnds
CHECK_DEADLOCK FALSE
