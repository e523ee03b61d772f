SPECIFICATION Spec
CONSTANTS
  a = a  b = b  k = k  s = s  u1 = u1  u2 = u2
  c1 = c1
  TdColumns <- Table
  HiveOrders <- Existing
  Key = k  Static = {s}
  TypeChoices <- AllTypes
  KeySpellings = {"upper", "lower"}
  NewSpellings = {"upper"}
  Units <- PlanOrder  Rows <- RowsOf
  Limits = {1, 2}
  BatchSize = 1
  LowerTableName = TRUE
  Creators = {c1}
  NoTable = NoTable  NoSpec = NoSpec
  FaultKinds = {"describe"}
  MaxFaults = 1
PROPERTIES TableStaysUnlessForced
CHECK_DEADLOCK FALSE
