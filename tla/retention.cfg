SPECIFICATION FairSpec
CONSTANTS
  a = a  b = b  End = End
  Streams = {"stdout", "stderr"}
  Printed <- Output
  PipeSize = 1
  NumTables = 2
  RetentionDays <- Days
  Dates = {1, 2}
  MaxToday = 3
  Backfill = FALSE
  FaultKinds = {"list", "delete", "keys", "hive", "close", "hang", "crash"}
  MaxFaults = 1
INVARIANTS TypeOK DanglingIsReported OutputIsWhole
PROPERTIES OnlyExpiredIsLost DropHidesNothing ExpiredDataGoes
CHECK_DEADLOCK FALSE
