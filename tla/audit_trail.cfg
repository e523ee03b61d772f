SPECIFICATION FairSpec
CONSTANTS
  j1 = j1  j2 = j2  all = all  one = one
  r1 = r1  r2 = r2
  Jobs = {j1, j2}
  Procs = {all, one}
  JobList <- Lists
  Forced = {one}
  WithSql = TRUE
  WithAlerts = TRUE
  Equipped = {all}
  Recipients = {r1, r2}
  MaxStarts = 3
  FaultKinds = {"connect","raise","mismatch","jsonl","torn","sql","gateway","crash"}
  MaxFaults = 3
INVARIANTS TypeOK ExitZeroMeansLanded FirstSinkKnows
PROPERTIES MismatchIsTold ProcessesEnd
CHECK_DEADLOCK FALSE
