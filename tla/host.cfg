SPECIFICATION FairSpec
CONSTANTS
  i1 = i1  i2 = i2  x = x
  v1 = v1  v2 = v2  v3 = v3
  o1 = o1
  Invocations = {i1, i2}
  JobOf <- Same
  MaxSlots = 2
  Versions = {v1, v2, v3}
  NoSlot = NoSlot
  FaultKinds = {"start", "export", "remove", "jvm", "killcmd", "killguard", "ssh"}
  MaxFaults = 1
  Operators = {o1}
  First = v1
  Offered <- AtHand
  Imports = {v1}
  Writes = {v1, v2}
  Claims = {v1, v2, v3}
  MaxScripts = 2
INVARIANTS TypeOK AtMostSlots OneWriterPerJob CurrentIsProven
PROPERTIES EveryInvocationRuns
CHECK_DEADLOCK FALSE
