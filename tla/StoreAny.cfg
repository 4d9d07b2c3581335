SPECIFICATION LiveSpec
CONSTANTS
  snapshot = snapshot
  journal = journal
  v1 = v1
  v2 = v2
  Stores = {s1, s2}
  NoStore = NoStore
  LongLived = {s1}
  Files = {snapshot, journal}
  Images = {v1, v2}
  NoFile = NoFile
  Plans <- TaskPlans
  FaultPoints <- Everything
  MaxTx = 3
  MaxFaults = 2
INVARIANTS FailsClosed
PROPERTIES CallsReturn
CHECK_DEADLOCK FALSE
