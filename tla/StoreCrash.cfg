SPECIFICATION Spec
CONSTANTS
  snapshot = snapshot
  journal = journal
  v1 = v1
  v2 = v2
  Stores = {s1, s2}
  NoStore = NoStore
  LongLived = {}
  Files = {snapshot, journal}
  Images = {v1, v2}
  NoFile = NoFile
  Plans <- TaskPlans
  FaultPoints <- KillsAndErrors
  MaxTx = 3
  MaxFaults = 3
INVARIANTS OpensOnCommitted CommittedSettles
PROPERTIES ImplementsAtomicStore
