SPECIFICATION ServiceSpec
CONSTANTS
  T = T
  d1 = d1
  k1 = k1
  k2 = k2
  Stores = {s1, s2}
  NoStore = NoStore
  LongLived = {}
  Files <- ServiceFiles
  Images <- ServiceImages
  NoFile = NoFile
  Plans = {}
  FaultPoints <- KillsAndErrors
  MaxTx = 4
  MaxFaults = 2
  Tasks = {T}
  Decisions = {d1}
  Keys = {k1, k2}
  NoKey = NoKey
  States = {"backlog", "ready", "working", "blocked", "completed"}
  CheckpointEvery = 2
  Commands <- AllCommands
  MaxRevision = 3
INVARIANTS SnapshotFollowsJournal OneEffectPerKey AnsweredIsKept ReceiptsMatch
PROPERTIES AppliesToSeen DecidedOnItsRevision
