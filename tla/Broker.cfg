SPECIFICATION Spec
CONSTANTS
  r1 = r1
  r2 = r2
  k1 = k1
  k2 = k2
  P = P
  Workers = {w1, w2}
  NoWorker = NoWorker
  Runs = {r1, r2}
  NoRun = NoRun
  Keys = {k1, k2}
  NoKey = NoKey
  Approvals = {P}
  NoApproval = NoApproval
  Requests <- TwoKeys
  DryRunRequired = TRUE
  None = None
  ClocksAgree = TRUE
  MaxAttempts = 4
INVARIANTS AtMostOneTransfer TransferIsFenced DoneIsSent DryRunFirst
PROPERTY ImplementsSingleTransfer
CHECK_DEADLOCK FALSE

SYMMETRY Alike
