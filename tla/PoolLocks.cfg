SPECIFICATION PoolSpec
CONSTANTS
  t1 = t1
  t2 = t2
  t3 = t3
  P = P
  Q = Q
  Threads = {t1, t2, t3}
  Nobody = Nobody
  Processes = {P, Q}
  ProcessOf <- MCProcessOf
  NoHandle = NoHandle
  Handles <- AllHandles
  MaxDepth = 3
  Server = P
  Workers = {t1}
  Calls = {c1, c2}
  NoCall = NoCall
SYMMETRY CallSymmetry
INVARIANTS
  Exclusive
  NoDeadlock
  SlotsAccounted
  TruthfulOutcome
