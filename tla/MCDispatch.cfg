SPECIFICATION Spec
CONSTANTS
  Accounts = {ann, bob}
  Requests = {r1, r2, r3}
  MaxDepth = 3
  PerAccountMax = 2
  MaxWait = 0
  OfflineMisses = 2
  OnlineHits = 2
  SuspectSecs = 1
  CountMax = 2
  MaxLag = 0
  MaxClock = 1
SYMMETRY DispatchSymmetry
INVARIANTS QueueCounted JudgedByRuns
