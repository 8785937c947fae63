SPECIFICATION Spec
CONSTANTS
  ann = ann
  r1 = r1
  u1 = u1
  Accounts = {ann}
  Requests = {r1}
  Audios = {u1}
  Amounts = {0, 1, 2, 4}
  Conns = {c1, c2, c3}
  Cost <- CostOf
  Quantum = 1
  Ops <- AllOps
  ResultTTL = 2
  MaxLag = 1
  MaxClock = 3
  MaxRestarts = 0
INVARIANTS PanelFollowsLedger PaidOncePerText NothingHeldBetweenHandlers
PROPERTIES FeeNeedsLiveToken
SYMMETRY ConnSymmetry
CHECK_DEADLOCK FALSE
