SPECIFICATION FairSpec
CONSTANTS
  ann = ann
  r1 = r1
  u1 = u1
  Accounts = {ann}
  Requests = {r1}
  Audios = {u1}
  Amounts = {0, 1, 2, 4}
  Conns = {c1, c2, c3}
  Cost <- CostOf
  Quantum = 1
  Ops <- NoDeductOps
  ResultTTL = 2
  MaxLag = 1
  MaxClock = 0
  MaxRestarts = 1
INVARIANTS CompletedOpsAreDurable PanelBooksWhatSurvived
PROPERTIES EveryRequestEnds
CHECK_DEADLOCK FALSE
