SPECIFICATION RelaySpec
CONSTANTS
  Dictations = {d1, d2}
  Nothing = Nothing
INVARIANTS FreeMeansFree
CHECK_DEADLOCK FALSE
