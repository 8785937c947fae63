SPECIFICATION Spec
CONSTANTS
  Accounts = {ann, bob}
  Minute = 2
  MinSecs = 1
  MaxSecs = 3
  Unit = 2
  UpstreamMin <- MCMin
  HomeRates = {0, 1}
  Prices <- MCPrices
  UpstreamSecs = {0, 4}
  LimitChoices <- MCLimits
  Recordings = {1, 3, 4}
  Day = 1
  Month = 2
  MaxLag = 1
  MaxVersion = 2
  MaxSpend = 2
  MaxClock = 1
INVARIANTS PricedByVersion SpendingStaysUnderCaps
SYMMETRY MCSym
CHECK_DEADLOCK FALSE
