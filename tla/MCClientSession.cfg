SPECIFICATION ClientSpec
CONSTANTS
  Accounts = {ann}
  Member = ann
  s1 = s1
  s2 = s2
  s3 = s3
  pc1 = pc1
  pc2 = pc2
  Shells = {s1, s2, s3}
  PcOf <- TwoPcs
  Hwids = {pc1, pc2}
  Codes = {c1}
  LOCKOUT_THRESHOLD = 2
  LOCKOUT_SECS = 1
  ACCESS_TTL_SECS = 1
  REFRESH_TTL_SECS = 1
  INVITE_TTL_SECS = 1
  DEFAULT_SLOTS = 1
  SlotLimits = {1}
  MaxLag = 0
  MaxClock = 1
  MaxIssued = 3
  MaxGeneration = 1
  MaxCalls = 3
  MaxStops = 1
SYMMETRY ShellSymmetry
INVARIANTS ClientTypeOK BurnedOnlyAfterStrain HeldPairsExchange LogoutIsFinal
CHECK_DEADLOCK FALSE
