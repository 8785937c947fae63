SPECIFICATION Spec
CONSTANTS
  Accounts = {ann}
  Hwids = {pc1, pc2}
  Codes = {c1}
  LOCKOUT_THRESHOLD = 2
  LOCKOUT_SECS = 3
  ACCESS_TTL_SECS = 1
  REFRESH_TTL_SECS = 2
  INVITE_TTL_SECS = 1
  DEFAULT_SLOTS = 1
  SlotLimits = {1, 2}
  MaxLag = 1
  MaxClock = 3
  MaxIssued = 3
  MaxGeneration = 2
SYMMETRY DeviceSymmetry
INVARIANTS SessionsAreBound OneExchangeablePerLogin BurnedLoginsStayDead GuessingIsSlow
PROPERTIES RevocationIsFinal
CHECK_DEADLOCK FALSE
