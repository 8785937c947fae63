SPECIFICATION MembersSpec
CONSTANTS
  Accounts = {ann}
  Hwids = {pc1, pc2}
  Codes = {c1, c2}
  LOCKOUT_THRESHOLD = 1
  LOCKOUT_SECS = 1
  ACCESS_TTL_SECS = 1
  REFRESH_TTL_SECS = 1
  INVITE_TTL_SECS = 1
  DEFAULT_SLOTS = 1
  SlotLimits = {1}
  MaxLag = 1
  MaxClock = 2
  MaxIssued = 2
  MaxGeneration = 1
  Openings = {0, 5}
  MAX_FAILED = 2
  LOCK_SECS = 2
  ADMIN_TOKEN_TTL_SECS = 1
SYMMETRY Symmetries
INVARIANTS StoresAgree OpeningOnce PanelShowsEverySession AdminGuessingIsSlow
CHECK_DEADLOCK FALSE
