SPECIFICATION Spec
CONSTANTS
  Accounts = {ann}
  Requests = {r1, r2}
  NoRequest = none
  Amounts = {0, 1, 2}
  Versions = {1, 2}
  Timeout = 2
  MaxLag = 1
  MaxClock = 2
  MaxEntries = 4
SYMMETRY RequestSymmetry
INVARIANTS TypeOK DerivedSumsAgree TariffFrozen
PROPERTIES SweepSparesFreshHolds SweepLeavesNoStaleHold ImplementsBook
CHECK_DEADLOCK FALSE
