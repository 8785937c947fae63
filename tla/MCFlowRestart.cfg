SPECIFICATION Spec
CONSTANTS
  MaxSecs = 2
  Sounds = {"silent", "loud"}
  MaxPresses = 1
  MaxRestarts = 1
  MaxLogins = 0
  MaxHolding = 1
  Answers = {"allow", "pending"}
PROPERTIES NoRestartMidDictation
