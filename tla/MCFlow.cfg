SPECIFICATION FairSpec
CONSTANTS
  MaxSecs = 2
  Sounds = {"silent", "loud"}
  MaxPresses = 2
  MaxRestarts = 1
  MaxLogins = 1
  MaxHolding = 1
  Answers = {"blocked", "unknown"}
INVARIANTS InFlightIsShown FedOnce
PROPERTIES SilenceIsNotSent LineFrees TransientsFade
