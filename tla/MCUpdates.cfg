SPECIFICATION UpdatesSpec
CONSTANTS
  Versions <- const_Versions
  Binary <- const_Binary
  Signed <- const_Signed
  Forms <- const_Forms
  Tags <- const_Tags
  Endpoints <- const_Endpoints
  Pollers <- const_Pollers
PROPERTIES GateFollowsPanel AppliedOnce UpdateIsTried
