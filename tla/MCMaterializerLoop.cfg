SPECIFICATION Spec
CONSTANTS
  r1 = r1
  r2 = r2
  r3 = r3
  none = none
  Resource = {r1, r2, r3}
  NoResource = none
  MaxHops = 3
  MaxProposals = 1
  Tick = {0}
  MaxDepth = 2
  MaxClaims = 1
  MaxEvents = 3
PROPERTIES
  Settles
CHECK_DEADLOCK FALSE
