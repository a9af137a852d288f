SPECIFICATION Spec
CONSTANTS
  Page = 8
  MaxPages = 2
  NumLists = 3
  Users = {1, 2, 3}
  Requests = {1, 4, 20}
  MaxCalls = 7
PROPERTY DamageKnown
PROPERTY DoubleFreeAborts
PROPERTY SpaceIsFound
CHECK_DEADLOCK FALSE
