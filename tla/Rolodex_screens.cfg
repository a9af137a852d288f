\* Up to three entries of two names, scans nested twice, seven calls.
CONSTANTS
  MaxLinks = 3
  MaxLoaded = 3
  MaxName = 2
  MAXMATCHES = 2
  MaxDepth = 2
  MaxCalls = 7
SPECIFICATION Spec
INVARIANTS
  ListWhole
  InOrder
  ShownBelongs
