\* Two sessions, as many names as the table has places, every fair behaviour.
CONSTANTS
  Names = {alice, bob, carol}
  Sessions = {s1, s2}
  Broadcaster = broadcaster
  Nobody = nobody
  MAX_TRADERS = 3
SPECIFICATION FairSpec
INVARIANTS
  OneSessionPerTrader
PROPERTIES
  AccountsPersist
  SemReleased
  SendsSerialized
