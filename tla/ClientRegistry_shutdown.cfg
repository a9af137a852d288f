\* Three connections compete for two slots, in every fair behaviour.
CONSTANTS
  Clients = {c1, c2, c3}
  Slots = 2
  Empty = Empty
SPECIFICATION ClientSpec
INVARIANTS
  SlotForEveryEntrant
  TableListsRegistered
  ShutdownReachesPresent
PROPERTIES
  ExitsOnceUsed
\* A server no client connects to stops for good in creg_wait_for_empty.
CHECK_DEADLOCK FALSE
