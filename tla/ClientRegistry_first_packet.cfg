\* One client that sends a packet.
CONSTANTS
  Clients = {c1}
  Slots = 1
  Empty = Empty
SPECIFICATION Spec
PROPERTIES
  ServesUntilEof
\* A server no client connects to stops for good in creg_wait_for_empty.
CHECK_DEADLOCK FALSE
