SPECIFICATION Spec
CONSTANTS
  Procs = {a, b}
  a = a
  b = b
  Options = {"own", "l", "read"}
  MaxStarts = 3
  MaxEdits = 2
INVARIANTS
  LockTellsWriter
  SavedIsKept
  NothingTorn
CHECK_DEADLOCK FALSE
SYMMETRY Interchangeable
