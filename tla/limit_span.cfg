SPECIFICATION Spec
CONSTANTS
  Clients = {c1, c2}
  Limit = 2
  Window = 2
  MaxEntries = 2
  NoEntry = NoEntry
  MaxTime = 4
SYMMETRY Symmetric
INVARIANTS
  PerWindow
CHECK_DEADLOCK FALSE
