SPECIFICATION Spec
CONSTANTS
  Clients = {c1, c2, c3}
  Limit = 2
  Window = 2
  MaxEntries = 2
  NoEntry = NoEntry
  MaxTime = 6
SYMMETRY Symmetric
INVARIANTS
  TypeOK
  TableBounded
  SpanLimit
  WindowCounts
PROPERTIES
  RefusedForCause
CHECK_DEADLOCK FALSE
