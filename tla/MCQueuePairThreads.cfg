CONSTANTS
  Callers = {c1, c2, c3}
  Handles = {h1, h2}
  Entries = {e1, e2, e3}
  NoEntry = NoEntry
SPECIFICATION Spec
CONSTRAINT AllocBound
INVARIANTS
  MemorySafety
