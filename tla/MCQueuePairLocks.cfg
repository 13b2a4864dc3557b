CONSTANTS
  Callers = {c1, c2}
  PowerManager = pm
SPECIFICATION Spec
INVARIANTS

  NoCircularWait
  LockDiscipline
