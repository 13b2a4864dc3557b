CONSTANTS
  RIDBits = 3
  ReservedMax = 2
SPECIFICATION Spec
INVARIANTS
  TypeOK
  GeneratorMatchesReference
  ReservedRIDsNeverUsed
