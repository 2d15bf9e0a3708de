\* The process ends.
CHECK_DEADLOCK FALSE
SPECIFICATION Spec
CONSTANTS
  FileRows = {0, 2}
  DefaultRows = 3
  MaxFlaws = 2
INVARIANTS
  ConnectsAsConfigured
  ExitsInOrder
PROPERTIES
  ProcessEnds
