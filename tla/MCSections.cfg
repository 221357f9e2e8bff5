CONSTANTS
  MaxLines = 5
  MaxLevel = 3
SPECIFICATION Spec
INVARIANTS
  PathIsEnclosing
  QuotedOnce
CHECK_DEADLOCK FALSE
