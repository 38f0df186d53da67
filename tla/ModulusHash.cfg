SPECIFICATION Spec
CONSTANTS
  NumSegments = 4
  Base = 4
  ModulusLimit = 8
  ProductLimit = 32
  CountLimit = 7
INVARIANTS
  RightSegments
  HashRight
  NoOverflow
CHECK_DEADLOCK FALSE
