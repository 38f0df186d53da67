\* The program may end: once its mutex is destroyed no operation is left.
SPECIFICATION FairSpec
CONSTANTS
  Null = Null
  Thread = {a, b, c}
INVARIANTS
  WalksStayInside
  NoUseAfterEnd
PROPERTIES
  WalksEnd
  ImplementsThreadDataSet
CHECK_DEADLOCK FALSE
