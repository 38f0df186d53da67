SPECIFICATION MCSpec
CONSTANTS
  Nodes = {1, 2, 3, 4, 5, 6, 7, 8, 9, 10, 11, 12, 22}
  Elem = {1, 2, 3, 4, 5, 6, 7, 8, 9, 10, 11, 12, 22}
  Small = {1, 2, 3, 4, 5, 6, 7, 22}
  Large = 11
  KeyOf <- Keys
  null = null
  StoredBf <- Plain
INVARIANTS AvlShape DepthWithinTable SearchesRight IterInOrder MarchFreesAll
VIEW View
