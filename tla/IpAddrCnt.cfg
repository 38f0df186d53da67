SPECIFICATION Spec
CONSTANTS
  Elem = {1, 2, 3, 4, 5, 6, 7}
  NumNodes = 6
  MaxCnt = 2
  KeyOf <- Address
  null = null
  StoredBf <- RobbedBits
INVARIANT FactorReadBack
