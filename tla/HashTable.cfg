SPECIFICATION Spec
CONSTANTS
  Elem = {x, y, z}
  Key = {k1, k2, k3}
  List <- Buckets
  HashKey <- HashOf
  StoreTail = {}
  IndexMod = 4
  null = null
  x = x
  y = y
  z = z
  k1 = k1
  k2 = k2
  k3 = k3
SYMMETRY ElemSymmetry
INVARIANTS BucketsHoldKeys IterationComplete
PROPERTIES NoRevisit ImplementsKeyedTable
