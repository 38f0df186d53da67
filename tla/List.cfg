SPECIFICATION Spec
CONSTANTS
  Elem = {w, x, y, z}
  List = {l1, l2}
  StoreTail = {l1}
  null = null
  w = w
  x = x
  y = y
  z = z
  l1 = l1
  l2 = l2
SYMMETRY ElemSymmetry
INVARIANTS TailIsLast ChainIsContents
PROPERTY ImplementsSequenceList
