SPECIFICATION Spec
CONSTANTS
  Elem = {x, y, z}
  List = {l1, l2}
  null = null
  x = x
  y = y
  z = z
  l1 = l1
  l2 = l2
SYMMETRY ListSymmetry
INVARIANTS ListShape ListedNotDetached WalksMirror
PROPERTY ImplementsSequenceList
