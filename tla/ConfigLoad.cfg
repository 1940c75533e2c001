SPECIFICATION LoadSpec
CONSTANTS
  l1 = l1
  l2 = l2
  l3 = l3
  NoLeaf = NoLeaf
  Leaf = {l1, l2, l3}
  Order <- ConfOrder
  Shape <- ConfShapes
  MaxCalls = 2
CHECK_DEADLOCK FALSE
INVARIANTS LoadTypeOK Priority Untouched
