CONSTANTS
  Tcb = {a, b, c, d}
  Group = {root, g}
  Root = root
  Null = null
SPECIFICATION Spec
INVARIANTS LinkInv RingsComplete WalksAgree
PROPERTY ImplementsTree
