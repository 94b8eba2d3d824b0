SPECIFICATION MCSpec
CONSTANTS
  Admin = {a1}
  Node = {n1, n2, z1, z2}
  ZeroEnded = {z1, z2}
  Fourth = None
  Root = Root
  None = None
  MaxLen = 5
  Scenes = {"zero"}
SYMMETRY MCSymmetry
INVARIANT ParentIdsNameAncestors
