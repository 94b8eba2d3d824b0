SPECIFICATION MCSpec
CONSTANTS
  Admin = {a1, a2}
  Node = {n1, n2, n3, z1}
  ZeroEnded = {z1}
  Fourth = n3
  Root = Root
  None = None
  MaxLen = 5
  Scenes = {"pair", "deep"}
SYMMETRY MCSymmetry
CONSTRAINT MCUncaused
INVARIANTS TypeOK ParentIdsAreAncestors
PROPERTIES TreeSpec
