SPECIFICATION Spec
CONSTANTS
  Row = {r1, r2}
  Name = {a, b}
  Def = {d1, d2}
  Admin = {x, y}
  None = None
  MaxFaults = 1
SYMMETRY MCSymmetry
INVARIANTS TypeOK NoOrphan Mirror
