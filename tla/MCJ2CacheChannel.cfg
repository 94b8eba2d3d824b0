SPECIFICATION MCSpec
CONSTANTS
  n1 = n1  n2 = n2
  t1 = t1  t2 = t2  t3 = t3
  k1 = k1  k2 = k2
  Node = {n1, n2}
  Thread = {t1, t2, t3}
  Home <- Homes
  Key = {k1, k2}
  None = None
  MaxOps = 3
  MaxFaults = 1
SYMMETRY Symmetry
INVARIANTS TypeOK StaleIsCovered
CHECK_DEADLOCK FALSE
