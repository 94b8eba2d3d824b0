SPECIFICATION Spec
CONSTANTS
  Thread = {t1, t2}
  Object = {o1, o2, o3, o4}
  Mail = {m1, bad}
  Sign = {s1, s2}
  Valid = {m1}
  None = None
  MaxFaults = 1
SYMMETRY MCSymmetry
VIEW MCView
INVARIANTS TypeOK CachedIsCurrent
