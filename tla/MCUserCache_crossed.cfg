SPECIFICATION Spec
CONSTANTS
  Thread = {t1, t2}
  Object = {o1, o2, o3, o4}
  Mail = {m1, m2}
  Sign = {s1, s2}
  Valid = {m1, m2}
  None = None
  MaxFaults = 0
SYMMETRY MCSymmetry
VIEW MCView
INVARIANTS QuietIsCurrent
