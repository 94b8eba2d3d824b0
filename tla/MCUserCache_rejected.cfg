SPECIFICATION Spec
CONSTANTS
  Thread = {t1}
  Object = {o1, o2, o3}
  Mail = {m1, bad}
  Sign = {s1, s2}
  Valid = {m1}
  None = None
  MaxFaults = 0
SYMMETRY MCSymmetry
VIEW MCView
INVARIANTS OnlyValidated
