SPECIFICATION MCSpec
CONSTANTS
  t1 = t1  t2 = t2  t3 = t3  l1 = l1  l2 = l2  l3 = l3
  n1 = n1  n2 = n2  k1 = k1
  a = a  b = b  a1 = a1  b1 = b1  private = private
  Thread = {t1, t2, t3}
  Batch = {t3}
  Lock = {l1, l2, l3}
  None = None
  MaxFails = 1
  MaxEvicts = 1
INVARIANTS TypeOK LoadedOnce LoadersBounded
PROPERTIES GetEnds StaleGoes LoginReads CallbacksEnd
CHECK_DEADLOCK FALSE
