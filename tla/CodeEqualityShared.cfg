SPECIFICATION Spec
CONSTANTS
  r = r  a = a  b = b  w1 = w1  w2 = w2  t1 = t1  t2 = t2  Null = Null
  Family = "repeated"
  Value = {r, a, b}
  What = {w1, w2}
  CallType = {t1, t2}
  CodePair <- MCCodePair
INVARIANT EqualOnlyIfSame
CHECK_DEADLOCK FALSE
