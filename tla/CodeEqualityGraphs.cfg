SPECIFICATION FairSpec
CONSTANTS
  r = r  a = a  b = b  w1 = w1  w2 = w2  t1 = t1  t2 = t2  Null = Null
  Family = "graphs"
  Value = {r, a, b}
  What = {w1, w2}
  CallType = {t1, t2}
  CodePair <- MCCodePair
INVARIANT TypeOK
INVARIANT NeverRejectsSame
INVARIANT EqualUnlessRepaired
PROPERTY Termination
CHECK_DEADLOCK FALSE
