SPECIFICATION Spec
CONSTANTS
  A = a
  B = b
  Long = 5
  Short = 1
  Letter = {a, b}
  Filter <- MCFilter
  NameAsked <- MCName
INVARIANTS
  SingleStarIsOneSegment
CHECK_DEADLOCK FALSE
