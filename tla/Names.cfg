SPECIFICATION PairsSpec
CONSTANTS
  TypeName <- ToCjQualifiedName
  Function <- MCFunction
INVARIANTS
  SameNames
  NamesFollowSortKeys
  PairsAreNamedAlike
CHECK_DEADLOCK FALSE
