SPECIFICATION Spec
CONSTANTS
  TypeName <- ToCjQualifiedName
  None = 0
  Pkg <- MCPkg
  Letter <- MCLetter
  NamesAsked <- MCNamesAsked
  Compilation <- MCCompilation
INVARIANTS
  PartsTypeOK
  ReadsTheDirective
  SelectsWhatIsMeant
  GuardedAsMeant
  GuardsComplete
  RefusesWithReason
  OwnPartsFound
CHECK_DEADLOCK FALSE
