SPECIFICATION FairSpec
CONSTANTS
  PackageInit = packageInit
  LiteralInit = literalInit
  PatchImpl = PatchImpl
  MainFunc = {f1, f2, f3}
  Family = "passing"
  Func = {f1, f2, f3, packageInit, literalInit}
  TypeDef = {C, PatchImpl}
  UserVar = {v}
  Pair <- MCPair
INVARIANTS
  TypeOK
  FlagsMatchPatches
  NoBodilessFunction
  GuardsResolve
  ReachableCodeKept
  RefusedIffCannotApply
PROPERTIES
  NewCodeNotLost
  Termination
