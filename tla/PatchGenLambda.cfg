SPECIFICATION Spec
CONSTANTS
  PackageInit = packageInit
  LiteralInit = literalInit
  PatchImpl = PatchImpl
  MainFunc = {f1, f2, f3}
  Family = "lambda"
  Func = {f1, f2, f3, packageInit, literalInit}
  TypeDef = {C, PatchImpl}
  UserVar = {v}
  Pair <- MCPair
INVARIANT
  NoBodilessFunction
