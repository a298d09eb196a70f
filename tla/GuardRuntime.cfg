SPECIFICATION Spec
CONSTANTS
  Func = {f, g}
  Thread = {main, other}
  Main = main
  Program <- MCProgram
INVARIANTS
  TypeOK
  InitialisersArePatched
PROPERTIES
  InitialisedOnce
  ExchangesAtOnce
