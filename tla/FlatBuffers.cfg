SPECIFICATION MCSpec
CONSTANTS
  Null = 0
  Default = "default"
  Arena = "arena"
  Builder = {"b1", "b2"}
  MessageBuilder = {"m1", "m2"}
  TempMessage = "tm"
  Temp = "t"
  Holder = {"h1", "h2"}
  InitialSize = 1
  MinAlign = 2
  MaxSize = 2
  MaxNotes = 1
  MaxBlocks = 2
  Casts <- MCCasts
INVARIANTS
  PartsTypeOK
  ReadBack
  FinishedVerifies
  AcceptedIsReadable
  VTablesShared
  LookupFinds
  OneOwner
PROPERTIES
  BehavesAsStacks
CHECK_DEADLOCK FALSE
