SPECIFICATION MCSpec
CONSTANTS
  Entry = entry
  First = first
  Second = second
  Block = {entry, first, second}
  Op <- MCOp
  Source <- MCSource
  Patchable <- MCMoved
  NotMoving = notMoving
INVARIANTS
  TypeOK
  RoundTrip
  NoDanglingBranch
  InvokedOnInstance
  MovedFaithfully
PROPERTIES
  BehavesAsPromised
CHECK_DEADLOCK FALSE
