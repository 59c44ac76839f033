SPECIFICATION Spec
CONSTANTS
  Keys = {k1}
  Cap = 1
  BlobLimit = 3
  IdRows = 2
  Windows = {w1}
  OfferedDecisions = {"Review", "Mine", "Done", "Watching"}
  MaxActions = 10
INVARIANT
  CompletesOnlyHandled
CHECK_DEADLOCK FALSE
