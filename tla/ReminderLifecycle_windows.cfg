\* Two loops over a store with room for one record, two windows.
SPECIFICATION Spec
CONSTANTS
  Keys = {k1, k2}
  Cap = 1
  BlobLimit = 3
  IdRows = 2
  Windows = {w1, w2}
  OfferedDecisions = {"Dismissed", "Review", "Mine", "Done"}
  MaxActions = 9
INVARIANTS
  TypeOK
  NeverForgotten
  NoDuplicateTask
  StoreTellsTheTruth
PROPERTIES
  NoLostDecision
CHECK_DEADLOCK FALSE
