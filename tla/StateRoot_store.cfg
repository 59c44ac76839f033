\* Two writers; up to three batches before rotation, one of which may want too much.
SPECIFICATION Spec
CONSTANTS
  Writers = {w1, w2}
  RotationLimit = 4
  HardLimit = 5
  MaxCount = 3
  LastGeneration = 3
  Times = {0, 1}
INVARIANTS
  TypeOK
  SpentOnce
  OneBatchAhead
PROPERTY
  ImplementsConfirmedStore
