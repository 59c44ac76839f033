SPECIFICATION Spec
CONSTANTS
  Callers = {c1, c2}
  OperationKeys = {intent, other}
  Serialized = TRUE
INVARIANTS
  TypeOK
  AtMostOneEffect
  DurableBeforeRequest
  UnknownFateBlocksCursor

