\* a is asked in c, b in d; two later messages.
SPECIFICATION Spec
CONSTANTS
  a = a
  b = b
  c = c
  d = d
  Loops = {a, b}
  LoopThread <- MCThread
  LoopAt <- MCAt
  WithEvent = {a}
  Threads = {c, d}
  NumMessages = 2
  Authors = {"user", "party", "other"}
  PriorLoops = {b}
  Confidences = {1}
  ChatConfidences = {1, 2}
  MAX_CLOSURE_CONVERSATIONS = 1
  MAX_LOOP_HANDLES = 2
INVARIANTS TypeOK ClosedIsFinal ChasedIsNotDone CountsAreTrue
PROPERTIES NothingPastDoubt PassEnds
CHECK_DEADLOCK FALSE
