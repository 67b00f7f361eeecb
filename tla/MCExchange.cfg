SPECIFICATION FairSpec
CONSTANTS
  Callers = {c1, c2}
  Kinds = {"headers", "bodies"}
  MaxMessages = 2
  None = None
INVARIANTS
  OneInFlight
  LockOwned
PROPERTIES
  CallEnds
CHECK_DEADLOCK FALSE
