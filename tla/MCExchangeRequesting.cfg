SPECIFICATION Spec
CONSTANTS
  Callers = {c1, c2}
  Kinds = {"headers", "bodies"}
  MaxMessages = 1
  None = None
INVARIANTS
  RequestingIsActive
CHECK_DEADLOCK FALSE
