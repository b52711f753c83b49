SPECIFICATION Spec
CONSTANTS
  Conn = {c1, c2}
  MaxRequests = 2
INVARIANTS
  GracefulDrain
  GraceHonoured
PROPERTY
  StopEnds
CHECK_DEADLOCK FALSE
