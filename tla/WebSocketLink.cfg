SPECIFICATION Spec
CONSTANTS
  h = h
  k = k
  Task = {h, k}
  Handler = h
  NoTask = NoTask
  HighWater = 1
  LowWater = 0
  MaxSends = 2
  MaxReceived = 1
  Faults = {"leave_early", "leave_upgrade", "leave", "silence", "full"}
INVARIANTS
  DisconnectTold
PROPERTIES
  HandlerDoneCloses
  SilentClientClosed
  SenderResumes
CHECK_DEADLOCK FALSE
