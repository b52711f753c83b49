SPECIFICATION QueueSpec
CONSTANTS
  Thread = {t1, t2}
  MaxEvents = 5
  SocketCap = 2
  ReadSize = 1
INVARIANTS NoLostWakeup
PROPERTY ImplementsChannel
CHECK_DEADLOCK FALSE
