SPECIFICATION Spec
CONSTANTS
  t1 = t1
  t2 = t2
  t3 = t3
  Thread = {t1, t2, t3}
  Main = Main
  Nobody = Nobody
  MaxSignals = 2
  Faults = {"startup", "exit", "shutdown"}
PROPERTIES
  StopEnds
CHECK_DEADLOCK FALSE
