SPECIFICATION Spec
CONSTANTS
  Block = {"b1", "b2"}
  Setup <- MCSetup
  MaxRedirects = 2
INVARIANTS
  NothingRuns
  ErrorsSurface
  LoggerClean
  NoDeafWait
  SecureStays
CHECK_DEADLOCK FALSE
