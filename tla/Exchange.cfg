SPECIFICATION Spec
CONSTANTS
  r1 = r1
  r2 = r2
  Request = {r1, r2}
  Setup <- MCSetup
  Encodings <- MCEncodings
  Allowance = 1
  None = None
SYMMETRY Alike
INVARIANTS
  OwnContext
  EveryAnswer
  HonestBody
  TwinAnswers
  AsDocumented
CHECK_DEADLOCK FALSE
