SPECIFICATION Spec
CONSTANTS
  Key = {k1, k2}
  Request = {r1, r2, r3, r4, r5}
  KeyOf <- MCKeyOf
  Requests = 2
  Interval = 2
  ForgetEvery = 2
  FailOpen = TRUE
  Store = {"memory", "redis"}
  MaxTime = 7
  k1 = k1
  k2 = k2
  r1 = r1
  r2 = r2
  r3 = r3
  r4 = r4
  r5 = r5
SYMMETRY Symmetric
INVARIANTS
  WindowBound
  RetryExact
PROPERTIES
  ImplementsBucket
CHECK_DEADLOCK FALSE
