SPECIFICATION SafeSpec
CONSTANTS
  a = a
  b = b
  c = c
  Handler = Handler
  Func = {a, b, c}
  Plans <- MCPlans
  Yields = {a, b, c}
  Picky = {a, c, Handler}
  BeforeHooks = 1
  AfterHooks = 2
INVARIANTS
  TornInReverse
  AllTornDown
  NoEarlyTeardown
  FailureThrown
  FailureAnswered
