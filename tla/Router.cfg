SPECIFICATION Spec
CONSTANTS
  h1 = h1
  h2 = h2
  Fitting <- MCFitting
  Entry <- MCEntry
  Path <- MCPath
  Asked <- MCAsked
  Method = {"GET", "POST"}
  Handler = {h1, h2}
  Custom = {"slug"}
  CacheSize = 1
  MaxChanges = 4
SYMMETRY Symmetric
INVARIANTS
  FindsBest
  CacheFresh
CHECK_DEADLOCK FALSE
