SPECIFICATION RoutingSpec
CONSTANTS
  NoName = NoName
  NoLimit = NoLimit
  Fitting <- MCFitting
  HostPattern <- MCHostPattern
  HostName <- MCHostName
  Declaration <- MCDeclaration
  Static <- MCStatic
  Documented <- MCDocumented
  Custom = {"slug"}
  Method = {"GET", "POST", "HEAD"}
  Path <- MCPath
  RawPath <- MCRawPath
  Decoded <- MCDecoded
  Spelt <- MCSpelt
  Value <- MCValue
  MaxCalls = 3
INVARIANTS
  IndexFresh
  LinkReaches
  OwnerAnswers
  DocsComplete
  LimitApplies
CHECK_DEADLOCK FALSE
