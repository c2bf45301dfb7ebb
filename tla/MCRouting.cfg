CONSTANTS
  w1 = w1
  w2 = w2
  Witness = {w1, w2}
  Setters <- Registered
  Runner = {}
  NoRunner = nobody
  MaxInt64 = 9
  Worker = {k1, k2}
  Reader = {a, b}
  Deployments <- OneKind
  MaxVersion = 2
  MaxCutovers = 3
SPECIFICATION RoutingSpec
INVARIANTS
  ReadyConverged
  RouterKeepsFold
  RefreshIsCurrent
PROPERTIES
  DeliversNewer
  RoutesConverge
CHECK_DEADLOCK FALSE
