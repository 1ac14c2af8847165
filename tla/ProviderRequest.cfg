SPECIFICATION FairSpec
CONSTANTS
  Dist = {d1, d2, d3}
  Gone = {d3}
  NoDist = none
  MaxInvocations = 2
  MaxCallbacks = 2
INVARIANTS SuccessIsTrue DeployedEdgeFresh
PROPERTY EventEnds
