SPECIFICATION Spec
CONSTANTS
  r1 = r1
  r2 = r2
  r3 = r3
  d1 = d1
  d2 = d2
  d3 = d3
  Request = {r1, r2}
  Deployment = {d1, d2, d3}
  Candidates = {{d1, d2}, {d3}}
  MaxRetries = 1
  Cooldown = 1
  Window = 1
  Threshold = 600
  SharedGates = {TRUE, FALSE}
  NoDeployment = NoDeployment
INVARIANTS InFlightExact ProbeFlagHasLease
PROPERTIES TrippedRecovers
