SPECIFICATION Spec
CONSTANTS
  g1 = g1
  g2 = g2
  d1 = d1
  d2 = d2
  Process = {g1, g2}
  Deployment = {d1, d2}
  Pid <- DistinctPids
  Target <- MCTarget
  Cooldown = 1
  Window = 1
  Threshold = 600
  TierSize = {1, 2}
  NoToken = NoToken
  MaxTicket = 2
INVARIANTS OneUnexpiredProbe NoPhantomProbe
SYMMETRY DeploymentSymmetry
