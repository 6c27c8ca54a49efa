SPECIFICATION Spec
CONSTANTS
  g1 = g1
  a1 = a1
  a2 = a2
  a3 = a3
  slots = slots
  tokens = tokens
  requests = requests
  Gateway = {g1}
  Local = g1
  Attempt = {a1, a2, a3}
  Counter = {slots, tokens, requests}
  Window <- MCWindow
  Tokens = {tokens}
  Limit <- MCLimit
  Plans <- MCPlans
  Backends = {"memory", "redis"}
  Estimate = 2
  Actual = {1}
  Lease = 1
  Minute = 2
  Day = 3
  MaxTime = 4
  MaxRestarts = 1
INVARIANTS UsedIsCharged
PROPERTIES GrantsExactly
SYMMETRY AttemptSymmetry
CHECK_DEADLOCK FALSE
