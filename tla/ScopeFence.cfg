SPECIFICATION Spec
CONSTANTS
  r1 = r1
  r2 = r2
  t1 = t1
  t2 = t2
  s1 = s1
  d1 = d1
  i1 = i1
  i2 = i2
  Request = {r1, r2}
  Deleter = {d1}
  Task = {t1, t2}
  Session = {s1}
  NoTask = NoTask
  Tenant = Tenant
  Identity = {i1, i2}
  NoBinding = NoBinding
  Backends = {"memory", "redis"}
  Capacity = 1
  MaxDeletions = 2
  MaxRestarts = 1
INVARIANTS NoBindingResurrected DeletionRemoves
PROPERTIES FirstSuccessWins CrossedStoresNothing
SYMMETRY FenceSymmetry
CHECK_DEADLOCK FALSE
