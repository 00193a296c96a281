SPECIFICATION Spec
CONSTANTS
  None = None
  b1 = b1
  b2 = b2
  j1 = j1
  t1 = t1
  a1 = a1
  a2 = a2
  k1 = k1
  Procs = {p1}
  Targets = {t1}
  Jobs = {j1}
  TargetOf <- MCTargetOf
  Runs = {b1, b2}
  JobOf <- MCJobOf
  Requests = {c1}
  Actors = {a1, a2}
  Keys = {k1}
  Submissions <- TwoSubmissions
  MaxCrashes = 1
  Sweeps = {s1}
INVARIANTS
  InterruptedRolledBack
CHECK_DEADLOCK FALSE
