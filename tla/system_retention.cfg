SPECIFICATION SystemSpec
CONSTANTS
  None = None
  b1 = b1
  b2 = b2
  b3 = b3
  j1 = j1
  t1 = t1
  a1 = a1
  Procs = {p1}
  Targets = {t1}
  Jobs = {j1}
  TargetOf <- MCTargetOf
  Runs = {b1, b2, b3}
  JobOf <- MCJobOf
  StartedAt <- MCStartedAt
  RetainCount <- MCRetainCount
  Requests = {c1, c2}
  Actors = {a1}
  Keys = {}
  Submissions <- MCSubmissions
  MaxCrashes = 1
  MaxFailures = 1
  Sweeps = {s1}
  Cleanups = {k1}
SYMMETRY AnyCall
INVARIANTS
  SystemTypeOK
  AnchorRemains
  DanglingOnlyByFault
PROPERTIES
  PinHonoured
  ImplementsPinnedStore
CHECK_DEADLOCK FALSE
