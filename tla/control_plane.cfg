SPECIFICATION FairAdminSpec
CONSTANTS
  None = None
  Null = Null
  Star = Star
  p1 = p1
  p2 = p2
  j1 = j1
  n1 = n1
  a1 = a1
  r1 = r1
  Moments <- MCMoments
  Procs = {p1, p2}
  Jobs = {j1, n1}
  Nightly = n1
  NightlyCron <- MCNightlyCron
  NightlyCount = 2
  Calls = {c1, c2}
  Dtos <- MCDtos
  Counts = {1, 2, 7}
  Approvers = {a1}
  Reasons = {r1}
  Runs = {b1, b2}
  Targets = {t1}
  Kids = {k1, k2, k3}
  Tokens = {v1, v2, v3}
  Reloads = {x1, x2}
  MaxMisses = 1
  Loads <- MCLoads
INVARIANTS
  ControlTypeOK
  LowCountApproved
  ApprovalEndsWithLowCount
  CronFollowsPolicy
  LowCountAudited
  CataloguedIsWhole
  ManualUploadAudited
  OrphanOnlyByFault
  ReadySerializes
  NightlyIsScheduled
  RotationIsFound
  PageTypeOK
PROPERTIES
  ImplementsRunLife
  EveryRunSettles
  EveryBootServes
  EveryTokenDecided
  PageCatchesUp
CHECK_DEADLOCK FALSE
