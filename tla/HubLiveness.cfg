CONSTANTS
  boss = boss
  worker = worker
  hub = hub
  task = task
  bounce = bounce
  None = None
  Empty = Empty
  Conns = {c1, c2, c3, c4}
  Agents <- MCAgents
  Names <- MCNames
  Kinds <- MCKinds
  HUB = hub
  BOUNCE = bounce
  Sends <- LivenessSends
  Awaits <- LivenessAwaits
  AuditMayFail = FALSE
  TasksMayDie = FALSE
SPECIFICATION FairSpec
PROPERTIES
  WaitsEnd
  LossesReported
  BlockedSenderLearns
CHECK_DEADLOCK FALSE
