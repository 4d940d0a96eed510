CONSTANTS
  boss = boss
  worker = worker
  hub = hub
  task = task
  bounce = bounce
  None = None
  Empty = Empty
  Conns = {c1, c2, c3}
  Agents <- MCAgents
  Names <- MCNames
  Kinds <- MCKinds
  HUB = hub
  BOUNCE = bounce
  Sends <- RoutingSends
  Awaits <- RoutingAwaits
  AuditMayFail = FALSE
  TasksMayDie = FALSE
SPECIFICATION FairSpec
PROPERTIES
  ReplyAuditedAfterDelivery
CHECK_DEADLOCK FALSE
