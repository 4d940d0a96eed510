CONSTANTS
  boss = boss
  worker = worker
  hub = hub
  task = task
  bounce = bounce
  None = None
  Empty = Empty
  Conns = {c1, c2, c3, c4}
  Agents <- MCAgents
  Names <- MCNames
  Kinds <- MCKinds
  HUB = hub
  BOUNCE = bounce
  Sends <- RoutingSends
  Awaits <- RoutingAwaits
  AuditMayFail = TRUE
  TasksMayDie = TRUE
SPECIFICATION Spec
SYMMETRY Symmetry
INVARIANTS
  TypeOK
  NoMissedMatch
  RegisteredUntilHanded
  TimeoutConsumesNothing
  ExactlyOnePlace
  DeliveriesJoin
  BouncesTellTheTruth
CHECK_DEADLOCK FALSE
