CONSTANTS
  boss = boss
  worker = worker
  hub = hub
  task = task
  bounce = bounce
  None = None
  Empty = Empty
  Conns = {c1, c2, c3, c4, c5}
  Agents <- MCAgents
  Names <- MCNames
  Kinds <- MCKinds
  HUB = hub
  BOUNCE = bounce
  Sends <- MailboxSends
  Awaits <- MailboxAwaits
  AuditMayFail = FALSE
  TasksMayDie = TRUE
SPECIFICATION Spec
SYMMETRY Symmetry
INVARIANTS
  ReturnedThenFifo
PROPERTIES
  ImplementsMailbox
  UsesRegistry
CHECK_DEADLOCK FALSE
