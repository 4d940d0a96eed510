CONSTANTS
  c1 = c1
  c2 = c2
  c3 = c3
  a1 = a1
  s1 = s1
  s2 = s2
  None = None
  Commits = {c1, c2, c3}
  Appends = {a1}
  Sections = {s1, s2}
  PoolSize = 2
  Workers = 1
  AppendMayFail = TRUE
  MayPanic = TRUE
SPECIFICATION FairSpec
INVARIANTS
  TypeOK
  AuditOrderIsRoutingOrder
PROPERTIES
  ImplementsAtomicCommit
  JobsEnd
CHECK_DEADLOCK FALSE
