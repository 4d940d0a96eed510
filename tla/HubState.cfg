CONSTANTS
  n1 = n1
  n2 = n2
  x = x
  task = task
  result = result
  None = None
  Names <- MCNames
  Filters <- MCFilters
  Envelopes <- MCEnvelopes
  MaxWaiters = 3
  MaxRoutes = 2
SPECIFICATION Spec
INVARIANTS
  TypeOK
  NoEmptyEntry
PROPERTIES
  ImplementsRegistry
CHECK_DEADLOCK FALSE
