CONSTANTS
  Invocations <- MCInvocations
  TransportFails = TRUE
  CommitMayFail = TRUE
SPECIFICATION Spec
CHECK_DEADLOCK FALSE
INVARIANT ExitOneMeansNothing
