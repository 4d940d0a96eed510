CONSTANTS
  Invocations <- MCInvocations
  TransportFails = TRUE
  CommitMayFail = TRUE
SPECIFICATION FairSpec
INVARIANTS
  TypeOK
  ReceiptMeansCommitted
  PrintedNotRequeued
  TimeoutConsumesNothing
  FailureChangedNothing
PROPERTIES
  ClientEnds
CHECK_DEADLOCK FALSE
