CONSTANTS
  log1 = log1
  log2 = log2
  metric1 = metric1
  logs = logs
  metrics = metrics
  NoRecord = NoRecord
  Records <- MCRecords
  Kinds <- MCKinds
  KindOf <- MCKindOf
  BatchSize = 2
  FlushInterval = 1
  MaxIssued = 3
  MaxFaults = 1
SPECIFICATION Spec
INVARIANT AtLeastOnce
\* A writer with nothing left to handle, restart or wait for does nothing.
CHECK_DEADLOCK FALSE
