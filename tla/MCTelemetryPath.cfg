CONSTANTS
  logReq = logReq
  logRetry = logRetry
  log1 = log1
  logs = logs
  metricsKind = metricsKind
  Requests <- MCRequests
  Records <- MCRecords
  RecordsOf <- MCRecordsOf
  Logs <- MCLogs
  Kinds <- MCKinds
  KindOf <- MCKindOf
  BatchSize = 2
  FlushInterval = 1
  NoRecord = NoRecord
  MaxIssued = 3
  MaxFaults = 1
SPECIFICATION FairSpec
INVARIANTS
  StoredWasPublished
  FairWeatherExactlyOnce
PROPERTY PublishedIsConsumed
\* Requests are sent at most once and a writer with nothing left to handle
\* does nothing: the system may stop.
CHECK_DEADLOCK FALSE
