CONSTANTS
  logReq = logReq
  logRetry = logRetry
  metricReq = metricReq
  log1 = log1
  log2 = log2
  point = point
  Requests <- MCRequests
  Records <- MCRecords
  RecordsOf <- MCRecordsOf
  Logs <- MCLogs
SPECIFICATION Spec
INVARIANT RefusalIsReported
\* Every request is sent at most once: when all are over, nothing is left.
CHECK_DEADLOCK FALSE
