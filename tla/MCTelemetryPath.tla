--------------------------- MODULE MCTelemetryPath ---------------------------
(* A log request that its client sends a second time.                      *)
EXTENDS TelemetryPath

CONSTANTS logReq, logRetry, log1, logs, metricsKind

MCRequests == {logReq, logRetry}
MCRecords == {log1}
MCRecordsOf == [r \in MCRequests |-> {log1}]
MCLogs == {logReq, logRetry}
MCKinds == {logs, metricsKind}
MCKindOf == [m \in MCRecords |-> logs]

=============================================================================
