-------------------------- MODULE MCIngestionPipeline ------------------------
(* A log request of two records, a retry of one of them, and a metric.     *)
EXTENDS IngestionPipeline

CONSTANTS logReq, logRetry, metricReq, log1, log2, point

MCRequests == {logReq, logRetry, metricReq}
MCRecords == {log1, log2, point}
MCRecordsOf ==
  [r \in MCRequests |->
     IF r = logReq THEN {log1, log2} ELSE IF r = logRetry THEN {log2} ELSE {point}]
MCLogs == {logReq, logRetry}

=============================================================================
