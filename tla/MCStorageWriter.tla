---------------------------- MODULE MCStorageWriter --------------------------
(* StorageWriter on two logs and a metric.                                 *)
EXTENDS StorageWriter

CONSTANTS log1, log2, metric1, logs, metrics

MCRecords == {log1, log2, metric1}
MCKinds == {logs, metrics}
MCKindOf == [r \in MCRecords |-> IF r = metric1 THEN metrics ELSE logs]

=============================================================================
