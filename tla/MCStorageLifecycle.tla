-------------------------- MODULE MCStorageLifecycle -------------------------
(* Two tenants; acme, whose turn comes second, has two rows: logs, whose   *)
(* objects are named to the second, or metric samples, whose objects are   *)
(* named to the day.  Rows are archived once they are past a cutoff of no  *)
(* days and expire after one.                                              *)
EXTENDS StorageLifecycle

CONSTANTS acme, globex, row1, row2

MCRows == {row1, row2}
MCTenants == {acme, globex}
MCTenantOf == [r \in MCRows |-> acme]
LogTable == [r \in MCRows |-> "logs"]
MetricTable == [r \in MCRows |-> "metrics"]
MCUserRows == {row1}
MCOrder == <<globex, acme>>

MCPolicy(hold) ==
  [hold |-> hold, hot |-> [t \in Archived |-> 0], keep |-> [t \in Tables |-> 1]]
MCPolicies == {MCPolicy(hold) : hold \in BOOLEAN}
MCDefault == MCPolicy(FALSE)

=============================================================================
