CONSTANTS
  acme = acme
  globex = globex
  row1 = row1
  row2 = row2
  Rows <- MCRows
  Tenants <- MCTenants
  TenantOf <- MCTenantOf
  TableOf <- LogTable
  UserRows <- MCUserRows
  Order <- MCOrder
  Callers = {acme}
  Policies <- MCPolicies
  Default <- MCDefault
  Stamps = {1, 2}
  TicksPerDay = 1
  MaxNow = 2
  MaxFaults = 1
SPECIFICATION FairSpec
INVARIANTS
  LifecycleInv
PROPERTY ExpiredIsPurged
\* A stopped scheduler has nothing to do once time and faults are used up.
CHECK_DEADLOCK FALSE
