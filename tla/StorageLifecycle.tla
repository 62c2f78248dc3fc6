--------------------------- MODULE StorageLifecycle --------------------------
(***************************************************************************)
(* services/storage/retention.py, cold_tier.py and scheduler.py, and the   *)
(* routes of api/routes/storage.py: rows age in ClickHouse, are archived   *)
(* to S3 objects and deleted.                                              *)
(*                                                                         *)
(* The ClickHouse and S3 clients are synchronous, so an archive, and even  *)
(* a whole cycle of LifecycleScheduler over all tenants, never suspends:   *)
(* no route runs in the middle of it.  What does happen between two of its *)
(* statements is an insert by another process, or the end of this one.     *)
(*                                                                         *)
(* ALTER TABLE ... DELETE is a mutation, and nothing here asks for         *)
(* mutations_sync: it is accepted, the call returns, and the parts that    *)
(* were there lose the rows it names later, one part after the other.      *)
(* Until then a row it names is read, counted and archived like any other. *)
(*                                                                         *)
(* Time is counted in ticks; cutoffs are exact, object keys name a day.    *)
(* Every RetentionEnforcer of the process reads the one default policy     *)
(* object: the routes make an enforcer per request, whose set_policy dies  *)
(* with it, and change the default in place on the way.                    *)
(***************************************************************************)
EXTENDS Integers, Sequences, FiniteSets

CONSTANTS
  Rows, Tenants,
  TenantOf,     \* [Rows -> Tenants]
  TableOf,      \* [Rows -> Tables]
  Order,        \* LifecycleScheduler.tenants
  Callers,      \* bound: tenants whose users call the routes
  UserRows,     \* rows that carry the id of the user a GDPR erasure names
  Policies,     \* policies the routes can leave behind
  Default,      \* DEFAULT_POLICIES["pro"] as loaded
  Stamps,       \* times of day, to the second, two archives may share
  TicksPerDay,
  MaxNow,       \* bound: ticks
  MaxFaults     \* bound: failing calls and ends of the process

Tables == {"logs", "metrics", "traces"}
Archived == {"logs", "metrics"}

\* RetentionPolicy: the days a table is hot, and the days after which it goes.
PolicyType == [hold : BOOLEAN, hot : [Archived -> Nat], keep : [Tables -> Nat]]

ASSUME LifecycleAssumption ==
  /\ TenantOf \in [Rows -> Tenants]
  /\ TableOf \in [Rows -> Tables]
  /\ Order \in Seq(Tenants)
  /\ Callers \subseteq Tenants
  /\ UserRows \subseteq Rows
  /\ Policies \subseteq PolicyType
  /\ Default \in Policies
  /\ TicksPerDay \in Nat \ {0}
  /\ MaxNow \in Nat
  /\ MaxFaults \in Nat

VARIABLES
  now,
  time,        \* the timestamp of each row; -1 before it is inserted
  hot,         \* rows in ClickHouse
  doomed,      \* those of them a mutation that was accepted has yet to remove
  cold,        \* S3: object key -> rows
  coldTier,    \* is S3 configured
  policy,      \* the shared default policy object
  running,     \* LifecycleScheduler._running
  due,         \* tenants left in the scheduler's cycle
  job,         \* the enforcement or archive under way
  \* history
  excused,     \* rows that expired, were erased, came behind the SELECT of an
               \* archive, or were in an object another archive replaced
  faults

dataVars == <<hot, doomed, cold>>
vars == <<now, time, dataVars, coldTier, policy, running, due, job,
          excused, faults>>

Idle == [todo |-> <<>>]
Step(op, t) == [op |-> op, table |-> t]
Job(tenant, todo) == [tenant |-> tenant, todo |-> todo, cutoff |-> 0, batch |-> {}]
Quiet == job = Idle /\ due = <<>>
ColdRows == UNION {cold[k] : k \in DOMAIN cold}
Inserted == {r \in Rows : time[r] >= 0}

TypeOK ==
  /\ now \in 0..MaxNow
  /\ time \in [Rows -> -1..MaxNow]
  /\ hot \subseteq Inserted
  /\ doomed \subseteq hot
  /\ \A k \in DOMAIN cold : /\ cold[k] \subseteq Inserted
                            /\ \A r \in cold[k] : TenantOf[r] = k.tenant
                                                  /\ TableOf[r] = k.table
  /\ coldTier \in BOOLEAN
  /\ policy \in Policies
  /\ running \in BOOLEAN
  /\ due \in Seq(Tenants)
  /\ job # Idle => job.todo # <<>> /\ job.batch \subseteq Inserted
  /\ excused \subseteq Inserted
  /\ faults \in 0..MaxFaults

Init ==
  /\ now = 0
  /\ time = [r \in Rows |-> -1]
  /\ hot = {}
  /\ doomed = {}
  /\ cold = <<>>
  /\ coldTier \in BOOLEAN
  /\ policy = Default
  /\ running = TRUE
  /\ due = <<>>
  /\ job = Idle
  /\ excused = {}
  /\ faults = 0

-----------------------------------------------------------------------------
Fault == faults < MaxFaults /\ faults' = faults + 1

Cutoff(days) == now - days * TicksPerDay
Before(tenant, table, cutoff) ==
  {r \in hot : TenantOf[r] = tenant /\ TableOf[r] = table /\ time[r] < cutoff}

Tick ==
  /\ now < MaxNow
  /\ now' = now + 1
  /\ UNCHANGED <<time, dataVars, coldTier, policy, running, due, job,
                 excused, faults>>

Doing(op) == job # Idle /\ Head(job.todo).op = op
Table == Head(job.todo).table

(* The DELETE of the archive under way will cover a row its SELECT did not.*)
Covers(r, t) ==
  /\ Doing("put") \/ Doing("drop")
  /\ Table = TableOf[r]
  /\ job.tenant = TenantOf[r]
  /\ t < job.cutoff

(* External: StorageWriter or DirectWriter inserts a row, with whatever    *)
(* timestamp its client gave it.                                           *)
Insert(r) ==
  /\ time[r] = -1
  /\ \E t \in 0..now : time' = [time EXCEPT ![r] = t]
  /\ hot' = hot \cup {r}
  /\ excused' = IF Covers(r, time'[r]) THEN excused \cup {r} ELSE excused
  /\ UNCHANGED <<now, doomed, cold, coldTier, policy, running, due, job,
                 faults>>

(* External: ClickHouse rewrites parts without the rows its mutations name. *)
Mutate ==
  /\ \E gone \in SUBSET doomed \ {{}} :
       hot' = hot \ gone /\ doomed' = doomed \ gone
  /\ UNCHANGED <<now, time, cold, coldTier, policy, running, due, job,
                 excused, faults>>

ArchivePlan == <<Step("archive", "logs"), Step("archive", "metrics")>>
PurgePlan == <<Step("purge", "logs"), Step("purge", "metrics"), Step("purge", "traces")>>

(* LifecycleScheduler.start: the sleep ends.                               *)
BeginCycle ==
  /\ running
  /\ Quiet
  /\ due' = Order
  /\ UNCHANGED <<now, time, dataVars, coldTier, policy, running, job,
                 excused, faults>>

(* Mutant of BeginEnforce: the cycle ends with its first tenant.           *)
BeginEnforceOnce ==
  /\ job = Idle
  /\ due # <<>>
  /\ due' = <<>>
  /\ job' = IF policy.hold
            THEN Idle
            ELSE Job(Head(due), (IF coldTier THEN ArchivePlan ELSE <<>>) \o PurgePlan)
  /\ UNCHANGED <<now, time, dataVars, coldTier, policy, running,
                 excused, faults>>

(* enforce(): a tenant's turn.                                             *)
BeginEnforce ==
  /\ job = Idle
  /\ due # <<>>
  /\ due' = Tail(due)
  /\ job' = IF policy.hold
            THEN Idle
            ELSE Job(Head(due), (IF coldTier THEN ArchivePlan ELSE <<>>) \o PurgePlan)
  /\ UNCHANGED <<now, time, dataVars, coldTier, policy, running,
                 excused, faults>>

(* trigger_archive.                                                        *)
BeginArchive(t) ==
  /\ Quiet
  /\ coldTier
  /\ job' = Job(t, ArchivePlan)
  /\ UNCHANGED <<now, time, dataVars, coldTier, policy, running, due,
                 excused, faults>>

NextStep == IF Len(job.todo) = 1 THEN Idle ELSE [job EXCEPT !.todo = Tail(@)]
Then(op) == [job EXCEPT !.todo[1].op = op]

(* A call that raises inside archive_* ends enforce() or the request; the  *)
(* scheduler goes on with the next tenant.                                 *)
Abort ==
  /\ job # Idle
  /\ ~Doing("purge")
  /\ Fault
  /\ job' = Idle
  /\ UNCHANGED <<now, time, dataVars, coldTier, policy, running, due, excused>>

(* archive_logs, archive_metrics: the SELECT.                              *)
Select ==
  /\ Doing("archive")
  /\ LET cutoff == Cutoff(policy.hot[Table])
         batch == Before(job.tenant, Table, cutoff)
     IN job' = IF batch = {} THEN NextStep
               ELSE [Then("put") EXCEPT !.cutoff = cutoff, !.batch = batch]
  /\ UNCHANGED <<now, time, dataVars, coldTier, policy, running, due,
                 excused, faults>>

(* The key of the object: the cutoff's day, and for logs the time of day.  *)
Keys ==
  {[tenant |-> job.tenant, table |-> Table, day |-> job.cutoff \div TicksPerDay,
    at |-> s] : s \in IF Table = "logs" THEN Stamps ELSE {0}}

(* put_object replaces whatever the key named before.                      *)
Put ==
  /\ Doing("put")
  /\ \E k \in Keys :
       /\ cold' = [x \in DOMAIN cold \cup {k} |-> IF x = k THEN job.batch ELSE cold[x]]
       /\ excused' =
            excused \cup (IF k \in DOMAIN cold THEN cold[k] \ job.batch ELSE {})
  /\ job' = Then("drop")
  /\ UNCHANGED <<now, time, hot, doomed, coldTier, policy, running, due, faults>>

(* Mutant of Drop: the cutoff is computed anew.                            *)
DropAtNewCutoff ==
  /\ Doing("drop")
  /\ doomed' = doomed \cup Before(job.tenant, Table, Cutoff(policy.hot[Table]))
  /\ job' = NextStep
  /\ UNCHANGED <<now, time, hot, cold, coldTier, policy, running, due,
                 excused, faults>>

(* The ALTER TABLE ... DELETE that follows is accepted.                    *)
Drop ==
  /\ Doing("drop")
  /\ doomed' = doomed \cup Before(job.tenant, Table, job.cutoff)
  /\ job' = NextStep
  /\ UNCHANGED <<now, time, hot, cold, coldTier, policy, running, due,
                 excused, faults>>

(* One table of the last loop of enforce().                                *)
Purge ==
  /\ Doing("purge")
  /\ LET expired == Before(job.tenant, Table, Cutoff(policy.keep[Table])) IN
       /\ doomed' = doomed \cup expired
       /\ excused' = excused \cup expired
  /\ job' = NextStep
  /\ UNCHANGED <<now, time, hot, cold, coldTier, policy, running, due,
                 faults>>

(* ... a failing DELETE is logged and the next table's turn comes.         *)
PurgeFails ==
  /\ Doing("purge")
  /\ Fault
  /\ job' = NextStep
  /\ UNCHANGED <<now, time, dataVars, coldTier, policy, running, due, excused>>

(* update_retention_policy changes the object get_policy returned, which   *)
(* is that of every tenant.                                                *)
UpdatePolicy ==
  /\ Quiet
  /\ policy' \in Policies
  /\ UNCHANGED <<now, time, dataVars, coldTier, running, due, job,
                 excused, faults>>

(* gdpr_erase, table by table; a table whose DELETE fails is left.         *)
Erase(t) ==
  /\ Quiet
  /\ \E T \in SUBSET Tables :
       LET rows == {r \in hot \cap UserRows : TenantOf[r] = t /\ TableOf[r] \in T} IN
       /\ doomed' = doomed \cup rows
       /\ excused' = excused \cup rows
  /\ UNCHANGED <<now, time, hot, cold, coldTier, policy, running, due,
                 job, faults>>

(* LifecycleScheduler.stop.                                                *)
Stop ==
  /\ running
  /\ Quiet
  /\ running' = FALSE
  /\ UNCHANGED <<now, time, dataVars, coldTier, policy, due, job,
                 excused, faults>>

(* The process ends and a new one starts its scheduler: the policies were  *)
(* only in memory.                                                         *)
Restart ==
  /\ Fault
  /\ policy' = Default
  /\ running' = TRUE
  /\ due' = <<>>
  /\ job' = Idle
  /\ UNCHANGED <<now, time, dataVars, coldTier, excused>>

JobStep == Select \/ Put \/ Drop \/ Purge

Next ==
  \/ Tick
  \/ \E r \in Rows : Insert(r)
  \/ Mutate
  \/ BeginCycle
  \/ BeginEnforce
  \/ JobStep
  \/ Abort
  \/ PurgeFails
  \/ UpdatePolicy
  \/ \E t \in Callers : BeginArchive(t) \/ Erase(t)
  \/ Stop
  \/ Restart

(* The sleep of the scheduler ends, also when routes keep being called in  *)
(* between, synchronous code runs on, and ClickHouse gets to its mutations.*)
Fairness ==
  /\ SF_vars(BeginCycle)
  /\ WF_vars(BeginEnforce)
  /\ WF_vars(JobStep)
  /\ WF_vars(Mutate)

Spec == Init /\ [][Next]_vars
FairSpec == Spec /\ Fairness

-----------------------------------------------------------------------------
(* Tiering loses nothing by itself: wherever an archive, a purge or the    *)
(* process stops, whatever is inserted meanwhile and whenever the deletes  *)
(* are carried out, a row that was inserted stays in ClickHouse or is in   *)
(* S3, unless it expired, was erased, came behind the SELECT of an archive *)
(* whose DELETE then covered it, or was in an object that another archive  *)
(* replaced.                                                               *)
RowsAccountedFor ==
  Inserted \subseteq (hot \ doomed) \cup ColdRows \cup excused

(* A row in both tiers, found twice by a query over both and copied again  *)
(* by the next archive, is on its way out of ClickHouse: its own archive   *)
(* is about to ask for the delete, or the delete was accepted.  Only a     *)
(* failed call or the end of the process leaves it in both for good.       *)
DoublesAreDoomed ==
  \A r \in hot \cap ColdRows :
    \/ Doing("drop") /\ r \in job.batch
    \/ r \in doomed
    \/ faults > 0

(* Where the rows are, at every await of enforce, archive_logs,            *)
(* archive_metrics and gdpr_erase.                                         *)
LifecycleInv == TypeOK /\ RowsAccountedFor /\ DoublesAreDoomed

(* What is past the deletion window of the policy in force leaves          *)
(* ClickHouse, however often enforcement failed on the way, unless there   *)
(* is a hold or the scheduler is stopped.                                  *)
Expired(r) == r \in hot /\ time[r] < Cutoff(policy.keep[TableOf[r]])
ExpiredIsPurged ==
  \A r \in Rows : Expired(r) ~> (~Expired(r) \/ policy.hold \/ ~running)

(* docs/prds/PRD-02-storage-engine.md promises the durability of S3 for    *)
(* the cold tier: what was archived stays archived.                        *)
ArchiveIsKept == [][ColdRows \subseteq ColdRows']_vars

=============================================================================
