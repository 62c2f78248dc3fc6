------------------------ MODULE StorageLifecycleProofs -----------------------
(***************************************************************************)
(* Aging loses no row and dooms every double, for any rows, tenants, tables,*)
(* policies and times: whatever the order of archives, purges, erasures,   *)
(* inserts, mutations, failures and restarts.  The argument is about the archive      *)
(* under way: between its SELECT and its DELETE, what the DELETE will      *)
(* cover was selected, or is known to have come too late.                  *)
(***************************************************************************)
EXTENDS StorageLifecycle, SequenceTheorems, TLAPS

StepType == [op : {"archive", "put", "drop", "purge"}, table : Tables]
JobType == [tenant : Tenants, todo : Seq(StepType), cutoff : Int, batch : SUBSET Rows]

(* What is known of a step that has not begun.                             *)
Planned(step) ==
  /\ step.op \in {"archive", "purge"}
  /\ step.op = "archive" => step.table \in Archived

(* Only the first step of a job can be half done.                          *)
JobOK ==
  job # Idle =>
    /\ job \in JobType
    /\ job.todo # <<>>
    /\ \A i \in 2..Len(job.todo) : Planned(job.todo[i])
    /\ ~Doing("purge") => Table \in Archived

(* Of an archive past its SELECT: its DELETE will cover what was selected, *)
(* and nothing else but late rows; once it has put, S3 has the batch.      *)
BatchOK ==
  Doing("put") \/ Doing("drop") =>
    /\ \A r \in job.batch : /\ TenantOf[r] = job.tenant
                            /\ TableOf[r] = Table
                            /\ time[r] < job.cutoff
    /\ Before(job.tenant, Table, job.cutoff) \subseteq job.batch \union excused
    /\ Doing("drop") => job.batch \subseteq ColdRows

LifecycleIInv == LifecycleInv /\ JobOK /\ BatchOK

-----------------------------------------------------------------------------
LEMMA PolicyTyped ==
  ASSUME policy \in Policies
  PROVE  /\ \A t \in Archived : policy.hot[t] \in Nat
         /\ \A t \in Tables : policy.keep[t] \in Nat
         /\ policy.hold \in BOOLEAN
BY LifecycleAssumption DEF LifecycleAssumption, PolicyType

LEMMA NoJob == ASSUME job = Idle PROVE \A op : ~Doing(op)
BY DEF Doing

LEMMA InCold == \A r : r \in ColdRows <=> \E k \in DOMAIN cold : r \in cold[k]
BY DEF ColdRows

(* The plans of a tenant's turn and of a manual archive.                   *)
LEMMA Plans ==
  ASSUME NEW plan \in {ArchivePlan, PurgePlan, ArchivePlan \o PurgePlan, <<>> \o PurgePlan}
  PROVE  /\ plan \in Seq(StepType)
         /\ plan # <<>>
         /\ \A i \in 1..Len(plan) : Planned(plan[i])
<1>1. CASE plan = ArchivePlan
  BY <1>1 DEF ArchivePlan, Step, StepType, Planned, Tables, Archived
<1>2. CASE plan = PurgePlan
  BY <1>2 DEF PurgePlan, Step, StepType, Planned, Tables, Archived
<1>3. CASE plan = ArchivePlan \o PurgePlan
  BY <1>3 DEF ArchivePlan, PurgePlan, Step, StepType, Planned, Tables, Archived
<1>4. CASE plan = <<>> \o PurgePlan
  BY <1>4 DEF PurgePlan, Step, StepType, Planned, Tables, Archived
<1> QED BY <1>1, <1>2, <1>3, <1>4

LEMMA Longer ==
  ASSUME NEW S, NEW s \in Seq(S), s # <<>>, Len(s) # 1
  PROVE  /\ Tail(s) \in Seq(S)
         /\ Tail(s) # <<>>
         /\ Len(Tail(s)) = Len(s) - 1
         /\ Len(s) \in Nat
         /\ \A i \in 1..Len(Tail(s)) : i + 1 \in 2..Len(s) /\ Tail(s)[i] = s[i+1]
<1>1. Len(s) \in Nat /\ Len(s) # 0
  BY EmptySeq
<1>2. Tail(s) \in Seq(S) /\ Len(Tail(s)) = Len(s) - 1
  BY HeadTailProperties
<1>3. Len(Tail(s)) # 0
  BY <1>1, <1>2
<1>4. Tail(s) # <<>>
  BY <1>2, <1>3, EmptySeq
<1> QED BY <1>1, <1>2, <1>4, HeadTailProperties

(* The step after one that is done has not begun.                          *)
LEMMA NextStepOK ==
  ASSUME JobOK, job # Idle, NextStep # Idle
  PROVE  /\ NextStep \in JobType
         /\ NextStep.todo # <<>>
         /\ \A i \in 1..Len(NextStep.todo) : Planned(NextStep.todo[i])
         /\ NextStep.batch = job.batch
<1>1. /\ job \in JobType
      /\ job.todo \in Seq(StepType)
      /\ job.todo # <<>>
      /\ Len(job.todo) # 1
  BY DEF JobOK, JobType, NextStep
<1>2. NextStep = [job EXCEPT !.todo = Tail(job.todo)]
  BY <1>1 DEF NextStep
<1> DEFINE rest == Tail(job.todo)
<1>3. /\ rest \in Seq(StepType)
      /\ rest # <<>>
      /\ \A i \in 1..Len(rest) : i + 1 \in 2..Len(job.todo) /\ rest[i] = job.todo[i+1]
  BY <1>1, Longer
<1>4. \A i \in 1..Len(rest) : Planned(rest[i])
  BY <1>3 DEF JobOK
<1> HIDE DEF rest
<1> QED BY <1>1, <1>2, <1>3, <1>4 DEF JobType, rest

(* A step that goes on with its second or third statement.                 *)
LEMMA ThenOK ==
  ASSUME JobOK, job # Idle, NEW op \in {"put", "drop"}
  PROVE  /\ Then(op) \in JobType
         /\ Then(op).todo # <<>>
         /\ Len(Then(op).todo) = Len(job.todo)
         /\ \A i \in 2..Len(job.todo) : Then(op).todo[i] = job.todo[i]
         /\ Head(Then(op).todo).op = op
         /\ Head(Then(op).todo).table = Table
         /\ Then(op).tenant = job.tenant
         /\ Then(op).cutoff = job.cutoff
         /\ Then(op).batch = job.batch
<1>1. /\ job \in JobType
      /\ job.todo \in Seq(StepType)
      /\ job.todo # <<>>
  BY DEF JobOK, JobType
<1> DEFINE rest == [job.todo EXCEPT ![1].op = op]
<1>2. Then(op) = [job EXCEPT !.todo = rest]
  BY <1>1 DEF Then, JobType
<1>3. 1 \in 1..Len(job.todo) /\ job.todo[1] \in StepType
  BY <1>1
<1>4. [job.todo[1] EXCEPT !.op = op] \in StepType
  BY <1>3 DEF StepType
<1>5. rest = [job.todo EXCEPT ![1] = [job.todo[1] EXCEPT !.op = op]]
  OBVIOUS
<1>6. /\ rest \in Seq(StepType)
      /\ Len(rest) = Len(job.todo)
      /\ rest # <<>>
      /\ \A i \in 2..Len(job.todo) : rest[i] = job.todo[i]
      /\ Head(rest) = [job.todo[1] EXCEPT !.op = op]
  BY <1>1, <1>3, <1>4, <1>5
<1>7. Head(rest).op = op /\ Head(rest).table = Table
  BY <1>1, <1>3, <1>6 DEF StepType, Table
<1> HIDE DEF rest
<1> QED BY <1>1, <1>2, <1>6, <1>7 DEF JobType

(* A job that goes on to its next step, or ends.                           *)
LEMMA GoesOn ==
  ASSUME JobOK, job # Idle, job' = NextStep
  PROVE  /\ JobOK' /\ BatchOK'
         /\ ~Doing("put")' /\ ~Doing("drop")'
         /\ job' # Idle => job'.todo # <<>> /\ job'.batch = job.batch
<1>1. CASE NextStep = Idle
  BY <1>1 DEF JobOK, BatchOK, Doing, Idle
<1>2. CASE NextStep # Idle
  <2>1. /\ job' \in JobType
        /\ job'.todo # <<>>
        /\ \A i \in 1..Len(job'.todo) : Planned(job'.todo[i])
        /\ job'.batch = job.batch
    BY <1>2, NextStepOK
  <2>2. job'.todo \in Seq(StepType) /\ 1 \in 1..Len(job'.todo) /\ Head(job'.todo) = job'.todo[1]
    BY <2>1 DEF JobType
  <2>3. Planned(Head(job'.todo))
    BY <2>1, <2>2
  <2>4. ~Doing("put")' /\ ~Doing("drop")' /\ (~Doing("purge")' => Table' \in Archived)
    BY <1>2, <2>3 DEF Doing, Table, Planned, Idle
  <2> QED BY <2>1, <2>2, <2>4 DEF JobOK, BatchOK
<1> QED BY <1>1, <1>2

(* A job that goes on with the step it is at.                              *)
LEMMA Continues ==
  ASSUME JobOK, job # Idle, ~Doing("purge"), NEW op \in {"put", "drop"},
         job' \in JobType, job'.todo = Then(op).todo
  PROVE  /\ JobOK' /\ job' # Idle /\ job'.todo # <<>>
         /\ \A o : Doing(o)' <=> o = op
         /\ Table' = Table
<1>1. /\ job'.todo # <<>>
      /\ Len(job'.todo) = Len(job.todo)
      /\ \A i \in 2..Len(job.todo) : job'.todo[i] = job.todo[i]
      /\ Head(job'.todo).op = op
      /\ Head(job'.todo).table = Table
  BY ThenOK
<1>2. job' # Idle
  BY <1>1 DEF Idle
<1>3. Table' = Table /\ \A o : Doing(o)' <=> o = op
  BY <1>1, <1>2 DEF Table, Doing, Idle
<1>4. JobOK'
  BY <1>1, <1>2, <1>3 DEF JobOK, Idle, Planned
<1> QED BY <1>1, <1>2, <1>3, <1>4

LEMMA JobKept ==
  ASSUME job' = job, JobOK
  PROVE  /\ JobOK' /\ Table' = Table
         /\ \A o : Doing(o)' <=> Doing(o)
BY DEF JobOK, Table, Doing, Idle, Planned

LEMMA NoJobAfter ==
  ASSUME job' = Idle
  PROVE  JobOK' /\ BatchOK'
BY DEF JobOK, BatchOK, Doing, Idle

-----------------------------------------------------------------------------
LEMMA InitInv == Init => LifecycleIInv
BY LifecycleAssumption
   DEF Init, LifecycleAssumption, LifecycleIInv, LifecycleInv, TypeOK, RowsAccountedFor,
       DoublesAreDoomed, JobOK, BatchOK, Inserted, ColdRows, Idle, Doing

LEMMA TickKeeps == ASSUME LifecycleIInv, Tick PROVE LifecycleIInv'
<1>1. JobOK' /\ Table' = Table /\ \A o : Doing(o)' <=> Doing(o)
  BY JobKept DEF LifecycleIInv, Tick
<1> QED BY <1>1, LifecycleAssumption
   DEF Tick, dataVars, LifecycleAssumption, LifecycleIInv, LifecycleInv, TypeOK,
       RowsAccountedFor, DoublesAreDoomed, BatchOK, Inserted, ColdRows, Before, Idle

(* The one step of others that touches what an archive looked at: a row    *)
(* its DELETE will cover is known to be late from the start.               *)
LEMMA InsertKeeps == ASSUME LifecycleIInv, NEW r \in Rows, Insert(r) PROVE LifecycleIInv'
<1>1. PICK t \in 0..now : time' = [time EXCEPT ![r] = t]
  BY DEF Insert
<1>2. /\ time[r] = -1
      /\ hot' = hot \union {r}
      /\ excused' = IF Covers(r, t) THEN excused \union {r} ELSE excused
      /\ time'[r] = t /\ t >= 0 /\ t \in 0..MaxNow
      /\ \A x \in Rows \ {r} : time'[x] = time[x]
      /\ time' \in [Rows -> -1..MaxNow]
  BY <1>1, LifecycleAssumption DEF Insert, LifecycleIInv, LifecycleInv, TypeOK, LifecycleAssumption
<1>3. Inserted' = Inserted \union {r} /\ r \notin Inserted
  BY <1>2 DEF Inserted, LifecycleIInv, LifecycleInv, TypeOK
<1>4. JobOK' /\ Table' = Table /\ (\A o : Doing(o)' <=> Doing(o)) /\ ColdRows' = ColdRows
  BY JobKept DEF LifecycleIInv, Insert, ColdRows
<1>5. ColdRows \subseteq Inserted
  BY DEF ColdRows, LifecycleIInv, LifecycleInv, TypeOK
<1>6. TypeOK'
  BY <1>2, <1>3, <1>4 DEF Insert, LifecycleIInv, LifecycleInv, TypeOK, Idle
<1>9. doomed' = doomed /\ doomed \subseteq Inserted /\ faults' = faults /\ job' = job
  BY DEF Insert, LifecycleIInv, LifecycleInv, TypeOK
<1>7. RowsAccountedFor' /\ DoublesAreDoomed'
  BY <1>2, <1>3, <1>4, <1>5, <1>9
     DEF LifecycleIInv, LifecycleInv, RowsAccountedFor, DoublesAreDoomed
<1>8. BatchOK'
  <2> SUFFICES ASSUME Doing("put") \/ Doing("drop") PROVE BatchOK'
    BY <1>4 DEF BatchOK
  <2>1. job' = job /\ job # Idle /\ job.batch \subseteq Inserted
    BY DEF Insert, Doing, LifecycleIInv, LifecycleInv, TypeOK
  <2>2. \A x \in job.batch : x # r /\ x \in Rows /\ time'[x] = time[x]
    BY <1>2, <1>3, <2>1 DEF Inserted
  <2>3. ASSUME NEW x \in Before(job.tenant, Table, job.cutoff)'
        PROVE  x \in job.batch \union excused'
    <3>1. CASE x = r
      BY <1>2, <1>4, <2>1, <3>1 DEF Before, Covers
    <3>2. CASE x # r
      <4>1. x \in hot /\ x \in Rows
        BY <1>2, <2>3, <3>2 DEF Before, LifecycleIInv, LifecycleInv, TypeOK, Inserted
      <4>2. x \in Before(job.tenant, Table, job.cutoff)
        BY <1>2, <1>4, <2>1, <2>3, <3>2, <4>1 DEF Before
      <4> QED BY <1>2, <4>2 DEF LifecycleIInv, BatchOK
    <3> QED BY <3>1, <3>2
  <2> QED BY <1>4, <2>1, <2>2, <2>3 DEF LifecycleIInv, BatchOK
<1> QED BY <1>4, <1>6, <1>7, <1>8 DEF LifecycleIInv, LifecycleInv

(* Steps of no archive: what ClickHouse is asked to remove is excused.     *)
LEMMA QuietKeeps ==
  ASSUME LifecycleIInv, job = Idle, job' = Idle,
         TypeOK', time' = time, cold' = cold, faults' >= faults,
         hot' = hot, doomed \subseteq doomed', excused \subseteq excused',
         doomed' \ doomed \subseteq excused'
  PROVE  LifecycleIInv'
<1>1. Inserted' = Inserted /\ ColdRows' = ColdRows
  BY DEF Inserted, ColdRows
<1>2. ~Doing("drop") /\ ~Doing("drop")'
  BY DEF Doing, Idle
<1>3. RowsAccountedFor' /\ DoublesAreDoomed'
  BY <1>1, <1>2 DEF LifecycleIInv, LifecycleInv, TypeOK, RowsAccountedFor, DoublesAreDoomed
<1> QED BY <1>3, NoJobAfter DEF LifecycleIInv, LifecycleInv

(* What is not in the hands of an archive.                                 *)
LEMMA RoutesKeep ==
  ASSUME LifecycleIInv,
         BeginCycle \/ Stop \/ UpdatePolicy \/ \E t \in Callers : Erase(t)
  PROVE  LifecycleIInv'
<1>1. CASE BeginCycle
  <2>1. TypeOK'
    BY <1>1, LifecycleAssumption
       DEF BeginCycle, Quiet, dataVars, LifecycleAssumption, LifecycleIInv,
           LifecycleInv, TypeOK, Inserted, Idle
  <2> QED BY <1>1, <2>1, QuietKeeps
     DEF BeginCycle, Quiet, dataVars, LifecycleIInv, LifecycleInv, TypeOK, Idle
<1>2. CASE Stop
  <2>1. TypeOK'
    BY <1>2 DEF Stop, Quiet, dataVars, LifecycleIInv, LifecycleInv, TypeOK,
                Inserted, Idle
  <2> QED BY <1>2, <2>1, QuietKeeps
     DEF Stop, Quiet, dataVars, LifecycleIInv, LifecycleInv, TypeOK, Idle
<1>3. CASE UpdatePolicy
  <2> USE <1>3
  <2>1. TypeOK'
    BY DEF UpdatePolicy, Quiet, dataVars, LifecycleIInv, LifecycleInv, TypeOK,
           Inserted, Idle
  <2> QED BY <2>1, QuietKeeps
     DEF UpdatePolicy, Quiet, dataVars, LifecycleIInv, LifecycleInv, TypeOK, Idle
<1>4. CASE \E t \in Callers : Erase(t)
  <2> PICK t \in Callers : Erase(t)
    BY <1>4
  <2>1. PICK T \in SUBSET Tables :
          LET rows == {r \in hot \cap UserRows : TenantOf[r] = t /\ TableOf[r] \in T} IN
            doomed' = doomed \cup rows /\ excused' = excused \cup rows
    BY DEF Erase
  <2>2. /\ doomed \subseteq doomed' /\ doomed' \subseteq doomed \union hot
        /\ excused \subseteq excused' /\ doomed' \ doomed \subseteq excused'
    BY <2>1
  <2>3. excused' \subseteq excused \union hot
    BY <2>1
  <2>4. TypeOK'
    BY <2>2, <2>3 DEF Erase, Quiet, LifecycleIInv, LifecycleInv, TypeOK, Inserted, Idle
  <2> QED BY <2>2, <2>4, QuietKeeps
     DEF Erase, Quiet, LifecycleIInv, LifecycleInv, TypeOK, Idle
<1> QED BY <1>1, <1>2, <1>3, <1>4

(* A job begins: under a hold, a tenant's turn is over at once.            *)
LEMMA JobBegins ==
  ASSUME LifecycleIInv, BeginEnforce \/ \E t \in Callers : BeginArchive(t)
  PROVE  LifecycleIInv'
<1>1. /\ job = Idle
      /\ UNCHANGED <<now, time, hot, doomed, cold, coldTier, policy, running, excused, faults>>
      /\ due' \in Seq(Tenants)
  <2>1. due # <<>> => Tail(due) \in Seq(Tenants)
    BY HeadTailProperties DEF LifecycleIInv, LifecycleInv, TypeOK
  <2> QED BY <2>1
     DEF BeginEnforce, BeginArchive, Quiet, dataVars, LifecycleIInv,
         LifecycleInv, TypeOK
<1>2. \/ job' = Idle
      \/ \E t \in Tenants :
           \E plan \in {ArchivePlan, PurgePlan, ArchivePlan \o PurgePlan, <<>> \o PurgePlan} :
             job' = Job(t, plan)
  <2>1. due # <<>> => Head(due) \in Tenants
    BY HeadTailProperties DEF LifecycleIInv, LifecycleInv, TypeOK
  <2> QED BY <2>1, LifecycleAssumption DEF BeginEnforce, BeginArchive, LifecycleAssumption
<1>3. CASE job' = Idle
  <2>1. TypeOK'
    BY <1>1, <1>3 DEF LifecycleIInv, LifecycleInv, TypeOK, Inserted, Idle
  <2> QED BY <1>1, <1>3, <2>1, QuietKeeps DEF LifecycleIInv, LifecycleInv, TypeOK
<1>4. CASE job' # Idle
  <2>1. PICK t \in Tenants,
             plan \in {ArchivePlan, PurgePlan, ArchivePlan \o PurgePlan, <<>> \o PurgePlan} :
               job' = Job(t, plan)
    BY <1>2, <1>4
  <2>2. /\ plan \in Seq(StepType)
        /\ plan # <<>>
        /\ \A i \in 1..Len(plan) : Planned(plan[i])
    BY Plans
  <2>3. /\ job' \in JobType
        /\ job'.todo = plan
        /\ job'.batch = {}
    BY <2>1, <2>2 DEF Job, JobType
  <2>4. 1 \in 1..Len(plan) /\ Head(plan) = plan[1]
    BY <2>2
  <2>5. ~Doing("put")' /\ ~Doing("drop")' /\ (~Doing("purge")' => Table' \in Archived)
    BY <1>4, <2>2, <2>3, <2>4 DEF Doing, Table, Planned, Idle
  <2>6. JobOK' /\ BatchOK'
    BY <2>2, <2>3, <2>5 DEF JobOK, BatchOK
  <2>7. TypeOK'
    BY <1>1, <2>2, <2>3 DEF LifecycleIInv, LifecycleInv, TypeOK, Inserted
  <2>8. ~Doing("drop")
    BY <1>1, NoJob
  <2>9. RowsAccountedFor' /\ DoublesAreDoomed'
    BY <1>1, <2>8 DEF LifecycleIInv, LifecycleInv, RowsAccountedFor, DoublesAreDoomed,
                      Inserted, ColdRows
  <2> QED BY <2>6, <2>7, <2>9 DEF LifecycleIInv, LifecycleInv
<1> QED BY <1>3, <1>4

(* A job ends early: a call raised, or the process ended.  The rows whose  *)
(* archive it was are in both tiers from then on, and DoublesAreDoomed is    *)
(* excused by the fault.                                                   *)
LEMMA FaultsKeep ==
  ASSUME LifecycleIInv, Abort \/ Restart
  PROVE  LifecycleIInv'
<1>1. /\ job' = Idle
      /\ faults' \in 0..MaxFaults /\ faults' > 0
      /\ UNCHANGED <<now, time, hot, doomed, cold, coldTier, excused>>
      /\ policy' \in Policies /\ running' \in BOOLEAN /\ due' \in Seq(Tenants)
  <2>1. policy \in Policies /\ running \in BOOLEAN /\ due \in Seq(Tenants) /\ <<>> \in Seq(Tenants)
    BY EmptySeq DEF LifecycleIInv, LifecycleInv, TypeOK
  <2>2. Default \in Policies
    BY LifecycleAssumption DEF LifecycleAssumption
  <2>3. Fault => faults' \in 0..MaxFaults /\ faults' > 0
    BY LifecycleAssumption DEF Fault, LifecycleAssumption, LifecycleIInv, LifecycleInv, TypeOK
  <2>4. CASE Abort
    BY <2>1, <2>3, <2>4 DEF Abort, dataVars
  <2>5. CASE Restart
    BY <2>1, <2>2, <2>3, <2>5 DEF Restart, dataVars
  <2> QED BY <2>4, <2>5
<1>2. TypeOK'
  BY <1>1 DEF LifecycleIInv, LifecycleInv, TypeOK, Inserted, Idle
<1>3. RowsAccountedFor' /\ DoublesAreDoomed'
  BY <1>1 DEF LifecycleIInv, LifecycleInv, RowsAccountedFor, DoublesAreDoomed, Inserted, ColdRows
<1> QED BY <1>1, <1>2, <1>3, NoJobAfter DEF LifecycleIInv, LifecycleInv

(* The DELETEs of an enforcement.                                          *)
LEMMA PurgeKeeps ==
  ASSUME LifecycleIInv, Purge \/ PurgeFails
  PROVE  LifecycleIInv'
<1>1. /\ job # Idle /\ ~Doing("drop")
      /\ job' = NextStep
      /\ UNCHANGED <<now, time, hot, cold, coldTier, policy, running, due>>
      /\ doomed \subseteq doomed' /\ doomed' \subseteq doomed \union hot
      /\ excused \subseteq excused' /\ doomed' \ doomed \subseteq excused'
      /\ excused' \subseteq excused \union hot
      /\ faults' \in 0..MaxFaults /\ faults' >= faults
  <2>1. job # Idle /\ ~Doing("drop")
    BY DEF Purge, PurgeFails, Doing
  <2>2. faults \in 0..MaxFaults /\ (Fault => faults' \in 0..MaxFaults /\ faults' >= faults)
    BY LifecycleAssumption DEF Fault, LifecycleAssumption, LifecycleIInv, LifecycleInv, TypeOK
  <2>3. CASE Purge
    <3>1. Before(job.tenant, Table, Cutoff(policy.keep[Table])) \subseteq hot
      BY DEF Before
    <3>2. faults' = faults
      BY <2>3 DEF Purge
    <3> QED BY <2>1, <2>2, <2>3, <3>1, <3>2 DEF Purge
  <2>4. CASE PurgeFails
    BY <2>1, <2>2, <2>4 DEF PurgeFails, dataVars
  <2> QED BY <2>3, <2>4
<1>2. /\ JobOK' /\ BatchOK' /\ ~Doing("drop")'
      /\ job' # Idle => job'.todo # <<>> /\ job'.batch = job.batch
  BY <1>1, GoesOn DEF LifecycleIInv
<1>3. TypeOK'
  BY <1>1, <1>2 DEF LifecycleIInv, LifecycleInv, TypeOK, Inserted, Idle
<1>4. RowsAccountedFor' /\ DoublesAreDoomed'
  BY <1>1, <1>2 DEF LifecycleIInv, LifecycleInv, TypeOK, RowsAccountedFor, DoublesAreDoomed,
                    Inserted, ColdRows
<1> QED BY <1>2, <1>3, <1>4 DEF LifecycleIInv, LifecycleInv

(* The three statements of an archive.  What is selected was in ClickHouse *)
(* only, or a call failed before.                                          *)
LEMMA SelectKeeps == ASSUME LifecycleIInv, Select PROVE LifecycleIInv'
<1>1. /\ job # Idle /\ ~Doing("put") /\ ~Doing("drop") /\ ~Doing("purge")
      /\ UNCHANGED <<now, time, hot, doomed, cold, coldTier, policy, running, due, excused, faults>>
  BY DEF Select, Doing, dataVars
<1>2. RowsAccountedFor' /\ DoublesAreDoomed'
  BY <1>1 DEF LifecycleIInv, LifecycleInv, RowsAccountedFor, DoublesAreDoomed, Inserted, ColdRows
<1> DEFINE cutoff == Cutoff(policy.hot[Table])
           batch == Before(job.tenant, Table, cutoff)
<1>3. CASE job' = NextStep
  <2>1. JobOK' /\ BatchOK' /\ (job' # Idle => job'.todo # <<>> /\ job'.batch = job.batch)
    BY <1>1, <1>3, GoesOn DEF LifecycleIInv
  <2>2. TypeOK'
    BY <1>1, <2>1 DEF LifecycleIInv, LifecycleInv, TypeOK, Inserted, Idle
  <2> QED BY <1>2, <2>1, <2>2 DEF LifecycleIInv, LifecycleInv
<1>4. CASE job' = [Then("put") EXCEPT !.cutoff = cutoff, !.batch = batch]
  <2>1. cutoff \in Int
    <3>1. Table \in Archived /\ policy.hot[Table] \in Nat /\ now \in Int
      BY <1>1, PolicyTyped, LifecycleAssumption
         DEF LifecycleIInv, LifecycleInv, TypeOK, JobOK, LifecycleAssumption
    <3> QED BY <3>1, LifecycleAssumption DEF Cutoff, LifecycleAssumption
  <2>2. batch \subseteq hot /\ batch \subseteq Inserted /\ batch \subseteq Rows
    BY DEF Before, LifecycleIInv, LifecycleInv, TypeOK, Inserted
  <2>3. Then("put") \in JobType /\ Then("put").tenant = job.tenant
    BY <1>1, ThenOK DEF LifecycleIInv
  <2>4. /\ job' \in JobType
        /\ job'.todo = Then("put").todo
        /\ job'.tenant = job.tenant
        /\ job'.cutoff = cutoff
        /\ job'.batch = batch
    <3> HIDE DEF cutoff, batch
    <3> QED BY <1>4, <2>1, <2>2, <2>3 DEF JobType
  <2>5. /\ JobOK' /\ job' # Idle /\ job'.todo # <<>>
        /\ \A o : Doing(o)' <=> o = "put"
        /\ Table' = Table
    BY <1>1, <2>4, Continues DEF LifecycleIInv
  <2>6. BatchOK'
    BY <1>1, <2>4, <2>5 DEF BatchOK, Before
  <2>7. TypeOK'
    BY <1>1, <2>2, <2>4, <2>5 DEF LifecycleIInv, LifecycleInv, TypeOK, Inserted
  <2> QED BY <1>2, <2>5, <2>6, <2>7 DEF LifecycleIInv, LifecycleInv
<1> QED BY <1>3, <1>4 DEF Select

(* ClickHouse carries out what it accepted.                                *)
LEMMA MutateKeeps == ASSUME LifecycleIInv, Mutate PROVE LifecycleIInv'
<1>1. /\ UNCHANGED <<now, time, cold, coldTier, policy, running, due, job, excused, faults>>
      /\ hot' \subseteq hot /\ doomed' \subseteq hot'
      /\ hot' \ doomed' = hot \ doomed
      /\ hot' \intersect doomed \subseteq doomed'
  BY DEF Mutate, LifecycleIInv, LifecycleInv, TypeOK
<1>2. JobOK' /\ Table' = Table /\ \A o : Doing(o)' <=> Doing(o)
  BY <1>1, JobKept DEF LifecycleIInv
<1>3. Inserted' = Inserted /\ ColdRows' = ColdRows
  BY <1>1 DEF Inserted, ColdRows
<1>4. TypeOK'
  BY <1>1, <1>3 DEF LifecycleIInv, LifecycleInv, TypeOK, Idle
<1>5. RowsAccountedFor' /\ DoublesAreDoomed'
  BY <1>1, <1>2, <1>3 DEF LifecycleIInv, LifecycleInv, RowsAccountedFor, DoublesAreDoomed
<1>6. BatchOK'
  BY <1>1, <1>2, <1>3 DEF LifecycleIInv, BatchOK, Before
<1> QED BY <1>2, <1>4, <1>5, <1>6 DEF LifecycleIInv, LifecycleInv

LEMMA PutKeeps == ASSUME LifecycleIInv, Put PROVE LifecycleIInv'
<1>1. /\ job # Idle /\ Doing("put") /\ ~Doing("drop") /\ ~Doing("purge")
      /\ job' = Then("drop")
      /\ UNCHANGED <<now, time, hot, doomed, coldTier, policy, running, due, faults>>
  BY DEF Put, Doing
<1>2. PICK k \in Keys :
        /\ cold' = [x \in DOMAIN cold \cup {k} |-> IF x = k THEN job.batch ELSE cold[x]]
        /\ excused' =
             excused \cup (IF k \in DOMAIN cold THEN cold[k] \ job.batch ELSE {})
  BY DEF Put
<1>3. /\ DOMAIN cold' = DOMAIN cold \union {k}
      /\ cold'[k] = job.batch
      /\ \A x \in DOMAIN cold \ {k} : cold'[x] = cold[x]
  BY <1>2
<1>4. k.tenant = job.tenant /\ k.table = Table
  BY DEF Keys
<1>5. /\ job' \in JobType
      /\ job'.todo = Then("drop").todo
      /\ job'.tenant = job.tenant /\ job'.cutoff = job.cutoff /\ job'.batch = job.batch
  BY <1>1, ThenOK DEF LifecycleIInv
<1>6. /\ JobOK' /\ job' # Idle /\ job'.todo # <<>>
      /\ \A o : Doing(o)' <=> o = "drop"
      /\ Table' = Table
  BY <1>1, <1>5, Continues DEF LifecycleIInv
<1>7. /\ job.batch \subseteq ColdRows'
      /\ ColdRows \subseteq ColdRows' \union excused'
      /\ ColdRows' \subseteq ColdRows \union job.batch
      /\ excused \subseteq excused' /\ excused' \subseteq excused \union ColdRows
  <2>1. ASSUME NEW r \in ColdRows PROVE r \in ColdRows' \union excused'
    <3>1. PICK x \in DOMAIN cold : r \in cold[x]
      BY <2>1 DEF ColdRows
    <3>2. CASE x = k
      BY <1>2, <1>3, <3>1, <3>2 DEF ColdRows
    <3>3. CASE x # k
      BY <1>3, <3>1, <3>3 DEF ColdRows
    <3> QED BY <3>2, <3>3
  <2>2. ASSUME NEW r \in ColdRows' PROVE r \in ColdRows \union job.batch
    <3>1. PICK x \in DOMAIN cold' : r \in cold'[x]
      BY <2>2 DEF ColdRows
    <3> QED BY <1>3, <3>1 DEF ColdRows
  <2>3. job.batch \subseteq ColdRows'
    BY <1>3 DEF ColdRows
  <2>4. excused \subseteq excused' /\ excused' \subseteq excused \union ColdRows
    BY <1>2 DEF ColdRows
  <2> QED BY <2>1, <2>2, <2>3, <2>4
<1>8. TypeOK'
  <2>1. job.batch \subseteq Inserted
    BY <1>1 DEF LifecycleIInv, LifecycleInv, TypeOK
  <2>2. ColdRows \subseteq Inserted
    BY DEF ColdRows, LifecycleIInv, LifecycleInv, TypeOK
  <2>3. Inserted' = Inserted
    BY <1>1 DEF Inserted
  <2>4. \A x \in DOMAIN cold' : /\ cold'[x] \subseteq Inserted
                                /\ \A r \in cold'[x] : TenantOf[r] = x.tenant /\ TableOf[r] = x.table
    BY <1>1, <1>3, <1>4, <2>1 DEF LifecycleIInv, LifecycleInv, TypeOK, BatchOK
  <2> QED BY <1>1, <1>5, <1>6, <1>7, <2>1, <2>2, <2>3, <2>4
     DEF LifecycleIInv, LifecycleInv, TypeOK
<1>9. BatchOK'
  BY <1>1, <1>5, <1>6, <1>7 DEF LifecycleIInv, BatchOK, Before
<1>10. RowsAccountedFor' /\ DoublesAreDoomed'
  BY <1>1, <1>5, <1>6, <1>7
     DEF LifecycleIInv, LifecycleInv, RowsAccountedFor, DoublesAreDoomed, Inserted
<1> QED BY <1>6, <1>8, <1>9, <1>10 DEF LifecycleIInv, LifecycleInv

LEMMA DropKeeps == ASSUME LifecycleIInv, Drop PROVE LifecycleIInv'
<1>1. /\ job # Idle /\ Doing("drop")
      /\ job' = NextStep
      /\ doomed' = doomed \union Before(job.tenant, Table, job.cutoff)
      /\ UNCHANGED <<now, time, hot, cold, coldTier, policy, running, due, excused, faults>>
  BY DEF Drop, Doing
<1>2. /\ JobOK' /\ BatchOK' /\ ~Doing("drop")'
      /\ job' # Idle => job'.todo # <<>> /\ job'.batch = job.batch
  BY <1>1, GoesOn DEF LifecycleIInv
<1>3. /\ Before(job.tenant, Table, job.cutoff) \subseteq ColdRows \union excused
      /\ hot \intersect job.batch \subseteq Before(job.tenant, Table, job.cutoff)
      /\ Before(job.tenant, Table, job.cutoff) \subseteq hot
      /\ ColdRows' = ColdRows /\ Inserted' = Inserted
  <2>1. job.batch \subseteq ColdRows /\ ColdRows' = ColdRows /\ Inserted' = Inserted
    BY <1>1 DEF LifecycleIInv, BatchOK, ColdRows, Inserted
  <2>2. hot \subseteq Rows
    BY DEF LifecycleIInv, LifecycleInv, TypeOK, Inserted
  <2> QED BY <1>1, <2>1, <2>2 DEF LifecycleIInv, BatchOK, Before
<1>4. TypeOK'
  BY <1>1, <1>2, <1>3 DEF LifecycleIInv, LifecycleInv, TypeOK, Idle
<1>5. RowsAccountedFor' /\ DoublesAreDoomed'
  BY <1>1, <1>2, <1>3 DEF LifecycleIInv, LifecycleInv, RowsAccountedFor, DoublesAreDoomed
<1> QED BY <1>2, <1>4, <1>5 DEF LifecycleIInv, LifecycleInv

-----------------------------------------------------------------------------
LEMMA NextKeeps == LifecycleIInv /\ [Next]_vars => LifecycleIInv'
<1> SUFFICES ASSUME LifecycleIInv, [Next]_vars PROVE LifecycleIInv'
  OBVIOUS
<1>1. CASE Tick
  BY <1>1, TickKeeps
<1>2. CASE \E r \in Rows : Insert(r)
  BY <1>2, InsertKeeps
<1>3. CASE BeginCycle \/ Stop \/ UpdatePolicy \/ \E t \in Callers : Erase(t)
  BY <1>3, RoutesKeep
<1>4. CASE BeginEnforce \/ \E t \in Callers : BeginArchive(t)
  BY <1>4, JobBegins
<1>5. CASE Select
  BY <1>5, SelectKeeps
<1>6. CASE Put
  BY <1>6, PutKeeps
<1>7. CASE Drop
  BY <1>7, DropKeeps
<1>8. CASE Purge \/ PurgeFails
  BY <1>8, PurgeKeeps
<1>9. CASE Abort \/ Restart
  BY <1>9, FaultsKeep
<1>10. CASE Mutate
  BY <1>10, MutateKeeps
<1>11. CASE UNCHANGED vars
  <2>1. JobOK' /\ Table' = Table /\ \A o : Doing(o)' <=> Doing(o)
    BY <1>11, JobKept DEF vars, LifecycleIInv
  <2> QED BY <1>11, <2>1
     DEF vars, dataVars, LifecycleIInv, LifecycleInv, TypeOK, RowsAccountedFor,
         DoublesAreDoomed, BatchOK, Inserted, ColdRows, Before, Idle
<1> QED BY <1>1, <1>2, <1>3, <1>4, <1>5, <1>6, <1>7, <1>8, <1>9, <1>10, <1>11 DEF Next, JobStep

LEMMA Inductive == Spec => []LifecycleIInv
BY InitInv, NextKeeps, PTL DEF Spec

(* Where the rows of a tenant are, through any archives, purges, erasures, *)
(* inserts, mutations, failures and restarts: none is lost, and one that   *)
(* is in two tiers is on its way out of the first, but for a failure.      *)
THEOREM RowsHaveTheirPlace == Spec => []LifecycleInv
<1>1. LifecycleIInv => LifecycleInv
  BY DEF LifecycleIInv
<1> QED BY <1>1, Inductive, PTL

=============================================================================
