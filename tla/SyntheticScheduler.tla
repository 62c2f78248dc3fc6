-------------------------- MODULE SyntheticScheduler -------------------------
(***************************************************************************)
(* services/synthetics/scheduler.py and the routes that drive it           *)
(* (api/routes/synthetics.py): one asyncio task, a loop, per monitor, that *)
(* checks the monitor from all its locations, sleeps, and checks again.    *)
(*                                                                         *)
(* Everything runs on one event loop and interleaves only where something  *)
(* is awaited: a cancelled task (remove_monitor, stop), the load of the    *)
(* monitors (start), a check, the insert of its result, the alert.  A loop *)
(* that was cancelled takes no further step of its checks, but needs time  *)
(* to unwind before it has ended.  `_monitors` of the scheduler is written *)
(* and never read, and is left out.                                        *)
(***************************************************************************)
EXTENDS Naturals, FiniteSets, Functions

CONSTANTS
  Monitors,   \* monitor ids
  Loaded,     \* the ones with a row in synthetic_monitors; no route writes it
  Locations,  \* locations each monitor is checked from
  Loops,      \* asyncio tasks (reused when ended and forgotten)
  Callers,    \* concurrent requests to the routes, and callers of start, stop
  CheckStatuses,  \* outcomes of a check
  Unknown,    \* no status
  NoLoop,
  MaxStops    \* bound: calls of stop()

ASSUME SchedulerAssumption ==
  /\ Monitors # {}
  /\ Loaded \subseteq Monitors
  /\ Unknown \notin CheckStatuses
  /\ NoLoop \notin Loops
  /\ MaxStops \in Nat

VARIABLES
  running,    \* _running
  tasks,      \* _tasks
  last,       \* _last_status
  phase,      \* where each loop is
  owner,      \* the monitor a loop checks
  check,      \* per loop and location, the check of the current round
  inRoutes,   \* the monitors in the routes' _monitors: "new", "yes" or "deleted"
  enabled,    \* the `enabled` attribute of the one MonitorConfig all share
  call,       \* what each caller awaits
  \* history
  overlapped, \* has a call ever begun while another one was under way?
  stops       \* calls of stop()

loopVars == <<phase, owner, check>>
routeVars == <<inRoutes, enabled>>
schedulerVars == <<running, tasks, last, loopVars, routeVars, call, overlapped, stops>>

Created == Monitors \ Loaded    \* monitors the routes create
Idle == [op |-> "idle", waits |-> {}]
At(step, s) == [at |-> step, status |-> s]
Rest == [x \in Locations |-> At("done", Unknown)]

Active == {l \in Loops : phase[l] \in {"new", "checking", "sleeping"}}
Ended(l) == phase[l] = "ended"
Forgotten == {l \in Loops : /\ Ended(l)
                            /\ l \notin Range(tasks)
                            /\ \A c \in Callers : l \notin call[c].waits}

SchedulerTypeOK ==
  /\ running \in BOOLEAN
  /\ tasks \in [Monitors -> Loops \union {NoLoop}]
  /\ last \in [Monitors -> CheckStatuses \union {Unknown}]
  /\ phase \in [Loops -> {"new", "checking", "sleeping", "cancelled", "ended"}]
  /\ owner \in [Loops -> Monitors]
  /\ check \in [Loops -> [Locations ->
                  [at : {"probing", "storing", "alerting", "done"},
                   status : CheckStatuses \union {Unknown}]]]
  /\ inRoutes \in [Monitors -> {"new", "yes", "deleted"}]
  /\ enabled \in [Monitors -> BOOLEAN]
  /\ \A c \in Callers : call[c].op \in {"idle", "update", "add", "delete", "start", "stop"}
                      /\ call[c].waits \subseteq Loops
  /\ overlapped \in BOOLEAN
  /\ stops \in 0..MaxStops

SchedulerInit ==
  /\ running = FALSE
  /\ tasks = [m \in Monitors |-> NoLoop]
  /\ last = [m \in Monitors |-> Unknown]
  /\ phase = [l \in Loops |-> "ended"]
  /\ owner \in [Loops -> {CHOOSE m \in Monitors : TRUE}]
  /\ check = [l \in Loops |-> Rest]
  /\ inRoutes = [m \in Monitors |-> "new"]
  /\ enabled = [m \in Monitors |-> TRUE]
  /\ call = [c \in Callers |-> Idle]
  /\ overlapped = FALSE
  /\ stops = 0

-----------------------------------------------------------------------------
(* _schedule_monitor: a new task, registered over whatever was registered. *)
(* `registry` is _tasks before it.                                         *)
Schedule(M, registry) ==
  \E new \in [M -> Forgotten] :
    /\ \A m, n \in M : new[m] = new[n] => m = n
    /\ tasks' = [m \in Monitors |-> IF m \in M THEN new[m] ELSE registry[m]]
    /\ phase' = [l \in Loops |-> IF l \in Range(new) THEN "new" ELSE phase[l]]
    /\ owner' = [l \in Loops |-> IF \E m \in M : new[m] = l
                                 THEN CHOOSE m \in M : new[m] = l
                                 ELSE owner[l]]
    /\ UNCHANGED check

(* Mutant of Cancel: the task is awaited without being cancelled.          *)
CancelNothing(L) == UNCHANGED loopVars

(* task.cancel() for the loops L: their checks stop where they are.        *)
Cancel(L) ==
  /\ phase' = [l \in Loops |-> IF l \in L /\ ~Ended(l) THEN "cancelled" ELSE phase[l]]
  /\ check' = [l \in Loops |-> IF l \in L THEN Rest ELSE check[l]]
  /\ UNCHANGED owner

Forget(m) == [tasks EXCEPT ![m] = NoLoop]
MustAwait(m) == tasks[m] # NoLoop /\ ~Ended(tasks[m])

(* remove_monitor up to `await task`; a task that has ended is not awaited.*)
AwaitRemoval(c, op, m) ==
  /\ MustAwait(m)
  /\ tasks' = Forget(m)
  /\ Cancel({tasks[m]})
  /\ call' = [call EXCEPT ![c] = [op |-> op, monitor |-> m, waits |-> {tasks[m]}]]

(* add_monitor when nothing (any more) is registered.                      *)
AddNow(m, on, registry) ==
  IF on
  THEN Schedule({m}, registry)
  ELSE tasks' = registry /\ UNCHANGED loopVars

Return(c) == call' = [call EXCEPT ![c] = Idle]

(* A call from outside begins.                                             *)
BeginCall(c) ==
  /\ call[c] = Idle
  /\ overlapped' = (overlapped \/ \E d \in Callers : call[d] # Idle)

(* create_monitor: a fresh id, so add_monitor never finds it registered.   *)
Create(c, m) ==
  /\ BeginCall(c)
  /\ m \in Created
  /\ inRoutes[m] = "new"
  /\ inRoutes' = [inRoutes EXCEPT ![m] = "yes"]
  /\ \E on \in BOOLEAN :
       /\ enabled' = [enabled EXCEPT ![m] = on]
       /\ AddNow(m, on, tasks)
  /\ UNCHANGED <<running, last, call, stops>>

(* update_monitor: the shared MonitorConfig is changed in place, then the  *)
(* monitor is removed and, when enabled, added again.                      *)
Update(c, m) ==
  /\ BeginCall(c)
  /\ inRoutes[m] = "yes"
  /\ \E on \in BOOLEAN :
       /\ enabled' = [enabled EXCEPT ![m] = on]
       /\ \/ /\ AwaitRemoval(c, "update", m)
             /\ UNCHANGED last
          \/ /\ ~MustAwait(m)
             /\ last' = [last EXCEPT ![m] = Unknown]
             /\ AddNow(m, on, Forget(m))
             /\ UNCHANGED call
  /\ UNCHANGED <<running, inRoutes, stops>>

(* delete_monitor.                                                         *)
DeleteMonitor(c, m) ==
  /\ BeginCall(c)
  /\ inRoutes[m] = "yes"
  /\ \/ /\ AwaitRemoval(c, "delete", m)
        /\ UNCHANGED <<last, inRoutes>>
     \/ /\ ~MustAwait(m)
        /\ last' = [last EXCEPT ![m] = Unknown]
        /\ inRoutes' = [inRoutes EXCEPT ![m] = "deleted"]
        /\ tasks' = Forget(m)
        /\ UNCHANGED <<loopVars, call>>
  /\ UNCHANGED <<running, enabled, stops>>

Awaits(c, op) == call[c].op = op /\ \A l \in call[c].waits : Ended(l)

(* delete_monitor after the await.  When another delete was faster, `del`  *)
(* raises KeyError; nothing else differs.                                  *)
FinishDelete(c) ==
  /\ Awaits(c, "delete")
  /\ last' = [last EXCEPT ![call[c].monitor] = Unknown]
  /\ inRoutes' = [inRoutes EXCEPT ![call[c].monitor] = "deleted"]
  /\ Return(c)
  /\ UNCHANGED <<running, tasks, loopVars, enabled, overlapped, stops>>

(* Mutant of FinishUpdate: a monitor is added again, enabled or not.       *)
FinishUpdateAlwaysAdds(c) ==
  /\ Awaits(c, "update")
  /\ LET m == call[c].monitor IN
     /\ last' = [last EXCEPT ![m] = Unknown]
     /\ \/ AwaitRemoval(c, "add", m)
        \/ /\ ~MustAwait(m)
           /\ AddNow(m, TRUE, Forget(m))
           /\ Return(c)
  /\ UNCHANGED <<running, routeVars, overlapped, stops>>

(* update_monitor after the await: the status is forgotten, `enabled` is   *)
(* read again, and add_monitor removes what was registered meanwhile.      *)
FinishUpdate(c) ==
  /\ Awaits(c, "update")
  /\ LET m == call[c].monitor IN
     /\ last' = [last EXCEPT ![m] = Unknown]
     /\ \/ /\ enabled[m]
           /\ AwaitRemoval(c, "add", m)
        \/ /\ enabled[m] => ~MustAwait(m)
           /\ AddNow(m, enabled[m], IF enabled[m] THEN Forget(m) ELSE tasks)
           /\ Return(c)
  /\ UNCHANGED <<running, routeVars, overlapped, stops>>

(* add_monitor after its own removal: whatever is registered by now is     *)
(* overwritten.                                                            *)
FinishAdd(c) ==
  /\ Awaits(c, "add")
  /\ LET m == call[c].monitor IN
     /\ last' = [last EXCEPT ![m] = Unknown]
     /\ AddNow(m, enabled[m], tasks)
  /\ Return(c)
  /\ UNCHANGED <<running, routeVars, overlapped, stops>>

-----------------------------------------------------------------------------
Start(c) ==
  /\ BeginCall(c)
  /\ ~running
  /\ running' = TRUE
  /\ call' = [call EXCEPT ![c] = [op |-> "start", waits |-> {}]]
  /\ UNCHANGED <<tasks, last, loopVars, routeVars, stops>>

(* start() after _load_monitors, which answers none when the query fails.  *)
FinishStart(c) ==
  /\ Awaits(c, "start")
  /\ \E M \in {Loaded, {}} : Schedule(M, tasks)
  /\ Return(c)
  /\ UNCHANGED <<running, last, routeVars, overlapped, stops>>

Registered == {l \in Loops : l \in Range(tasks)}

(* stop() up to the gather of the registered tasks.                        *)
Stop(c) ==
  /\ BeginCall(c)
  /\ stops < MaxStops
  /\ stops' = stops + 1
  /\ running' = FALSE
  /\ Cancel(Registered)
  /\ IF Registered = {}
     THEN UNCHANGED call
     ELSE call' = [call EXCEPT ![c] = [op |-> "stop", waits |-> Registered]]
  /\ UNCHANGED <<tasks, last, routeVars>>

FinishStop(c) ==
  /\ Awaits(c, "stop")
  /\ tasks' = [m \in Monitors |-> NoLoop]
  /\ Return(c)
  /\ UNCHANGED <<running, last, loopVars, routeVars, overlapped, stops>>

-----------------------------------------------------------------------------
(* _monitor_loop: `while self._running`, at the start and after the sleep. *)
Wake(l) ==
  /\ phase[l] \in {"new", "sleeping"}
  /\ IF running
     THEN /\ phase' = [phase EXCEPT ![l] = "checking"]
          /\ check' = [check EXCEPT ![l] = [x \in Locations |-> At("probing", Unknown)]]
     ELSE /\ phase' = [phase EXCEPT ![l] = "ended"]
          /\ UNCHANGED check
  /\ UNCHANGED <<running, tasks, last, owner, routeVars, call, overlapped, stops>>

Step(l, x, from, to) ==
  /\ phase[l] = "checking"
  /\ check[l][x].at = from
  /\ check' = [check EXCEPT ![l][x] = to]

(* execute_check returns, or raises and is a DOWN result.                  *)
Probe(l, x) ==
  /\ \E s \in CheckStatuses : Step(l, x, "probing", At("storing", s))
  /\ UNCHANGED <<running, tasks, last, phase, owner, routeVars, call, overlapped, stops>>

(* _process_result after _store_result (which swallows its errors): the    *)
(* status is compared and remembered without suspending in between.        *)
Record(l, x) ==
  LET m == owner[l]
      s == check[l][x].status
      changed == last[m] \notin {Unknown, s}
  IN
  /\ Step(l, x, "storing", IF changed THEN At("alerting", s) ELSE At("done", Unknown))
  /\ last' = [last EXCEPT ![m] = s]
  /\ UNCHANGED <<running, tasks, phase, owner, routeVars, call, overlapped, stops>>

(* send_alert returns, or raises and is only logged.                       *)
Alert(l, x) ==
  /\ Step(l, x, "alerting", At("done", Unknown))
  /\ UNCHANGED <<running, tasks, last, phase, owner, routeVars, call, overlapped, stops>>

(* The round's gather returns and the loop sleeps.                         *)
Sleep(l) ==
  /\ phase[l] = "checking"
  /\ \A x \in Locations : check[l][x].at = "done"
  /\ phase' = [phase EXCEPT ![l] = "sleeping"]
  /\ UNCHANGED <<running, tasks, last, owner, check, routeVars, call, overlapped, stops>>

(* The CancelledError has unwound the loop.                                *)
Unwind(l) ==
  /\ phase[l] = "cancelled"
  /\ phase' = [phase EXCEPT ![l] = "ended"]
  /\ UNCHANGED <<running, tasks, last, owner, check, routeVars, call, overlapped, stops>>

LoopStep(l) ==
  \/ Wake(l)
  \/ Sleep(l)
  \/ Unwind(l)
  \/ \E x \in Locations : Probe(l, x) \/ Record(l, x) \/ Alert(l, x)

Resume(c) ==
  FinishDelete(c) \/ FinishUpdate(c) \/ FinishAdd(c) \/ FinishStart(c) \/ FinishStop(c)

SchedulerNext ==
  \/ \E l \in Loops : LoopStep(l)
  \/ \E c \in Callers :
       \/ Resume(c)
       \/ Start(c)
       \/ Stop(c)
       \/ \E m \in Monitors : Create(c, m) \/ Update(c, m) \/ DeleteMonitor(c, m)

(* Checks, sleeps, alerts and unwinding end; a caller whose task ended is  *)
(* resumed.  Nobody has to call anything.                                  *)
SchedulerFairness ==
  /\ \A l \in Loops : WF_schedulerVars(LoopStep(l))
  /\ \A c \in Callers : WF_schedulerVars(Resume(c))

SchedulerSpec == SchedulerInit /\ [][SchedulerNext]_schedulerVars
SchedulerFairSpec == SchedulerSpec /\ SchedulerFairness

-----------------------------------------------------------------------------
InProgress(m) == \E c \in Callers : call[c].op \in {"update", "add", "delete"}
                                  /\ call[c].monitor = m

(* Until the first stop(), however updates of a monitor raced each other:  *)
(* when none is under way any more, it is registered exactly when the last *)
(* one left it enabled.                                                    *)
RegistryFollowsFlag ==
  \A m \in Created :
    (stops = 0 /\ inRoutes[m] = "yes" /\ ~InProgress(m))
      => (tasks[m] # NoLoop <=> enabled[m])

(* As long as calls to the routes, start and stop came one at a time: a    *)
(* loop that is not cancelled is the registered one, where stop() and      *)
(* remove_monitor reach it, a deleted or disabled monitor has none, and    *)
(* update and delete leave none behind when they return.                   *)
OneAtATimeIsExact ==
  ~overlapped =>
    /\ \A l \in Active : tasks[owner[l]] = l
    /\ \A m \in Created :
         ((inRoutes[m] = "deleted" \/ ~enabled[m]) /\ ~InProgress(m))
           => \A l \in Active : owner[l] # m

(* The two together, with the types of the variables.                      *)
SchedulerInv == SchedulerTypeOK /\ RegistryFollowsFlag /\ OneAtATimeIsExact

(* A scheduler that is stopped for good ends every loop, also the ones it  *)
(* no longer knows of.                                                     *)
LoopsWindDown == \A l \in Loops : (<>[]~running) => []<>Ended(l)

(* A task that is awaited ends, so no caller of remove_monitor, add_monitor*)
(* or stop waits for ever, even when several cancel and await each other's *)
(* loops (as long as the bound Loops leaves a task to create).             *)
CallsReturn ==
  \A c \in Callers : call[c].op # "idle" ~> (call[c].op = "idle" \/ Forgotten = {})

(* Left alone, the scheduler comes to rest: loops and calls end.           *)
SchedulerComesToRest == LoopsWindDown /\ CallsReturn

=============================================================================
