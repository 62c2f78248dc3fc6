------------------------------- MODULE AlertRules -----------------------------
(***************************************************************************)
(* api/routes/alert_data.py: alert rules live in PostgreSQL when the       *)
(* process has a session factory and the database answers, and in a list   *)
(* of the process otherwise; they are evaluated, against the metrics of    *)
(* the services, by the route that lists the active alerts, which writes   *)
(* the history as it goes.  The database fails and comes back, and the     *)
(* process restarts.  One tenant; a rule is created once.                  *)
(***************************************************************************)
EXTENDS Integers, Sequences, SequencesExt, FiniteSets

CONSTANTS
  Rules,         \* rules clients create: [name, operator, service]
  DefaultRule,   \* _DEFAULT_ALERT_RULES, as one rule
  Services,
  HistorySize,   \* 50
  MaxPolls,      \* bound: polls of the active alerts
  MaxTrouble     \* bound: failures of the database and restarts

ASSUME AlertAssumption ==
  /\ \A r \in Rules \union {DefaultRule} : r.operator \in {"gt", "lt", "eq"}
                                           /\ r.service \in Services \union {""}
  /\ DefaultRule \notin Rules
  /\ IsFiniteSet(Services)
  /\ HistorySize \in Nat \ {0} /\ {MaxPolls, MaxTrouble} \subseteq Nat

VARIABLES
  databaseUp,
  stored,       \* rules in PostgreSQL
  remembered,   \* _alert_rules, in order
  loading,      \* value of the one metric, per service
  alertHistory, \* _alert_history: [rule, service], newest first
  creation,     \* what the creation of each rule awaits, or how it was answered
  lostMemory,   \* rules of _alert_rules when a process ended
  polls, trouble

alertVars == <<databaseUp, stored, remembered, loading, alertHistory, creation, lostMemory,
               polls, trouble>>

Threshold == 1

AlertTypeOK ==
  /\ databaseUp \in BOOLEAN
  /\ stored \in SUBSET Rules
  /\ remembered \in Seq(Rules \union {DefaultRule})
  /\ loading \in [Services -> 0..2]
  /\ alertHistory \in Seq([rule : Rules \union {DefaultRule}, service : Services])
  /\ Len(alertHistory) <= HistorySize
  /\ creation \in [Rules -> {"none", "organization", "flush", "commit", "confirmed", "error"}]
  /\ lostMemory \in SUBSET Rules
  /\ polls \in 0..MaxPolls /\ trouble \in 0..MaxTrouble

AlertInit ==
  /\ databaseUp \in BOOLEAN
  /\ stored = {}
  /\ remembered = <<DefaultRule>>
  /\ loading = [s \in Services |-> 0]
  /\ alertHistory = <<>>
  /\ creation = [r \in Rules |-> "none"]
  /\ lostMemory = {}
  /\ polls = 0 /\ trouble = 0

-----------------------------------------------------------------------------
(* create_rule: a session, and the first of its three awaits.              *)
CreateRule(r) ==
  /\ creation[r] = "none"
  /\ creation' = [creation EXCEPT ![r] = "organization"]
  /\ UNCHANGED <<databaseUp, stored, remembered, loading, alertHistory, lostMemory, polls, trouble>>

(* get_by_slug returned, then the flush; the row is not there for others   *)
(* before the commit.                                                      *)
DatabaseStep(r) ==
  /\ databaseUp
  /\ \/ /\ creation[r] = "organization"
        /\ creation' = [creation EXCEPT ![r] = "flush"]
        /\ UNCHANGED stored
     \/ /\ creation[r] = "flush"
        /\ creation' = [creation EXCEPT ![r] = "commit"]
        /\ UNCHANGED stored
     \/ /\ creation[r] = "commit"
        /\ creation' = [creation EXCEPT ![r] = "confirmed"]
        /\ stored' = stored \union {r}
  /\ UNCHANGED <<databaseUp, remembered, loading, alertHistory, lostMemory, polls, trouble>>

(* Mutant of FallBack: the rule is answered without being kept.            *)
FallBackForgets(r) ==
  /\ creation[r] \in {"organization", "flush", "commit"}
  /\ stored' \in {stored, IF creation[r] = "commit" THEN stored \union {r} ELSE stored}
  /\ UNCHANGED remembered
  /\ creation' = [creation EXCEPT ![r] = "confirmed"]
  /\ UNCHANGED <<databaseUp, loading, alertHistory, lostMemory, polls, trouble>>

(* Any of them raises, the insert for a tenant without an organization     *)
(* included: the rule, under another id, goes to the list.  A commit that  *)
(* raises may have been carried out.                                       *)
FallBack(r) ==
  /\ creation[r] \in {"organization", "flush", "commit"}
  /\ stored' \in {stored, IF creation[r] = "commit" THEN stored \union {r} ELSE stored}
  /\ remembered' = Append(remembered, r)
  /\ creation' = [creation EXCEPT ![r] = "confirmed"]
  /\ UNCHANGED <<databaseUp, loading, alertHistory, lostMemory, polls, trouble>>

(* _load_rules: the rules of the database if it answers with any, else the *)
(* list, and then the rules of the database are not seen.                  *)
Loaded == IF databaseUp /\ stored # {} THEN stored ELSE ToSet(remembered)

(* _evaluate_rules_against_data                                            *)
Fires(r, s) ==
  /\ r.service \in {"", s}
  /\ \/ r.operator = "gt" /\ loading[s] > Threshold
     \/ r.operator = "lt" /\ loading[s] < Threshold
     \/ r.operator = "eq" /\ loading[s] = Threshold

FiringNow == {a \in [rule : Loaded, service : Services] : Fires(a.rule, a.service)}

(* active_alerts: what fires is put in front of the history, at every poll *)
(* again; the order among the alerts of a poll is that of the rules.       *)
Poll ==
  /\ polls < MaxPolls
  /\ polls' = polls + 1
  /\ \E alerts \in SetToSeqs(FiringNow) :
       LET longer == Reverse(alerts) \o alertHistory
       IN  alertHistory' = IF Len(longer) > HistorySize THEN SubSeq(longer, 1, HistorySize) ELSE longer
  /\ UNCHANGED <<databaseUp, stored, remembered, loading, creation, lostMemory, trouble>>

-----------------------------------------------------------------------------
(* External: the spans of the last hour change.                            *)
LoadChanges ==
  /\ \E s \in Services, v \in 0..2 : v # loading[s] /\ loading' = [loading EXCEPT ![s] = v]
  /\ UNCHANGED <<databaseUp, stored, remembered, alertHistory, creation, lostMemory, polls, trouble>>

(* External: the database goes away, or is back with what was committed.   *)
DatabaseChanges ==
  /\ trouble < MaxTrouble
  /\ trouble' = trouble + 1
  /\ databaseUp' = ~databaseUp
  /\ UNCHANGED <<stored, remembered, loading, alertHistory, creation, lostMemory, polls>>

(* A new process: the defaults, no history, and no answer to whoever was   *)
(* waiting; their transaction is gone.                                     *)
Restart ==
  /\ trouble < MaxTrouble
  /\ trouble' = trouble + 1
  /\ lostMemory' = lostMemory \union (ToSet(remembered) \ {DefaultRule})
  /\ remembered' = <<DefaultRule>>
  /\ alertHistory' = <<>>
  /\ creation' = [r \in Rules |->
                    IF creation[r] \in {"organization", "flush", "commit"} THEN "error" ELSE creation[r]]
  /\ stored' \in {stored, stored \union {r \in Rules : creation[r] = "commit"}}
  /\ UNCHANGED <<databaseUp, loading, polls>>

AlertNext ==
  \/ \E r \in Rules : CreateRule(r) \/ DatabaseStep(r) \/ FallBack(r)
  \/ Poll \/ LoadChanges \/ DatabaseChanges \/ Restart

AlertSpec == AlertInit /\ [][AlertNext]_alertVars

-----------------------------------------------------------------------------
(* A rule whose creation was answered is kept: by the database, from which *)
(* nothing loses it, or by the process until it ends.  Whatever went wrong *)
(* on the way, it is evaluated as soon as the store that has it is the one *)
(* that is read (alert_data.py 164-177, 239-290).  (With the types of the  *)
(* variables.)                                                             *)
ConfirmedRuleIsKept ==
  /\ AlertTypeOK
  /\ \A r \in Rules :
       creation[r] = "confirmed" =>
         /\ r \in stored \union ToSet(remembered) \union lostMemory
         /\ r \in stored /\ databaseUp => r \in Loaded
         /\ r \in ToSet(remembered) /\ stored = {} => r \in Loaded

=============================================================================
