-------------------------- MODULE IngestionContract --------------------------
(***************************************************************************)
(* What one ingest request promises, without how: every record of the      *)
(* request meets exactly one fate, the fate is final, and the client is    *)
(* given a count at most once, after all of them are decided: the number   *)
(* of records that were not rejected.  A request may end in an error,      *)
(* without a count; a crash leaves those in flight unanswered for ever.    *)
(***************************************************************************)
EXTENDS Integers, FiniteSets

CONSTANTS Requests, Records, RecordsOf

VARIABLES
  fate,    \* of each record, per request
  answer,  \* the accepted count the client was given; -1 if none
  gone     \* requests cut off by a crash

contractVars == <<fate, answer, gone>>

Fates == {"unknown", "rejected", "queued", "dropped", "refused", "parked"}

Undecided(f, r) == {m \in RecordsOf[r] : f[m] = "unknown"}
AcceptedIn(f, r) == {m \in RecordsOf[r] : f[m] # "rejected"}

ContractInit ==
  /\ fate = [r \in Requests |-> [m \in Records |-> "unknown"]]
  /\ answer = [r \in Requests |-> -1]
  /\ gone = {}

(* Some records of r get their fate; the answer may follow the last one.   *)
Proceed(r) ==
  /\ answer[r] = -1
  /\ r \notin gone
  /\ \E f \in [Records -> Fates] :
       /\ \A m \in Records :
            fate[r][m] # "unknown" \/ m \notin RecordsOf[r] => f[m] = fate[r][m]
       /\ fate' = [fate EXCEPT ![r] = f]
       /\ \/ UNCHANGED answer
          \/ /\ Undecided(f, r) = {}
             /\ answer' = [answer EXCEPT ![r] = Cardinality(AcceptedIn(f, r))]
  /\ UNCHANGED gone

Abandon ==
  /\ gone' \in {gone \union S : S \in SUBSET Requests}
  /\ UNCHANGED <<fate, answer>>

ContractNext == Abandon \/ \E r \in Requests : Proceed(r)

ContractSpec == ContractInit /\ [][ContractNext]_contractVars

=============================================================================
