------------------------------ MODULE Integrations ----------------------------
(***************************************************************************)
(* services/integrations/registry.py behind api/routes/integrations.py,    *)
(* with the webhook connector: instances live in a dictionary of the       *)
(* process, and every call that talks to a third party suspends between    *)
(* looking an instance up and writing its status, so that calls on one     *)
(* instance interleave.  An instance that was deleted goes on as an object *)
(* for the calls that hold it.  Each call is made once.                    *)
(***************************************************************************)
EXTENDS Integers, FiniteSets

CONSTANTS
  Calls,        \* requests, each made once
  Instances,    \* instance ids, fresh ones included
  NoInstance,
  Retries       \* retry_count of the webhooks

ASSUME IntegrationsAssumption == Retries \in Nat /\ NoInstance \notin Instances

VARIABLES
  listed,       \* ids in _instances
  givenOut,     \* ids given out
  standing,     \* status of each instance object
  config,       \* "old" or, after a PUT, "new"
  doing,        \* what each call is doing
  target,       \* the instance it holds
  attempts,     \* webhook: requests sent
  received,     \* webhook: requests the receiver acted on
  reply         \* the response of each call

integrationVars == <<listed, givenOut, standing, config, doing, target, attempts, received, reply>>
objects == <<listed, givenOut, standing, config>>

Ops == {"create", "test", "sync", "put", "send"}
Statuses == {"configuring", "active", "error", "inactive"}

IntegrationTypeOK ==
  /\ listed \subseteq givenOut /\ givenOut \subseteq Instances
  /\ standing \in [Instances -> Statuses]
  /\ config \in [Instances -> {"old", "new"}]
  /\ doing \in [Calls -> Ops \union {"none", "done"}]
  /\ target \in [Calls -> Instances \union {NoInstance}]
  /\ attempts \in [Calls -> 0..Retries]
  /\ received \in [Calls -> 0..Retries]
  /\ reply \in [Calls -> {"none", "ok", "failed", "400", "404", "500"}]

IntegrationInit ==
  /\ listed = {} /\ givenOut = {}
  /\ standing = [i \in Instances |-> "configuring"]
  /\ config = [i \in Instances |-> "old"]
  /\ doing = [c \in Calls |-> "none"]
  /\ target = [c \in Calls |-> NoInstance]
  /\ attempts = [c \in Calls |-> 0]
  /\ received = [c \in Calls |-> 0]
  /\ reply = [c \in Calls |-> "none"]

Holds(c, name) == doing[c] = name
Reply(c, a) ==
  /\ doing' = [doing EXCEPT ![c] = "done"]
  /\ reply' = [reply EXCEPT ![c] = a]

-----------------------------------------------------------------------------
(* POST: create_instance makes the object and tests its connection.        *)
BeginCreate(c) ==
  /\ Holds(c, "none")
  /\ \E i \in Instances \ givenOut :
       /\ givenOut' = givenOut \union {i}
       /\ target' = [target EXCEPT ![c] = i]
  /\ doing' = [doing EXCEPT ![c] = "create"]
  /\ UNCHANGED <<listed, standing, config, attempts, received, reply>>

(* Without a definition_id or a name, or for an unknown definition.        *)
CreateRefused(c) ==
  /\ Holds(c, "none")
  /\ \E a \in {"400", "404"} : Reply(c, a)
  /\ UNCHANGED <<objects, target, attempts, received>>

(* Only after the test, whatever its outcome, is the instance listed.      *)
EndCreate(c) ==
  /\ Holds(c, "create")
  /\ listed' = listed \union {target[c]}
  /\ \E s \in {"active", "error"} : standing' = [standing EXCEPT ![target[c]] = s]
  /\ Reply(c, "ok")
  /\ UNCHANGED <<givenOut, config, target, attempts, received>>

(* Test, sync, update and action look the instance up and then suspend: in *)
(* the connector, or while the body of the request arrives.                *)
Begin(c, i) ==
  /\ Holds(c, "none")
  /\ i \in givenOut
  /\ IF i \in listed
     THEN /\ doing' \in {[doing EXCEPT ![c] = o] : o \in Ops \ {"create"}}
          /\ UNCHANGED reply
     ELSE Reply(c, "404")
  /\ target' = [target EXCEPT ![c] = i]
  /\ UNCHANGED <<objects, attempts, received>>

(* Mutant of Settle: the instance is put back in its place.                *)
SettleAndRelist(c, success) ==
  /\ standing' = [standing EXCEPT ![target[c]] = IF success THEN "active" ELSE "error"]
  /\ listed' = listed \union {target[c]}

(* The status is written to the object the call holds, listed or not.      *)
Settle(c, success) ==
  /\ standing' = [standing EXCEPT ![target[c]] = IF success THEN "active" ELSE "error"]
  /\ UNCHANGED listed

(* test_instance, then the route looks the instance up again: a KeyError   *)
(* there is nobody's to catch.                                             *)
EndTest(c) ==
  /\ Holds(c, "test")
  /\ \E success \in BOOLEAN :
       /\ Settle(c, success)
       /\ Reply(c, IF target[c] \notin listed' THEN "500"
                   ELSE IF standing'[target[c]] = "active" THEN "ok" ELSE "failed")
  /\ UNCHANGED <<givenOut, config, target, attempts, received>>

(* sync_instance: the result is the answer; an exception is a failed one.  *)
EndSync(c) ==
  /\ Holds(c, "sync")
  /\ \E success \in BOOLEAN :
       Settle(c, success) /\ Reply(c, IF success THEN "ok" ELSE "failed")
  /\ UNCHANGED <<givenOut, config, target, attempts, received>>

(* update_instance: a status that is none is refused after the config has  *)
(* changed; a new config keeps the status that the old one earned.         *)
EndPut(c) ==
  /\ Holds(c, "put")
  /\ config' = [config EXCEPT ![target[c]] = "new"]
  /\ \/ Reply(c, "ok") /\ UNCHANGED standing
     \/ /\ Reply(c, "ok")
        /\ \E s \in Statuses : standing' = [standing EXCEPT ![target[c]] = s]
     \/ Reply(c, "400") /\ UNCHANGED standing
  /\ UNCHANGED <<listed, givenOut, target, attempts, received>>

(* WebhookIntegration.send, one attempt: a 2xx returns; an error status or *)
(* a transport error, after which the receiver may have acted all the      *)
(* same, is tried again at once.                                           *)
Attempt(c) ==
  /\ Holds(c, "send")
  /\ attempts[c] < Retries
  /\ attempts' = [attempts EXCEPT ![c] = @ + 1]
  /\ \/ received' = [received EXCEPT ![c] = @ + 1] /\ Reply(c, "ok")
     \/ /\ received' \in {received, [received EXCEPT ![c] = @ + 1]}
        /\ UNCHANGED <<doing, reply>>
  /\ UNCHANGED <<objects, target>>

(* Nothing is sent: an action other than "send" is a ValueError; a missing *)
(* or malformed URL, or a template that does not render, raises otherwise. *)
SendRefused(c) ==
  /\ Holds(c, "send")
  /\ attempts[c] = 0
  /\ \E a \in {"400", "500"} : Reply(c, a)
  /\ UNCHANGED <<objects, target, attempts, received>>

(* The attempts are used up: the last error is raised, or, with no attempt *)
(* made, None is, which is a TypeError; the route answers 500.             *)
GiveUp(c) ==
  /\ Holds(c, "send")
  /\ attempts[c] = Retries
  /\ Reply(c, "500")
  /\ UNCHANGED <<objects, target, attempts, received>>

(* DELETE removes the instance, without suspending.                        *)
Delete(c, i) ==
  /\ Holds(c, "none")
  /\ i \in givenOut
  /\ listed' = listed \ {i}
  /\ Reply(c, IF i \in listed THEN "ok" ELSE "404")
  /\ UNCHANGED <<givenOut, standing, config, target, attempts, received>>

IntegrationNext ==
  \E c \in Calls :
    \/ BeginCreate(c) \/ CreateRefused(c) \/ EndCreate(c)
    \/ \E i \in Instances : Begin(c, i) \/ Delete(c, i)
    \/ EndTest(c) \/ EndSync(c) \/ EndPut(c) \/ Attempt(c)
    \/ SendRefused(c) \/ GiveUp(c)

IntegrationSpec == IntegrationInit /\ [][IntegrationNext]_integrationVars

-----------------------------------------------------------------------------
(* What was deleted stays deleted: no test, sync, update or send that was  *)
(* on its way brings the instance back into the list.                      *)
DeletedStaysDeleted ==
  [][\A i \in Instances :
       (i \in listed' \ listed) =>
         \E c \in Calls : doing[c] = "create" /\ target[c] = i /\ reply'[c] = "ok"]_integrationVars

=============================================================================
