----------------------------- MODULE AgentRuntime ----------------------------
(***************************************************************************)
(* services/agents/runtime.py with the routes that use it                  *)
(* (api/routes/agents.py) and its short-term memory in Redis               *)
(* (services/agents/memory.py): agent executions started synchronously, in *)
(* the background, as a stream of events, or as a turn of a conversation.  *)
(*                                                                         *)
(* All run on one event loop; what is awaited is the LLM, a tool, and      *)
(* Redis.  An execution is known to the LLM loop by an id of its own; its  *)
(* messages live in Redis under that id until it returns.  A runtime is    *)
(* made per request, so the cancel route, which asks another runtime and   *)
(* only about executions that are already over, changes nothing and has no *)
(* action; Cancel is AgentRuntime.cancel for a program that keeps one.     *)
(* Left out: Redis forgetting a key after SHORT_TERM_TTL, and a task that  *)
(* is cancelled outside of its loop.                                       *)
(***************************************************************************)
EXTENDS Integers, Sequences, FiniteSets

CONSTANTS
  Requests,       \* requests, one execution each
  Conversations,
  MaxIterations,  \* MAX_ITERATIONS
  NoConversation,
  MaxFaults       \* bound: failing Redis commands

ASSUME RuntimeAssumption ==
  /\ MaxIterations \in Nat \ {0}
  /\ NoConversation \notin Conversations
  /\ MaxFaults \in Nat

VARIABLES
  kind,       \* how a request runs its execution
  pc,         \* what it awaits
  status,     \* AgentExecution.status
  round,      \* `iterations` of the tool-use loop
  wants,      \* the stop reason of the last LLM response
  cancelled,  \* cancel_event
  memory,     \* executions with short-term memory in Redis
  conv,       \* the conversation of a chat
  loaded,     \* the history a chat loaded
  history,    \* per conversation, the chats whose two messages are in Redis
  polled,     \* _executions under the id an async client polls
  results,    \* requests whose AgentExecution is in _executions
  \* history
  answered,   \* per conversation, the chats that were answered, in order
  overlapped, \* conversations that ever had two chats at a time
  uncleared,  \* executions whose memory could not be cleared
  faults

loopVars == <<status, round, wants, cancelled, memory>>
chatVars == <<conv, loaded, history, answered, overlapped>>
storeVars == <<polled, results>>
vars == <<kind, pc, loopVars, chatVars, storeVars, uncleared, faults>>

Kinds == {"sync", "async", "stream", "chat"}
Looping == {"llm", "saving", "tool"}
Running(r) == pc[r] \in Looping
ChatsOf(c) == {r \in Requests : conv[r] = c /\ pc[r] \notin {"idle", "done"}}

TypeOK ==
  /\ kind \in [Requests -> Kinds]
  /\ pc \in [Requests -> {"idle", "queued", "loading", "clearing", "storing", "done"}
                         \cup Looping]
  /\ status \in [Requests -> {"PENDING", "RUNNING", "COMPLETED", "FAILED", "CANCELLED"}]
  /\ round \in [Requests -> 0..MaxIterations]
  /\ wants \in [Requests -> {"tool_use", "end_turn"}]
  /\ cancelled \in SUBSET Requests
  /\ memory \in SUBSET Requests
  /\ conv \in [Requests -> Conversations \cup {NoConversation}]
  /\ loaded \in [Requests -> Seq(Requests)]
  /\ history \in [Conversations -> Seq(Requests)]
  /\ polled \in [Requests -> {"none", "PENDING", "FAILED"}]
  /\ results \in SUBSET Requests
  /\ answered \in [Conversations -> Seq(Requests)]
  /\ overlapped \in SUBSET Conversations
  /\ uncleared \in SUBSET Requests
  /\ faults \in 0..MaxFaults

Init ==
  /\ kind \in [Requests -> Kinds]
  /\ pc = [r \in Requests |-> "idle"]
  /\ status = [r \in Requests |-> "PENDING"]
  /\ round = [r \in Requests |-> 0]
  /\ wants = [r \in Requests |-> "tool_use"]
  /\ cancelled = {}
  /\ memory = {}
  /\ conv = [r \in Requests |-> NoConversation]
  /\ loaded = [r \in Requests |-> <<>>]
  /\ history = [c \in Conversations |-> <<>>]
  /\ polled = [r \in Requests |-> "none"]
  /\ results = {}
  /\ answered = [c \in Conversations |-> <<>>]
  /\ overlapped = {}
  /\ uncleared = {}
  /\ faults = 0

-----------------------------------------------------------------------------
Fault == faults < MaxFaults /\ faults' = faults + 1
Goto(r, l) == pc' = [pc EXCEPT ![r] = l]

(* execute and execute_streaming up to the first call of the LLM.          *)
StartLoop(r) ==
  /\ Goto(r, "llm")
  /\ status' = [status EXCEPT ![r] = "RUNNING"]
  /\ round' = [round EXCEPT ![r] = 1]
  /\ UNCHANGED <<wants, cancelled, memory>>

(* invoke_agent, synchronous or streaming.                                 *)
Invoke(r) ==
  /\ pc[r] = "idle"
  /\ kind[r] \in {"sync", "stream"}
  /\ StartLoop(r)
  /\ UNCHANGED <<kind, chatVars, storeVars, uncleared, faults>>

(* invoke_agent with async=true: a placeholder and a task.                 *)
InvokeAsync(r) ==
  /\ pc[r] = "idle"
  /\ kind[r] = "async"
  /\ Goto(r, "queued")
  /\ polled' = [polled EXCEPT ![r] = "PENDING"]
  /\ UNCHANGED <<kind, loopVars, chatVars, results, uncleared, faults>>

RunBackground(r) ==
  /\ pc[r] = "queued"
  /\ StartLoop(r)
  /\ UNCHANGED <<kind, chatVars, storeVars, uncleared, faults>>

(* agent_chat: ConversationManager.chat up to the load of the history.     *)
Chat(r) ==
  /\ pc[r] = "idle"
  /\ kind[r] = "chat"
  /\ Goto(r, "loading")
  /\ \E c \in Conversations :
       /\ conv' = [conv EXCEPT ![r] = c]
       /\ overlapped' = IF ChatsOf(c) = {} THEN overlapped ELSE overlapped \cup {c}
  /\ UNCHANGED <<kind, loopVars, loaded, history, answered, storeVars, uncleared, faults>>

Load(r) ==
  /\ pc[r] = "loading"
  /\ loaded' = [loaded EXCEPT ![r] = history[conv[r]]]
  /\ StartLoop(r)
  /\ UNCHANGED <<kind, conv, history, answered, overlapped, storeVars, uncleared, faults>>

LoadFails(r) ==
  /\ pc[r] = "loading"
  /\ Fault
  /\ Goto(r, "done")
  /\ UNCHANGED <<kind, loopVars, chatVars, storeVars, uncleared>>

-----------------------------------------------------------------------------
(* Mutant of End: only an execution that succeeds clears its memory.       *)
EndClearsOnSuccess(r, s) ==
  /\ status' = [status EXCEPT ![r] = s]
  /\ Goto(r, IF kind[r] = "stream" \/ (kind[r] # "chat" /\ s # "COMPLETED")
             THEN "done" ELSE "clearing")
  /\ UNCHANGED <<round, wants, cancelled>>

(* The `except` and `finally` of execute, up to clear_short_term.  A       *)
(* stream has no memory to clear: it ends with its last event.             *)
End(r, s) ==
  /\ status' = [status EXCEPT ![r] = s]
  /\ Goto(r, IF kind[r] = "stream" THEN "done" ELSE "clearing")
  /\ UNCHANGED <<round, wants, cancelled>>

(* `while iterations < MAX_ITERATIONS`: running out of iterations counts   *)
(* as completed.  A cancelled stream just returns: completed as well.      *)
NextRound(r) ==
  IF round[r] = MaxIterations
  THEN End(r, "COMPLETED")
  ELSE IF r \in cancelled
  THEN End(r, IF kind[r] = "stream" THEN "COMPLETED" ELSE "CANCELLED")
  ELSE /\ Goto(r, "llm")
       /\ round' = [round EXCEPT ![r] = @ + 1]
       /\ UNCHANGED <<status, wants, cancelled>>

(* messages.create returns; execute persists the messages, a stream goes   *)
(* on at once.                                                             *)
Respond(r) ==
  /\ pc[r] = "llm"
  /\ \E w \in {"tool_use", "end_turn"} :
       IF kind[r] = "stream" /\ w = "end_turn"
       THEN End(r, "COMPLETED")
       ELSE /\ wants' = [wants EXCEPT ![r] = w]
            /\ Goto(r, IF kind[r] = "stream" THEN "tool" ELSE "saving")
            /\ UNCHANGED <<status, round, cancelled>>
  /\ UNCHANGED <<kind, memory, chatVars, storeVars, uncleared, faults>>

(* set_short_term returns.                                                 *)
Save(r) ==
  /\ pc[r] = "saving"
  /\ memory' = memory \cup {r}
  /\ IF wants[r] = "end_turn"
     THEN End(r, "COMPLETED")
     ELSE Goto(r, "tool") /\ UNCHANGED <<status, round, wants, cancelled>>
  /\ UNCHANGED <<kind, chatVars, storeVars, uncleared, faults>>

(* execute_tool returns; its errors are results.                           *)
UseTool(r) ==
  /\ pc[r] = "tool"
  /\ NextRound(r)
  /\ UNCHANGED <<kind, memory, chatVars, storeVars, uncleared, faults>>

(* The LLM call raises.                                                    *)
RespondFails(r) ==
  /\ pc[r] = "llm"
  /\ End(r, "FAILED")
  /\ UNCHANGED <<kind, memory, chatVars, storeVars, uncleared, faults>>

(* set_short_term raises; the command may have been carried out.           *)
SaveFails(r) ==
  /\ pc[r] = "saving"
  /\ Fault
  /\ memory' \in {memory, memory \cup {r}}
  /\ End(r, "FAILED")
  /\ UNCHANGED <<kind, chatVars, storeVars, uncleared>>

(* Mutant of Timeout: it may fire while the memory is being cleared.       *)
TimeoutOfTheWhole(r) ==
  /\ Running(r) \/ pc[r] = "clearing"
  /\ kind[r] # "stream"
  /\ memory' \in {memory, IF pc[r] = "saving" THEN memory \cup {r} ELSE memory}
  /\ End(r, "FAILED")
  /\ UNCHANGED <<kind, chatVars, storeVars, uncleared, faults>>

(* Mutant of Timeout: a tool is waited for without a limit.                *)
TimeoutOfTheLlm(r) ==
  /\ pc[r] \in {"llm", "saving"}
  /\ kind[r] # "stream"
  /\ memory' \in {memory, IF pc[r] = "saving" THEN memory \cup {r} ELSE memory}
  /\ End(r, "FAILED")
  /\ UNCHANGED <<kind, chatVars, storeVars, uncleared, faults>>

(* asyncio.wait_for cancels the loop wherever it is; a stream has none.    *)
Timeout(r) ==
  /\ Running(r)
  /\ kind[r] # "stream"
  /\ memory' \in {memory, IF pc[r] = "saving" THEN memory \cup {r} ELSE memory}
  /\ End(r, "FAILED")
  /\ UNCHANGED <<kind, chatVars, storeVars, uncleared, faults>>

(* The task is cancelled from outside.  execute turns that into a status   *)
(* and returns; a stream is closed as it is.                               *)
Interrupt(r) ==
  /\ Running(r)
  /\ memory' \in {memory, IF pc[r] = "saving" THEN memory \cup {r} ELSE memory}
  /\ End(r, IF kind[r] = "stream" THEN "RUNNING" ELSE "CANCELLED")
  /\ UNCHANGED <<kind, chatVars, storeVars, uncleared, faults>>

(* AgentRuntime.cancel.                                                    *)
Cancel(r) ==
  /\ Running(r)
  /\ r \notin cancelled
  /\ cancelled' = cancelled \cup {r}
  /\ UNCHANGED <<kind, pc, status, round, wants, memory, chatVars, storeVars,
                 uncleared, faults>>

-----------------------------------------------------------------------------
(* clear_short_term returns and so does execute: invoke_agent remembers    *)
(* the execution under its own id, a chat goes on to store its history.    *)
Clear(r) ==
  /\ pc[r] = "clearing"
  /\ memory' = memory \ {r}
  /\ IF kind[r] = "chat"
     THEN Goto(r, "storing") /\ UNCHANGED results
     ELSE Goto(r, "done") /\ results' = results \cup {r}
  /\ UNCHANGED <<kind, status, round, wants, cancelled, chatVars, polled,
                 uncleared, faults>>

(* clear_short_term raises, out of execute: a background task marks its    *)
(* placeholder, everyone else answers with an error.                       *)
ClearFails(r) ==
  /\ pc[r] = "clearing"
  /\ Fault
  /\ uncleared' = uncleared \cup {r}
  /\ Goto(r, "done")
  /\ polled' = IF kind[r] = "async" THEN [polled EXCEPT ![r] = "FAILED"] ELSE polled
  /\ UNCHANGED <<kind, loopVars, chatVars, results>>

(* The turn is appended to the history that was loaded, and stored.        *)
Store(r) ==
  /\ pc[r] = "storing"
  /\ history' = [history EXCEPT ![conv[r]] = Append(loaded[r], r)]
  /\ answered' = [answered EXCEPT ![conv[r]] = Append(@, r)]
  /\ Goto(r, "done")
  /\ UNCHANGED <<kind, loopVars, conv, loaded, overlapped, storeVars, uncleared, faults>>

StoreFails(r) ==
  /\ pc[r] = "storing"
  /\ Fault
  /\ Goto(r, "done")
  /\ UNCHANGED <<kind, loopVars, chatVars, storeVars, uncleared>>

Begin(r) == Invoke(r) \/ InvokeAsync(r) \/ Chat(r)
LoopStep(r) == Respond(r) \/ RespondFails(r) \/ Save(r) \/ SaveFails(r) \/ UseTool(r)
Redis(r) ==
  Load(r) \/ LoadFails(r) \/ Clear(r) \/ ClearFails(r) \/ Store(r) \/ StoreFails(r)

Next ==
  \E r \in Requests :
    \/ Begin(r)
    \/ RunBackground(r)
    \/ LoopStep(r)
    \/ Redis(r)
    \/ Timeout(r)
    \/ Interrupt(r)
    \/ Cancel(r)

(* A task that was created runs, the timeout fires, and Redis answers,     *)
(* outside of the loop, with a result or an error.  Neither the LLM nor a  *)
(* tool ever has to answer.                                                *)
Fairness ==
  \A r \in Requests :
    /\ WF_vars(RunBackground(r))
    /\ WF_vars(Timeout(r))
    /\ WF_vars(Redis(r))

Spec == Init /\ [][Next]_vars
FairSpec == Spec /\ Fairness

-----------------------------------------------------------------------------
(* Whichever way an execution ended, by timing out or being cancelled in   *)
(* the middle of a save included, it leaves no messages in Redis once it   *)
(* has returned, except when Redis refused to clear them.                  *)
ReturnedLeavesNoMemory ==
  \A r \in memory : pc[r] \in Looping \cup {"clearing"} \/ r \in uncleared

(* Turns of a conversation that came one at a time are all in its history, *)
(* in order; failed and cancelled turns included, unless Redis failed      *)
(* them.                                                                   *)
TurnsAreKept ==
  \A c \in Conversations \ overlapped : history[c] = answered[c]

(* What executions and chats leave in Redis, whichever await they were     *)
(* interrupted at.                                                         *)
RuntimeInv == TypeOK /\ ReturnedLeavesNoMemory /\ TurnsAreKept

(* An execution whose loop is over stays as it ended: no timeout, cancel   *)
(* or late answer of the LLM changes its status, and only executions that  *)
(* are over are found among the results.                                   *)
OverIsOver ==
  /\ [][\A r \in Requests :
          (pc[r] \in {"clearing", "storing", "done"} => status'[r] = status[r])]_vars
  /\ [](\A r \in results : status[r] \in {"COMPLETED", "FAILED", "CANCELLED"})

(* Whatever the LLM and the tools do, or do not, a request that is not a   *)
(* stream returns.                                                         *)
EveryExecutionReturns ==
  \A r \in Requests :
    (pc[r] # "idle" /\ kind[r] # "stream") ~> pc[r] = "done"

(* invoke_agent's docstring: async=true "starts the execution in the       *)
(* background and returns an execution_id for polling": what is polled     *)
(* does not stay pending for ever.                                         *)
PollingEnds ==
  \A r \in Requests : polled[r] = "PENDING" ~> polled[r] # "PENDING"

=============================================================================
