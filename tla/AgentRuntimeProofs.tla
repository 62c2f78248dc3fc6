-------------------------- MODULE AgentRuntimeProofs --------------------------
(***************************************************************************)
(* What an agent execution leaves behind, for any number of executions,    *)
(* conversations and rounds, wherever a timeout, a cancellation or a       *)
(* failure of Redis meets it.  Memory is cleared because every way out of  *)
(* the loop of a request that saves leads through `clearing`; turns are    *)
(* kept because a conversation whose chats never overlapped has one        *)
(* request under way, and the history it loaded is still the current one.  *)
(***************************************************************************)
EXTENDS AgentRuntime, TLAPS

Terminal == {"COMPLETED", "FAILED", "CANCELLED"}

(* A stream has no memory, and only chats load and store a history.        *)
KindsKeepTheirPlaces ==
  \A r \in Requests :
    /\ kind[r] = "stream" => r \notin memory /\ pc[r] \in {"idle", "llm", "tool", "done"}
    /\ pc[r] \in {"loading", "storing"} => kind[r] = "chat"
    /\ pc[r] = "queued" => kind[r] = "async"
    /\ conv[r] \in Conversations <=> kind[r] = "chat" /\ pc[r] # "idle"

(* Past its loop, an execution has its verdict.                            *)
VerdictsAreFinal ==
  \A r \in Requests :
    /\ pc[r] = "clearing" => status[r] \in Terminal
    /\ r \in results => pc[r] = "done" /\ status[r] \in Terminal

(* One chat at a time, and what it loaded is the history.                  *)
OneChat ==
  /\ \A r, s \in Requests :
       (/\ conv[r] \in Conversations \ overlapped /\ conv[s] = conv[r]
        /\ pc[r] # "done" /\ pc[s] # "done") => r = s
  /\ \A r \in Requests :
       (conv[r] \in Conversations \ overlapped /\ pc[r] \in Looping \cup {"clearing", "storing"})
         => loaded[r] = history[conv[r]]

RuntimeIInv ==
  /\ RuntimeInv
  /\ KindsKeepTheirPlaces
  /\ VerdictsAreFinal
  /\ OneChat

-----------------------------------------------------------------------------
LEMMA InitRuntime == Init => RuntimeIInv
<1> SUFFICES ASSUME Init PROVE RuntimeIInv
  OBVIOUS
<1>1. TypeOK
  BY RuntimeAssumption DEF RuntimeAssumption, Init, TypeOK, Kinds, Looping
<1>2. ReturnedLeavesNoMemory /\ TurnsAreKept
  BY DEF Init, ReturnedLeavesNoMemory, TurnsAreKept
<1>3. KindsKeepTheirPlaces /\ VerdictsAreFinal /\ OneChat
  BY RuntimeAssumption DEF RuntimeAssumption, Init, KindsKeepTheirPlaces, VerdictsAreFinal, OneChat
<1> QED BY <1>1, <1>2, <1>3 DEF RuntimeIInv, RuntimeInv

LEMMA Types ==
  ASSUME RuntimeIInv
  PROVE  /\ loaded \in [Requests -> Seq(Requests)]
         /\ history \in [Conversations -> Seq(Requests)]
         /\ answered \in [Conversations -> Seq(Requests)]
         /\ round \in [Requests -> 0..MaxIterations]
         /\ faults \in 0..MaxFaults
         /\ MaxFaults \in Nat /\ MaxIterations \in Nat \ {0}
BY RuntimeAssumption DEF RuntimeIInv, RuntimeInv, TypeOK, RuntimeAssumption

LEMMA CountersStayBounded ==
  ASSUME RuntimeIInv
  PROVE  /\ faults' = faults \/ (faults < MaxFaults /\ faults' = faults + 1)
              => faults' \in 0..MaxFaults
         /\ \A r : round' = round \/ round' = [round EXCEPT ![r] = 1]
              => round' \in [Requests -> 0..MaxIterations]
<1>1. faults' = faults \/ (faults < MaxFaults /\ faults' = faults + 1)
              => faults' \in 0..MaxFaults
  BY Types
<1>2. 1 \in 0..MaxIterations
  BY Types
<1>3. \A r : round' = round \/ round' = [round EXCEPT ![r] = 1]
              => round' \in [Requests -> 0..MaxIterations]
  BY <1>2, Types
<1> QED BY <1>1, <1>3

(* What a request does that is in its loop: it stays there or ends, with a *)
(* verdict; a save leaves messages only of a request that will clear them. *)
InTheLoop(r) == LoopStep(r) \/ Timeout(r) \/ Interrupt(r)

LEMMA LoopEffect ==
  ASSUME NEW r \in Requests, RuntimeIInv, InTheLoop(r)
  PROVE  /\ pc[r] \in Looping /\ pc'[r] \in Looping \cup {"clearing", "done"}
         /\ \A q \in Requests \ {r} : pc'[q] = pc[q] /\ status'[q] = status[q]
         /\ pc' \in [Requests -> {"idle", "queued", "loading", "clearing", "storing", "done"}
                                 \cup Looping]
         /\ status' \in [Requests -> {"PENDING", "RUNNING"} \cup Terminal]
         /\ pc'[r] = "done" => kind[r] = "stream"
         /\ pc'[r] \in {"saving", "clearing"} => kind[r] # "stream"
         /\ pc'[r] = "clearing" => status'[r] \in Terminal
         /\ memory' = memory \/ (memory' = memory \cup {r} /\ pc[r] = "saving")
         /\ round' \in [Requests -> 0..MaxIterations]
         /\ wants' \in [Requests -> {"tool_use", "end_turn"}]
         /\ faults' \in 0..MaxFaults
         /\ UNCHANGED <<kind, cancelled, chatVars, storeVars, uncleared>>
<1> DEFINE Moves(p) == /\ Goto(r, p) /\ UNCHANGED status
                       /\ pc[r] \in Looping /\ p \in Looping
                       /\ p = "saving" => kind[r] # "stream"
           Ends(s) == /\ End(r, s) /\ pc[r] \in Looping
                      /\ s \in {"RUNNING"} \cup Terminal
                      /\ kind[r] # "stream" => s \in Terminal
           Rest == /\ memory' = memory \/ (memory' = memory \cup {r} /\ pc[r] = "saving")
                   /\ round' \in [Requests -> 0..MaxIterations]
                   /\ wants' \in [Requests -> {"tool_use", "end_turn"}]
                   /\ faults' \in 0..MaxFaults
                   /\ UNCHANGED <<kind, cancelled, chatVars, storeVars, uncleared>>
           Steps == /\ pc[r] \in Looping /\ pc'[r] \in Looping \cup {"clearing", "done"}
                    /\ \A q \in Requests \ {r} : pc'[q] = pc[q] /\ status'[q] = status[q]
                    /\ pc' \in [Requests -> {"idle", "queued", "loading", "clearing", "storing", "done"}
                                            \cup Looping]
                    /\ status' \in [Requests -> {"PENDING", "RUNNING"} \cup Terminal]
                    /\ pc'[r] = "done" => kind[r] = "stream"
                    /\ pc'[r] \in {"saving", "clearing"} => kind[r] # "stream"
                    /\ pc'[r] = "clearing" => status'[r] \in Terminal
<1>1. TypeOK
  BY DEF RuntimeIInv, RuntimeInv
<1>2. ASSUME NEW p \in Looping, Moves(p) PROVE Steps
  BY <1>1, <1>2 DEF Goto, TypeOK, Terminal, Looping
<1>3. ASSUME NEW s \in {"RUNNING"} \cup Terminal, Ends(s) PROVE Steps
  BY <1>1, <1>3 DEF Goto, End, TypeOK, Terminal, Looping
<1> SUFFICES Steps /\ Rest
  OBVIOUS
<1>4. CASE Respond(r)
  <2>1. (\E p \in Looping : Moves(p)) \/ (\E s \in Terminal : Ends(s))
    BY <1>4 DEF Respond, Looping, Terminal
  <2>2. Rest
    BY <1>1, <1>4 DEF Respond, End, TypeOK
  <2> HIDE DEF Moves, Ends, Steps, Rest
  <2> QED BY <2>1, <2>2, <1>2, <1>3
<1>5. CASE RespondFails(r)
  <2>1. Ends("FAILED")
    BY <1>5 DEF RespondFails, Looping, Terminal
  <2>2. Rest
    BY <1>1, <1>5 DEF RespondFails, End, TypeOK
  <2> HIDE DEF Moves, Ends, Steps, Rest
  <2> QED BY <2>1, <2>2, <1>3 DEF Terminal
<1>6. CASE Save(r)
  <2>1. (\E p \in Looping : Moves(p)) \/ (\E s \in Terminal : Ends(s))
    BY <1>6 DEF Save, Looping, Terminal
  <2>2. Rest
    BY <1>1, <1>6 DEF Save, End, TypeOK
  <2> HIDE DEF Moves, Ends, Steps, Rest
  <2> QED BY <2>1, <2>2, <1>2, <1>3
<1>7. CASE SaveFails(r)
  <2>1. Ends("FAILED")
    BY <1>7 DEF SaveFails, Looping, Terminal
  <2>2. Rest
    BY <1>1, <1>7, RuntimeAssumption DEF SaveFails, End, TypeOK, Fault, RuntimeAssumption
  <2> HIDE DEF Moves, Ends, Steps, Rest
  <2> QED BY <2>1, <2>2, <1>3 DEF Terminal
<1>8. CASE UseTool(r)
  <2>1. (\E p \in Looping : Moves(p)) \/ (\E s \in Terminal : Ends(s))
    BY <1>8 DEF UseTool, NextRound, Looping, Terminal
  <2>2. round' \in [Requests -> 0..MaxIterations]
    <3>1. CASE round' = round
      BY <1>1, <3>1 DEF TypeOK
    <3>2. CASE round' = [round EXCEPT ![r] = @ + 1] /\ round[r] # MaxIterations
      BY <1>1, <3>2, RuntimeAssumption DEF TypeOK, RuntimeAssumption
    <3> QED BY <1>8, <3>1, <3>2 DEF UseTool, NextRound, End
  <2>3. Rest
    BY <1>1, <1>8, <2>2 DEF UseTool, NextRound, End, TypeOK
  <2> HIDE DEF Moves, Ends, Steps, Rest
  <2> QED BY <2>1, <2>3, <1>2, <1>3
<1>9. CASE Timeout(r)
  <2>1. Ends("FAILED")
    BY <1>9 DEF Timeout, Running, Terminal
  <2>2. Rest
    BY <1>1, <1>9 DEF Timeout, End, TypeOK
  <2> HIDE DEF Moves, Ends, Steps, Rest
  <2> QED BY <2>1, <2>2, <1>3 DEF Terminal
<1>10. CASE Interrupt(r)
  <2>1. \E s \in {"RUNNING"} \cup Terminal : Ends(s)
    BY <1>10 DEF Interrupt, Running, Terminal
  <2>2. Rest
    BY <1>1, <1>10 DEF Interrupt, End, TypeOK
  <2> HIDE DEF Moves, Ends, Steps, Rest
  <2> QED BY <2>1, <2>2, <1>3
<1> QED BY <1>4, <1>5, <1>6, <1>7, <1>8, <1>9, <1>10 DEF InTheLoop, LoopStep

LEMMA LoopKeeps ==
  ASSUME NEW r \in Requests, RuntimeIInv, InTheLoop(r)
  PROVE  RuntimeIInv'
<1>1. /\ pc[r] \in Looping /\ pc'[r] \in Looping \cup {"clearing", "done"}
      /\ \A q \in Requests \ {r} : pc'[q] = pc[q] /\ status'[q] = status[q]
      /\ pc' \in [Requests -> {"idle", "queued", "loading", "clearing", "storing", "done"}
                              \cup Looping]
      /\ status' \in [Requests -> {"PENDING", "RUNNING"} \cup Terminal]
      /\ pc'[r] = "done" => kind[r] = "stream"
      /\ pc'[r] \in {"saving", "clearing"} => kind[r] # "stream"
      /\ pc'[r] = "clearing" => status'[r] \in Terminal
  BY LoopEffect
<1>2. /\ memory' = memory \/ (memory' = memory \cup {r} /\ pc[r] = "saving")
      /\ round' \in [Requests -> 0..MaxIterations]
      /\ wants' \in [Requests -> {"tool_use", "end_turn"}]
      /\ faults' \in 0..MaxFaults
      /\ UNCHANGED <<kind, cancelled, conv, loaded, history, answered, overlapped, polled,
                     results, uncleared>>
  BY LoopEffect DEF chatVars, storeVars
<1> USE DEF RuntimeIInv, RuntimeInv
<1>3. TypeOK'
  BY <1>1, <1>2 DEF TypeOK, Terminal, Looping
<1>4. ReturnedLeavesNoMemory'
  <2>1. r \in memory' => pc'[r] \in Looping \cup {"clearing"}
    BY <1>1, <1>2 DEF KindsKeepTheirPlaces, Looping
  <2>2. memory \subseteq Requests
    BY DEF TypeOK
  <2> QED BY <1>1, <1>2, <2>1, <2>2 DEF ReturnedLeavesNoMemory
<1>5. TurnsAreKept'
  BY <1>2 DEF TurnsAreKept
<1>6. KindsKeepTheirPlaces'
  BY <1>1, <1>2 DEF KindsKeepTheirPlaces, TypeOK, Looping
<1>7. VerdictsAreFinal'
  BY <1>1, <1>2 DEF VerdictsAreFinal, TypeOK, Looping
<1>8. OneChat'
  <2>1. \A q \in Requests :
          /\ pc'[q] # "done" => pc[q] # "done"
          /\ pc'[q] \in Looping \cup {"clearing", "storing"} =>
               pc[q] \in Looping \cup {"clearing", "storing"}
    BY <1>1, <1>2 DEF TypeOK, Looping
  <2> QED BY <1>2, <2>1 DEF OneChat
<1> QED BY <1>3, <1>4, <1>5, <1>6, <1>7, <1>8

LEMMA BeginKeeps ==
  ASSUME NEW r \in Requests, RuntimeIInv, Invoke(r) \/ InvokeAsync(r) \/ RunBackground(r)
  PROVE  RuntimeIInv'
<1>1. /\ \E p \in {"llm", "queued"} : pc' = [pc EXCEPT ![r] = p] /\ (p = "queued" => kind[r] = "async")
      /\ \/ pc[r] = "idle" /\ kind[r] # "chat"
         \/ pc[r] = "queued"
      /\ status' = status \/ status' = [status EXCEPT ![r] = "RUNNING"]
      /\ round' = round \/ round' = [round EXCEPT ![r] = 1]
      /\ polled' = polled \/ polled' = [polled EXCEPT ![r] = "PENDING"]
      /\ UNCHANGED <<kind, wants, cancelled, memory, conv, loaded, history, answered,
                     overlapped, results, uncleared, faults>>
  BY DEF Invoke, InvokeAsync, RunBackground, StartLoop, Goto, loopVars, chatVars, storeVars
<1> USE DEF RuntimeIInv, RuntimeInv
<1>2. TypeOK'
  BY <1>1, RuntimeAssumption DEF RuntimeAssumption, TypeOK, Looping
<1>3. ReturnedLeavesNoMemory' /\ TurnsAreKept'
  BY <1>1 DEF ReturnedLeavesNoMemory, TurnsAreKept, TypeOK, Looping
<1>4. KindsKeepTheirPlaces'
  BY <1>1 DEF KindsKeepTheirPlaces, TypeOK
<1>5. VerdictsAreFinal'
  BY <1>1 DEF VerdictsAreFinal, TypeOK
<1>6. OneChat'
  <2>1. \A q \in Requests :
          conv[q] \in Conversations =>
            /\ pc'[q] # "done" => pc[q] # "done"
            /\ pc'[q] \in Looping \cup {"clearing", "storing"} =>
                 pc[q] \in Looping \cup {"clearing", "storing"}
    BY <1>1 DEF TypeOK, Looping, KindsKeepTheirPlaces
  <2> QED BY <1>1, <2>1 DEF OneChat
<1> QED BY <1>2, <1>3, <1>4, <1>5, <1>6

(* Invoking a chat: it joins a conversation, which is marked if another of *)
(* its chats is under way.                                                 *)
LEMMA ChatKeeps ==
  ASSUME NEW r \in Requests, RuntimeIInv, Chat(r)
  PROVE  RuntimeIInv'
<1> USE DEF RuntimeIInv, RuntimeInv
<1>1. PICK c \in Conversations :
        /\ conv' = [conv EXCEPT ![r] = c]
        /\ overlapped' = IF ChatsOf(c) = {} THEN overlapped ELSE overlapped \cup {c}
  BY DEF Chat
<1>2. /\ pc[r] = "idle" /\ kind[r] = "chat" /\ pc' = [pc EXCEPT ![r] = "loading"]
      /\ UNCHANGED <<kind, status, round, wants, cancelled, memory, loaded, history, answered,
                     polled, results, uncleared, faults>>
  BY DEF Chat, Goto, loopVars, storeVars
<1>3. TypeOK'
  BY <1>1, <1>2 DEF TypeOK
<1>4. ReturnedLeavesNoMemory' /\ TurnsAreKept'
  BY <1>1, <1>2 DEF ReturnedLeavesNoMemory, TurnsAreKept, TypeOK, Looping
<1>5. KindsKeepTheirPlaces' /\ VerdictsAreFinal'
  BY <1>1, <1>2 DEF KindsKeepTheirPlaces, VerdictsAreFinal, TypeOK
<1>6. c \notin overlapped' =>
        \A s \in Requests : conv[s] = c => pc[s] \in {"idle", "done"}
  BY <1>1 DEF ChatsOf
<1>7. OneChat'
  <2>1. ASSUME NEW q \in Requests, NEW s \in Requests,
               conv'[q] \in Conversations \ overlapped', conv'[s] = conv'[q],
               pc'[q] # "done", pc'[s] # "done"
        PROVE  q = s
    <3>1. overlapped \subseteq overlapped'
      BY <1>1
    <3>2. CASE q # r /\ s # r
      BY <1>1, <1>2, <2>1, <3>1, <3>2 DEF OneChat, TypeOK
    <3>3. CASE q # r /\ s = r
      BY <1>1, <1>2, <1>6, <2>1, <3>3 DEF TypeOK, KindsKeepTheirPlaces
    <3>4. CASE q = r /\ s # r
      BY <1>1, <1>2, <1>6, <2>1, <3>4 DEF TypeOK, KindsKeepTheirPlaces
    <3> QED BY <3>2, <3>3, <3>4
  <2>2. ASSUME NEW q \in Requests, conv'[q] \in Conversations \ overlapped',
               pc'[q] \in Looping \cup {"clearing", "storing"}
        PROVE  loaded'[q] = history'[conv'[q]]
    BY <1>1, <1>2, <2>2 DEF OneChat, TypeOK, Looping
  <2> QED BY <2>1, <2>2 DEF OneChat
<1> QED BY <1>3, <1>4, <1>5, <1>7

LEMMA LoadKeeps ==
  ASSUME NEW r \in Requests, RuntimeIInv, Load(r) \/ LoadFails(r)
  PROVE  RuntimeIInv'
<1> USE DEF RuntimeIInv, RuntimeInv
<1>1. /\ pc[r] = "loading"
      /\ \/ /\ pc' = [pc EXCEPT ![r] = "llm"]
            /\ loaded' = [loaded EXCEPT ![r] = history[conv[r]]]
         \/ /\ pc' = [pc EXCEPT ![r] = "done"]
            /\ UNCHANGED loaded
      /\ status' = status \/ status' = [status EXCEPT ![r] = "RUNNING"]
      /\ round' = round \/ round' = [round EXCEPT ![r] = 1]
      /\ faults' = faults \/ (faults < MaxFaults /\ faults' = faults + 1)
      /\ UNCHANGED <<kind, wants, cancelled, memory, conv, history, answered, overlapped,
                     polled, results, uncleared>>
  BY DEF Load, LoadFails, StartLoop, Goto, Fault, loopVars, chatVars, storeVars
<1>2. kind[r] = "chat" /\ conv[r] \in Conversations
  BY <1>1 DEF KindsKeepTheirPlaces
<1>3. TypeOK'
  <2>1. loaded' \in [Requests -> Seq(Requests)]
    BY ONLY <1>1, <1>2, Types, r \in Requests, RuntimeIInv
  <2>2. faults' \in 0..MaxFaults /\ round' \in [Requests -> 0..MaxIterations]
    BY ONLY <1>1, CountersStayBounded, RuntimeIInv
  <2> QED BY <1>1, <2>1, <2>2 DEF TypeOK, Looping
<1>p. pc \in [Requests -> {"idle", "queued", "loading", "clearing", "storing", "done"} \cup Looping]
  BY DEF TypeOK
<1>4. ReturnedLeavesNoMemory' /\ TurnsAreKept'
  BY <1>1, <1>p DEF ReturnedLeavesNoMemory, TurnsAreKept, TypeOK, Looping
<1>5. KindsKeepTheirPlaces' /\ VerdictsAreFinal'
  <2>1. \A q \in Requests : /\ pc'[q] = pc[q] \/ (q = r /\ pc'[q] \in {"llm", "done"})
                            /\ status'[q] = status[q] \/ (q = r /\ pc[q] = "loading")
    BY <1>1, <1>p DEF TypeOK
  <2> QED BY <1>1, <1>2, <2>1 DEF KindsKeepTheirPlaces, VerdictsAreFinal
<1>6. OneChat'
  <2>1. \A q \in Requests : pc'[q] # "done" => pc[q] # "done"
    BY <1>1 DEF TypeOK
  <2>2. \A q \in Requests : pc'[q] \in Looping \cup {"clearing", "storing"} =>
          \/ q = r /\ loaded'[r] = history[conv[r]]
          \/ pc[q] \in Looping \cup {"clearing", "storing"} /\ loaded'[q] = loaded[q]
    BY <1>1 DEF TypeOK, Looping
  <2> QED BY <1>1, <2>1, <2>2 DEF OneChat
<1> QED BY <1>3, <1>4, <1>5, <1>6

LEMMA ClearKeeps ==
  ASSUME NEW r \in Requests, RuntimeIInv, Clear(r) \/ ClearFails(r)
  PROVE  RuntimeIInv'
<1> USE DEF RuntimeIInv, RuntimeInv
<1>1. /\ pc[r] = "clearing"
      /\ \/ /\ pc' = [pc EXCEPT ![r] = "storing"] /\ kind[r] = "chat" /\ results' = results
            /\ memory' = memory \ {r} /\ uncleared' = uncleared
         \/ /\ pc' = [pc EXCEPT ![r] = "done"] /\ results' = results \cup {r}
            /\ memory' = memory \ {r} /\ uncleared' = uncleared
         \/ /\ pc' = [pc EXCEPT ![r] = "done"] /\ results' = results
            /\ memory' = memory /\ uncleared' = uncleared \cup {r}
      /\ polled' = polled \/ polled' = [polled EXCEPT ![r] = "FAILED"]
      /\ faults' = faults \/ (faults < MaxFaults /\ faults' = faults + 1)
      /\ UNCHANGED <<kind, status, round, wants, cancelled, conv, loaded, history, answered,
                     overlapped>>
  BY DEF Clear, ClearFails, Goto, Fault, loopVars, chatVars
<1>2. TypeOK'
  <2>1. faults' \in 0..MaxFaults /\ polled' \in [Requests -> {"none", "PENDING", "FAILED"}]
    <3>1. faults' \in 0..MaxFaults
      BY ONLY <1>1, CountersStayBounded, RuntimeIInv
    <3> QED BY <1>1, <3>1 DEF TypeOK
  <2> QED BY <1>1, <2>1 DEF TypeOK
<1>3. ReturnedLeavesNoMemory' /\ TurnsAreKept'
  BY <1>1 DEF ReturnedLeavesNoMemory, TurnsAreKept, TypeOK
<1>4. KindsKeepTheirPlaces'
  BY <1>1 DEF KindsKeepTheirPlaces, TypeOK
<1>5. VerdictsAreFinal'
  BY <1>1 DEF VerdictsAreFinal, TypeOK
<1>6. OneChat'
  <2>1. \A q \in Requests :
          /\ pc'[q] # "done" => pc[q] # "done"
          /\ pc'[q] \in Looping \cup {"clearing", "storing"} =>
               pc[q] \in Looping \cup {"clearing", "storing"}
    BY <1>1 DEF TypeOK, Looping
  <2> QED BY <1>1, <2>1 DEF OneChat
<1> QED BY <1>2, <1>3, <1>4, <1>5, <1>6

LEMMA StoreKeeps ==
  ASSUME NEW r \in Requests, RuntimeIInv, Store(r) \/ StoreFails(r)
  PROVE  RuntimeIInv'
<1> USE DEF RuntimeIInv, RuntimeInv
<1>1. /\ pc[r] = "storing" /\ pc' = [pc EXCEPT ![r] = "done"]
      /\ faults' = faults \/ (faults < MaxFaults /\ faults' = faults + 1)
      /\ \/ /\ history' = [history EXCEPT ![conv[r]] = Append(loaded[r], r)]
            /\ answered' = [answered EXCEPT ![conv[r]] = Append(@, r)]
         \/ UNCHANGED <<history, answered>>
      /\ UNCHANGED <<kind, status, round, wants, cancelled, memory, conv, loaded, overlapped,
                     polled, results, uncleared>>
  BY DEF Store, StoreFails, Goto, Fault, loopVars, chatVars, storeVars
<1>2. kind[r] = "chat" /\ conv[r] \in Conversations
  BY <1>1 DEF KindsKeepTheirPlaces
<1>3. TypeOK'
  <2>1. /\ history' \in [Conversations -> Seq(Requests)]
        /\ answered' \in [Conversations -> Seq(Requests)]
    <3>1. /\ Append(loaded[r], r) \in Seq(Requests)
          /\ Append(answered[conv[r]], r) \in Seq(Requests)
      BY ONLY <1>2, Types, r \in Requests, RuntimeIInv
    <3> QED BY ONLY <1>1, <3>1, Types, RuntimeIInv
  <2>2. faults' \in 0..MaxFaults
    BY ONLY <1>1, CountersStayBounded, RuntimeIInv
  <2> QED BY <1>1, <2>1, <2>2 DEF TypeOK
<1>4. ReturnedLeavesNoMemory'
  BY <1>1 DEF ReturnedLeavesNoMemory, TypeOK, Looping
<1>5. TurnsAreKept'
  <2>1. conv[r] \notin overlapped => loaded[r] = history[conv[r]]
    BY <1>1, <1>2 DEF OneChat
  <2>2. ASSUME NEW c \in Conversations \ overlapped PROVE history'[c] = answered'[c]
    <3>1. history[c] = answered[c]
      BY DEF TurnsAreKept
    <3>2. CASE c = conv[r]
      <4>1. loaded[r] = answered[c]
        BY <2>1, <3>1, <3>2
      <4> QED BY ONLY <1>1, <3>1, <3>2, <4>1, Types, c \in Conversations, RuntimeIInv
    <3>3. CASE c # conv[r]
      BY ONLY <1>1, <3>1, <3>3, Types, c \in Conversations, RuntimeIInv
    <3> QED BY <3>2, <3>3
  <2> QED BY <1>1, <2>2 DEF TurnsAreKept
<1>6. KindsKeepTheirPlaces' /\ VerdictsAreFinal'
  BY <1>1 DEF KindsKeepTheirPlaces, VerdictsAreFinal, TypeOK
<1>7. OneChat'
  <2>1. \A q \in Requests : /\ pc'[q] # "done" => pc[q] # "done" /\ q # r
                            /\ pc'[q] \in Looping \cup {"clearing", "storing"} =>
                                 q # r /\ pc[q] \in Looping \cup {"clearing", "storing"}
    BY <1>1 DEF TypeOK, Looping
  <2>2. \A q \in Requests : (/\ conv[q] \in Conversations \ overlapped
                             /\ pc'[q] \in Looping \cup {"clearing", "storing"})
                            => conv[q] # conv[r]
    BY <1>1, <1>2, <2>1 DEF OneChat, Looping
  <2> QED BY <1>1, <1>2, <2>1, <2>2 DEF OneChat, TypeOK
<1> QED BY <1>3, <1>4, <1>5, <1>6, <1>7

LEMMA CancelKeeps ==
  ASSUME NEW r \in Requests, RuntimeIInv, Cancel(r)
  PROVE  RuntimeIInv'
BY DEF Cancel, RuntimeIInv, RuntimeInv, TypeOK, ReturnedLeavesNoMemory, TurnsAreKept,
       KindsKeepTheirPlaces, VerdictsAreFinal, OneChat, chatVars, storeVars

LEMMA NextKeeps == RuntimeIInv /\ [Next]_vars => RuntimeIInv'
<1> SUFFICES ASSUME RuntimeIInv, [Next]_vars PROVE RuntimeIInv'
  OBVIOUS
<1>1. ASSUME NEW r \in Requests,
             \/ Begin(r) \/ RunBackground(r) \/ LoopStep(r) \/ Redis(r)
             \/ Timeout(r) \/ Interrupt(r) \/ Cancel(r)
      PROVE  RuntimeIInv'
  BY <1>1, BeginKeeps, ChatKeeps, LoopKeeps, LoadKeeps, ClearKeeps, StoreKeeps, CancelKeeps
     DEF Begin, Redis, InTheLoop
<1>2. CASE UNCHANGED vars
  BY <1>2 DEF vars, loopVars, chatVars, storeVars, RuntimeIInv, RuntimeInv, TypeOK,
              ReturnedLeavesNoMemory, TurnsAreKept, KindsKeepTheirPlaces, VerdictsAreFinal, OneChat
<1> QED BY <1>1, <1>2 DEF Next

(* RuntimeIInv is inductive.                                               *)
THEOREM RuntimeInvariant == Spec => []RuntimeIInv
BY InitRuntime, NextKeeps, PTL DEF Spec

(* RuntimeInv, for any number of executions: one that has returned leaves  *)
(* no messages in Redis unless Redis refused to clear them, wherever it    *)
(* was interrupted (runtime.py, finally of execute), and the turns of a    *)
(* conversation that came one at a time are all in its history.            *)
THEOREM MemoryAndTurns == Spec => []RuntimeInv
BY RuntimeInvariant, PTL DEF RuntimeIInv

LEMMA StatusMovesInTheLoop ==
  ASSUME RuntimeIInv, [Next]_vars, NEW r \in Requests, pc[r] \in {"clearing", "storing", "done"}
  PROVE  status'[r] = status[r]
<1>1. ASSUME NEW q \in Requests, InTheLoop(q) PROVE status'[r] = status[r]
  BY <1>1, LoopEffect DEF Looping
<1>2. ASSUME NEW q \in Requests, Begin(q) \/ RunBackground(q) \/ Redis(q) \/ Cancel(q)
      PROVE  status'[r] = status[r]
  BY <1>2 DEF Begin, Invoke, InvokeAsync, Chat, RunBackground, Redis, Load, LoadFails, Clear,
     ClearFails, Store, StoreFails, Cancel, StartLoop, Goto, loopVars, RuntimeIInv, RuntimeInv, TypeOK
<1>3. CASE UNCHANGED vars
  BY <1>3 DEF vars, loopVars
<1> QED BY <1>1, <1>2, <1>3 DEF Next, InTheLoop

(* OverIsOver, for any number of executions: the verdict of an execution   *)
(* is final, whatever timeout, cancel or answer comes late, and what the   *)
(* routes can find among the results has one.                              *)
THEOREM VerdictsStand == Spec => OverIsOver
<1>1. RuntimeIInv /\ [Next]_vars =>
        \A r \in Requests : (pc[r] \in {"clearing", "storing", "done"} => status'[r] = status[r])
  BY StatusMovesInTheLoop
<1>2. RuntimeIInv => \A r \in results : status[r] \in {"COMPLETED", "FAILED", "CANCELLED"}
  BY DEF RuntimeIInv, RuntimeInv, TypeOK, VerdictsAreFinal, Terminal
<1> QED BY <1>1, <1>2, RuntimeInvariant, PTL DEF Spec, OverIsOver

=============================================================================
