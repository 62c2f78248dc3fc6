---------------------------- MODULE MCAgentRuntime ---------------------------
(* Two requests of any kind, and two conversations or one for the chats.   *)
EXTENDS AgentRuntime

=============================================================================
