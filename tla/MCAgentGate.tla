----------------------------- MODULE MCAgentGate -----------------------------
(* A small instance of AgentGate for TLC. *)
EXTENDS AgentGate

OneChatTwoOthers == [CHAT_LIMIT |-> 1, DEFAULT_LIMIT |-> 2]
=============================================================================
