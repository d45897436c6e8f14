--------------------------- MODULE MCAgentGateway ---------------------------
(* Model-checking instance of the agent gateway.                           *)
EXTENDS AgentGateway

CONSTANTS r1, p1
=============================================================================
