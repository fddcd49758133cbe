--------------------------- MODULE MCAgentSession ---------------------------
(***************************************************************************)
(* Two processes of the engine, one session.                               *)
(***************************************************************************)
EXTENDS AgentSession

CONSTANTS e1, e2
=============================================================================
