--------------------------- MODULE MCAgentSession ---------------------------
(* AgentSession on the small instances of the cfg files.                   *)
EXTENDS AgentSession

=============================================================================
