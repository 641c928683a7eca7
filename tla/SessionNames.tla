---------------------------- MODULE SessionNames ----------------------------
(***************************************************************************)
(* The agent sessions of a workspace, as AgentSession runs them and        *)
(* EventRelay carries their events.                                        *)
(***************************************************************************)
EXTENDS Naturals

CONSTANTS
    Sessions,    \* the sessions the service starts
    Nobody       \* no session, where one could be named

ASSUME NobodyAssumption == Nobody \notin Sessions

=============================================================================
