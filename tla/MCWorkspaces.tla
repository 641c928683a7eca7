---------------------------- MODULE MCWorkspaces ----------------------------
(* Workspaces on a small instance: tabs, ids, projects and tokens are model *)
(* values, interchangeable in the runs that check no liveness.              *)
EXTENDS Workspaces

Symmetry == Permutations(Tabs) \cup Permutations(WsIds)
                \cup Permutations(Projects) \cup Permutations(Tokens)
=============================================================================
