--------------------------- MODULE MCIdeInstances ---------------------------
(* Model checking IdeInstances: the README says which bounds and why.      *)
EXTENDS IdeInstances, TLC

(* Workspaces are alike, and so are threads.                               *)
Symmetric == Permutations(Workspaces) \cup Permutations(Projects) \cup Permutations(Requests)
=============================================================================
