--------------------------- MODULE MCAgentBackend ---------------------------
\* AgentBackend on a small instance.
EXTENDS AgentBackend, TLC

\* Contexts are interchangeable, and so are sessions.
Symmetry == Permutations(Contexts) \cup Permutations(Sessions)
=============================================================================
