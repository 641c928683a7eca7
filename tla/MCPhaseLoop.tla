---------------------------- MODULE MCPhaseLoop ----------------------------
\* A small plan for TLC.
EXTENDS PhaseLoop
=============================================================================
