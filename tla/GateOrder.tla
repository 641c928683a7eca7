----------------------------- MODULE GateOrder ------------------------------
(***************************************************************************)
(* What the pipeline promises about its stages and gates, with no word     *)
(* about files, commands and agents (docs/detailed-design.md, "Pipeline    *)
(* Stages" and the rules of change control): a stage is left forward by    *)
(* completing its gate, backward by closing every gate from the reopened   *)
(* stage on, and a validation finding leads back to implementation.        *)
(***************************************************************************)
EXTENDS PipelineStages

CONSTANT MayForce    \* the forced reset of the expert operator is allowed

VARIABLES stage,     \* the active stage
          open       \* the gates that authorize later stages

Init == stage = "requirements" /\ open = {}

\* The gate of the active stage is completed and the next stage begins.
Advance ==
    /\ stage \notin {"validation", "complete"}
    /\ Predecessors[stage] \subseteq open
    /\ stage' = NextStage(stage)
    /\ open' = open \cup ({GateOf[stage]} \ {None})

\* Validation completes its gate first and is left by an approval later.
Validated ==
    /\ stage = "validation"
    /\ open' = open \cup {"validation-testing"}
    /\ UNCHANGED stage

AcceptValidation ==
    /\ stage = "validation"
    /\ "validation-testing" \in open
    /\ stage' = "docs-review"
    /\ UNCHANGED open

\* Change control: the gates from the reopened stage on are closed.
Reopen(s) ==
    /\ IsStageBefore(s, stage)
    /\ stage' = s
    /\ open' = open \cap GatesBelow(s)

\* A finding of validation opens a fix phase.
Fix ==
    /\ stage = "validation"
    /\ stage' = "implementation"
    /\ UNCHANGED open

\* The expert operator moves to a stage; the gates before it are backfilled.
ForceTo(s) ==
    /\ MayForce
    /\ stage' = s
    /\ open' = open \cup GatesBelow(s)

Next ==
    \/ Advance
    \/ Validated
    \/ AcceptValidation
    \/ \E s \in ReopenStages : Reopen(s)
    \/ Fix
    \/ \E s \in Stages : ForceTo(s)

Spec == Init /\ [][Next]_<<stage, open>>

-----------------------------------------------------------------------------
\* What follows from the order; module PipelineProofs proves it.

\* Every stage before the active one has its gate open.
EarlierGatesOpen == GatesBelow(stage) \subseteq open

\* The stages that are left forward only, but for change control: everything
\* before implementation.
Baselines == {"requirements", "design-review", "design-acceptance", "plan"}

\* A baseline that is being reworked authorizes nothing.
ReworkedGatesClosed == \A s \in Baselines : GateOf[s] \in open => IsStageBefore(s, stage)

\* A gate opens only while its own stage is active.
GatesReapproved ==
    [][\A s \in Stages :
        GateOf[s] # None /\ GateOf[s] \notin open /\ GateOf[s] \in open' => stage = s]_<<stage, open>>
=============================================================================
