--------------------------- MODULE PipelineStages ---------------------------
(***************************************************************************)
(* The tables of the pipeline: the order of the stages, the gate each one  *)
(* completes, the artifact each gate snapshots, the gates each stage needs *)
(* (models.py, gates.py) and the gates that reopening a stage invalidates  *)
(* (workflows/software/cli.py).                                            *)
(***************************************************************************)
EXTENDS Integers

CONSTANT None        \* no stage, no gate, no artifact

\* Stages, gates and artifacts.

Stages == {"requirements", "design", "design-review", "design-acceptance", "plan",
           "implementation", "test-plan", "validation", "docs-review", "complete"}

\* PUBLIC_STAGE_ORDER and NEXT_STAGE.
Position == [s \in Stages |->
    CASE s = "requirements"      -> 1
      [] s = "design"            -> 2
      [] s = "design-review"     -> 3
      [] s = "design-acceptance" -> 4
      [] s = "plan"              -> 5
      [] s = "implementation"    -> 6
      [] s = "test-plan"         -> 7
      [] s = "validation"        -> 8
      [] s = "docs-review"       -> 9
      [] s = "complete"          -> 10]

IsStageBefore(s, u) == Position[s] < Position[u]

NextStage(s) == CHOOSE u \in Stages : Position[u] = Position[s] + 1

\* The gate each stage completes when it is approved or forced past.
GateOf == [s \in Stages |->
    CASE s = "requirements"      -> "requirements"
      [] s = "design-review"     -> "design"
      [] s = "design-acceptance" -> "human-design-acceptance"
      [] s = "plan"              -> "implementation"
      [] s = "test-plan"         -> "test-plan"
      [] s = "validation"        -> "validation-testing"
      [] s = "docs-review"       -> "documentation"
      [] OTHER                   -> None]

Gates == {"requirements", "design", "human-design-acceptance", "implementation",
          "test-plan", "validation-testing", "documentation"}

Artifacts == {"requirements.md", "detailed-design.md", "implementation-plan.md", "test-plan.md"}

ASSUME NoneAssumption == None \notin Stages /\ None \notin Gates /\ None \notin Artifacts

\* The stages before s, and the gates those complete.
StagesBelow(s) == {u \in Stages : IsStageBefore(u, s)}

GatesBelow(s) == {GateOf[u] : u \in StagesBelow(s)} \ {None}

\* The artifact whose snapshot a gate requires.
SnapshotOf == [g \in Gates |->
    CASE g = "requirements"                              -> "requirements.md"
      [] g \in {"design", "human-design-acceptance"}     -> "detailed-design.md"
      [] g = "implementation"                            -> "implementation-plan.md"
      [] g = "test-plan"                                 -> "test-plan.md"
      [] OTHER                                           -> None]

\* The stage that authors an artifact.
AuthoringStage == [a \in Artifacts |->
    CASE a = "requirements.md"        -> "requirements"
      [] a = "detailed-design.md"     -> "design"
      [] a = "implementation-plan.md" -> "plan"
      [] a = "test-plan.md"           -> "test-plan"]

AuthoringStages == {AuthoringStage[a] : a \in Artifacts}

Predecessors == [s \in Stages |->
    CASE s \in {"requirements", "complete"}         -> {}
      [] s \in {"design", "design-review"}          -> {"requirements"}
      [] s = "design-acceptance"                    -> {"requirements", "design"}
      [] s = "plan"           -> {"requirements", "design", "human-design-acceptance"}
      [] s \in {"implementation", "test-plan"}      -> {"implementation"}
      [] s = "validation"                           -> {"implementation", "test-plan"}
      [] s = "docs-review"                          -> {"validation-testing"}]

\* The stages a public command can reopen, and the gates that invalidates.
ReopenStages == {"requirements", "design", "plan", "implementation", "test-plan", "docs-review"}

\* Variant: reopening the design also takes the gate of the requirements.
DesignTakesRequirements == [s \in ReopenStages |->
    IF s \in {"requirements", "design"} THEN Gates ELSE {"implementation", "test-plan"}]

\* Variant: reopening forgets the gate of validation testing.
KeepsValidation == [s \in ReopenStages |->
    CASE s \in {"requirements", "design"} -> Gates \ {"requirements", "validation-testing"}
      [] s = "plan" -> {"implementation", "test-plan", "documentation"}
      [] OTHER      -> {"test-plan", "documentation"}]

Invalidates == [s \in ReopenStages |->
    CASE s = "requirements" -> Gates
      [] s = "design"       -> Gates \ {"requirements"}
      [] s = "plan"         -> {"implementation", "test-plan", "validation-testing", "documentation"}
      [] s \in {"implementation", "test-plan"}
                            -> {"test-plan", "validation-testing", "documentation"}
      [] s = "docs-review"  -> {"documentation"}]
=============================================================================
