--------------------------- MODULE PipelineProofs ---------------------------
(***************************************************************************)
(* Type correctness of the pipeline, and for one operator who authors in   *)
(* stage order: the active stage always has the approvals before it,       *)
(* however many phases and setbacks there are, and whatever is forced,     *)
(* interrupted or fails; without forced commands a baseline that is being  *)
(* reworked authorizes nothing; and when no command is killed and no agent *)
(* fails, gates, snapshots, approved texts and tests agree.                *)
(***************************************************************************)
EXTENDS Pipeline, TLAPS, WellFoundedInduction

-----------------------------------------------------------------------------
\* The tables agree with each other.

LEMMA PositionValues ==
    /\ Position["requirements"] = 1
    /\ Position["design"] = 2
    /\ Position["design-review"] = 3
    /\ Position["design-acceptance"] = 4
    /\ Position["plan"] = 5
    /\ Position["implementation"] = 6
    /\ Position["test-plan"] = 7
    /\ Position["validation"] = 8
    /\ Position["docs-review"] = 9
    /\ Position["complete"] = 10
BY DEF Position, Stages

LEMMA PositionType == \A s \in Stages : Position[s] \in 1..10
BY PositionValues DEF Stages

LEMMA PositionInjective == \A s, u \in Stages : Position[s] = Position[u] => s = u
BY PositionValues DEF Stages

LEMMA NextStageValues ==
    ASSUME NEW s \in Stages \ {"complete"}
    PROVE  NextStage(s) \in Stages /\ Position[NextStage(s)] = Position[s] + 1
<1>1. \E u \in Stages : Position[u] = Position[s] + 1
  BY PositionValues DEF Stages
<1> QED
  BY <1>1 DEF NextStage

LEMMA GateOfType == \A s \in Stages : GateOf[s] \in Gates \cup {None}
BY DEF GateOf, Gates, Stages

LEMMA GateOfInjective ==
    \A s, u \in Stages : GateOf[s] = GateOf[u] /\ GateOf[s] # None => s = u
BY NoneAssumption DEF GateOf, Gates, Stages

LEMMA GatesBelowType == \A s \in Stages : GatesBelow(s) \subseteq Gates
BY GateOfType DEF GatesBelow, StagesBelow

\* Completing the gate of a stage is all it takes to go to the next one.
LEMMA NextStageBelow ==
    ASSUME NEW s \in Stages \ {"complete"}
    PROVE  GatesBelow(NextStage(s)) = GatesBelow(s) \cup ({GateOf[s]} \ {None})
<1>1. StagesBelow(NextStage(s)) = StagesBelow(s) \cup {s}
  BY NextStageValues, PositionType, PositionInjective DEF StagesBelow, IsStageBefore
<1> QED
  BY <1>1 DEF GatesBelow

LEMMA BelowMonotone ==
    ASSUME NEW s \in Stages, NEW u \in Stages, IsStageBefore(s, u)
    PROVE  GatesBelow(s) \subseteq GatesBelow(u)
<1>1. StagesBelow(s) \subseteq StagesBelow(u)
  BY PositionType DEF StagesBelow, IsStageBefore
<1> QED
  BY <1>1 DEF GatesBelow

\* stage_order asks for nothing that the earlier stages did not complete.
LEMMA PredecessorsBelow == \A s \in Stages : Predecessors[s] \subseteq GatesBelow(s)
<1>1. \A s \in Stages : \A g \in Predecessors[s] :
        \E u \in Stages : GateOf[u] = g /\ IsStageBefore(u, s) /\ g # None
  BY PositionValues, NoneAssumption DEF Predecessors, GateOf, Stages, IsStageBefore, Gates
<1> QED
  BY <1>1 DEF GatesBelow, StagesBelow

\* Reopening a stage invalidates exactly the gates from that stage on.
LEMMA InvalidatesRest == \A s \in ReopenStages : Gates \ Invalidates[s] = GatesBelow(s)
<1> SUFFICES ASSUME NEW s \in ReopenStages, NEW g
             PROVE  g \in Gates \ Invalidates[s] <=> g \in GatesBelow(s)
  OBVIOUS
<1>1. g \in GatesBelow(s) <=> g # None /\ \E u \in Stages : IsStageBefore(u, s) /\ g = GateOf[u]
  BY DEF GatesBelow, StagesBelow
<1>2. s \in Stages
  BY DEF ReopenStages, Stages
<1>3. g \in Gates \ Invalidates[s] => g # None /\ \E u \in Stages : IsStageBefore(u, s) /\ g = GateOf[u]
  BY PositionValues, NoneAssumption DEF ReopenStages, Invalidates, Gates, GateOf, Stages, IsStageBefore
<1>4. ASSUME NEW u \in Stages, IsStageBefore(u, s), GateOf[u] # None
      PROVE  GateOf[u] \in Gates \ Invalidates[s]
  BY <1>4, PositionValues, NoneAssumption DEF ReopenStages, Invalidates, Gates, GateOf, Stages, IsStageBefore
<1> QED
  BY <1>1, <1>3, <1>4

LEMMA SnapshotOfType == \A g \in Gates : SnapshotOf[g] \in Artifacts \cup {None}
BY DEF SnapshotOf, Gates, Artifacts

LEMMA InvalidatesType == \A s \in ReopenStages : Invalidates[s] \subseteq Gates
BY DEF Invalidates, ReopenStages, Gates

LEMMA StageSets ==
    /\ ReopenStages \subseteq Stages
    /\ AuthoringStages \subseteq ReopenStages
    /\ ConfirmedStages \subseteq Stages
    /\ ApprovalStages \subseteq Stages \ {"complete"}
    /\ ForcedApprovals \subseteq Stages \ {"complete"}
    /\ \A a \in Artifacts : AuthoringStage[a] \in AuthoringStages
BY DEF ReopenStages, AuthoringStages, ConfirmedStages, ApprovalStages, ForcedApprovals,
       Stages, AuthoringStage, Artifacts

LEMMA SnapshotSets ==
    /\ \A s \in Stages : SnapshotArtifacts(s) \subseteq Artifacts
    /\ \A s \in Stages : BackfillArtifacts(s) \subseteq Artifacts
    /\ \A s \in ReopenStages : InvalidatedArtifacts(s) \subseteq Artifacts
<1>1. \A s \in Stages : SnapshotArtifacts(s) \subseteq Artifacts
  BY GateOfType, SnapshotOfType DEF SnapshotArtifacts
<1>2. \A s \in Stages : BackfillArtifacts(s) \subseteq Artifacts
  BY <1>1 DEF BackfillArtifacts, StagesBelow
<1>3. \A s \in ReopenStages : InvalidatedArtifacts(s) \subseteq Artifacts
  BY InvalidatesType, SnapshotOfType DEF InvalidatedArtifacts
<1> QED
  BY <1>1, <1>2, <1>3

-----------------------------------------------------------------------------
\* What the operators on manifests and commands return.

LEMMA CompleteGateType ==
    ASSUME NEW m \in Manifests, NEW g \in Gates \cup {None}
    PROVE  /\ CompleteGate(m, g) \in Manifests
           /\ CompleteGate(m, g).stage = m.stage
           /\ CompleteGate(m, g).completed = m.completed \cup ({g} \ {None})
           /\ CompleteGate(m, g).invalidated = m.invalidated \ {g}
BY DEF CompleteGate, Manifests

LEMMA SetActiveStageType ==
    ASSUME NEW m \in Manifests, NEW s \in Stages
    PROVE  /\ SetActiveStage(m, s) \in Manifests
           /\ SetActiveStage(m, s).stage = s
           /\ SetActiveStage(m, s).completed = m.completed
           /\ SetActiveStage(m, s).invalidated = m.invalidated
BY DEF SetActiveStage, Manifests

LEMMA ReopenedType ==
    ASSUME NEW m \in Manifests, NEW s \in ReopenStages
    PROVE  /\ Reopened(m, s) \in Manifests
           /\ Reopened(m, s).stage = s
           /\ Reopened(m, s).completed = m.completed
           /\ Reopened(m, s).invalidated = m.invalidated \cup Invalidates[s]
<1> DEFINE n == SetActiveStage(m, s)
<1>1. /\ n \in Manifests /\ n.stage = s
      /\ n.completed = m.completed /\ n.invalidated = m.invalidated
  BY SetActiveStageType, StageSets
<1>2. Reopened(m, s) = [n EXCEPT !.invalidated = @ \cup Invalidates[s]]
  BY DEF Reopened
<1> HIDE DEF n
<1> QED
  BY <1>1, <1>2, InvalidatesType DEF Manifests

LEMMA PassedType ==
    ASSUME NEW m \in Manifests, NEW s \in Stages \ {"complete"}
    PROVE  /\ Passed(m, s) \in Manifests
           /\ Passed(m, s).stage = NextStage(s)
           /\ Passed(m, s).completed = m.completed \cup ({GateOf[s]} \ {None})
           /\ Passed(m, s).invalidated = m.invalidated \ {GateOf[s]}
BY CompleteGateType, SetActiveStageType, NextStageValues, GateOfType DEF Passed

LEMMA BackfillType ==
    ASSUME NEW m \in Manifests, NEW s \in Stages
    PROVE  /\ Backfill(m, s) \in Manifests
           /\ Backfill(m, s).stage = s
           /\ Backfill(m, s).completed = m.completed \cup GatesBelow(s)
           /\ Backfill(m, s).invalidated = m.invalidated \ GatesBelow(s)
BY GatesBelowType DEF Backfill, Manifests

LEMMA CommandTypes ==
    /\ Idle \in Commands /\ Idle.kind = "idle"
    /\ \A s \in Stages, m \in Manifests :
          /\ Session(s, m) \in Commands
          /\ Session(s, m).kind = "session"
          /\ Session(s, m).stage = s
          /\ Session(s, m).seen = m
    /\ \A arts \in SUBSET Artifacts :
          /\ Snapshotting(arts) \in Commands
          /\ Snapshotting(arts).kind \in {"idle", "snapshot"}
<1>1. NewManifest \in Manifests
  BY DEF NewManifest, Manifests, Stages
<1>2. Idle \in Commands /\ Idle.kind = "idle"
  BY <1>1 DEF Idle, Commands, Kinds
<1>3. \A s \in Stages, m \in Manifests :
          /\ Session(s, m) \in Commands
          /\ Session(s, m).kind = "session"
          /\ Session(s, m).stage = s
          /\ Session(s, m).seen = m
  BY <1>2 DEF Session, Commands, Kinds
<1>4. \A arts \in SUBSET Artifacts :
          /\ Snapshotting(arts) \in Commands
          /\ Snapshotting(arts).kind \in {"idle", "snapshot"}
  BY <1>2 DEF Snapshotting, Commands, Kinds
<1> QED
  BY <1>2, <1>3, <1>4

-----------------------------------------------------------------------------
\* The chosen stages and phases exist.

LEMMA EarliestExists ==
    ASSUME NEW S \in SUBSET AuthoringStages, S # {}
    PROVE  Earliest(S) \in S /\ \A w \in S : ~IsStageBefore(w, Earliest(S))
<1>1. AuthoringStages = {"requirements", "design", "plan", "test-plan"}
  BY DEF AuthoringStages, AuthoringStage, Artifacts
<1>2. \E u \in S : \A w \in S : ~IsStageBefore(w, u)
  <2>1. CASE "requirements" \in S
    BY <1>1, <2>1, PositionValues DEF IsStageBefore
  <2>2. CASE "requirements" \notin S /\ "design" \in S
    BY <1>1, <2>2, PositionValues DEF IsStageBefore
  <2>3. CASE {"requirements", "design"} \cap S = {} /\ "plan" \in S
    BY <1>1, <2>3, PositionValues DEF IsStageBefore
  <2>4. CASE S = {"test-plan"}
    BY <2>4, PositionValues DEF IsStageBefore
  <2> QED
    BY <1>1, <2>1, <2>2, <2>3, <2>4
<1> QED
  BY <1>2 DEF Earliest

LEMMA LeastNat ==
    ASSUME NEW S \in SUBSET Nat, S # {}
    PROVE  \E x \in S : \A y \in S : x <= y
<1> DEFINE less == {p \in Nat \X Nat : p[1] < p[2]}
<1>1. OpToRel(<, Nat) = less
  BY Zenon DEF OpToRel
<1>2. \E x \in S : \A y \in S : <<y, x>> \notin OpToRel(<, Nat)
  BY NatLessThanWellFounded, WFMin
<1>3. PICK x \in S : \A y \in S : <<y, x>> \notin less
  BY <1>1, <1>2, Zenon
<1>4. \A y \in S : x <= y
  <2>1. SUFFICES ASSUME NEW y \in S, ~(x <= y) PROVE FALSE
    OBVIOUS
  <2>2. y < x /\ <<y, x>> \in Nat \X Nat
    BY <2>1
  <2>3. <<y, x>> \in less
    BY <2>2
  <2> QED
    BY <1>3, <2>3
<1> QED
  BY <1>4

LEMMA MinExists ==
    ASSUME NEW S \in SUBSET Nat, S # {}
    PROVE  Min(S) \in S
BY LeastNat DEF Min

LEMMA MaxExists ==
    ASSUME NEW n \in Nat, NEW S \in SUBSET (1..n), S # {}
    PROVE  Max(S) \in S
<1> DEFINE T == {z \in 0..n : n - z \in S}
<1>1. T \in SUBSET Nat
  OBVIOUS
<1>2. \A x \in S : x \in 1..n /\ n - x \in 0..n /\ n - (n - x) = x
  OBVIOUS
<1>3. T # {}
  BY <1>2
<1>4. PICK z \in T : \A y \in T : z <= y
  BY <1>1, <1>3, LeastNat
<1>5. n - z \in S /\ \A y \in S : z <= n - y
  BY <1>2, <1>4
<1>6. \A y \in S : n - z >= y
  BY <1>2, <1>5
<1> QED
  BY <1>5, <1>6 DEF Max

LEMMA FixPhaseType == ASSUME TypeOK PROVE FixPhase \in Nat \ {0}
<1> DEFINE S == {phases.planned} \cup phases.committed \cup ({phases.active} \ {None})
<1>1. S \in SUBSET (1..MaxPhase) /\ S # {}
  BY DEF TypeOK, PhaseStatus
<1>2. Max(S) \in 1..MaxPhase
  BY <1>1, MaxExists, PipelineAssumption
<1> QED
  BY <1>2, PipelineAssumption DEF FixPhase

-----------------------------------------------------------------------------
\* Type correctness.

LEMMA EditType ==
    ASSUME TypeOK, NEW arts \in SUBSET Artifacts, Edit(arts)
    PROVE  phases' \in PhaseStatus /\ edited' \subseteq Artifacts
BY DEF TypeOK, Edit, PhaseStatus

LEMMA BecomesType ==
    ASSUME TypeOK, NEW t, NEW c \in Commands, Becomes(t, c)
    PROVE  cmd' \in [Terminals -> Commands]
BY DEF TypeOK, Becomes

LEMMA SetbackType == TypeOK /\ Setback => setbacks' \in 0..MaxSetbacks
BY PipelineAssumption DEF TypeOK, Setback

LEMMA RecordStageReopenType ==
    ASSUME TypeOK, NEW t, NEW s \in ReopenStages, NEW u \in Stages \cup {None},
           RecordStageReopen(t, s, u)
    PROVE  /\ manifest' \in Manifests
           /\ setbacks' \in 0..MaxSetbacks
           /\ cmd' \in [Terminals -> Commands]
<1> DEFINE c == [Idle EXCEPT !.kind = "invalidate", !.stage = u, !.arts = InvalidatedArtifacts(s)]
<1>1. c \in Commands
  BY CommandTypes, SnapshotSets DEF Commands, Kinds
<1>2. Becomes(t, c)
  BY DEF RecordStageReopen
<1> HIDE DEF c
<1>3. manifest' \in Manifests
  BY ReopenedType DEF RecordStageReopen, TypeOK
<1> QED
  BY <1>1, <1>2, <1>3, BecomesType, SetbackType DEF RecordStageReopen

LEMMA OpenFixPhaseType ==
    ASSUME TypeOK, NEW t \in Terminals, OpenFixPhase(t)
    PROVE  /\ manifest' \in Manifests
           /\ phases' \in PhaseStatus
           /\ setbacks' \in 0..MaxSetbacks
           /\ cmd' \in [Terminals -> Commands]
<1>1. cmd[t].seen \in Manifests /\ "implementation" \in Stages
  BY DEF TypeOK, Commands, Stages
<1>2. manifest' \in Manifests
  BY <1>1, SetActiveStageType DEF OpenFixPhase
<1>3. phases' \in PhaseStatus
  <2>1. FixPhase \in 1..MaxPhase
    BY FixPhaseType, PipelineAssumption DEF OpenFixPhase
  <2> QED
    BY <2>1 DEF OpenFixPhase, TypeOK, PhaseStatus
<1> QED
  BY <1>2, <1>3, BecomesType, CommandTypes, SetbackType DEF OpenFixPhase

LEMMA TypeInit == Init => TypeOK
<1> SUFFICES ASSUME Init PROVE TypeOK
  OBVIOUS
<1>1. NewManifest \in Manifests
  BY DEF NewManifest, Manifests, Stages
<1>2. phases \in PhaseStatus
  BY DEF Init, PhaseStatus
<1>3. cmd \in [Terminals -> Commands]
  BY CommandTypes DEF Init
<1>4. setbacks \in 0..MaxSetbacks
  BY PipelineAssumption DEF Init
<1> QED
  BY <1>1, <1>2, <1>3, <1>4 DEF Init, TypeOK

LEMMA TypeStep == TypeOK /\ [Next]_vars => TypeOK'
<1> SUFFICES ASSUME TypeOK, [Next]_vars PROVE TypeOK'
  OBVIOUS
<1> USE StageSets
<1>0. CASE UNCHANGED vars
  BY <1>0 DEF vars, TypeOK
<1>1. ASSUME NEW t \in Terminals, NEW s \in ReopenStages, Reopen(t, s) PROVE TypeOK'
  <2>1. \E u \in Stages \cup {None} : RecordStageReopen(t, s, u)
    BY <1>1 DEF Reopen
  <2> QED
    BY <1>1, <2>1, RecordStageReopenType DEF Reopen, TypeOK
<1>2. ASSUME NEW t \in Terminals, RecordInvalidation(t) PROVE TypeOK'
  <2>1. cmd[t].stage \in Stages \cup {None}
    BY DEF TypeOK, Commands
  <2>2. \E c \in Commands : Becomes(t, c)
    BY <1>2, <2>1, CommandTypes DEF RecordInvalidation, TypeOK
  <2> QED
    BY <1>2, <2>2, BecomesType DEF RecordInvalidation, TypeOK
<1>3. ASSUME NEW t \in Terminals, NEW s \in AuthoringStages, StartSession(t, s) PROVE TypeOK'
  BY <1>3, CommandTypes, BecomesType DEF StartSession, TypeOK
<1>4. ASSUME NEW t \in Terminals, StartOutOfBandTestPlan(t) PROVE TypeOK'
  <2>1. "test-plan" \in Stages
    BY DEF Stages
  <2> QED
    BY <1>4, <2>1, CommandTypes, BecomesType DEF StartOutOfBandTestPlan, TypeOK
<1>5. ASSUME NEW t \in Terminals PROVE cmd[t].seen.stage \in Stages
  BY DEF TypeOK, Commands, Manifests
<1>6. ASSUME NEW t \in Terminals, SessionEnds(t) PROVE TypeOK'
  <2>1. PICK arts \in SUBSET Artifacts : SessionEnds(t)!(arts)
    BY <1>6 DEF SessionEnds
  <2> QED
    BY <1>5, <2>1, EditType, CommandTypes, BecomesType DEF TypeOK
<1>7. ASSUME NEW t \in Terminals, SessionReopens(t) PROVE TypeOK'
  <2>1. PICK arts \in SUBSET Artifacts : SessionReopens(t)!(arts)
    BY <1>7 DEF SessionReopens
  <2> DEFINE upstream == UpstreamStages(cmd[t].stage, arts)
  <2>2. upstream \in SUBSET AuthoringStages
    BY DEF UpstreamStages
  <2>3. Earliest(upstream) \in ReopenStages
    BY <2>1, <2>2, EarliestExists
  <2> QED
    BY <1>5, <2>1, <2>3, EditType, RecordStageReopenType DEF TypeOK
<1>8. ASSUME NEW t \in Terminals, SessionFails(t) PROVE TypeOK'
  <2>1. PICK arts \in SUBSET Artifacts : SessionFails(t)!(arts)
    BY <1>8 DEF SessionFails
  <2> QED
    BY <2>1, EditType, CommandTypes, BecomesType DEF TypeOK
<1>9. ASSUME NEW t \in Terminals, NEW s \in ApprovalStages, Approve(t, s) PROVE TypeOK'
  BY <1>9, PassedType, SnapshotSets, CommandTypes, BecomesType DEF Approve, TypeOK
<1>10. ASSUME NEW t \in Terminals, AppendSnapshot(t) PROVE TypeOK'
  BY <1>10, CommandTypes, BecomesType DEF AppendSnapshot, TypeOK, Commands
<1>11. ASSUME NEW t \in Terminals, NEW s \in Stages, ForceReset(t, s) PROVE TypeOK'
  <2>1. manifest' \in Manifests
    BY <1>11, BackfillType DEF ForceReset, TypeOK
  <2>2. \E c \in Commands : Becomes(t, c)
    BY <1>11, <2>1, CommandTypes DEF ForceReset
  <2>3. snapshots' \subseteq Artifacts /\ edited' \subseteq Artifacts
    BY <1>11, SnapshotSets DEF ForceReset, TypeOK
  <2> QED
    BY <1>11, <2>1, <2>2, <2>3, BecomesType, SetbackType DEF ForceReset, TypeOK
<1>12. ASSUME NEW t \in Terminals, NEW s \in ForcedApprovals, ForceApprove(t, s) PROVE TypeOK'
  <2>1. manifest' \in Manifests
    BY <1>12, BackfillType, PassedType DEF ForceApprove, TypeOK
  <2>2. \E c \in Commands : Becomes(t, c)
    BY <1>12, CommandTypes, SnapshotSets DEF ForceApprove
  <2>3. snapshots' \subseteq Artifacts /\ edited' \subseteq Artifacts
    BY <1>12, SnapshotSets DEF ForceApprove, TypeOK
  <2> QED
    BY <1>12, <2>1, <2>2, <2>3, BecomesType, SetbackType DEF ForceApprove, TypeOK
<1>13. ASSUME NEW t \in Terminals, StartPhase(t) PROVE TypeOK'
  <2>1. UncommittedPhases \in SUBSET (1..MaxPhase)
    BY PipelineAssumption DEF UncommittedPhases, TypeOK, PhaseStatus
  <2>2. Min(UncommittedPhases) \in 1..MaxPhase
    BY <1>13, <2>1, MinExists DEF StartPhase
  <2>3. phases' \in PhaseStatus
    BY <1>13, <2>2 DEF StartPhase, TypeOK, PhaseStatus
  <2> QED
    BY <1>13, <2>3 DEF StartPhase, TypeOK
<1>14. ASSUME NEW t \in Terminals, CommitPhase(t) PROVE TypeOK'
  <2>1. phases' \in PhaseStatus
    BY <1>14 DEF CommitPhase, TypeOK, PhaseStatus
  <2> QED
    BY <1>14, <2>1 DEF CommitPhase, TypeOK
<1>15. ASSUME NEW t \in Terminals, StartValidate(t) PROVE TypeOK'
  <2>1. [Idle EXCEPT !.kind = "test-review", !.seen = manifest] \in Commands
    BY CommandTypes DEF Commands, Kinds, TypeOK
  <2> QED
    BY <1>15, <2>1, BecomesType DEF StartValidate, TypeOK
<1>16. ASSUME NEW t \in Terminals, ReviewFinds(t) PROVE TypeOK'
  BY <1>16, OpenFixPhaseType DEF ReviewFinds, TypeOK, Ledgers
<1>17. ASSUME NEW t \in Terminals, ReviewPasses(t) PROVE TypeOK'
  <2>1. [cmd[t] EXCEPT !.kind = "test-suite"] \in Commands
    BY DEF Commands, Kinds, TypeOK
  <2> QED
    BY <1>17, <2>1, BecomesType DEF ReviewPasses, TypeOK
<1>18. ASSUME NEW t \in Terminals, ReviewFails(t) PROVE TypeOK'
  BY <1>18, CommandTypes, BecomesType DEF ReviewFails, TypeOK
<1>19. ASSUME NEW t \in Terminals, SuitePasses(t) PROVE TypeOK'
  <2>1. cmd[t].seen \in Manifests /\ "validation-testing" \in Gates
    BY DEF TypeOK, Commands, Gates
  <2> QED
    BY <1>19, <2>1, CompleteGateType, CommandTypes, BecomesType DEF SuitePasses, TypeOK
<1>20. ASSUME NEW t \in Terminals, SuiteFails(t) PROVE TypeOK'
  BY <1>20, OpenFixPhaseType DEF SuiteFails, TypeOK, Ledgers
<1>21. ASSUME NEW t \in Terminals, ValidationApprove(t) PROVE TypeOK'
  <2>1. "docs-review" \in Stages
    BY DEF Stages
  <2> QED
    BY <1>21, <2>1, SetActiveStageType DEF ValidationApprove, TypeOK
<1>22. ASSUME NEW t \in Terminals, DocsReview(t) PROVE TypeOK'
  <2>1. "docs-review" \in Stages \ {"complete"}
    BY DEF Stages
  <2> QED
    BY <1>22, <2>1, PassedType DEF DocsReview, TypeOK, Artifacts
<1>23. ASSUME NEW t \in Terminals, Interrupt(t) PROVE TypeOK'
  <2>1. PICK arts \in SUBSET Artifacts : Interrupt(t)!(arts)
    BY <1>23 DEF Interrupt
  <2> QED
    BY <2>1, EditType, CommandTypes, BecomesType DEF TypeOK
<1> QED
  BY <1>0, <1>1, <1>2, <1>3, <1>4, <1>6, <1>7, <1>8, <1>9, <1>10, <1>11, <1>12, <1>13,
     <1>14, <1>15, <1>16, <1>17, <1>18, <1>19, <1>20, <1>21, <1>22, <1>23 DEF Next

\* Every file keeps its shape, for any number of terminals, phases and
\* setbacks and under every fault: in particular a fix phase and the next
\* phase to build always exist and an invalidation names only artifacts.
THEOREM PipelineTypes == Spec => []TypeOK
<1> QED
  BY TypeInit, TypeStep, PTL DEF Spec

-----------------------------------------------------------------------------
\* The order of the gates.

\* One operator, who authors every artifact in its stage.
OneOperator == ~OutOfBand /\ \A t, u \in Terminals : t = u

\* Nothing changes the manifest behind a command that waits: a validation
\* saves what is still the manifest, a session still works for the active
\* stage.
CommandsFresh ==
    \A t \in Terminals :
        /\ cmd[t].kind \in {"test-review", "test-suite"} =>
               cmd[t].seen = manifest /\ manifest.stage = "validation"
        /\ cmd[t].kind = "session" => cmd[t].stage = manifest.stage

LEMMA SameTables ==
    /\ Order!Stages = Stages
    /\ Order!Position = Position
    /\ Order!GateOf = GateOf
    /\ Order!Predecessors = Predecessors
    /\ Order!ReopenStages = ReopenStages
    /\ \A s, u : Order!IsStageBefore(s, u) = IsStageBefore(s, u)
    /\ \A s : Order!NextStage(s) = NextStage(s)
    /\ \A s : Order!GatesBelow(s) = GatesBelow(s)
<1>1. /\ Order!Stages = Stages
      /\ Order!Position = Position
      /\ Order!GateOf = GateOf
      /\ Order!Predecessors = Predecessors
      /\ Order!ReopenStages = ReopenStages
  BY DEF Order!Stages, Stages, Order!Position, Position, Order!GateOf, GateOf,
         Order!Predecessors, Predecessors, Order!ReopenStages, ReopenStages
<1>2. /\ \A s, u : Order!IsStageBefore(s, u) = IsStageBefore(s, u)
      /\ \A s : Order!NextStage(s) = NextStage(s)
      /\ \A s : Order!GatesBelow(s) = GatesBelow(s)
  BY <1>1 DEF Order!IsStageBefore, IsStageBefore, Order!NextStage, NextStage,
              Order!GatesBelow, GatesBelow, Order!StagesBelow, StagesBelow
<1> QED
  BY <1>1, <1>2

LEMMA AdvanceImplements ==
    ASSUME TypeOK, NEW s \in Stages \ {"validation", "complete"}, manifest.stage = s,
           \A g \in Predecessors[s] : HasGate(manifest, g),
           manifest' = Passed(manifest, s)
    PROVE  Order!Next
<1>1. manifest.completed \subseteq Gates /\ manifest.invalidated \subseteq Gates /\ manifest \in Manifests
  BY DEF TypeOK, Manifests
<1>2. /\ manifest'.stage = NextStage(s)
      /\ manifest'.completed = manifest.completed \cup ({GateOf[s]} \ {None})
      /\ manifest'.invalidated = manifest.invalidated \ {GateOf[s]}
  BY <1>1, PassedType
<1>3. manifest'.completed \ manifest'.invalidated
        = (manifest.completed \ manifest.invalidated) \cup ({GateOf[s]} \ {None})
  BY <1>1, <1>2, NoneAssumption
<1> QED
  BY <1>2, <1>3, SameTables DEF Order!Next, Order!Advance, HasGate

LEMMA ReopenImplements ==
    ASSUME TypeOK, NEW s \in ReopenStages, IsStageBefore(s, manifest.stage),
           manifest' = Reopened(manifest, s)
    PROVE  Order!Next
<1>1. manifest.completed \subseteq Gates /\ manifest \in Manifests
  BY DEF TypeOK, Manifests
<1>2. /\ manifest'.stage = s
      /\ manifest'.completed = manifest.completed
      /\ manifest'.invalidated = manifest.invalidated \cup Invalidates[s]
  BY <1>1, ReopenedType
<1>3. manifest'.completed \ manifest'.invalidated
        = (manifest.completed \ manifest.invalidated) \cap GatesBelow(s)
  BY <1>1, <1>2, InvalidatesRest
<1> QED
  BY <1>2, <1>3, SameTables DEF Order!Next, Order!Reopen

LEMMA ForceImplements ==
    ASSUME TypeOK, MayForce, NEW s \in Stages, manifest' = Backfill(manifest, s)
    PROVE  Order!Next
<1>1. manifest \in Manifests
  BY DEF TypeOK
<1>2. /\ manifest'.stage = s
      /\ manifest'.completed = manifest.completed \cup GatesBelow(s)
      /\ manifest'.invalidated = manifest.invalidated \ GatesBelow(s)
  BY <1>1, BackfillType
<1>3. manifest'.completed \ manifest'.invalidated
        = (manifest.completed \ manifest.invalidated) \cup GatesBelow(s)
  BY <1>2
<1> QED
  BY <1>2, <1>3, SameTables DEF Order!Next, Order!ForceTo

\* A forced approval is a forced reset to the stage after it.
LEMMA ForceApproveImplements ==
    ASSUME TypeOK, MayForce, NEW s \in Stages \ {"complete"},
           manifest' = Passed(Backfill(manifest, s), s)
    PROVE  Order!Next
<1> DEFINE b == Backfill(manifest, s)
           below == GatesBelow(NextStage(s))
<1>1. manifest.completed \subseteq Gates /\ manifest.invalidated \subseteq Gates /\ manifest \in Manifests
  BY DEF TypeOK, Manifests
<1>2. /\ b \in Manifests
      /\ b.completed = manifest.completed \cup GatesBelow(s)
      /\ b.invalidated = manifest.invalidated \ GatesBelow(s)
  BY <1>1, BackfillType
<1> HIDE DEF b
<1>3. /\ manifest'.stage = NextStage(s)
      /\ manifest'.completed = b.completed \cup ({GateOf[s]} \ {None})
      /\ manifest'.invalidated = b.invalidated \ {GateOf[s]}
  BY <1>2, PassedType DEF b
<1>4. below = GatesBelow(s) \cup ({GateOf[s]} \ {None})
  BY NextStageBelow
<1>5. manifest'.completed \ manifest'.invalidated
        = (manifest.completed \ manifest.invalidated) \cup below
  BY <1>1, <1>2, <1>3, <1>4, NoneAssumption
<1>6. NextStage(s) \in Stages
  BY NextStageValues
<1> QED
  BY <1>3, <1>5, <1>6, SameTables DEF Order!Next, Order!ForceTo

\* A step that saves no manifest.
LEMMA ManifestKept ==
    ASSUME manifest' = manifest
    PROVE  [Order!Next]_<<manifest.stage, manifest.completed \ manifest.invalidated>>
OBVIOUS

\* With one operator the command that just changed is the only one.
LEMMA OnlyCommand ==
    ASSUME OneOperator, TypeOK, NEW t \in Terminals, NEW c, Becomes(t, c),
           c.kind \notin {"test-review", "test-suite"},
           c.kind = "session" => c.stage = manifest'.stage
    PROVE  CommandsFresh'
<1>1. \A u \in Terminals : cmd'[u] = c
  BY DEF OneOperator, TypeOK, Becomes
<1> QED
  BY <1>1 DEF CommandsFresh

\* Every step is one the order of the gates allows, or leaves the manifest
\* alone.
OrderStep == [Order!Next]_<<manifest.stage, manifest.completed \ manifest.invalidated>>

LEMMA FixImplements ==
    ASSUME TypeOK, CommandsFresh, OneOperator, NEW t \in Terminals,
           cmd[t].kind \in {"test-review", "test-suite"}, OpenFixPhase(t)
    PROVE  OrderStep /\ CommandsFresh'
<1>1. cmd[t].seen = manifest /\ manifest.stage = "validation" /\ manifest \in Manifests
  BY DEF CommandsFresh, TypeOK
<1>2. manifest' = SetActiveStage(manifest, "implementation") /\ "implementation" \in Stages
  BY <1>1 DEF OpenFixPhase, Stages
<1>3. Order!Next
  BY <1>1, <1>2, SetActiveStageType DEF Order!Next, Order!Fix
<1>4. CommandsFresh'
  BY OnlyCommand, CommandTypes DEF OpenFixPhase
<1> QED
  BY <1>3, <1>4 DEF OrderStep

LEMMA StepImplements ==
    ASSUME OneOperator, TypeOK, CommandsFresh, [Next]_vars
    PROVE  OrderStep /\ CommandsFresh'
<1> USE StageSets
<1>a. ASSUME Order!Next PROVE OrderStep
  BY <1>a DEF OrderStep
<1>b. ASSUME manifest' = manifest PROVE OrderStep
  BY <1>b, ManifestKept DEF OrderStep
<1>c. ASSUME NEW t \in Terminals, NEW c, Becomes(t, c), c.kind \in {"idle", "snapshot", "invalidate"}
      PROVE  CommandsFresh'
  BY <1>c, OnlyCommand
<1>d. ASSUME NEW t \in Terminals, Free(t), cmd' = cmd PROVE CommandsFresh'
  BY <1>d, CommandTypes DEF Free, CommandsFresh, OneOperator
<1>e. manifest \in Manifests
  BY DEF TypeOK
<1>0. CASE UNCHANGED vars
  BY <1>0, <1>b DEF vars, CommandsFresh
<1>1. ASSUME NEW t \in Terminals, NEW s \in ReopenStages, NEW u \in Stages \cup {None},
             IsStageBefore(s, manifest.stage), RecordStageReopen(t, s, u)
      PROVE  OrderStep /\ CommandsFresh'
  <2> DEFINE c == [Idle EXCEPT !.kind = "invalidate", !.stage = u, !.arts = InvalidatedArtifacts(s)]
  <2>1. c.kind = "invalidate"
    BY CommandTypes DEF Commands
  <2>2. Becomes(t, c)
    BY <1>1 DEF RecordStageReopen
  <2> HIDE DEF c
  <2>3. CommandsFresh'
    BY <2>1, <2>2, <1>c
  <2> QED
    BY <1>1, <2>3, <1>a, ReopenImplements DEF RecordStageReopen
<1>2. ASSUME NEW t \in Terminals, NEW s \in ReopenStages, Reopen(t, s)
      PROVE  OrderStep /\ CommandsFresh'
  <2>1. \E u \in Stages \cup {None} : RecordStageReopen(t, s, u)
    BY <1>2 DEF Reopen
  <2> QED
    BY <1>1, <1>2, <2>1 DEF Reopen
<1>3. ASSUME NEW t \in Terminals, RecordInvalidation(t) PROVE OrderStep /\ CommandsFresh'
  <2>1. cmd[t].stage \in Stages \cup {None} /\ manifest' = manifest
    BY <1>3 DEF TypeOK, Commands, RecordInvalidation
  <2>2. CASE /\ cmd[t].stage # None
             /\ StageOrder(manifest, cmd[t].stage, snapshots')
    BY <1>3, <1>b, <1>e, <2>1, <2>2, CommandTypes, OnlyCommand DEF RecordInvalidation, StageOrder
  <2>3. CASE ~(/\ cmd[t].stage # None
               /\ StageOrder(manifest, cmd[t].stage, snapshots'))
    BY <1>3, <1>b, <1>c, <2>1, <2>3, CommandTypes DEF RecordInvalidation
  <2> QED
    BY <2>2, <2>3
<1>4. ASSUME NEW t \in Terminals, NEW s \in AuthoringStages, StartSession(t, s)
      PROVE  OrderStep /\ CommandsFresh'
  BY <1>4, <1>b, <1>e, CommandTypes, OnlyCommand DEF StartSession, StageOrder
<1>5. ASSUME NEW t \in Terminals, StartOutOfBandTestPlan(t) PROVE FALSE
  BY <1>5 DEF StartOutOfBandTestPlan, OneOperator
<1>6. ASSUME NEW t \in Terminals, SessionEnds(t) PROVE OrderStep /\ CommandsFresh'
  BY <1>6, <1>b, <1>c, CommandTypes DEF SessionEnds
<1>7. ASSUME NEW t \in Terminals, SessionReopens(t) PROVE OrderStep /\ CommandsFresh'
  <2>1. PICK arts \in SUBSET Artifacts : SessionReopens(t)!(arts)
    BY <1>7 DEF SessionReopens
  <2> DEFINE upstream == UpstreamStages(cmd[t].stage, arts)
  <2>2. upstream \in SUBSET AuthoringStages /\ \A u \in upstream : IsStageBefore(u, cmd[t].stage)
    BY DEF UpstreamStages
  <2>3. Earliest(upstream) \in ReopenStages /\ IsStageBefore(Earliest(upstream), cmd[t].stage)
    BY <2>1, <2>2, EarliestExists
  <2>4. cmd[t].stage = manifest.stage
    BY <2>1 DEF CommandsFresh
  <2> QED
    BY <1>1, <2>1, <2>3, <2>4
<1>8. ASSUME NEW t \in Terminals, SessionFails(t) PROVE OrderStep /\ CommandsFresh'
  BY <1>8, <1>b, <1>c, CommandTypes DEF SessionFails
<1>9. ASSUME NEW t \in Terminals, NEW s \in ApprovalStages, Approve(t, s)
      PROVE  OrderStep /\ CommandsFresh'
  <2>1. s \in Stages \ {"validation", "complete"}
    BY DEF ApprovalStages, Stages
  <2>2. CommandsFresh'
    BY <1>9, <1>c, <2>1, SnapshotSets, CommandTypes DEF Approve
  <2> QED
    BY <1>9, <1>a, <2>1, <2>2, AdvanceImplements DEF Approve, StageOrder
<1>10. ASSUME NEW t \in Terminals, AppendSnapshot(t) PROVE OrderStep /\ CommandsFresh'
  BY <1>10, <1>b, <1>c, CommandTypes DEF AppendSnapshot
<1>11. ASSUME NEW t \in Terminals, NEW s \in Stages, ForceReset(t, s) PROVE OrderStep /\ CommandsFresh'
  <2>1. manifest' = Backfill(manifest, s) /\ manifest' \in Manifests /\ manifest'.stage = s /\ MayForce
    BY <1>11, <1>e, BackfillType DEF ForceReset
  <2>2. CommandsFresh'
    BY <1>11, <2>1, CommandTypes, OnlyCommand DEF ForceReset
  <2> QED
    BY <1>a, <2>1, <2>2, ForceImplements
<1>12. ASSUME NEW t \in Terminals, NEW s \in ForcedApprovals, ForceApprove(t, s)
       PROVE  OrderStep /\ CommandsFresh'
  <2>1. CommandsFresh'
    BY <1>12, <1>c, SnapshotSets, CommandTypes DEF ForceApprove
  <2> QED
    BY <1>12, <1>a, <2>1, ForceApproveImplements DEF ForceApprove
<1>13. ASSUME NEW t \in Terminals, StartPhase(t) \/ CommitPhase(t) PROVE OrderStep /\ CommandsFresh'
  BY <1>13, <1>b, <1>d DEF StartPhase, CommitPhase
<1>14. ASSUME NEW t \in Terminals, StartValidate(t) PROVE OrderStep /\ CommandsFresh'
  <2> DEFINE c == [Idle EXCEPT !.kind = "test-review", !.seen = manifest]
  <2>1. c.kind = "test-review" /\ c.seen = manifest
    BY CommandTypes DEF Commands
  <2> HIDE DEF c
  <2>2. \A u \in Terminals : cmd'[u] = c
    BY <1>14 DEF c, StartValidate, Becomes, OneOperator, TypeOK
  <2>3. manifest' = manifest /\ manifest.stage = "validation"
    BY <1>14 DEF StartValidate, StageOrder
  <2> QED
    BY <1>b, <2>1, <2>2, <2>3 DEF CommandsFresh
<1>15. ASSUME NEW t \in Terminals, ReviewFinds(t) \/ SuiteFails(t) PROVE OrderStep /\ CommandsFresh'
  BY <1>15, FixImplements DEF ReviewFinds, SuiteFails
<1>16. ASSUME NEW t \in Terminals, ReviewPasses(t) PROVE OrderStep /\ CommandsFresh'
  <2> DEFINE c == [cmd[t] EXCEPT !.kind = "test-suite"]
  <2>1. c.kind = "test-suite" /\ c.seen = cmd[t].seen
    BY DEF TypeOK, Commands
  <2> HIDE DEF c
  <2>2. \A u \in Terminals : cmd'[u] = c
    BY <1>16 DEF c, ReviewPasses, Becomes, OneOperator, TypeOK
  <2>3. cmd[t].seen = manifest /\ manifest.stage = "validation" /\ manifest' = manifest
    BY <1>16 DEF ReviewPasses, CommandsFresh
  <2> QED
    BY <1>b, <2>1, <2>2, <2>3 DEF CommandsFresh
<1>17. ASSUME NEW t \in Terminals, ReviewFails(t) PROVE OrderStep /\ CommandsFresh'
  BY <1>17, <1>b, <1>c, CommandTypes DEF ReviewFails
<1>18. ASSUME NEW t \in Terminals, SuitePasses(t) PROVE OrderStep /\ CommandsFresh'
  <2>1. cmd[t].seen = manifest /\ manifest.stage = "validation" /\ "validation-testing" \in Gates
    BY <1>18 DEF SuitePasses, CommandsFresh, Gates
  <2>2. CommandsFresh'
    BY <1>18, <1>c, CommandTypes DEF SuitePasses
  <2>3. CASE manifest' = CompleteGate(manifest, "validation-testing")
    <3>1. /\ manifest'.stage = manifest.stage
          /\ manifest'.completed = manifest.completed \cup {"validation-testing"}
          /\ manifest'.invalidated = manifest.invalidated \ {"validation-testing"}
      BY <1>e, <2>1, <2>3, CompleteGateType, NoneAssumption
    <3>2. Order!Validated
      BY <2>1, <3>1 DEF Order!Validated
    <3> QED
      BY <1>a, <2>2, <3>2 DEF Order!Next
  <2>4. CASE manifest' = manifest
    BY <1>b, <2>2, <2>4
  <2> QED
    BY <1>18, <2>1, <2>3, <2>4 DEF SuitePasses
<1>19. ASSUME NEW t \in Terminals, ValidationApprove(t) PROVE OrderStep /\ CommandsFresh'
  <2>1. manifest' = SetActiveStage(manifest, "docs-review") /\ "docs-review" \in Stages
    BY <1>19 DEF ValidationApprove, Stages
  <2>2. Order!AcceptValidation
    BY <1>e, <1>19, <2>1, SetActiveStageType DEF ValidationApprove, Order!AcceptValidation, HasGate
  <2> QED
    BY <1>19, <1>a, <1>d, <2>2 DEF ValidationApprove, Order!Next
<1>20. ASSUME NEW t \in Terminals, DocsReview(t) PROVE OrderStep /\ CommandsFresh'
  <2>1. "docs-review" \in Stages \ {"validation", "complete"}
    BY DEF Stages
  <2> QED
    BY <1>20, <1>a, <1>d, <2>1, AdvanceImplements DEF DocsReview, StageOrder
<1>21. ASSUME NEW t \in Terminals, Interrupt(t) PROVE OrderStep /\ CommandsFresh'
  BY <1>21, <1>b, <1>c, CommandTypes DEF Interrupt
<1> QED
  BY <1>0, <1>2, <1>3, <1>4, <1>5, <1>6, <1>7, <1>8, <1>9, <1>10, <1>11, <1>12, <1>13,
     <1>14, <1>15, <1>16, <1>17, <1>18, <1>19, <1>20, <1>21 DEF Next

\* For one operator who authors every artifact in its stage the commands
\* implement the order of the gates, with any number of phases and setbacks,
\* and whatever is forced or interrupted and whichever agent or suite fails.
THEOREM ImplementsGateOrder ==
    ASSUME OneOperator
    PROVE  Spec => FollowsGateOrder
<1>1. Init => Order!Init /\ CommandsFresh
  BY CommandTypes DEF Init, Order!Init, NewManifest, CommandsFresh
<1>2. TypeOK /\ CommandsFresh /\ [Next]_vars => OrderStep /\ CommandsFresh'
  BY StepImplements
<1> QED
  BY <1>1, <1>2, TypeInit, TypeStep, PTL DEF Spec, FollowsGateOrder, Order!Spec, OrderStep

-----------------------------------------------------------------------------
\* What the order of the gates promises.

LEMMA BaselineFacts ==
    /\ Order!Baselines \subseteq Stages
    /\ \A s \in Order!Baselines : GateOf[s] \in Gates
    /\ \A s \in Order!Baselines : IsStageBefore(s, "implementation") /\ IsStageBefore(s, "docs-review")
    /\ \A s \in Order!Baselines : GateOf[s] # "validation-testing"
BY PositionValues DEF Order!Baselines, Stages, GateOf, Gates, IsStageBefore

Open == manifest.completed \ manifest.invalidated

OrderInv ==
    /\ manifest.stage \in Stages
    /\ Open \subseteq Gates
    /\ GatesBelow(manifest.stage) \subseteq Open

LEMMA AdvanceStep ==
    ASSUME OrderInv, Order!Advance
    PROVE  OrderInv' /\ manifest.stage \in Stages \ {"complete"}
BY SameTables, NextStageValues, NextStageBelow, GateOfType DEF OrderInv, Order!Advance, Open

LEMMA OrderInvStep == OrderInv /\ OrderStep => OrderInv'
<1> SUFFICES ASSUME OrderInv, OrderStep PROVE OrderInv'
  OBVIOUS
<1> USE SameTables DEF OrderInv, Open
<1>1. CASE Order!Advance
  BY <1>1, AdvanceStep
<1>2. CASE Order!Validated
  BY <1>2 DEF Order!Validated, Gates
<1>3. CASE Order!AcceptValidation
  <2>1. "validation" \in Stages \ {"complete"} /\ NextStage("validation") = "docs-review"
    BY NextStageValues, PositionValues, PositionInjective DEF Stages
  <2>2. GatesBelow("docs-review") \subseteq GatesBelow("validation") \cup {"validation-testing"}
    BY <2>1, NextStageBelow DEF GateOf, Stages
  <2> QED
    BY <1>3, <2>2 DEF Order!AcceptValidation, Stages
<1>4. ASSUME NEW s \in ReopenStages, Order!Reopen(s) PROVE OrderInv'
  <2>1. s \in Stages
    BY DEF ReopenStages, Stages
  <2> QED
    BY <1>4, <2>1, BelowMonotone DEF Order!Reopen
<1>5. CASE Order!Fix
  <2>1. "implementation" \in Stages /\ IsStageBefore("implementation", "validation")
    BY PositionValues DEF Stages, IsStageBefore
  <2> QED
    BY <1>5, <2>1, BelowMonotone DEF Order!Fix
<1>6. ASSUME NEW s \in Stages, Order!ForceTo(s) PROVE OrderInv'
  BY <1>6, GatesBelowType DEF Order!ForceTo
<1>7. CASE UNCHANGED <<manifest.stage, manifest.completed \ manifest.invalidated>>
  BY <1>7
<1> QED
  BY <1>1, <1>2, <1>3, <1>4, <1>5, <1>6, <1>7 DEF OrderStep, Order!Next

LEMMA OrderInvInit == Order!Init => OrderInv
<1>1. GatesBelow("requirements") = {}
  BY PositionValues, PositionType DEF GatesBelow, StagesBelow, IsStageBefore
<1> QED
  BY <1>1 DEF Order!Init, OrderInv, Open, Stages

\* However the stages are advanced, reopened and forced, every gate before the
\* active stage is open: no stage is active without the approvals before it.
THEOREM EarlierGates == Order!Spec => []Order!EarlierGatesOpen
<1>1. OrderInv => Order!EarlierGatesOpen
  BY SameTables DEF OrderInv, Open, Order!EarlierGatesOpen
<1> QED
  BY OrderInvInit, OrderInvStep, <1>1, PTL DEF Order!Spec, OrderStep

\* What opens in a step that forces nothing is the gate of the active stage.
LEMMA OpensOwnGate ==
    ASSUME ~MayForce, OrderStep
    PROVE  Open' \subseteq Open \cup ({GateOf[manifest.stage]} \ {None})
<1>1. "validation" \in Stages /\ GateOf["validation"] = "validation-testing"
  BY DEF Stages, GateOf
<1>2. "validation-testing" # None
  BY NoneAssumption DEF Gates
<1> QED
  BY <1>1, <1>2, SameTables
     DEF OrderStep, Open, Order!Next, Order!Advance, Order!Validated, Order!AcceptValidation,
         Order!Reopen, Order!Fix, Order!ForceTo

LEMMA ClosedStep ==
    ASSUME ~MayForce, OrderInv, Order!ReworkedGatesClosed, OrderStep
    PROVE  Order!ReworkedGatesClosed'
<1> USE SameTables DEF Open
<1> SUFFICES ASSUME NEW b \in Order!Baselines, GateOf[b] \in Open'
             PROVE  IsStageBefore(b, manifest'.stage)
  BY DEF Order!ReworkedGatesClosed, Order!Baselines
<1>0. b \in Stages /\ GateOf[b] # None /\ manifest.stage \in Stages
  BY BaselineFacts, NoneAssumption DEF OrderInv
<1>a. GateOf[b] \in Open => IsStageBefore(b, manifest.stage)
  BY DEF Order!ReworkedGatesClosed
<1>1. CASE Order!Advance
  <2>1. b = manifest.stage \/ IsStageBefore(b, manifest.stage)
    BY <1>0, <1>1, <1>a, GateOfInjective DEF Order!Advance
  <2>2. manifest.stage \in Stages \ {"complete"}
    BY <1>1, AdvanceStep
  <2> QED
    BY <1>0, <1>1, <2>1, <2>2, NextStageValues, PositionType DEF Order!Advance, IsStageBefore
<1>2. CASE Order!Validated
  BY <1>2, <1>a, BaselineFacts DEF Order!Validated
<1>3. CASE Order!AcceptValidation
  BY <1>3, BaselineFacts DEF Order!AcceptValidation
<1>4. ASSUME NEW s \in ReopenStages, Order!Reopen(s) PROVE IsStageBefore(b, manifest'.stage)
  <2>1. GateOf[b] \in GatesBelow(s)
    BY <1>4 DEF Order!Reopen
  <2> QED
    BY <1>0, <1>4, <2>1, GateOfInjective DEF Order!Reopen, GatesBelow, StagesBelow
<1>5. CASE Order!Fix
  BY <1>5, BaselineFacts DEF Order!Fix
<1>6. CASE UNCHANGED <<manifest.stage, manifest.completed \ manifest.invalidated>>
  BY <1>6, <1>a
<1> QED
  BY <1>1, <1>2, <1>3, <1>4, <1>5, <1>6 DEF OrderStep, Order!Next, Order!ForceTo

\* A baseline that is being reworked authorizes nothing.
LEMMA OrderClosesGates ==
    ASSUME ~MayForce
    PROVE  Order!Spec => []Order!ReworkedGatesClosed
<1>1. Order!Init => Order!ReworkedGatesClosed
  BY DEF Order!Init, Order!ReworkedGatesClosed
<1> QED
  BY OrderInvInit, OrderInvStep, ClosedStep, <1>1, PTL DEF Order!Spec, OrderStep

-----------------------------------------------------------------------------
\* It holds of the commands.

\* The active stage always has every predecessor gate: no sequence of commands
\* of one operator, forced, interrupted or failed, skips an approval.
THEOREM StagesAreAuthorized ==
    ASSUME OneOperator
    PROVE  Spec => []StageIsAuthorized
<1>1. TypeOK /\ Order!EarlierGatesOpen => StageIsAuthorized
  BY SameTables, PredecessorsBelow DEF TypeOK, Manifests, Order!EarlierGatesOpen,
                                       StageIsAuthorized, HasGate
<1> QED
  BY PipelineTypes, ImplementsGateOrder, EarlierGates, <1>1, PTL DEF FollowsGateOrder

\* Without forced commands the gate of a baseline that is being reworked is
\* closed until that baseline is approved again.
THEOREM ReworkClosesGates ==
    ASSUME OneOperator, ~MayForce
    PROVE  Spec => []ReworkedGatesClosed
<1>1. Order!ReworkedGatesClosed => ReworkedGatesClosed
  BY SameTables DEF Order!ReworkedGatesClosed, Order!Baselines, ReworkedGatesClosed, HasGate
<1> QED
  BY ImplementsGateOrder, OrderClosesGates, <1>1, PTL DEF FollowsGateOrder

\* Without forced commands a gate that does not hold comes to hold only by the
\* approval of its own stage while that stage is active.
THEOREM GatesAreReapproved ==
    ASSUME OneOperator, ~MayForce
    PROVE  Spec => GatesReapproved
<1>1. ASSUME TypeOK, CommandsFresh, [Next]_vars
      PROVE  \A s \in Stages :
                (GateOf[s] # None /\ ~HasGate(manifest, GateOf[s]) /\ HasGate(manifest', GateOf[s]))
                    => manifest.stage = s
  <2>1. OrderStep /\ manifest.stage \in Stages
    BY <1>1, StepImplements DEF TypeOK, Manifests
  <2>2. \A g : g \in manifest'.completed \ manifest'.invalidated =>
              \/ g \in manifest.completed \ manifest.invalidated
              \/ g = GateOf[manifest.stage]
    BY <2>1, OpensOwnGate DEF Open
  <2> QED
    BY <2>1, <2>2, GateOfInjective DEF HasGate
<1>2. TypeOK /\ CommandsFresh /\ [Next]_vars =>
        [\A s \in Stages :
            (GateOf[s] # None /\ ~HasGate(manifest, GateOf[s]) /\ HasGate(manifest', GateOf[s]))
                => manifest.stage = s]_vars
  BY <1>1
<1>3. Init => CommandsFresh
  BY CommandTypes DEF Init, NewManifest, CommandsFresh
<1>4. TypeOK /\ CommandsFresh /\ [Next]_vars => CommandsFresh'
  BY StepImplements
<1> QED
  BY <1>2, <1>3, <1>4, TypeInit, TypeStep, PTL DEF Spec, GatesReapproved

-----------------------------------------------------------------------------
\* Gates and snapshots.

\* What the command still has to append.
Writing(c) == IF c.kind = "snapshot" THEN c.arts ELSE {}

\* The snapshot of a gate that holds is there or about to be, and about to be
\* invalidated for no such gate.
SnapshotsDue ==
    \A g \in Gates : HasGate(manifest, g) =>
        /\ SnapshotOf[g] \in snapshots \cup {None} \cup UNION {Writing(cmd[t]) : t \in Terminals}
        /\ \A t \in Terminals : cmd[t].kind = "invalidate" => SnapshotOf[g] \notin cmd[t].arts

\* Reopening a stage leaves the artifacts of the other gates alone.
LEMMA InvalidatesOwnArtifacts ==
    \A s \in ReopenStages : \A g \in Gates \ Invalidates[s] : SnapshotOf[g] \notin InvalidatedArtifacts(s)
<1>1. \A s \in ReopenStages : \A g \in Gates \ Invalidates[s] : \A h \in Invalidates[s] :
          SnapshotOf[g] # None => SnapshotOf[g] # SnapshotOf[h]
  BY NoneAssumption DEF ReopenStages, Invalidates, Gates, SnapshotOf, Artifacts
<1> QED
  BY <1>1 DEF InvalidatedArtifacts

\* The gate of a stage needs no snapshot but those its approval appends, and
\* the gates before it none but those a forced reset appends.
LEMMA ApprovalSnapshots ==
    /\ \A s \in Stages : GateOf[s] # None => SnapshotOf[GateOf[s]] \in SnapshotArtifacts(s) \cup {None}
    /\ \A s \in Stages : \A g \in GatesBelow(s) : SnapshotOf[g] \in BackfillArtifacts(s) \cup {None}
<1>1. \A s \in Stages : GateOf[s] # None => SnapshotOf[GateOf[s]] \in SnapshotArtifacts(s) \cup {None}
  BY DEF SnapshotArtifacts
<1>2. ASSUME NEW s \in Stages, NEW g \in GatesBelow(s)
      PROVE  SnapshotOf[g] \in BackfillArtifacts(s) \cup {None}
  <2>1. PICK u \in StagesBelow(s) : g = GateOf[u] /\ g # None
    BY <1>2 DEF GatesBelow
  <2>2. u \in Stages
    BY DEF StagesBelow
  <2> QED
    BY <1>1, <2>1, <2>2 DEF BackfillArtifacts
<1> QED
  BY <1>1, <1>2

LEMMA OnlyBecomes ==
    ASSUME OneOperator, TypeOK, NEW t \in Terminals, NEW c, Becomes(t, c)
    PROVE  \A u \in Terminals : cmd'[u] = c
BY DEF OneOperator, TypeOK, Becomes

LEMMA DueNow ==
    ASSUME OneOperator, SnapshotsDue, NEW t \in Terminals, NEW g \in Gates, HasGate(manifest, g)
    PROVE  /\ SnapshotOf[g] \in snapshots \cup {None} \cup Writing(cmd[t])
           /\ cmd[t].kind = "invalidate" => SnapshotOf[g] \notin cmd[t].arts
<1>1. \A u \in Terminals : Writing(cmd[u]) = Writing(cmd[t])
  BY DEF OneOperator
<1> QED
  BY <1>1 DEF SnapshotsDue

LEMMA DueNext ==
    ASSUME OneOperator, TypeOK, NEW t \in Terminals, NEW c, Becomes(t, c),
           \A g \in Gates : HasGate(manifest', g) =>
               /\ SnapshotOf[g] \in snapshots' \cup {None} \cup Writing(c)
               /\ c.kind = "invalidate" => SnapshotOf[g] \notin c.arts
    PROVE  SnapshotsDue'
<1>1. \A u \in Terminals : cmd'[u] = c
  BY OnlyBecomes
<1>2. UNION {Writing(cmd'[u]) : u \in Terminals} = Writing(c)
  BY <1>1
<1> QED
  BY <1>1, <1>2 DEF SnapshotsDue

LEMMA SnapshottingWrites ==
    \A arts \in SUBSET Artifacts :
        Writing(Snapshotting(arts)) = arts /\ Snapshotting(arts).kind # "invalidate"
<1> SUFFICES ASSUME NEW arts \in SUBSET Artifacts
             PROVE  Writing(Snapshotting(arts)) = arts /\ Snapshotting(arts).kind # "invalidate"
  OBVIOUS
<1>1. CASE arts = {}
  BY <1>1, CommandTypes DEF Snapshotting, Writing
<1>2. CASE arts # {}
  BY <1>2, CommandTypes DEF Snapshotting, Writing, Commands
<1> QED
  BY <1>1, <1>2

LEMMA StepDue ==
    ASSUME OneOperator, ~MayInterrupt, TypeOK, CommandsFresh, SnapshotsDue, [Next]_vars
    PROVE  SnapshotsDue'
<1> USE StageSets
<1>a. manifest \in Manifests
  BY DEF TypeOK
\* A step that keeps the gates and the snapshots, of a command that writes none.
<1>b. ASSUME NEW t \in Terminals, NEW c, Becomes(t, c),
             cmd[t].kind # "snapshot", c.kind \notin {"snapshot", "invalidate"},
             \A g \in Gates : HasGate(manifest', g) => HasGate(manifest, g),
             snapshots' = snapshots
      PROVE  SnapshotsDue'
  BY <1>b, DueNow, DueNext DEF Writing
<1>c. ASSUME NEW t \in Terminals, Free(t)
      PROVE  /\ cmd[t].kind = "idle"
             /\ \A g \in Gates : HasGate(manifest, g) => SnapshotOf[g] \in snapshots \cup {None}
  BY <1>c, CommandTypes, DueNow DEF Free, Writing
<1>d. ASSUME NEW t \in Terminals, Free(t), cmd' = cmd, snapshots \subseteq snapshots',
             \A g \in Gates : HasGate(manifest', g) => HasGate(manifest, g) \/ SnapshotOf[g] = None
      PROVE  SnapshotsDue'
  <2>1. \A u \in Terminals : cmd'[u].kind = "idle"
    BY <1>d, <1>c DEF OneOperator
  <2> QED
    BY <1>c, <1>d, <2>1 DEF SnapshotsDue
<1>0. CASE UNCHANGED vars
  BY <1>0 DEF vars, SnapshotsDue
<1>1. ASSUME NEW t \in Terminals, NEW s \in ReopenStages, NEW u,
             RecordStageReopen(t, s, u), cmd[t].kind \in {"idle", "session"}, snapshots' = snapshots
      PROVE  SnapshotsDue'
  <2> DEFINE c == [Idle EXCEPT !.kind = "invalidate", !.stage = u, !.arts = InvalidatedArtifacts(s)]
  <2>1. c.kind = "invalidate" /\ c.arts = InvalidatedArtifacts(s)
    BY CommandTypes DEF Commands
  <2>2. Becomes(t, c)
    BY <1>1 DEF RecordStageReopen
  <2> HIDE DEF c
  <2>3. manifest' = Reopened(manifest, s)
    BY <1>1 DEF RecordStageReopen
  <2>4. \A g \in Gates : HasGate(manifest', g) => HasGate(manifest, g) /\ g \notin Invalidates[s]
    BY <1>a, <2>3, ReopenedType DEF HasGate
  <2>5. \A g \in Gates : HasGate(manifest, g) => SnapshotOf[g] \in snapshots \cup {None}
    BY <1>1, DueNow DEF Writing
  <2> QED
    BY <1>1, <2>1, <2>2, <2>4, <2>5, InvalidatesOwnArtifacts, DueNext
<1>2. ASSUME NEW t \in Terminals, NEW s \in ReopenStages, Reopen(t, s) PROVE SnapshotsDue'
  BY <1>1, <1>2, <1>c DEF Reopen
<1>3. ASSUME NEW t \in Terminals, RecordInvalidation(t) PROVE SnapshotsDue'
  <2> DEFINE s == cmd[t].stage
             c == IF s # None /\ StageOrder(manifest, s, snapshots') THEN Session(s, manifest) ELSE Idle
  <2>1. cmd[t].kind = "invalidate" /\ Becomes(t, c) /\ UNCHANGED manifest /\ snapshots' = snapshots \ cmd[t].arts
    BY <1>3 DEF RecordInvalidation
  <2>2. c.kind \in {"session", "idle"}
    BY <1>3, <1>a, CommandTypes DEF TypeOK, Commands
  <2> HIDE DEF c
  <2>3. \A g \in Gates : HasGate(manifest, g) => SnapshotOf[g] \in snapshots' \cup {None}
    BY <2>1, DueNow DEF Writing
  <2> QED
    BY <2>1, <2>2, <2>3, DueNext
<1>4. ASSUME NEW t \in Terminals, NEW s \in AuthoringStages, StartSession(t, s) PROVE SnapshotsDue'
  BY <1>4, <1>a, <1>b, <1>c, CommandTypes DEF StartSession
<1>5. ASSUME NEW t \in Terminals, StartOutOfBandTestPlan(t) PROVE SnapshotsDue'
  BY <1>5 DEF StartOutOfBandTestPlan, OneOperator
<1>6. ASSUME NEW t \in Terminals, SessionEnds(t) \/ SessionFails(t) PROVE SnapshotsDue'
  BY <1>6, <1>b, CommandTypes DEF SessionEnds, SessionFails
<1>7. ASSUME NEW t \in Terminals, SessionReopens(t) PROVE SnapshotsDue'
  <2>1. PICK arts \in SUBSET Artifacts : SessionReopens(t)!(arts)
    BY <1>7 DEF SessionReopens
  <2>2. /\ UpstreamStages(cmd[t].stage, arts) \in SUBSET AuthoringStages
        /\ UpstreamStages(cmd[t].stage, arts) # {}
    BY <2>1 DEF UpstreamStages
  <2>3. Earliest(UpstreamStages(cmd[t].stage, arts)) \in ReopenStages
    BY <2>2, EarliestExists
  <2> QED
    BY <1>1, <2>1, <2>3
<1>8. ASSUME NEW t \in Terminals, NEW s \in Stages \ {"complete"}, NEW m \in Manifests, Free(t),
             Becomes(t, Snapshotting(SnapshotArtifacts(s))), manifest' = Passed(m, s),
             \A g \in Gates : HasGate(m, g) => SnapshotOf[g] \in snapshots' \cup {None}
      PROVE  SnapshotsDue'
  <2>1. \A g \in Gates : HasGate(manifest', g) => HasGate(m, g) \/ g = GateOf[s]
    BY <1>8, PassedType DEF HasGate
  <2>2. SnapshotArtifacts(s) \in SUBSET Artifacts
    BY SnapshotSets
  <2> DEFINE c == Snapshotting(SnapshotArtifacts(s))
  <2>3. Writing(c) = SnapshotArtifacts(s) /\ c.kind # "invalidate"
    BY <2>2, SnapshottingWrites
  <2> HIDE DEF c
  <2>4. \A g \in Gates : HasGate(manifest', g) => SnapshotOf[g] \in snapshots' \cup {None} \cup Writing(c)
    BY <1>8, <2>1, <2>3, ApprovalSnapshots, NoneAssumption
  <2>5. Becomes(t, c)
    BY <1>8 DEF c
  <2> QED
    BY <2>3, <2>4, <2>5, DueNext
<1>9. ASSUME NEW t \in Terminals, NEW s \in ApprovalStages, Approve(t, s) PROVE SnapshotsDue'
  BY <1>8, <1>9, <1>a, <1>c DEF Approve
<1>10. ASSUME NEW t \in Terminals, AppendSnapshot(t) PROVE SnapshotsDue'
  <2>1. \A g \in Gates : HasGate(manifest, g) => SnapshotOf[g] \in snapshots' \cup {None}
    BY <1>10, DueNow DEF AppendSnapshot, Writing
  <2> QED
    BY <1>10, <2>1, CommandTypes, DueNext DEF AppendSnapshot
<1>11. ASSUME NEW t \in Terminals, NEW s \in Stages, Free(t),
              snapshots' = snapshots \cup BackfillArtifacts(s)
       PROVE  \A g \in Gates : HasGate(Backfill(manifest, s), g) => SnapshotOf[g] \in snapshots' \cup {None}
  <2>1. \A g \in Gates : HasGate(Backfill(manifest, s), g) => HasGate(manifest, g) \/ g \in GatesBelow(s)
    BY <1>a, BackfillType DEF HasGate
  <2> QED
    BY <1>11, <1>c, <2>1, ApprovalSnapshots
<1>12. ASSUME NEW t \in Terminals, NEW s \in Stages, ForceReset(t, s) PROVE SnapshotsDue'
  <2> DEFINE c == IF s \in AuthoringStages THEN Session(s, manifest') ELSE Idle
  <2>1. Becomes(t, c) /\ manifest' = Backfill(manifest, s) /\ manifest' \in Manifests
    BY <1>12, <1>a, BackfillType DEF ForceReset
  <2>2. c.kind \in {"session", "idle"}
    BY <2>1, CommandTypes
  <2> HIDE DEF c
  <2> QED
    BY <1>11, <1>12, <2>1, <2>2, DueNext DEF ForceReset
<1>13. ASSUME NEW t \in Terminals, NEW s \in ForcedApprovals, ForceApprove(t, s) PROVE SnapshotsDue'
  <2>1. Backfill(manifest, s) \in Manifests
    BY <1>a, BackfillType
  <2> QED
    BY <1>8, <1>11, <1>13, <2>1 DEF ForceApprove
<1>14. ASSUME NEW t \in Terminals, StartPhase(t) \/ CommitPhase(t) PROVE SnapshotsDue'
  BY <1>14, <1>d DEF StartPhase, CommitPhase
<1>15. ASSUME NEW t \in Terminals, StartValidate(t) PROVE SnapshotsDue'
  <2> DEFINE c == [Idle EXCEPT !.kind = "test-review", !.seen = manifest]
  <2>1. c.kind = "test-review"
    BY CommandTypes DEF Commands
  <2>2. Becomes(t, c) /\ UNCHANGED <<manifest, snapshots>> /\ Free(t)
    BY <1>15 DEF StartValidate
  <2> HIDE DEF c
  <2> QED
    BY <1>b, <1>c, <2>1, <2>2
<1>16. ASSUME NEW t \in Terminals, ReviewFinds(t) \/ SuiteFails(t) PROVE SnapshotsDue'
  <2>1. /\ cmd[t].kind \in {"test-review", "test-suite"}
        /\ manifest' = SetActiveStage(manifest, "implementation")
        /\ Becomes(t, Idle) /\ snapshots' = snapshots
    BY <1>16 DEF ReviewFinds, SuiteFails, OpenFixPhase, CommandsFresh
  <2>2. "implementation" \in Stages
    BY DEF Stages
  <2>3. \A g \in Gates : HasGate(manifest', g) => HasGate(manifest, g)
    BY <1>a, <2>1, <2>2, SetActiveStageType DEF HasGate
  <2> QED
    BY <1>b, <2>1, <2>3, CommandTypes
<1>17. ASSUME NEW t \in Terminals, ReviewPasses(t) PROVE SnapshotsDue'
  <2> DEFINE c == [cmd[t] EXCEPT !.kind = "test-suite"]
  <2>1. c.kind = "test-suite"
    BY DEF TypeOK, Commands
  <2>2. Becomes(t, c) /\ UNCHANGED <<manifest, snapshots>> /\ cmd[t].kind = "test-review"
    BY <1>17 DEF ReviewPasses
  <2> HIDE DEF c
  <2> QED
    BY <1>b, <2>1, <2>2
<1>18. ASSUME NEW t \in Terminals, ReviewFails(t) PROVE SnapshotsDue'
  BY <1>18, <1>b, CommandTypes DEF ReviewFails
<1>19. ASSUME NEW t \in Terminals, SuitePasses(t) PROVE SnapshotsDue'
  <2>1. cmd[t].seen = manifest /\ "validation-testing" \in Gates /\ SnapshotOf["validation-testing"] = None
    BY <1>19 DEF SuitePasses, CommandsFresh, Gates, SnapshotOf
  <2>2. \A g \in Gates : HasGate(manifest', g) => HasGate(manifest, g) \/ g = "validation-testing"
    <3>1. CASE manifest' = manifest
      BY <3>1
    <3>2. CASE manifest' = CompleteGate(manifest, "validation-testing")
      BY <1>a, <2>1, <3>2, CompleteGateType DEF HasGate
    <3> QED
      BY <1>19, <2>1, <3>1, <3>2 DEF SuitePasses
  <2>3. \A g \in Gates : HasGate(manifest, g) => SnapshotOf[g] \in snapshots \cup {None}
    BY <1>19, DueNow DEF SuitePasses, Writing
  <2> QED
    BY <1>19, <2>1, <2>2, <2>3, CommandTypes, DueNext DEF SuitePasses
<1>20. ASSUME NEW t \in Terminals, ValidationApprove(t) PROVE SnapshotsDue'
  <2>1. "docs-review" \in Stages
    BY DEF Stages
  <2>2. \A g \in Gates : HasGate(manifest', g) => HasGate(manifest, g)
    BY <1>20, <1>a, <2>1, SetActiveStageType DEF ValidationApprove, HasGate
  <2> QED
    BY <1>20, <1>d, <2>2 DEF ValidationApprove
<1>21. ASSUME NEW t \in Terminals, DocsReview(t) PROVE SnapshotsDue'
  <2>1. /\ "docs-review" \in Stages \ {"complete"}
        /\ GateOf["docs-review"] = "documentation"
        /\ SnapshotOf["documentation"] = None
    BY DEF Stages, GateOf, SnapshotOf, Gates
  <2>2. \A g \in Gates : HasGate(manifest', g) => HasGate(manifest, g) \/ SnapshotOf[g] = None
    BY <1>21, <1>a, <2>1, PassedType DEF DocsReview, HasGate
  <2> QED
    BY <1>21, <1>d, <2>2 DEF DocsReview
<1>22. ASSUME NEW t \in Terminals, Interrupt(t) PROVE SnapshotsDue'
  BY <1>22 DEF Interrupt
<1> QED
  BY <1>0, <1>2, <1>3, <1>4, <1>5, <1>6, <1>7, <1>9, <1>10, <1>12, <1>13,
     <1>14, <1>15, <1>16, <1>17, <1>18, <1>19, <1>20, <1>21, <1>22 DEF Next

\* For one operator whose commands run to their end, every gate that holds has
\* a snapshot that was not invalidated, whatever was reopened and forced.
THEOREM GatesHaveSnapshots ==
    ASSUME OneOperator, ~MayInterrupt
    PROVE  Spec => []GateHasSnapshot
<1>1. Init => CommandsFresh /\ SnapshotsDue
  BY CommandTypes DEF Init, NewManifest, CommandsFresh, SnapshotsDue, HasGate
<1>2. TypeOK /\ CommandsFresh /\ SnapshotsDue /\ [Next]_vars => CommandsFresh' /\ SnapshotsDue'
  BY StepImplements, StepDue
<1>3. SnapshotsDue => GateHasSnapshot
  <2> SUFFICES ASSUME SnapshotsDue, \A t \in Terminals : cmd[t].kind \notin {"snapshot", "invalidate"}
               PROVE  \A g \in Gates : HasGate(manifest, g) => SnapshotOf[g] \in snapshots \cup {None}
    BY DEF GateHasSnapshot
  <2>1. UNION {Writing(cmd[t]) : t \in Terminals} = {}
    BY DEF Writing
  <2> QED
    BY <2>1 DEF SnapshotsDue
<1> QED
  BY <1>1, <1>2, <1>3, TypeInit, TypeStep, PTL DEF Spec

-----------------------------------------------------------------------------
\* Approved artifacts.

\* An artifact is authored before its last approval, which snapshots it.
LEMMA ApprovedAtFacts ==
    \A a \in Artifacts :
        /\ AuthoringStage[a] \in Stages /\ ApprovedAt[a] \in Stages
        /\ ApprovedAt[a] \notin {"validation", "docs-review", "complete"}
        /\ ~IsStageBefore(ApprovedAt[a], AuthoringStage[a])
        /\ a \in SnapshotArtifacts(ApprovedAt[a])
<1> SUFFICES ASSUME NEW a \in Artifacts
             PROVE  /\ AuthoringStage[a] \in Stages /\ ApprovedAt[a] \in Stages
                    /\ ApprovedAt[a] \notin {"validation", "docs-review", "complete"}
                    /\ ~IsStageBefore(ApprovedAt[a], AuthoringStage[a])
                    /\ a \in SnapshotArtifacts(ApprovedAt[a])
  OBVIOUS
<1>1. CASE a = "requirements.md"
  <2>1. ApprovedAt[a] = "requirements" /\ AuthoringStage[a] = "requirements"
    BY <1>1 DEF ApprovedAt, AuthoringStage, Artifacts
  <2>2. GateOf["requirements"] = "requirements" /\ SnapshotOf["requirements"] = a
    BY <1>1 DEF GateOf, Stages, SnapshotOf, Gates
  <2> QED
    BY <2>1, <2>2, PositionValues, NoneAssumption DEF IsStageBefore, SnapshotArtifacts, Stages, Gates
<1>2. CASE a = "detailed-design.md"
  <2>1. ApprovedAt[a] = "design-acceptance" /\ AuthoringStage[a] = "design"
    BY <1>2 DEF ApprovedAt, AuthoringStage, Artifacts
  <2>2. /\ GateOf["design-acceptance"] = "human-design-acceptance"
        /\ SnapshotOf["human-design-acceptance"] = a
    BY <1>2 DEF GateOf, Stages, SnapshotOf, Gates
  <2> QED
    BY <2>1, <2>2, PositionValues, NoneAssumption DEF IsStageBefore, SnapshotArtifacts, Stages, Gates
<1>3. CASE a = "implementation-plan.md"
  <2>1. ApprovedAt[a] = "plan" /\ AuthoringStage[a] = "plan"
    BY <1>3 DEF ApprovedAt, AuthoringStage, Artifacts
  <2>2. GateOf["plan"] = "implementation" /\ SnapshotOf["implementation"] = a
    BY <1>3 DEF GateOf, Stages, SnapshotOf, Gates
  <2> QED
    BY <2>1, <2>2, PositionValues, NoneAssumption DEF IsStageBefore, SnapshotArtifacts, Stages, Gates
<1>4. CASE a = "test-plan.md"
  <2>1. ApprovedAt[a] = "test-plan" /\ AuthoringStage[a] = "test-plan"
    BY <1>4 DEF ApprovedAt, AuthoringStage, Artifacts
  <2>2. GateOf["test-plan"] = "test-plan" /\ SnapshotOf["test-plan"] = a
    BY <1>4 DEF GateOf, Stages, SnapshotOf, Gates
  <2> QED
    BY <2>1, <2>2, PositionValues, NoneAssumption DEF IsStageBefore, SnapshotArtifacts, Stages, Gates
<1> QED
  BY <1>1, <1>2, <1>3, <1>4 DEF Artifacts

LEMMA StepCurrent ==
    ASSUME OneOperator, ~MayInterrupt, ~AgentsMayFail, TypeOK, CommandsFresh,
           ApprovedIsCurrent, [Next]_vars
    PROVE  ApprovedIsCurrent'
<1> USE StageSets
<1>a. manifest \in Manifests /\ manifest.stage \in Stages
  BY DEF TypeOK, Manifests
\* Nothing is edited and the stage does not advance.
<1>b. ASSUME edited' = edited, manifest'.stage \in Stages,
             ~IsStageBefore(manifest.stage, manifest'.stage)
      PROVE  ApprovedIsCurrent'
  BY <1>a, <1>b, ApprovedAtFacts, PositionType DEF ApprovedIsCurrent, IsStageBefore
<1>c. ASSUME edited' = edited, manifest' = manifest PROVE ApprovedIsCurrent'
  BY <1>c DEF ApprovedIsCurrent
\* The stage goes forward past s and the snapshots of s are taken.
<1>d. ASSUME NEW s \in Stages \ {"complete"}, manifest'.stage = NextStage(s),
             edited' \subseteq edited, edited' \cap SnapshotArtifacts(s) = {},
             \A a \in edited' : ~IsStageBefore(ApprovedAt[a], s)
      PROVE  ApprovedIsCurrent'
  <2>1. Position[manifest'.stage] = Position[s] + 1
    BY <1>d, NextStageValues
  <2> SUFFICES ASSUME NEW a \in Artifacts, IsStageBefore(ApprovedAt[a], manifest'.stage), a \in edited'
               PROVE  FALSE
    BY DEF ApprovedIsCurrent
  <2>2. Position[ApprovedAt[a]] = Position[s]
    BY <1>d, <2>1, ApprovedAtFacts, PositionType DEF IsStageBefore
  <2>3. ApprovedAt[a] = s
    BY <2>2, ApprovedAtFacts, PositionInjective
  <2> QED
    BY <1>d, <2>3, ApprovedAtFacts
<1>0. CASE UNCHANGED vars
  BY <1>0, <1>c DEF vars
<1>1. ASSUME NEW t \in Terminals, NEW s \in ReopenStages, NEW u, RecordStageReopen(t, s, u)
      PROVE  manifest'.stage = s
  BY <1>1, <1>a, ReopenedType DEF RecordStageReopen
<1>2. ASSUME NEW t \in Terminals, NEW s \in ReopenStages, Reopen(t, s) PROVE ApprovedIsCurrent'
  <2>1. edited' = edited /\ manifest'.stage = s /\ IsStageBefore(s, manifest.stage)
    BY <1>1, <1>2 DEF Reopen
  <2>2. s \in Stages /\ ~IsStageBefore(manifest.stage, s)
    BY <1>a, <2>1, PositionType DEF IsStageBefore
  <2> QED
    BY <1>b, <2>1, <2>2
<1>3. ASSUME NEW t \in Terminals,
             \/ RecordInvalidation(t)
             \/ \E s \in AuthoringStages : StartSession(t, s)
             \/ StartOutOfBandTestPlan(t)
             \/ AppendSnapshot(t)
             \/ StartPhase(t)
             \/ CommitPhase(t)
             \/ StartValidate(t)
             \/ ReviewPasses(t)
             \/ ReviewFails(t)
      PROVE  ApprovedIsCurrent'
  BY <1>3, <1>c DEF RecordInvalidation, StartSession, StartOutOfBandTestPlan, AppendSnapshot,
                    StartPhase, CommitPhase, StartValidate, ReviewPasses, ReviewFails
<1>4. ASSUME NEW t \in Terminals, SessionEnds(t) PROVE ApprovedIsCurrent'
  <2>1. PICK arts \in SUBSET Artifacts : SessionEnds(t)!(arts)
    BY <1>4 DEF SessionEnds
  <2>2. cmd[t].stage = manifest.stage /\ edited' = edited \cup arts /\ manifest' = manifest
    BY <2>1 DEF CommandsFresh, Edit
  <2>3. \A a \in arts : ~IsStageBefore(AuthoringStage[a], manifest.stage)
    BY <2>1, <2>2 DEF UpstreamStages
  <2>4. \A a \in arts : ~IsStageBefore(ApprovedAt[a], manifest.stage)
    BY <1>a, <2>3, ApprovedAtFacts, PositionType DEF IsStageBefore
  <2> QED
    BY <2>2, <2>4 DEF ApprovedIsCurrent
<1>5. ASSUME NEW t \in Terminals, SessionReopens(t) PROVE ApprovedIsCurrent'
  <2>1. PICK arts \in SUBSET Artifacts : SessionReopens(t)!(arts)
    BY <1>5 DEF SessionReopens
  <2> DEFINE upstream == UpstreamStages(manifest.stage, arts)
             s == Earliest(upstream)
  <2>2. cmd[t].stage = manifest.stage /\ edited' = edited \cup arts
    BY <2>1 DEF CommandsFresh, Edit
  <2>3. upstream \in SUBSET AuthoringStages /\ upstream # {}
    BY <2>1, <2>2 DEF UpstreamStages
  <2>4. s \in upstream /\ \A w \in upstream : ~IsStageBefore(w, s)
    BY <2>3, EarliestExists
  <2>5. manifest'.stage = s /\ s \in Stages
    BY <1>1, <2>1, <2>2, <2>3, <2>4
  <2>6. IsStageBefore(s, manifest.stage)
    BY <2>4 DEF UpstreamStages
  <2>7. \A a \in arts : IsStageBefore(AuthoringStage[a], manifest.stage) => AuthoringStage[a] \in upstream
    BY DEF UpstreamStages
  <2> HIDE DEF s, upstream
  <2>8. \A a \in arts : ~IsStageBefore(AuthoringStage[a], s)
    BY <1>a, <2>4, <2>5, <2>6, <2>7, ApprovedAtFacts, PositionType DEF IsStageBefore
  <2>9. \A a \in arts : ~IsStageBefore(ApprovedAt[a], s)
    BY <2>5, <2>8, ApprovedAtFacts, PositionType DEF IsStageBefore
  <2>10. \A a \in Artifacts : IsStageBefore(ApprovedAt[a], s) => IsStageBefore(ApprovedAt[a], manifest.stage)
    BY <1>a, <2>5, <2>6, ApprovedAtFacts, PositionType DEF IsStageBefore
  <2> QED
    BY <2>2, <2>5, <2>9, <2>10 DEF ApprovedIsCurrent
<1>6. ASSUME NEW t \in Terminals, SessionFails(t) \/ Interrupt(t) PROVE ApprovedIsCurrent'
  BY <1>6 DEF SessionFails, Interrupt
<1>7. ASSUME NEW t \in Terminals, NEW s \in ApprovalStages, Approve(t, s) PROVE ApprovedIsCurrent'
  <2>1. /\ s \in Stages \ {"complete"} /\ manifest.stage = s
        /\ manifest' = Passed(manifest, s) /\ edited' = edited \ SnapshotArtifacts(s)
    BY <1>7 DEF Approve, StageOrder
  <2>2. manifest'.stage = NextStage(s)
    BY <1>a, <2>1, PassedType
  <2>3. \A a \in edited' : ~IsStageBefore(ApprovedAt[a], s)
    BY <2>1 DEF ApprovedIsCurrent, TypeOK
  <2> QED
    BY <1>d, <2>1, <2>2, <2>3
<1>8. \A s \in Stages : \A a \in Artifacts :
         IsStageBefore(ApprovedAt[a], s) => a \in BackfillArtifacts(s)
  BY ApprovedAtFacts DEF BackfillArtifacts, StagesBelow
<1>9. ASSUME NEW t \in Terminals, NEW s \in Stages, ForceReset(t, s) PROVE ApprovedIsCurrent'
  <2>1. manifest'.stage = s /\ edited' = edited \ BackfillArtifacts(s)
    BY <1>9, <1>a, BackfillType DEF ForceReset
  <2> QED
    BY <1>8, <2>1 DEF ApprovedIsCurrent
<1>10. ASSUME NEW t \in Terminals, NEW s \in ForcedApprovals, ForceApprove(t, s)
       PROVE  ApprovedIsCurrent'
  <2>1. /\ s \in Stages \ {"complete"} /\ Backfill(manifest, s) \in Manifests
        /\ manifest' = Passed(Backfill(manifest, s), s)
        /\ edited' = edited \ (BackfillArtifacts(s) \cup SnapshotArtifacts(s))
    BY <1>10, <1>a, BackfillType DEF ForceApprove
  <2>2. manifest'.stage = NextStage(s)
    BY <2>1, PassedType
  <2>3. \A a \in edited' : ~IsStageBefore(ApprovedAt[a], s)
    BY <1>8, <2>1 DEF TypeOK
  <2> QED
    BY <1>d, <2>1, <2>2, <2>3
<1>11. ASSUME NEW t \in Terminals, ReviewFinds(t) \/ SuiteFails(t) PROVE ApprovedIsCurrent'
  <2>1. /\ manifest.stage = "validation" /\ edited' = edited
        /\ manifest' = SetActiveStage(manifest, "implementation")
    BY <1>11 DEF ReviewFinds, SuiteFails, OpenFixPhase, CommandsFresh
  <2>2. "implementation" \in Stages
    BY DEF Stages
  <2>3. manifest'.stage = "implementation"
    BY <1>a, <2>1, <2>2, SetActiveStageType
  <2> QED
    BY <1>b, <2>1, <2>2, <2>3, PositionValues DEF IsStageBefore
<1>12. ASSUME NEW t \in Terminals, SuitePasses(t) PROVE ApprovedIsCurrent'
  <2>1. cmd[t].seen = manifest /\ "validation-testing" \in Gates /\ edited' = edited
    BY <1>12 DEF SuitePasses, CommandsFresh, Gates
  <2>2. manifest'.stage = manifest.stage
    BY <1>12, <1>a, <2>1, CompleteGateType DEF SuitePasses
  <2> QED
    BY <2>1, <2>2 DEF ApprovedIsCurrent
\* The documents that the last stages present were approved before them.
<1>13. ASSUME NEW s \in {"validation", "docs-review"}, manifest.stage = s,
              manifest'.stage = NextStage(s), edited' = edited
       PROVE  ApprovedIsCurrent'
  <2>1. s \in Stages \ {"complete"}
    BY DEF Stages
  <2>2. \A a \in Artifacts : a \notin SnapshotArtifacts(s)
    <3>1. GateOf["validation"] = "validation-testing" /\ GateOf["docs-review"] = "documentation"
      BY DEF GateOf, Stages
    <3>2. SnapshotOf["validation-testing"] = None /\ SnapshotOf["documentation"] = None
      BY DEF SnapshotOf, Gates
    <3> QED
      BY <3>1, <3>2, NoneAssumption DEF SnapshotArtifacts
  <2>3. \A a \in edited' : ~IsStageBefore(ApprovedAt[a], s)
    BY <1>13 DEF ApprovedIsCurrent, TypeOK
  <2> QED
    BY <1>d, <1>13, <2>1, <2>2, <2>3 DEF TypeOK
<1>14. NextStage("validation") = "docs-review"
  BY NextStageValues, PositionValues, PositionInjective DEF Stages
<1>15. ASSUME NEW t \in Terminals, ValidationApprove(t) PROVE ApprovedIsCurrent'
  <2>1. manifest'.stage = "docs-review"
    BY <1>15, <1>a, SetActiveStageType DEF ValidationApprove, Stages
  <2> QED
    BY <1>13, <1>14, <1>15, <2>1 DEF ValidationApprove
<1>16. ASSUME NEW t \in Terminals, DocsReview(t) PROVE ApprovedIsCurrent'
  <2>1. manifest'.stage = NextStage("docs-review")
    BY <1>16, <1>a, PassedType DEF DocsReview, Stages
  <2> QED
    BY <1>13, <1>16, <2>1 DEF DocsReview, StageOrder
<1> QED
  BY <1>0, <1>2, <1>3, <1>4, <1>5, <1>6, <1>7, <1>9, <1>10, <1>11, <1>12, <1>15, <1>16 DEF Next

\* For one operator whose commands and agents run to their end, no approved
\* artifact was edited since: every such edit is noticed and reopens its stage.
THEOREM ApprovedAreCurrent ==
    ASSUME OneOperator, ~MayInterrupt, ~AgentsMayFail
    PROVE  Spec => []ApprovedIsCurrent
<1>1. Init => CommandsFresh /\ ApprovedIsCurrent
  BY CommandTypes DEF Init, NewManifest, CommandsFresh, ApprovedIsCurrent
<1>2. TypeOK /\ CommandsFresh /\ ApprovedIsCurrent /\ [Next]_vars
         => CommandsFresh' /\ ApprovedIsCurrent'
  BY StepImplements, StepCurrent
<1> QED
  BY <1>1, <1>2, TypeInit, TypeStep, PTL DEF Spec

-----------------------------------------------------------------------------
\* Validation.

Testing == "validation-testing"

Built == {"test-plan", "validation", "docs-review", "complete"}

Validating == \E t \in Terminals : cmd[t].kind = "test-suite"

\* The gate of validation testing outlives a fix phase, but then an issue is
\* open until the suite runs again; and no phase is active once they are built.
TestedInv ==
    /\ manifest.stage \in Built => phases.active = None
    /\ HasGate(manifest, Testing) /\ blocking = {} =>
           /\ manifest.stage \in {"validation", "docs-review", "complete"}
           /\ tested \/ Validating
    /\ manifest.stage \in {"docs-review", "complete"} => tested

LEMMA TestingTable ==
    /\ Testing \in Gates
    /\ \A s \in ReopenStages \ {"docs-review"} : Testing \in Invalidates[s]
    /\ \A s \in Stages \ {"validation"} : GateOf[s] # Testing
    /\ \A s \in ApprovalStages :
          /\ s \notin {"validation", "docs-review", "complete"}
          /\ NextStage(s) \notin {"docs-review", "complete"}
          /\ NextStage(s) \in Built => s \in Built \cup {"implementation"}
    /\ NextStage("docs-review") = "complete"
<1>1. Testing \in Gates /\ \A s \in ReopenStages \ {"docs-review"} : Testing \in Invalidates[s]
  BY DEF Testing, Gates, ReopenStages, Invalidates
<1>2. \A s \in Stages \ {"validation"} : GateOf[s] # Testing
  BY NoneAssumption DEF Testing, Gates, GateOf, Stages
<1>3. ASSUME NEW s \in ApprovalStages
      PROVE  /\ s \notin {"validation", "docs-review", "complete"}
             /\ NextStage(s) \notin {"docs-review", "complete"}
             /\ NextStage(s) \in Built => s \in Built \cup {"implementation"}
  <2>1. s \in Stages \ {"complete"} /\ s \notin {"validation", "docs-review"}
    BY DEF ApprovalStages, Stages
  <2>2. Position[NextStage(s)] = Position[s] + 1
    BY <2>1, NextStageValues
  <2> QED
    BY <2>1, <2>2, PositionValues DEF ApprovalStages, Built
<1>4. NextStage("docs-review") = "complete"
  BY NextStageValues, PositionValues, PositionInjective DEF Stages
<1> QED
  BY <1>1, <1>2, <1>3, <1>4

LEMMA StepTested ==
    ASSUME OneOperator, ~MayInterrupt, ~AgentsMayFail, ~MayForce, TypeOK, CommandsFresh,
           TestedInv, [Next]_vars
    PROVE  TestedInv'
<1> USE StageSets
<1>a. manifest \in Manifests /\ manifest.stage \in Stages
  BY DEF TypeOK, Manifests
\* The suite is not running in the only terminal there is.
<1>b. ASSUME NEW t \in Terminals, cmd[t].kind # "test-suite", HasGate(manifest, Testing), blocking = {}
      PROVE  tested
  BY <1>b DEF TestedInv, Validating, OneOperator
<1>c. \A t \in Terminals : Free(t) => cmd[t].kind # "test-suite"
  BY CommandTypes DEF Free
\* Nothing the invariant speaks of changes but an idle or editing command.
<1>d. ASSUME NEW t \in Terminals, cmd[t].kind # "test-suite", UNCHANGED <<manifest, blocking, tested>>,
             phases'.active = phases.active
      PROVE  TestedInv'
  BY <1>b, <1>d DEF TestedInv
<1>e. ASSUME NEW arts, Edit(arts) PROVE phases'.active = phases.active
  BY <1>e DEF Edit, TypeOK, PhaseStatus
<1>0. CASE UNCHANGED vars
  BY <1>0 DEF vars, TestedInv, Validating
<1>1. ASSUME NEW t \in Terminals, NEW s \in ReopenStages, NEW u, RecordStageReopen(t, s, u),
             IsStageBefore(s, manifest.stage), cmd[t].kind # "test-suite",
             UNCHANGED <<blocking, tested>>, phases'.active = phases.active
      PROVE  TestedInv'
  <2>1. /\ manifest'.stage = s
        /\ \A g : HasGate(manifest', g) => HasGate(manifest, g) /\ g \notin Invalidates[s]
    BY <1>1, <1>a, ReopenedType DEF RecordStageReopen, HasGate
  <2>2. CASE s = "docs-review"
    <3>1. manifest.stage = "complete"
      BY <1>1, <1>a, <2>2, PositionValues DEF IsStageBefore, Stages
    <3> QED
      BY <1>1, <2>1, <2>2, <3>1 DEF TestedInv, Built
  <2>3. CASE s # "docs-review"
    <3>1. ~HasGate(manifest', Testing)
      BY <2>1, <2>3, TestingTable
    <3>2. s \notin {"docs-review", "complete"}
      BY <2>3 DEF ReopenStages
    <3>3. s \in Built => manifest.stage \in Built
      BY <1>1, <1>a, PositionValues DEF IsStageBefore, Stages, Built, ReopenStages
    <3> QED
      BY <1>1, <2>1, <3>1, <3>2, <3>3 DEF TestedInv
  <2> QED
    BY <2>2, <2>3
<1>2. ASSUME NEW t \in Terminals, NEW s \in ReopenStages, Reopen(t, s) PROVE TestedInv'
  BY <1>1, <1>2, <1>c DEF Reopen
<1>3. ASSUME NEW t \in Terminals,
             \/ RecordInvalidation(t)
             \/ \E s \in AuthoringStages : StartSession(t, s)
             \/ StartOutOfBandTestPlan(t)
             \/ SessionEnds(t)
             \/ AppendSnapshot(t)
             \/ StartValidate(t)
      PROVE  TestedInv'
  BY <1>3, <1>c, <1>d, <1>e DEF RecordInvalidation, StartSession, StartOutOfBandTestPlan, SessionEnds,
                                AppendSnapshot, StartValidate
<1>4. ASSUME NEW t \in Terminals, SessionReopens(t) PROVE TestedInv'
  <2>1. PICK arts \in SUBSET Artifacts : SessionReopens(t)!(arts)
    BY <1>4 DEF SessionReopens
  <2> DEFINE upstream == UpstreamStages(manifest.stage, arts)
  <2>2. cmd[t].stage = manifest.stage
    BY <2>1 DEF CommandsFresh
  <2>3. upstream \in SUBSET AuthoringStages /\ upstream # {}
    BY <2>1, <2>2 DEF UpstreamStages
  <2>4. Earliest(upstream) \in upstream
    BY <2>3, EarliestExists
  <2>5. Earliest(upstream) \in ReopenStages /\ IsStageBefore(Earliest(upstream), manifest.stage)
    BY <2>3, <2>4 DEF UpstreamStages
  <2>6. phases'.active = phases.active
    BY <1>e, <2>1
  <2> QED
    BY <1>1, <2>1, <2>2, <2>5, <2>6
<1>5. ASSUME NEW t \in Terminals,
             \/ SessionFails(t)
             \/ \E s \in Stages : ForceReset(t, s)
             \/ \E s \in ForcedApprovals : ForceApprove(t, s)
             \/ ReviewFails(t)
             \/ Interrupt(t)
      PROVE  TestedInv'
  BY <1>5 DEF SessionFails, ForceReset, ForceApprove, ReviewFails, Interrupt
<1>6. ASSUME NEW t \in Terminals, NEW s \in ApprovalStages, Approve(t, s) PROVE TestedInv'
  <2>1. /\ s \in Stages \ {"complete"} /\ manifest.stage = s
        /\ manifest' = Passed(manifest, s) /\ UNCHANGED <<blocking, tested, phases>>
        /\ s = "implementation" => phases.active = None
    BY <1>6 DEF Approve, StageOrder, PhasesCommitted
  <2>2. manifest'.stage = NextStage(s) /\ (HasGate(manifest', Testing) => HasGate(manifest, Testing))
    BY <1>a, <2>1, PassedType, TestingTable DEF HasGate
  <2>3. ~(HasGate(manifest, Testing) /\ blocking = {})
    BY <2>1, TestingTable DEF TestedInv
  <2>4. phases'.active = phases.active /\ (NextStage(s) \in Built => phases.active = None)
    BY <2>1, TestingTable DEF TestedInv
  <2> QED
    BY <2>1, <2>2, <2>3, <2>4, TestingTable DEF TestedInv
<1>7. ASSUME NEW t \in Terminals, StartPhase(t) PROVE TestedInv'
  <2>1. manifest.stage = "implementation" /\ UNCHANGED <<manifest, blocking, tested, cmd>>
    BY <1>7 DEF StartPhase
  <2> QED
    BY <2>1 DEF TestedInv, Built, Validating
<1>8. ASSUME NEW t \in Terminals, CommitPhase(t) PROVE TestedInv'
  <2>1. /\ phases.active # None /\ UNCHANGED <<manifest, blocking, cmd>>
        /\ phases'.active = None
    BY <1>8 DEF CommitPhase, TypeOK, PhaseStatus
  <2>2. manifest.stage \notin Built
    BY <2>1 DEF TestedInv
  <2> QED
    BY <2>1, <2>2 DEF TestedInv, Built
<1>9. ASSUME NEW t \in Terminals, ReviewFinds(t) \/ SuiteFails(t) PROVE TestedInv'
  <2>1. blocking' # {} /\ manifest' = SetActiveStage(manifest, "implementation")
    BY <1>9 DEF ReviewFinds, SuiteFails, OpenFixPhase, CommandsFresh
  <2>2. manifest'.stage = "implementation"
    BY <1>a, <2>1, SetActiveStageType DEF Stages
  <2> QED
    BY <2>1, <2>2 DEF TestedInv, Built
<1>10. ASSUME NEW t \in Terminals, ReviewPasses(t) PROVE TestedInv'
  <2> DEFINE c == [cmd[t] EXCEPT !.kind = "test-suite"]
  <2>1. c.kind = "test-suite"
    BY DEF TypeOK, Commands
  <2>2. Becomes(t, c) /\ UNCHANGED <<manifest, phases, tested>> /\ cmd[t].kind = "test-review"
    BY <1>10 DEF ReviewPasses
  <2> HIDE DEF c
  <2>3. Validating'
    BY <2>1, <2>2, OnlyBecomes DEF Validating
  <2>4. manifest.stage = "validation"
    BY <2>2 DEF CommandsFresh
  <2> QED
    BY <2>2, <2>3, <2>4 DEF TestedInv
<1>11. ASSUME NEW t \in Terminals, SuitePasses(t) PROVE TestedInv'
  <2>1. /\ cmd[t].seen = manifest /\ manifest.stage = "validation"
        /\ tested' = TRUE /\ phases' = phases
    BY <1>11 DEF SuitePasses, CommandsFresh
  <2>2. manifest'.stage = "validation"
    BY <1>11, <1>a, <2>1, CompleteGateType, TestingTable DEF SuitePasses, Testing
  <2> QED
    BY <2>1, <2>2 DEF TestedInv
<1>12. ASSUME NEW t \in Terminals, ValidationApprove(t) PROVE TestedInv'
  <2>1. /\ manifest'.stage = "docs-review" /\ manifest.stage = "validation"
        /\ UNCHANGED <<phases, blocking, tested>>
    BY <1>12, <1>a, SetActiveStageType DEF ValidationApprove, Stages
  <2>2. tested
    BY <1>12, <1>b, <1>c DEF ValidationApprove, Testing
  <2> QED
    BY <2>1, <2>2 DEF TestedInv, Built
<1>13. ASSUME NEW t \in Terminals, DocsReview(t) PROVE TestedInv'
  <2>1. /\ manifest.stage = "docs-review" /\ manifest' = Passed(manifest, "docs-review")
        /\ UNCHANGED <<phases, blocking, tested>>
    BY <1>13 DEF DocsReview, StageOrder
  <2>2. manifest'.stage = "complete"
    BY <1>a, <2>1, PassedType, TestingTable DEF Stages
  <2>3. tested /\ phases.active = None
    BY <2>1 DEF TestedInv, Built
  <2> QED
    BY <2>1, <2>2, <2>3 DEF TestedInv
<1> QED
  BY <1>0, <1>2, <1>3, <1>4, <1>5, <1>6, <1>7, <1>8, <1>9, <1>10, <1>11, <1>12, <1>13 DEF Next

\* For one operator who forces nothing and whose commands and agents run to
\* their end, the suite passed on the committed code before it is documented,
\* however often validation failed and phases were added and reopened.
THEOREM DocsAreValidated ==
    ASSUME OneOperator, ~MayInterrupt, ~AgentsMayFail, ~MayForce
    PROVE  Spec => []ValidatedBeforeDocs
<1>1. Init => CommandsFresh /\ TestedInv
  BY CommandTypes DEF Init, NewManifest, CommandsFresh, TestedInv, HasGate, Built, PhaseStatus
<1>2. TypeOK /\ CommandsFresh /\ TestedInv /\ [Next]_vars => CommandsFresh' /\ TestedInv'
  BY StepImplements, StepTested
<1>3. TestedInv => ValidatedBeforeDocs
  BY DEF TestedInv, ValidatedBeforeDocs
<1> QED
  BY <1>1, <1>2, <1>3, TypeInit, TypeStep, PTL DEF Spec
=============================================================================
