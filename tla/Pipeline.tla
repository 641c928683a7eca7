------------------------------ MODULE Pipeline ------------------------------
(***************************************************************************)
(* The ordered pipeline of one run: the manifest (active stage, completed  *)
(* and invalidated gates), the approved snapshots, the phase status and    *)
(* the review ledgers, as the commands of workflows/software/cli.py change *)
(* them through state_store.py and check them through gates.py.            *)
(*                                                                         *)
(* A command is a process of its own and nothing locks the files.  What a  *)
(* command saves in one file is one step; a command that saves several     *)
(* files, or that waits for an agent or a test suite between reading the   *)
(* manifest and saving it, keeps in cmd what it still has to do.           *)
(*                                                                         *)
(* The abstractions: artifacts have no content, only the fact that they    *)
(* were edited since their approval; a review ledger either holds blocking *)
(* issues or not; the coding and reviewing of one phase is one step;       *)
(* documents the gates require exist.                                      *)
(***************************************************************************)
EXTENDS PipelineStages, FiniteSetsExt

CONSTANTS
    Terminals,       \* shells and panes that can run a command
    MaxPhase,        \* phase numbers are 1..MaxPhase (bound)
    MaxSetbacks,     \* reopenings, fix phases and forced resets (bound)
    MayInterrupt,    \* commands can be killed between two of their writes
    AgentsMayFail,   \* an agent can end with ok = false
    SuiteMayFail,    \* a validation command can exit with non-zero
    OutOfBand,       \* the test plan is authored ahead of its stage
    MayForce         \* an expert operator uses --force

ASSUME PipelineAssumption ==
    /\ MaxPhase \in Nat \ {0}
    /\ MaxSetbacks \in Nat
    /\ {MayInterrupt, AgentsMayFail, SuiteMayFail, OutOfBand, MayForce} \subseteq BOOLEAN

VARIABLES
    manifest,        \* manifest.json
    snapshots,       \* artifacts with a snapshot that is not invalidated
    phases,          \* the planned phases and phase-status.json
    blocking,        \* the validation ledgers that hold blocking issues
    confirmed,       \* stages with a recorded author-confirmation
    authored,        \* stages with a successful design_author event
    cmd,             \* what the command of each terminal still has to do
    setbacks,        \* counts towards MaxSetbacks (no file records this nor the next two)
    edited,          \* artifacts an authoring session changed since approved
    tested           \* the test suite passed, and no phase was committed since

vars == <<manifest, snapshots, phases, blocking, confirmed, authored, cmd, setbacks, edited, tested>>

-----------------------------------------------------------------------------
\* The manifest and the commands.

Manifests == [stage : Stages, completed : SUBSET Gates, invalidated : SUBSET Gates]

NewManifest == [stage |-> "requirements", completed |-> {}, invalidated |-> {}]

HasGate(m, g) == g \in m.completed \ m.invalidated

\* Variant: completing one gate clears the whole list of invalidated gates.
ClearsInvalidated(m, g) == [m EXCEPT !.completed = @ \cup ({g} \ {None}), !.invalidated = {}]

CompleteGate(m, g) ==
    [m EXCEPT !.completed = @ \cup ({g} \ {None}), !.invalidated = @ \ {g}]

SetActiveStage(m, s) == [m EXCEPT !.stage = s]

\* active:  the active phase;  committed: the phases recorded as committed;
\* planned: implementation-plan.md has the phases 1..planned.
PhaseStatus == [planned : 1..MaxPhase, active : 1..MaxPhase \cup {None}, committed : SUBSET (1..MaxPhase)]

UncommittedPhases == 1..phases.planned \ phases.committed

\* A running command: the stage it works for, the artifacts whose snapshots
\* it will append or invalidate, and the manifest it read when it started.
Kinds == {"idle", "session", "invalidate", "snapshot", "test-review", "test-suite"}

Commands == [kind : Kinds, stage : Stages \cup {None}, arts : SUBSET Artifacts, seen : Manifests]

Idle == [kind |-> "idle", stage |-> None, arts |-> {}, seen |-> NewManifest]

Session(s, m) == [Idle EXCEPT !.kind = "session", !.stage = s, !.seen = m]

Snapshotting(arts) == IF arts = {} THEN Idle ELSE [Idle EXCEPT !.kind = "snapshot", !.arts = arts]

Ledgers == {"validation-test-review", "validation-review"}

\* GateEngine.stage_order, over the snapshots snaps.
StageOrder(m, s, snaps) ==
    /\ m.stage = s
    /\ \A g \in Predecessors[s] : HasGate(m, g) /\ SnapshotOf[g] \in snaps \cup {None}

Init ==
    /\ manifest = NewManifest
    /\ snapshots = {}
    /\ phases \in [planned : 1..MaxPhase, active : {None}, committed : {{}}]
    /\ blocking = {}
    /\ confirmed = {}
    /\ authored = {}
    /\ cmd = [t \in Terminals |-> Idle]
    /\ setbacks = 0
    /\ edited = {}
    /\ tested = FALSE

Free(t) == cmd[t] = Idle

Becomes(t, c) == cmd' = [cmd EXCEPT ![t] = c]

Setback == setbacks < MaxSetbacks /\ setbacks' = setbacks + 1

-----------------------------------------------------------------------------
\* Change control.

\* Variants: every snapshot is invalidated; gates without one are not left out.
AllArtifacts(s) == Artifacts

EveryGateArtifact(s) == {SnapshotOf[g] : g \in Invalidates[s]}

InvalidatedArtifacts(s) == {SnapshotOf[g] : g \in Invalidates[s]} \ {None}

\* Variant: the reopened stage becomes active and its gates stay.
StageOnly(m, s) == SetActiveStage(m, s)

Reopened(m, s) == [SetActiveStage(m, s) EXCEPT !.invalidated = @ \cup Invalidates[s]]

\* _record_stage_reopen up to the saved manifest; the invalidation of the
\* snapshots is appended afterwards, and then the session of stage s opens.
RecordStageReopen(t, s, session) ==
    /\ Setback
    /\ manifest' = Reopened(manifest, s)
    /\ Becomes(t, [Idle EXCEPT !.kind = "invalidate", !.stage = session,
                               !.arts = InvalidatedArtifacts(s)])

Reopen(t, s) ==
    /\ Free(t)
    /\ IsStageBefore(s, manifest.stage)
    /\ RecordStageReopen(t, s, IF s \in AuthoringStages THEN s ELSE None)
    /\ UNCHANGED <<snapshots, phases, blocking, confirmed, authored, edited, tested>>

RecordInvalidation(t) ==
    /\ cmd[t].kind = "invalidate"
    /\ snapshots' = snapshots \ cmd[t].arts
    /\ LET s == cmd[t].stage
       IN Becomes(t, IF s # None /\ StageOrder(manifest, s, snapshots')
                     THEN Session(s, manifest) ELSE Idle)
    /\ UNCHANGED <<manifest, phases, blocking, confirmed, authored, setbacks, edited, tested>>

-----------------------------------------------------------------------------
\* Authoring sessions.

StartSession(t, s) ==
    /\ Free(t)
    /\ StageOrder(manifest, s, snapshots)
    /\ Becomes(t, Session(s, manifest))
    /\ UNCHANGED <<manifest, snapshots, phases, blocking, confirmed, authored, setbacks, edited, tested>>

StartOutOfBandTestPlan(t) ==
    /\ OutOfBand
    /\ Free(t)
    /\ IsStageBefore(manifest.stage, "test-plan")
    /\ Becomes(t, Session("test-plan", manifest))
    /\ UNCHANGED <<manifest, snapshots, phases, blocking, confirmed, authored, setbacks, edited, tested>>

\* The agent edits some artifacts; editing the plan may change its phases.
Edit(arts) ==
    \E n \in 1..MaxPhase :
        /\ "implementation-plan.md" \in arts \/ n = phases.planned
        /\ edited' = edited \cup arts
        /\ phases' = [phases EXCEPT !.planned = n]

UpstreamStages(s, arts) == {u \in {AuthoringStage[a] : a \in arts} : IsStageBefore(u, s)}

\* Variant: the nearest upstream stage is reopened, not the earliest.
Nearest(S) == CHOOSE u \in S : \A w \in S : ~IsStageBefore(u, w)

Earliest(S) == CHOOSE u \in S : \A w \in S : ~IsStageBefore(w, u)

\* The session succeeds having changed nothing upstream of its stage.
SessionEnds(t) ==
    \E arts \in SUBSET Artifacts :
        /\ cmd[t].kind = "session"
        /\ UpstreamStages(cmd[t].stage, arts) = {}
        /\ Edit(arts)
        /\ authored' = authored \cup {cmd[t].seen.stage}
        /\ Becomes(t, Idle)
        /\ UNCHANGED <<manifest, snapshots, blocking, confirmed, setbacks, tested>>

\* It changed an upstream artifact: the earliest such stage is reopened.
SessionReopens(t) ==
    \E arts \in SUBSET Artifacts :
        LET upstream == UpstreamStages(cmd[t].stage, arts)
        IN /\ cmd[t].kind = "session"
           /\ upstream # {}
           /\ Edit(arts)
           /\ authored' = authored \cup {cmd[t].seen.stage}
           /\ RecordStageReopen(t, Earliest(upstream), None)
           /\ UNCHANGED <<snapshots, blocking, confirmed, tested>>

\* The agent ends with ok = false: the command returns before it compares.
SessionFails(t) ==
    \E arts \in SUBSET Artifacts :
        /\ AgentsMayFail
        /\ cmd[t].kind = "session"
        /\ Edit(arts)
        /\ Becomes(t, Idle)
        /\ UNCHANGED <<manifest, snapshots, blocking, confirmed, authored, setbacks, tested>>

-----------------------------------------------------------------------------
\* Approvals.

ApprovalStages == {"requirements", "design", "design-review", "design-acceptance",
                   "plan", "implementation", "test-plan"}

\* The stages whose approval asks for the author's confirmation too.
ConfirmedStages == {"requirements", "plan"}

SnapshotArtifacts(s) == {SnapshotOf[g] : g \in {GateOf[s]} \ {None}} \ {None}

Passed(m, s) == SetActiveStage(CompleteGate(m, GateOf[s]), NextStage(s))

PhasesCommitted == phases.active = None /\ UncommittedPhases = {}

\* _cmd_stage up to the saved manifest; its snapshot is appended afterwards.
\* Approving the design stage and the design review is one command that goes
\* through this twice, the second time when no blocking issue is left.
Approve(t, s) ==
    /\ Free(t)
    /\ StageOrder(manifest, s, snapshots)
    /\ s \in ConfirmedStages => s \in confirmed \cup authored
    /\ s = "implementation" => PhasesCommitted
    /\ manifest' = Passed(manifest, s)
    /\ confirmed' = confirmed \cup ({s} \cap ConfirmedStages)
    /\ edited' = edited \ SnapshotArtifacts(s)
    /\ Becomes(t, Snapshotting(SnapshotArtifacts(s)))
    /\ UNCHANGED <<snapshots, phases, blocking, authored, setbacks, tested>>

AppendSnapshot(t) ==
    /\ cmd[t].kind = "snapshot"
    /\ snapshots' = snapshots \cup cmd[t].arts
    /\ Becomes(t, Idle)
    /\ UNCHANGED <<manifest, phases, blocking, confirmed, authored, setbacks, edited, tested>>

\* Variant: the forced reset only moves the stage.
MovesOnly(m, s) == SetActiveStage(m, s)

\* Variant: the gate of s itself is backfilled too.
BackfillsOwnGate(m, s) == CompleteGate([m EXCEPT !.stage = s, !.completed = @ \cup GatesBelow(s),
                                                 !.invalidated = @ \ GatesBelow(s)], GateOf[s])

\* _force_reset_to_stage: every stage before s is backfilled.
Backfill(m, s) == [stage |-> s, completed |-> m.completed \cup GatesBelow(s),
                   invalidated |-> m.invalidated \ GatesBelow(s)]

\* Variants: no snapshots for a forced reset; one type too wide.
NoArtifacts(s) == {}

BackfillGates(s) == GatesBelow(s)

BackfillArtifacts(s) == UNION {SnapshotArtifacts(u) : u \in StagesBelow(s)}

\* The snapshots are appended before the manifest is saved; only the second
\* write lets a gate authorize anything, so they are one step here.
ForceReset(t, s) ==
    /\ MayForce
    /\ Free(t)
    /\ Setback
    /\ manifest' = Backfill(manifest, s)
    /\ snapshots' = snapshots \cup BackfillArtifacts(s)
    /\ confirmed' = confirmed \cup (StagesBelow(s) \cap ConfirmedStages)
    /\ edited' = edited \ BackfillArtifacts(s)
    /\ Becomes(t, IF s \in AuthoringStages THEN Session(s, manifest') ELSE Idle)
    /\ UNCHANGED <<phases, blocking, authored, tested>>

ForcedApprovals == {"requirements", "design-acceptance", "plan", "test-plan", "validation"}

\* An approval command with --force: the reset and then the approval of s,
\* which asks for nothing more.
ForceApprove(t, s) ==
    /\ MayForce
    /\ Free(t)
    /\ Setback
    /\ manifest' = Passed(Backfill(manifest, s), s)
    /\ snapshots' = snapshots \cup BackfillArtifacts(s)
    /\ confirmed' = confirmed \cup ((StagesBelow(s) \cup {s}) \cap ConfirmedStages)
    /\ edited' = edited \ (BackfillArtifacts(s) \cup SnapshotArtifacts(s))
    /\ Becomes(t, Snapshotting(SnapshotArtifacts(s)))
    /\ UNCHANGED <<phases, blocking, authored, tested>>

-----------------------------------------------------------------------------
\* The phases of the implementation stage.

StartPhase(t) ==
    /\ Free(t)
    /\ manifest.stage = "implementation"
    /\ HasGate(manifest, "implementation")
    /\ phases.active = None
    /\ UncommittedPhases # {}
    /\ phases' = [phases EXCEPT !.active = Min(UncommittedPhases)]
    /\ UNCHANGED <<manifest, snapshots, blocking, confirmed, authored, cmd, setbacks, edited, tested>>

\* Variant: the committed phase stays the active one.
CommitKeepsActive(t) ==
    /\ Free(t)
    /\ phases.active # None
    /\ HasGate(manifest, "implementation")
    /\ phases' = [phases EXCEPT !.committed = @ \cup {phases.active}]
    /\ UNCHANGED <<manifest, snapshots, blocking, confirmed, authored, cmd, setbacks, edited, tested>>

\* The phase passed its review and its commit is recorded.
CommitPhase(t) ==
    /\ Free(t)
    /\ phases.active # None
    /\ HasGate(manifest, "implementation")
    /\ phases' = [phases EXCEPT !.committed = @ \cup {phases.active}, !.active = None]
    /\ tested' = FALSE
    /\ UNCHANGED <<manifest, snapshots, blocking, confirmed, authored, cmd, setbacks, edited>>

-----------------------------------------------------------------------------
\* Validation and documentation.

StartValidate(t) ==
    /\ Free(t)
    /\ StageOrder(manifest, "validation", snapshots)
    /\ UncommittedPhases = {}
    /\ Becomes(t, [Idle EXCEPT !.kind = "test-review", !.seen = manifest])
    /\ UNCHANGED <<manifest, snapshots, phases, blocking, confirmed, authored, setbacks, edited, tested>>

\* _open_validation_fix_phase, with the manifest validate read at its start.
FixPhase == Max({phases.planned} \cup phases.committed \cup ({phases.active} \ {None})) + 1

OpenFixPhase(t) ==
    /\ Setback
    /\ FixPhase <= MaxPhase
    /\ phases' = [phases EXCEPT !.active = FixPhase]
    /\ manifest' = SetActiveStage(cmd[t].seen, "implementation")
    /\ Becomes(t, Idle)

ReviewFinds(t) ==
    /\ cmd[t].kind = "test-review"
    /\ blocking' = blocking \cup {"validation-test-review"}
    /\ OpenFixPhase(t)
    /\ UNCHANGED <<snapshots, confirmed, authored, edited, tested>>

\* Issues the review no longer reports become verified.
ReviewPasses(t) ==
    /\ cmd[t].kind = "test-review"
    /\ blocking' = blocking \ {"validation-test-review"}
    /\ Becomes(t, [cmd[t] EXCEPT !.kind = "test-suite"])
    /\ UNCHANGED <<manifest, snapshots, phases, confirmed, authored, setbacks, edited, tested>>

\* So they do when the review agent failed and reported nothing at all.
ReviewFails(t) ==
    /\ AgentsMayFail
    /\ cmd[t].kind = "test-review"
    /\ blocking' = blocking \ {"validation-test-review"}
    /\ Becomes(t, Idle)
    /\ UNCHANGED <<manifest, snapshots, phases, confirmed, authored, setbacks, edited, tested>>

SuitePasses(t) ==
    /\ cmd[t].kind = "test-suite"
    /\ manifest' = IF blocking = {} THEN CompleteGate(cmd[t].seen, "validation-testing") ELSE manifest
    /\ tested' = TRUE
    /\ Becomes(t, Idle)
    /\ UNCHANGED <<snapshots, phases, blocking, confirmed, authored, setbacks, edited>>

\* Nothing ever closes the issues this opens.
SuiteFails(t) ==
    /\ SuiteMayFail
    /\ cmd[t].kind = "test-suite"
    /\ blocking' = blocking \cup {"validation-review"}
    /\ OpenFixPhase(t)
    /\ UNCHANGED <<snapshots, confirmed, authored, edited, tested>>

ValidationApprove(t) ==
    /\ Free(t)
    /\ manifest.stage = "validation"
    /\ HasGate(manifest, "validation-testing")
    /\ blocking = {}
    /\ manifest' = SetActiveStage(manifest, "docs-review")
    /\ UNCHANGED <<snapshots, phases, blocking, confirmed, authored, cmd, setbacks, edited, tested>>

\* The final review snapshots the documents, among them the first two artifacts.
DocsReview(t) ==
    /\ Free(t)
    /\ StageOrder(manifest, "docs-review", snapshots)
    /\ snapshots' = snapshots \cup {"requirements.md", "detailed-design.md"}
    /\ manifest' = Passed(manifest, "docs-review")
    /\ UNCHANGED <<phases, blocking, confirmed, authored, cmd, setbacks, edited, tested>>

\* The process is killed: what it still had to write is never written, and
\* what its agent edited stays.
Interrupt(t) ==
    \E arts \in SUBSET Artifacts :
        /\ MayInterrupt
        /\ ~Free(t)
        /\ cmd[t].kind = "session" \/ arts = {}
        /\ Edit(arts)
        /\ Becomes(t, Idle)
        /\ UNCHANGED <<manifest, snapshots, blocking, confirmed, authored, setbacks, tested>>

Next ==
    \E t \in Terminals :
        \/ \E s \in ReopenStages : Reopen(t, s)
        \/ RecordInvalidation(t)
        \/ \E s \in AuthoringStages : StartSession(t, s)
        \/ StartOutOfBandTestPlan(t)
        \/ SessionEnds(t)
        \/ SessionReopens(t)
        \/ SessionFails(t)
        \/ \E s \in ApprovalStages : Approve(t, s)
        \/ AppendSnapshot(t)
        \/ \E s \in Stages : ForceReset(t, s)
        \/ \E s \in ForcedApprovals : ForceApprove(t, s)
        \/ StartPhase(t)
        \/ CommitPhase(t)
        \/ StartValidate(t)
        \/ ReviewFinds(t)
        \/ ReviewPasses(t)
        \/ ReviewFails(t)
        \/ SuitePasses(t)
        \/ SuiteFails(t)
        \/ ValidationApprove(t)
        \/ DocsReview(t)
        \/ Interrupt(t)

Spec == Init /\ [][Next]_vars

\* The operator goes on issuing the next command, and agents and the suite end.
FairSpec ==
    /\ Spec
    /\ \A t \in Terminals :
        /\ WF_vars(RecordInvalidation(t))
        /\ WF_vars(AppendSnapshot(t))
        /\ WF_vars(SessionEnds(t))
        /\ WF_vars(ReviewPasses(t))
        /\ WF_vars(SuitePasses(t))
        /\ WF_vars(StartPhase(t))
        /\ WF_vars(CommitPhase(t))
        /\ WF_vars(StartValidate(t))
        /\ SF_vars(ValidationApprove(t))
        /\ WF_vars(DocsReview(t))
        /\ \A s \in AuthoringStages : WF_vars(StartSession(t, s))
        /\ \A s \in ApprovalStages : SF_vars(Approve(t, s))

-----------------------------------------------------------------------------
\* Properties.

\* Every file holds what the code can write into it.
TypeOK ==
    /\ manifest \in Manifests
    /\ snapshots \subseteq Artifacts
    /\ phases \in PhaseStatus
    /\ blocking \subseteq Ledgers
    /\ confirmed \subseteq Stages
    /\ authored \subseteq Stages
    /\ cmd \in [Terminals -> Commands]
    /\ setbacks \in 0..MaxSetbacks
    /\ edited \subseteq Artifacts
    /\ tested \in BOOLEAN

\* The active stage has every predecessor gate: no sequence of approvals,
\* reopenings, fix phases and forced resets makes a later stage active
\* without the approvals before it.
StageIsAuthorized ==
    \A g \in Predecessors[manifest.stage] : HasGate(manifest, g)

\* When no command is between two writes, every gate that authorizes later
\* stages has a snapshot that was not invalidated (the manifest and the
\* snapshot and invalidation records are separate files that must agree).
GateHasSnapshot ==
    (\A t \in Terminals : cmd[t].kind \notin {"snapshot", "invalidate"}) =>
        \A g \in Gates : HasGate(manifest, g) => SnapshotOf[g] \in snapshots \cup {None}

\* A baseline that is being reworked authorizes nothing: the gate of a stage
\* is valid only while the pipeline is past that stage.
ReworkedGatesClosed ==
    \A s \in {"requirements", "design-review", "design-acceptance", "plan"} :
        HasGate(manifest, GateOf[s]) => IsStageBefore(s, manifest.stage)

\* The stage whose approval is the last to snapshot an artifact.
ApprovedAt == [a \in Artifacts |->
    IF a = "detailed-design.md" THEN "design-acceptance" ELSE AuthoringStage[a]]

\* Past its approval, an artifact is what was approved: whatever an authoring
\* session changed upstream was noticed and reopened.
ApprovedIsCurrent ==
    \A a \in Artifacts : IsStageBefore(ApprovedAt[a], manifest.stage) => a \notin edited

\* Documentation review sees only code that the test suite passed on after
\* the last phase, fix phases included, was committed.
ValidatedBeforeDocs ==
    manifest.stage \in {"docs-review", "complete"} => tested

\* The manifest changes only as the order of the gates allows: the detailed
\* commands implement module GateOrder.
Order == INSTANCE GateOrder WITH stage <- manifest.stage,
                                 open <- manifest.completed \ manifest.invalidated

FollowsGateOrder == Order!Spec

\* A gate that does not hold comes to hold only by the approval of its own
\* stage while that stage is active.
GatesReapproved ==
    [][\A s \in Stages :
        (GateOf[s] # None /\ ~HasGate(manifest, GateOf[s]) /\ HasGate(manifest', GateOf[s]))
            => manifest.stage = s]_vars

\* A run can always be finished: no reopening or validation finding leaves
\* the pipeline where the forward commands lead nowhere.
Completes == []<>(manifest.stage = "complete")

\* After a failed validation command, fixing the code and validating again
\* gets the run to documentation review.
FailedSuiteRecovers == ("validation-review" \in blocking) ~> (manifest.stage = "docs-review")
=============================================================================
