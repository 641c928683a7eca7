----------------------------- MODULE PhaseLoop -----------------------------
(***************************************************************************)
(* Implementing the planned phases (cmd code of workflows/software/cli.py):*)
(* a coding agent and a review agent take turns until no blocking issue is *)
(* left, a coding agent commits the phase, and the commit is checked and   *)
(* recorded.  Agents fail, do nothing, or commit when they should not; the *)
(* command is killed between any two saves; another terminal moves the     *)
(* active phase with --set-phase meanwhile.                                *)
(*                                                                         *)
(* The contents of the work tree are a number that every edit increases.   *)
(***************************************************************************)
EXTENDS Integers, Sequences

CONSTANTS
    NPhases,        \* phases of the implementation plan
    Blockers,       \* issue identifiers reported with severity blocker
    Majors,         \* ... with severity major
    Minors,         \* ... with a severity that never blocks
    MaxAttempts,    \* IMPLEMENTATION_REVIEW_MAX_ATTEMPTS
    MaxTree         \* number of edits (bound)

ASSUME PhaseAssumption ==
    /\ NPhases \in Nat \ {0}
    /\ MaxAttempts \in Nat \ {0}
    /\ MaxTree \in Nat
    /\ Blockers \cap Majors = {}

VARIABLES
    active,         \* PhaseStatus.active_phase, 0 for none
    phase,          \* PhaseStatus.phases
    ledger,         \* the code review issues of every phase that are still open
    tree,           \* the contents of the work tree
    commits,        \* git: the contents and the commit pass of every commit
    done,           \* the implementation stage has been left
    run,            \* the command in progress
    clean           \* history: the contents a review of the phase passed last

vars == <<active, phase, ledger, tree, commits, done, run, clean>>

Phases == 1 .. NPhases

Issues == Blockers \cup Majors \cup Minors

LastCommit == Len(commits)

PhaseRecords ==
    [status : {"planned", "active", "committed", "operator-skipped"},
     passed : BOOLEAN, commit : Nat,
     gate : {"none", "passed", "operator-forced"}]

Commands == {"automated", "phased", "forced"}

Places == {"idle", "next", "code", "review", "settle", "commit", "committing", "record"}

Runs == [at : Places, command : Commands, only : BOOLEAN, phase : 0 .. NPhases,
         attempt : Nat, file : 0 .. NPhases, ok : BOOLEAN, issues : SUBSET Issues,
         before : Nat, moved : BOOLEAN]

Idle == [at |-> "idle", command |-> "automated", only |-> FALSE, phase |-> 0,
         attempt |-> 0, file |-> 0, ok |-> TRUE, issues |-> {}, before |-> 0, moved |-> FALSE]

Init ==
    /\ active = 0
    /\ phase = [p \in Phases |-> [status |-> "planned", passed |-> FALSE,
                                  commit |-> 0, gate |-> "none"]]
    /\ ledger = [p \in Phases |-> {}]
    /\ tree = 0
    /\ commits = <<[tree |-> 0, phase |-> 0]>>
    /\ done = FALSE
    /\ run = Idle
    /\ clean = [p \in Phases |-> -1]

\* _issue_is_blocking: the severities that keep a phase from passing.
Blocking(only) == IF only THEN Blockers ELSE Blockers \cup Majors

\* _blocking_issues of a ledger.
OpenIssues(l, only) == l \cap Blocking(only)

\* _uncommitted_planned_phases.  A recorded commit exists in the repository.
Uncommitted == {p \in Phases : phase[p].status \notin {"committed", "operator-skipped"}}

\* _next_uncommitted_phase.
IsFirst(p) == p \in Uncommitted /\ \A q \in Uncommitted : p <= q

\* _start_code_phase: the flags of an earlier review stay as they are.
Started(p) == [phase EXCEPT ![p].status = "active"]

At(place) == [run EXCEPT !.at = place]

-----------------------------------------------------------------------------
\* The command reads the phase status and picks the phase to work on.

Begin(command, only) ==
    /\ run.at = "idle"
    /\ ~done
    /\ command = "forced" => ~only
    /\ run' = [Idle EXCEPT !.at = "next", !.command = command, !.only = only]
    /\ UNCHANGED <<active, phase, ledger, tree, commits, done, clean>>

\* Variant: the command forgets which phase it works on.
CodingSome(p) == [At("code") EXCEPT !.attempt = 1, !.moved = FALSE]

\* The first attempt at a phase.
Coding(p) == [At("code") EXCEPT !.phase = p, !.attempt = 1, !.moved = FALSE]

\* _cmd_code_automated and _cmd_code_phased: resume the active phase ...
Resume ==
    /\ run.at = "next"
    /\ active # 0
    /\ run' = IF run.command = "forced"
              THEN [At("commit") EXCEPT !.phase = active]
              ELSE Coding(active)
    /\ UNCHANGED <<active, phase, ledger, tree, commits, done, clean>>

\* ... or start the first phase that is not committed ...
StartPhase ==
    /\ run.at = "next"
    /\ run.command # "forced"
    /\ active = 0
    /\ \E p \in Phases :
           /\ IsFirst(p)
           /\ active' = p
           /\ phase' = Started(p)
           /\ run' = Coding(p)
    /\ UNCHANGED <<ledger, tree, commits, done, clean>>

\* ... or leave the stage: there is none.
Complete ==
    /\ run.at = "next"
    /\ run.command # "forced"
    /\ active = 0
    /\ Uncommitted = {}
    /\ done' = TRUE
    /\ run' = Idle
    /\ UNCHANGED <<active, phase, ledger, tree, commits, clean>>

\* _cmd_code_commit without an active phase.
NothingToForce ==
    /\ run.at = "next"
    /\ run.command = "forced"
    /\ active = 0
    /\ run' = Idle
    /\ UNCHANGED <<active, phase, ledger, tree, commits, done, clean>>

-----------------------------------------------------------------------------
\* The agents.

Edits == tree' \in {tree, tree + 1} /\ tree' <= MaxTree

\* _run_coding_pass: the agent edits or does not, and its pass fails when it
\* says so or has made a commit of its own.
Code ==
    /\ run.at = "code"
    /\ Edits
    /\ \E failed, committed \in BOOLEAN :
          /\ committed => tree' # commits[LastCommit].tree
          /\ commits' = IF committed
                        THEN Append(commits, [tree |-> tree', phase |-> 0])
                        ELSE commits
          /\ run' = IF failed \/ committed THEN Idle ELSE At("review")
    /\ UNCHANGED <<active, phase, ledger, done, clean>>

\* _agent_issue_file: the ledger of the phase that is active when the review
\* agent has answered, or of the phase under review when none is.
IssueFile == IF active # 0 THEN active ELSE run.phase

\* The review agent answers, and what it reports goes into the ledger.
Review ==
    /\ run.at = "review"
    /\ \E ok \in BOOLEAN, issues \in SUBSET Issues :
          /\ run' = [At("settle") EXCEPT !.ok = ok, !.issues = issues, !.file = IssueFile]
          /\ ledger' = IF active = 0 THEN ledger
                       ELSE [ledger EXCEPT ![active] = @ \cup issues]
    /\ UNCHANGED <<active, phase, tree, commits, done, clean>>

\* Variant: major issues stay open with --blockers-only.
NotDeferred(l) == l

\* _defer_nonblocking_major_issues, with --blockers-only.
Deferred(l) == IF run.only THEN l \ Majors ELSE l

\* _verify_unreported_blocking_issues.
Verified(l) == l \ (OpenIssues(l, run.only) \ run.issues)

Settled == Verified(Deferred(ledger[run.file]))

\* Variant: a failed review agent is not noticed.
NotNoticed == FALSE

\* A review agent that failed without reporting anything reviewed nothing.
Unreviewed == ~run.ok /\ run.issues = {}

\* History: the agent reviewed the contents and reported no blocking issue.
FoundClean == (run.ok \/ run.issues # {}) /\ run.issues \cap Blocking(run.only) = {}

\* Variant: attempts are not counted.
SameAttempt == run.attempt

\* The number of the next attempt.
NextAttempt == run.attempt + 1

Outcome == IF Unreviewed THEN "failed"
           ELSE IF OpenIssues(Settled, run.only) = {} THEN "passed"
           ELSE IF run.attempt = MaxAttempts THEN "failed"
           ELSE "again"

\* What a round leaves behind for the next one.
Unsettled == [run EXCEPT !.ok = TRUE, !.issues = {}, !.file = 0]

\* The end of one round of _run_code_review_cycle.
Settle ==
    /\ run.at = "settle"
    /\ ledger' = [ledger EXCEPT ![run.file] = Settled]
    /\ phase' = IF Outcome = "passed" THEN [phase EXCEPT ![run.phase].passed = TRUE] ELSE phase
    /\ clean' = IF FoundClean THEN [clean EXCEPT ![run.phase] = tree] ELSE clean
    /\ run' = IF Outcome = "again" THEN [Unsettled EXCEPT !.at = "code", !.attempt = NextAttempt]
              ELSE IF Outcome = "passed" /\ run.command = "automated"
              THEN [Unsettled EXCEPT !.at = "commit"]
              ELSE Idle
    /\ UNCHANGED <<active, tree, commits, done>>

-----------------------------------------------------------------------------
\* _commit_active_phase_with_agent.

\* GateEngine.commit_gate: the review of the active phase has passed and no
\* issue blocks.  The evidence it also asks for is saved before the pass.
CommitGate ==
    /\ active # 0
    /\ phase[active].passed
    /\ OpenIssues(ledger[active], FALSE) = {}

Commit ==
    /\ run.at = "commit"
    /\ run' = IF (run.command = "forced" \/ CommitGate) /\ active = run.phase
              THEN [At("committing") EXCEPT !.before = LastCommit, !.moved = FALSE]
              ELSE Idle
    /\ UNCHANGED <<active, phase, ledger, tree, commits, done, clean>>

\* The agent commits what there is to commit, or does not, and returns.
AgentCommits ==
    /\ run.at = "committing"
    /\ \/ /\ tree # commits[LastCommit].tree
          /\ commits' = Append(commits, [tree |-> tree, phase |-> run.phase])
       \/ UNCHANGED commits
    /\ run' = At("record")
    /\ UNCHANGED <<active, phase, ledger, tree, done, clean>>

\* Variant: any readable HEAD is taken for the commit.
SomeCommit == LastCommit # 0

\* The work tree's HEAD is a commit of this pass.
NewCommit == LastCommit # run.before

\* _record_phase_commit.
Recorded(p) ==
    [phase EXCEPT ![p].status = "committed", ![p].commit = LastCommit,
                  ![p].gate = IF run.command = "forced" THEN "operator-forced" ELSE "passed"]

\* A failed agent, no new commit, or a commit outside the scope of the phase
\* is an error; otherwise the commit is recorded.
Record ==
    /\ run.at = "record"
    /\ \/ /\ run' = Idle
          /\ UNCHANGED <<active, phase>>
       \/ /\ NewCommit
          /\ phase' = Recorded(run.phase)
          /\ active' = 0
          /\ run' = IF run.command = "automated" THEN [Idle EXCEPT !.at = "next", !.only = run.only] ELSE Idle
    /\ UNCHANGED <<ledger, tree, commits, done, clean>>

-----------------------------------------------------------------------------
\* Other commands, and the end of a command between two of its steps.

\* Variant: earlier phases are left as they are.
NoneSkipped(n) == {}

\* The planned phases --set-phase skips.
Skipped(n) == {p \in Phases : p < n /\ phase[p].status # "committed"}

\* _cmd_code_set_phase, here or in another terminal.
SetPhase(n) ==
    /\ ~done
    /\ phase' = [p \in Phases |->
                    IF p = n THEN [phase[p] EXCEPT !.status = "active"]
                    ELSE IF p \in Skipped(n) THEN [phase[p] EXCEPT !.status = "operator-skipped"]
                    ELSE phase[p]]
    /\ active' = n
    /\ run' = IF run.at = "idle" THEN run ELSE [run EXCEPT !.moved = TRUE]
    /\ UNCHANGED <<ledger, tree, commits, done, clean>>

\* _cmd_code_interactive: an agent edits the active phase with the operator.
Interactive ==
    /\ run.at = "idle"
    /\ ~done
    /\ Edits
    /\ \/ /\ active = 0
          /\ \E p \in Phases : IsFirst(p) /\ active' = p /\ phase' = Started(p)
       \/ /\ active # 0 \/ Uncommitted = {}
          /\ UNCHANGED <<active, phase>>
    /\ UNCHANGED <<ledger, commits, done, run, clean>>

Killed ==
    /\ run.at # "idle"
    /\ run' = Idle
    /\ UNCHANGED <<active, phase, ledger, tree, commits, done, clean>>

RunStep == \/ Resume \/ StartPhase \/ Complete \/ NothingToForce
           \/ Code \/ Review \/ Settle \/ Commit \/ AgentCommits \/ Record

Next ==
    \/ \E command \in Commands, only \in BOOLEAN : Begin(command, only)
    \/ RunStep
    \/ \E n \in Phases : SetPhase(n)
    \/ Interactive
    \/ Killed

Spec == Init /\ [][Next]_vars

\* Agents answer in the end, and the command goes on from one step to the next.
FairSpec == Spec /\ WF_vars(RunStep)

-----------------------------------------------------------------------------
\* The status file, the ledgers and the command keep their shapes.
TypeOK ==
    /\ active \in 0 .. NPhases
    /\ phase \in [Phases -> PhaseRecords]
    /\ ledger \in [Phases -> SUBSET Issues]
    /\ tree \in Nat
    /\ commits \in Seq([tree : Nat, phase : 0 .. NPhases])
    /\ done \in BOOLEAN
    /\ run \in Runs
    /\ run.at \notin {"idle", "next"} => run.phase \in Phases
    /\ run.at = "settle" => run.file \in Phases
    /\ clean \in [Phases -> Int]

\* What a phase committed through the gate consists of is exactly what a
\* review of that phase, one that did review, found without blocking issues:
\* whatever failed or was killed before, and whichever phase another terminal
\* selected meanwhile (_run_code_review_cycle, _commit_active_phase_with_agent).
PassedCommitsAreReviewed ==
    \A p \in Phases :
        phase[p].status = "committed" /\ phase[p].gate = "passed" =>
            commits[phase[p].commit].tree = clean[p]

\* A commit recorded for a phase was made in the commit pass of that phase:
\* no commit a coding pass made on its own, none of another phase, and none
\* left by a command that was killed before it recorded it.
RecordedFromOwnPass ==
    \A p \in Phases :
        phase[p].commit # 0 => /\ phase[p].commit \in 1 .. LastCommit
                               /\ commits[phase[p].commit].phase = p

\* When a phase is active, every earlier one is committed or was skipped by
\* the operator: phases started in order, moved with --set-phase in any
\* direction, and recorded by a command that did not see the move.
EarlierPhasesDone ==
    active # 0 => \A p \in 1 .. (active - 1) : phase[p].status \in {"committed", "operator-skipped"}

\* A phase whose review has just passed can be committed: unless another
\* terminal moved the phase meanwhile, nothing that the review deferred or
\* left in the ledger holds the gate (commit_gate, _defer_nonblocking_major_issues).
PassingOpensGate ==
    run.at = "commit" /\ run.command = "automated" /\ ~run.moved => CommitGate

\* Every command ends: the review rounds of a phase are bounded, and each
\* phase the automated command goes on to follows one it has recorded.
RunEnds == run.at # "idle" ~> run.at = "idle"
=============================================================================
