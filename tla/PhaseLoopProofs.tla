--------------------------- MODULE PhaseLoopProofs ---------------------------
(***************************************************************************)
(* Safety of the phase loop for any plan, any issues and any limits.  One  *)
(* inductive invariant relates the command in progress to the status file, *)
(* the ledgers and the repository.                                         *)
(***************************************************************************)
EXTENDS PhaseLoop, TLAPS

\* The command is between the start of a phase and its recorded commit.
AtWork == run.at \notin {"idle", "next"}

\* The repository has a first commit, and every commit pass knows the last
\* commit before it.
HistoryInv ==
    /\ LastCommit >= 1
    /\ \A p \in Phases : phase[p].status = "committed" => phase[p].commit # 0
    /\ run.at = "committing" => run.before = LastCommit
    /\ run.at = "record" /\ NewCommit =>
          /\ commits[LastCommit].phase = run.phase
          /\ commits[LastCommit].tree = tree

\* What the automated command is about to commit was found clean, and the
\* phase it works on is not committed.
ReviewInv ==
    /\ active # 0 => phase[active].status = "active"
    /\ AtWork => phase[run.phase].status # "committed" /\ active # 0
    /\ run.at \in {"commit", "committing", "record"} => run.command # "phased"
    /\ run.at = "settle" => run.issues \subseteq ledger[run.file]
    /\ run.command = "automated" /\ run.at \in {"commit", "committing", "record"} =>
          clean[run.phase] = tree

\* While nobody else moved the phase, the command works on the active one.
OwnInv ==
    AtWork /\ run.at \notin {"committing", "record"} /\ ~run.moved =>
        /\ run.phase = active
        /\ run.at = "settle" => run.file = run.phase

Inv ==
    /\ TypeOK
    /\ HistoryInv
    /\ ReviewInv
    /\ OwnInv
    /\ PassedCommitsAreReviewed
    /\ RecordedFromOwnPass
    /\ EarlierPhasesDone
    /\ PassingOpensGate

-----------------------------------------------------------------------------
\* The shapes are kept, action by action.

LEMMA PhaseRange == NPhases \in Nat /\ \A p \in Phases : p \in 0 .. NPhases
BY PhaseAssumption DEF Phases

LEMMA IdleRun == Idle \in Runs /\ Idle.at = "idle"
BY PhaseRange DEF Idle, Runs, Places, Commands, Issues

\* A command that has ended leaves the shapes as they are.
LEMMA EndTypes ==
    ASSUME TypeOK, run' = Idle,
           UNCHANGED <<active, phase, ledger, tree, commits, done, clean>>
    PROVE  TypeOK'
BY IdleRun DEF TypeOK

LEMMA CodingRun ==
    ASSUME run \in Runs, NEW p \in Phases
    PROVE  Coding(p) \in Runs /\ Coding(p).phase = p /\ Coding(p).at = "code"
BY PhaseRange DEF Coding, At, Runs, Places

LEMMA StartedPhase ==
    ASSUME phase \in [Phases -> PhaseRecords], NEW p \in Phases
    PROVE  Started(p) \in [Phases -> PhaseRecords]
BY DEF Started, PhaseRecords

LEMMA BeginTypes ==
    ASSUME TypeOK, NEW command \in Commands, NEW only \in BOOLEAN, Begin(command, only)
    PROVE  TypeOK'
<1>1. run' \in Runs /\ run'.at = "next"
  BY IdleRun DEF Begin, Runs, Places
<1>2. UNCHANGED <<active, phase, ledger, tree, commits, done, clean>>
  BY DEF Begin
<1> QED BY <1>1, <1>2 DEF TypeOK

LEMMA ResumeTypes == ASSUME TypeOK, Resume PROVE TypeOK'
<1>1. active \in Phases /\ active \in 0 .. NPhases
  BY PhaseRange DEF TypeOK, Resume, Phases
<1>2. [At("commit") EXCEPT !.phase = active] \in Runs
  BY <1>1, PhaseRange DEF TypeOK, At, Runs, Places
<1>3. run' \in Runs /\ run'.phase = active /\ run'.at \in {"commit", "code"}
  BY <1>1, <1>2, CodingRun DEF TypeOK, Resume, At, Runs
<1>4. UNCHANGED <<active, phase, ledger, tree, commits, done, clean>>
  BY DEF Resume
<1> QED BY <1>1, <1>3, <1>4 DEF TypeOK

LEMMA StartPhaseTypes == ASSUME TypeOK, StartPhase PROVE TypeOK'
<1>1. PICK p \in Phases : active' = p /\ phase' = Started(p) /\ run' = Coding(p)
  BY DEF StartPhase
<1>2. run' \in Runs /\ run'.phase = p /\ run'.at = "code"
  BY <1>1, CodingRun DEF TypeOK
<1>3. phase' \in [Phases -> PhaseRecords]
  BY <1>1, StartedPhase DEF TypeOK
<1>4. UNCHANGED <<ledger, tree, commits, done, clean>>
  BY DEF StartPhase
<1> QED BY <1>1, <1>2, <1>3, <1>4, PhaseRange DEF TypeOK

LEMMA CodeTypes == ASSUME TypeOK, Code PROVE TypeOK'
<1>1. At("review") \in Runs /\ At("review").phase = run.phase /\ At("review").at = "review"
  BY DEF TypeOK, At, Runs, Places
<1>2. tree' \in Nat
  BY DEF TypeOK, Code, Edits
<1>3. commits' \in Seq([tree : Nat, phase : 0 .. NPhases])
  <2>1. [tree |-> tree', phase |-> 0] \in [tree : Nat, phase : 0 .. NPhases]
    BY <1>2, PhaseRange
  <2>2. Append(commits, [tree |-> tree', phase |-> 0]) \in Seq([tree : Nat, phase : 0 .. NPhases])
    BY <2>1 DEF TypeOK
  <2>3. commits' = commits \/ commits' = Append(commits, [tree |-> tree', phase |-> 0])
    BY DEF Code
  <2> QED BY <2>2, <2>3 DEF TypeOK
<1>4. run' = Idle \/ run' = At("review")
  BY DEF Code
<1>5. UNCHANGED <<active, phase, ledger, done, clean>> /\ run.at = "code"
  BY DEF Code
<1> QED BY <1>1, <1>2, <1>3, <1>4, <1>5, IdleRun DEF TypeOK

LEMMA ReviewTypes == ASSUME TypeOK, Review PROVE TypeOK'
<1>1. PICK ok \in BOOLEAN, issues \in SUBSET Issues :
          /\ run' = [At("settle") EXCEPT !.ok = ok, !.issues = issues, !.file = IssueFile]
          /\ ledger' = IF active = 0 THEN ledger
                       ELSE [ledger EXCEPT ![active] = @ \cup issues]
  BY DEF Review
<1>2. run.phase \in Phases /\ IssueFile \in Phases /\ IssueFile \in 0 .. NPhases
  BY PhaseRange DEF TypeOK, Review, IssueFile, Phases
<1>3. run' \in Runs /\ run'.phase = run.phase /\ run'.file = IssueFile
  BY <1>1, <1>2 DEF TypeOK, At, Runs, Places
<1>4. ledger' \in [Phases -> SUBSET Issues]
  BY <1>1 DEF TypeOK
<1>5. UNCHANGED <<active, phase, tree, commits, done, clean>>
  BY DEF Review
<1> QED BY <1>2, <1>3, <1>4, <1>5 DEF TypeOK

LEMMA SettleTypes == ASSUME TypeOK, Settle PROVE TypeOK'
<1>1. run.file \in Phases /\ run.phase \in Phases
  BY DEF TypeOK, Settle
<1>2. Settled \in SUBSET Issues
  BY <1>1 DEF TypeOK, Settled, Verified, Deferred, OpenIssues
<1>3. ledger' \in [Phases -> SUBSET Issues]
  BY <1>2 DEF TypeOK, Settle
<1>4. phase' \in [Phases -> PhaseRecords]
  BY <1>1 DEF TypeOK, Settle, PhaseRecords
<1>5. clean' \in [Phases -> Int]
  BY DEF TypeOK, Settle
<1>6. /\ run' \in Runs
      /\ run' = Idle \/ (run'.at \in {"code", "commit"} /\ run'.phase = run.phase)
  <2>1. Unsettled \in Runs /\ Unsettled.phase = run.phase
    <3>1. run \in Runs /\ {} \in SUBSET Issues /\ 0 \in 0 .. NPhases
      BY PhaseRange DEF TypeOK
    <3> QED BY <3>1 DEF Unsettled, Runs
  <2>2. NextAttempt \in Nat
    BY DEF TypeOK, NextAttempt, Runs
  <2>3. /\ [Unsettled EXCEPT !.at = "code", !.attempt = NextAttempt] \in Runs
        /\ [Unsettled EXCEPT !.at = "commit"] \in Runs
    BY <2>1, <2>2 DEF Runs, Places
  <2> QED BY <2>1, <2>3, IdleRun DEF Settle, Runs
<1>7. UNCHANGED <<active, tree, commits, done>>
  BY DEF Settle
<1> QED BY <1>1, <1>3, <1>4, <1>5, <1>6, <1>7, IdleRun DEF TypeOK

LEMMA CommitTypes == ASSUME TypeOK, Commit PROVE TypeOK'
<1>1. LastCommit \in Nat
  BY DEF TypeOK, LastCommit
<1>2. [At("committing") EXCEPT !.before = LastCommit, !.moved = FALSE] \in Runs
  BY <1>1 DEF TypeOK, At, Runs, Places
<1>3. /\ [At("committing") EXCEPT !.before = LastCommit, !.moved = FALSE].at = "committing"
      /\ [At("committing") EXCEPT !.before = LastCommit, !.moved = FALSE].phase = run.phase
  BY DEF TypeOK, At, Runs
<1>5. run' \in Runs /\ (run' = Idle \/ (run'.at = "committing" /\ run'.phase = run.phase))
  BY <1>2, <1>3, IdleRun DEF Commit
<1>4. UNCHANGED <<active, phase, ledger, tree, commits, done, clean>> /\ run.at = "commit"
  BY DEF Commit
<1> QED BY <1>4, <1>5, IdleRun DEF TypeOK

LEMMA AgentCommitsTypes == ASSUME TypeOK, AgentCommits PROVE TypeOK'
<1>1. run' \in Runs /\ run'.at = "record" /\ run'.phase = run.phase /\ run.phase \in Phases
  BY DEF TypeOK, AgentCommits, At, Runs, Places
<1>2. commits' \in Seq([tree : Nat, phase : 0 .. NPhases])
  <2>1. [tree |-> tree, phase |-> run.phase] \in [tree : Nat, phase : 0 .. NPhases]
    BY <1>1, PhaseRange DEF TypeOK
  <2>2. Append(commits, [tree |-> tree, phase |-> run.phase]) \in Seq([tree : Nat, phase : 0 .. NPhases])
    BY <2>1 DEF TypeOK
  <2>3. commits' = commits \/ commits' = Append(commits, [tree |-> tree, phase |-> run.phase])
    BY DEF AgentCommits
  <2> QED BY <2>2, <2>3 DEF TypeOK
<1>3. UNCHANGED <<active, phase, ledger, tree, done, clean>>
  BY DEF AgentCommits
<1> QED BY <1>1, <1>2, <1>3 DEF TypeOK

LEMMA RecordTypes == ASSUME TypeOK, Record PROVE TypeOK'
<1>1. run.phase \in Phases
  BY DEF TypeOK, Record
<1>2. Recorded(run.phase) \in [Phases -> PhaseRecords]
  <2>1. LastCommit \in Nat
    BY DEF TypeOK, LastCommit
  <2>2. phase[run.phase] \in PhaseRecords
    BY <1>1 DEF TypeOK
  <2>3. [phase[run.phase] EXCEPT !.status = "committed", !.commit = LastCommit,
             !.gate = IF run.command = "forced" THEN "operator-forced" ELSE "passed"]
           \in PhaseRecords
    BY <2>1, <2>2 DEF PhaseRecords
  <2>4. Recorded(run.phase) = [phase EXCEPT ![run.phase] =
           [phase[run.phase] EXCEPT !.status = "committed", !.commit = LastCommit,
             !.gate = IF run.command = "forced" THEN "operator-forced" ELSE "passed"]]
    BY <1>1 DEF TypeOK, Recorded, PhaseRecords
  <2> QED BY <1>1, <2>3, <2>4 DEF TypeOK
<1>3. run' \in Runs /\ run'.at \in {"idle", "next"}
  <2>1. [Idle EXCEPT !.at = "next", !.only = run.only] \in Runs
    BY IdleRun DEF TypeOK, Runs, Places
  <2> QED BY <2>1, IdleRun DEF Record, Runs
<1>4. phase' \in [Phases -> PhaseRecords] /\ active' \in 0 .. NPhases
  BY <1>2, PhaseRange DEF TypeOK, Record
<1>5. UNCHANGED <<ledger, tree, commits, done, clean>>
  BY DEF Record
<1> QED BY <1>3, <1>4, <1>5 DEF TypeOK

LEMMA SetPhaseTypes == ASSUME TypeOK, NEW n \in Phases, SetPhase(n) PROVE TypeOK'
<1>1. /\ run' \in Runs /\ run'.at = run.at
      /\ run'.phase = run.phase /\ run'.file = run.file
  BY DEF TypeOK, SetPhase, Runs
<1>2. phase' \in [Phases -> PhaseRecords]
  BY DEF TypeOK, SetPhase, PhaseRecords
<1>3. active' \in 0 .. NPhases
  BY PhaseRange DEF SetPhase
<1>4. UNCHANGED <<ledger, tree, commits, done, clean>>
  BY DEF SetPhase
<1> QED BY <1>1, <1>2, <1>3, <1>4 DEF TypeOK

LEMMA InteractiveTypes == ASSUME TypeOK, Interactive PROVE TypeOK'
<1>1. tree' \in Nat
  BY DEF TypeOK, Interactive, Edits
<1>2. phase' \in [Phases -> PhaseRecords] /\ active' \in 0 .. NPhases
  BY StartedPhase, PhaseRange DEF TypeOK, Interactive
<1>3. UNCHANGED <<ledger, commits, done, run, clean>>
  BY DEF Interactive
<1> QED BY <1>1, <1>2, <1>3 DEF TypeOK

LEMMA TypeStep == ASSUME TypeOK, [Next]_vars PROVE TypeOK'
<1>1. CASE UNCHANGED vars
  BY <1>1 DEF vars, TypeOK
<1>2. CASE Complete
  BY <1>2, IdleRun DEF Complete, TypeOK
<1>3. CASE NothingToForce \/ Killed
  BY <1>3, EndTypes DEF NothingToForce, Killed
<1>4. CASE Resume \/ StartPhase \/ Code \/ Review \/ Settle
  BY <1>4, ResumeTypes, StartPhaseTypes, CodeTypes, ReviewTypes, SettleTypes
<1>5. CASE Commit \/ AgentCommits \/ Record \/ Interactive
  BY <1>5, CommitTypes, AgentCommitsTypes, RecordTypes, InteractiveTypes
<1>6. CASE \E n \in Phases : SetPhase(n)
  BY <1>6, SetPhaseTypes
<1>7. CASE \E command \in Commands, only \in BOOLEAN : Begin(command, only)
  BY <1>7, BeginTypes
<1> QED BY <1>1, <1>2, <1>3, <1>4, <1>5, <1>6, <1>7, Zenon DEF Next, RunStep

LEMMA TypeInit == Init => TypeOK
<1> SUFFICES ASSUME Init PROVE TypeOK
  OBVIOUS
<1>1. <<[tree |-> 0, phase |-> 0]>> \in Seq([tree : Nat, phase : 0 .. NPhases])
  BY PhaseRange
<1>2. phase \in [Phases -> PhaseRecords]
  BY DEF Init, PhaseRecords
<1>3. run \in Runs /\ run.at = "idle"
  BY IdleRun DEF Init
<1>4. clean \in [Phases -> Int] /\ ledger \in [Phases -> SUBSET Issues]
  BY DEF Init
<1>5. commits \in Seq([tree : Nat, phase : 0 .. NPhases])
  BY <1>1, Zenon DEF Init
<1>6. active \in 0 .. NPhases /\ tree \in Nat
  BY PhaseRange DEF Init
<1>7. done \in BOOLEAN
  BY Zenon DEF Init
<1> QED BY <1>2, <1>3, <1>4, <1>5, <1>6, <1>7, Zenon DEF TypeOK

\* The status file, the ledgers, the repository and the command keep their
\* shapes for any number of phases, issues and attempts.
THEOREM PhaseLoopTypes == Spec => []TypeOK
BY TypeInit, TypeStep, PTL DEF Spec

-----------------------------------------------------------------------------
\* The rest of the invariant, action by action.

\* What is recorded depends on neither the command nor the ledgers.
Recorded3 == PassedCommitsAreReviewed /\ RecordedFromOwnPass /\ EarlierPhasesDone

LEMMA RecordedKept ==
    ASSUME Inv, UNCHANGED <<active, phase, commits, clean>>
    PROVE  Recorded3'
BY DEF Inv, Recorded3, PassedCommitsAreReviewed, RecordedFromOwnPass, EarlierPhasesDone, LastCommit

\* One more commit changes none of those before it.
LEMMA AppendKeeps ==
    ASSUME TypeOK, NEW c \in [tree : Nat, phase : 0 .. NPhases], commits' = Append(commits, c)
    PROVE  /\ LastCommit' = LastCommit + 1
           /\ \A i \in 1 .. LastCommit : commits'[i] = commits[i]
           /\ commits'[LastCommit'] = c
BY DEF TypeOK, LastCommit

LEMMA RecordedGrows ==
    ASSUME Inv, NEW c \in [tree : Nat, phase : 0 .. NPhases], commits' = Append(commits, c),
           UNCHANGED <<active, phase, clean>>
    PROVE  Recorded3'
<1>1. /\ LastCommit' = LastCommit + 1 /\ LastCommit \in Nat
      /\ \A i \in 1 .. LastCommit : commits'[i] = commits[i]
  BY AppendKeeps DEF Inv, TypeOK, LastCommit
<1>2. RecordedFromOwnPass'
  <2> SUFFICES ASSUME NEW p \in Phases, phase[p].commit # 0
               PROVE  /\ phase[p].commit \in 1 .. LastCommit'
                      /\ commits'[phase[p].commit].phase = p
    BY DEF RecordedFromOwnPass
  <2>1. phase[p].commit \in 1 .. LastCommit /\ commits[phase[p].commit].phase = p
    BY DEF Inv, RecordedFromOwnPass
  <2>2. phase[p].commit \in 1 .. LastCommit'
    BY <1>1, <2>1
  <2> QED BY <1>1, <2>1, <2>2
<1>3. PassedCommitsAreReviewed'
  <2> SUFFICES ASSUME NEW p \in Phases, phase[p].status = "committed", phase[p].gate = "passed"
               PROVE  commits'[phase[p].commit].tree = clean[p]
    BY DEF PassedCommitsAreReviewed
  <2>1. phase[p].commit \in 1 .. LastCommit
    BY DEF Inv, HistoryInv, RecordedFromOwnPass
  <2> QED BY <1>1, <2>1 DEF Inv, PassedCommitsAreReviewed
<1> QED BY <1>2, <1>3 DEF Inv, Recorded3, EarlierPhasesDone

\* A command that has ended, or has just begun, asks nothing of the rest.
LEMMA RestingInv ==
    ASSUME Inv, TypeOK', Recorded3', run'.at \in {"idle", "next"},
           LastCommit' >= 1, (active # 0 => phase[active].status = "active")',
           (\A p \in Phases : phase[p].status = "committed" => phase[p].commit # 0)'
    PROVE  Inv'
BY DEF Inv, Recorded3, HistoryInv, ReviewInv, OwnInv, PassingOpensGate, AtWork

LEMMA BeginInv ==
    ASSUME Inv, TypeOK', UNCHANGED <<active, phase, commits, clean>>,
           run'.at \in {"idle", "next"}
    PROVE  Inv'
<1>1. Recorded3'
  BY RecordedKept
<1>2. LastCommit' >= 1 /\ (active # 0 => phase[active].status = "active")'
  BY DEF Inv, HistoryInv, ReviewInv, LastCommit
<1>3. (\A p \in Phases : phase[p].status = "committed" => phase[p].commit # 0)'
  BY DEF Inv, HistoryInv
<1> QED BY <1>1, <1>2, <1>3, RestingInv

LEMMA ResumeInv == ASSUME Inv, TypeOK', Resume PROVE Inv'
<1>1. /\ run'.phase = active /\ run'.at \in {"commit", "code"} /\ active # 0
      /\ run'.at = "commit" => run'.command = "forced"
  BY DEF Inv, TypeOK, Resume, Coding, At, Runs
<1>2. Recorded3'
  BY RecordedKept DEF Resume
<1>3. UNCHANGED <<active, phase, ledger, tree, commits, clean>> /\ LastCommit' = LastCommit
  BY DEF Resume, LastCommit
<1>4. HistoryInv'
  BY <1>1, <1>3 DEF Inv, HistoryInv
<1>5. ReviewInv'
  BY <1>1, <1>3 DEF Inv, ReviewInv, AtWork
<1>6. OwnInv' /\ PassingOpensGate'
  BY <1>1, <1>3 DEF OwnInv, PassingOpensGate, AtWork
<1> QED BY <1>2, <1>4, <1>5, <1>6 DEF Inv, Recorded3

\* Starting the first uncommitted phase: every earlier one is done.
LEMMA StartedRecorded ==
    ASSUME Inv, NEW p \in Phases, IsFirst(p), active' = p, phase' = Started(p),
           UNCHANGED <<commits, clean>>
    PROVE  /\ Recorded3'
           /\ (\A q \in Phases : phase[q].status = "committed" => phase[q].commit # 0)'
           /\ phase'[p].status = "active"
<1>1. /\ phase'[p].status = "active"
      /\ \A q \in Phases : phase'[q].commit = phase[q].commit /\ phase'[q].gate = phase[q].gate
      /\ \A q \in Phases : q # p => phase'[q] = phase[q]
  BY DEF Inv, TypeOK, Started, PhaseRecords
<1>2. RecordedFromOwnPass' /\ PassedCommitsAreReviewed'
  BY <1>1 DEF Inv, RecordedFromOwnPass, PassedCommitsAreReviewed, LastCommit
<1>3. EarlierPhasesDone'
  <2> SUFFICES ASSUME NEW q \in 1 .. (p - 1)
               PROVE  phase'[q].status \in {"committed", "operator-skipped"}
    BY DEF EarlierPhasesDone
  <2>1. q \in Phases /\ ~(p <= q) /\ q # p
    BY PhaseRange DEF Phases
  <2> QED BY <1>1, <2>1 DEF IsFirst, Uncommitted
<1> QED BY <1>1, <1>2, <1>3 DEF Inv, HistoryInv, Recorded3

LEMMA StartPhaseInv == ASSUME Inv, TypeOK', StartPhase PROVE Inv'
<1>1. PICK p \in Phases : IsFirst(p) /\ active' = p /\ phase' = Started(p) /\ run' = Coding(p)
  BY DEF StartPhase
<1>2. run'.phase = p /\ run'.at = "code"
  BY <1>1, CodingRun DEF Inv, TypeOK
<1>3. UNCHANGED <<ledger, tree, commits, clean>> /\ LastCommit' = LastCommit
  BY DEF StartPhase, LastCommit
<1>4. Recorded3' /\ (\A q \in Phases : phase[q].status = "committed" => phase[q].commit # 0)'
      /\ phase'[p].status = "active"
  BY <1>1, <1>3, StartedRecorded
<1>5. p # 0 /\ active' = p
  BY <1>1, PhaseRange DEF Phases
<1>6. HistoryInv' /\ ReviewInv' /\ OwnInv' /\ PassingOpensGate'
  BY <1>2, <1>3, <1>4, <1>5 DEF Inv, HistoryInv, ReviewInv, OwnInv, PassingOpensGate, AtWork
<1> QED BY <1>4, <1>6 DEF Inv, Recorded3

LEMMA CodeInv == ASSUME Inv, TypeOK', Code PROVE Inv'
<1>1. /\ run' = Idle \/ run' = At("review")
      /\ commits' = commits \/ commits' = Append(commits, [tree |-> tree', phase |-> 0])
      /\ UNCHANGED <<active, phase, ledger, clean>> /\ run.at = "code"
  BY DEF Code
<1>2. [tree |-> tree', phase |-> 0] \in [tree : Nat, phase : 0 .. NPhases]
  BY PhaseRange DEF TypeOK
<1>3. Recorded3'
  BY <1>1, <1>2, RecordedKept, RecordedGrows
<1>4. LastCommit' >= 1
  BY <1>1, <1>2, AppendKeeps DEF Inv, HistoryInv, LastCommit, TypeOK
<1>5. CASE run' = Idle
  BY <1>1, <1>3, <1>4, <1>5, IdleRun, RestingInv DEF Inv, HistoryInv, ReviewInv
<1>6. CASE run' = At("review")
  <2>1. run'.at = "review" /\ run'.phase = run.phase /\ run'.moved = run.moved
    BY <1>6 DEF Inv, TypeOK, At, Runs
  <2>2. HistoryInv' /\ ReviewInv' /\ OwnInv' /\ PassingOpensGate'
    BY <1>1, <1>4, <2>1 DEF Inv, HistoryInv, ReviewInv, OwnInv, PassingOpensGate, AtWork
  <2> QED BY <1>3, <2>2 DEF Inv, Recorded3
<1> QED BY <1>1, <1>5, <1>6

LEMMA ReviewStepInv == ASSUME Inv, TypeOK', Review PROVE Inv'
<1>1. PICK ok \in BOOLEAN, issues \in SUBSET Issues :
          /\ run' = [At("settle") EXCEPT !.ok = ok, !.issues = issues, !.file = IssueFile]
          /\ ledger' = IF active = 0 THEN ledger
                       ELSE [ledger EXCEPT ![active] = @ \cup issues]
  BY DEF Review
<1>2. /\ run'.at = "settle" /\ run'.phase = run.phase /\ run'.moved = run.moved
      /\ run'.file = IssueFile /\ run'.issues = issues
  BY <1>1 DEF Inv, TypeOK, At, Runs
<1>3. UNCHANGED <<active, phase, tree, commits, clean>> /\ run.at = "review" /\ LastCommit' = LastCommit
  BY DEF Review, LastCommit
<1>4. active # 0 /\ active \in Phases
  BY <1>3, PhaseRange DEF Inv, ReviewInv, AtWork, TypeOK, Phases
<1>5. issues \subseteq ledger'[active] /\ IssueFile = active
  BY <1>1, <1>4 DEF Inv, TypeOK, IssueFile
<1>6. Recorded3'
  BY <1>3, RecordedKept
<1>7. HistoryInv' /\ ReviewInv' /\ OwnInv' /\ PassingOpensGate'
  BY <1>2, <1>3, <1>4, <1>5 DEF Inv, HistoryInv, ReviewInv, OwnInv, PassingOpensGate, AtWork
<1> QED BY <1>6, <1>7 DEF Inv, Recorded3

\* A review that passes reported no blocking issue of the contents it saw.
LEMMA PassedIsClean ==
    ASSUME Inv, run.at = "settle", Outcome = "passed"
    PROVE  FoundClean
<1>1. ~Unreviewed /\ OpenIssues(Settled, run.only) = {}
  BY DEF Outcome
<1>2. run.issues \subseteq ledger[run.file]
  BY DEF Inv, ReviewInv
<1>3. run.issues \cap Blocking(run.only) \subseteq OpenIssues(Settled, run.only)
  BY <1>2, PhaseAssumption DEF Settled, Verified, Deferred, OpenIssues, Blocking
<1> QED BY <1>1, <1>3 DEF FoundClean, Unreviewed

\* What a passing review leaves open does not block the gate.
LEMMA PassedOpensNothing ==
    ASSUME Outcome = "passed"
    PROVE  OpenIssues(Settled, FALSE) = {}
<1>1. OpenIssues(Settled, run.only) = {}
  BY DEF Outcome
<1>2. CASE run.only
  BY <1>1, <1>2 DEF Settled, Verified, Deferred, OpenIssues, Blocking
<1>3. CASE ~run.only
  BY <1>1, <1>3 DEF OpenIssues, Blocking
<1> QED BY <1>2, <1>3

LEMMA SettleInv == ASSUME Inv, TypeOK', Settle PROVE Inv'
<1>1. /\ run.at = "settle" /\ run.phase \in Phases /\ run.file \in Phases /\ active # 0
      /\ UNCHANGED <<active, tree, commits>> /\ LastCommit' = LastCommit
      /\ ledger' = [ledger EXCEPT ![run.file] = Settled]
  BY DEF Inv, TypeOK, ReviewInv, AtWork, Settle, LastCommit
<1>2. /\ \A p \in Phases : /\ phase'[p].status = phase[p].status
                           /\ phase'[p].gate = phase[p].gate
                           /\ phase'[p].commit = phase[p].commit
      /\ Outcome = "passed" => phase'[run.phase].passed
  BY <1>1 DEF Inv, TypeOK, Settle, PhaseRecords
<1>3. /\ \A p \in Phases : p # run.phase => clean'[p] = clean[p]
      /\ Outcome = "passed" => clean'[run.phase] = tree
  BY <1>1, PassedIsClean DEF Inv, TypeOK, Settle
<1>4. phase[run.phase].status # "committed"
  BY <1>1 DEF Inv, ReviewInv, AtWork
<1>5. Recorded3'
  <2>1. PassedCommitsAreReviewed'
    BY <1>1, <1>2, <1>3, <1>4 DEF Inv, PassedCommitsAreReviewed
  <2>2. RecordedFromOwnPass'
    BY <1>1, <1>2 DEF Inv, RecordedFromOwnPass
  <2>3. EarlierPhasesDone'
    <3>1. \A p \in 1 .. (active - 1) : p \in Phases
      BY PhaseRange DEF Inv, TypeOK, Phases
    <3> QED BY <1>1, <1>2, <3>1 DEF Inv, EarlierPhasesDone
  <2> QED BY <2>1, <2>2, <2>3 DEF Recorded3
<1>6. /\ LastCommit' >= 1
      /\ (\A p \in Phases : phase[p].status = "committed" => phase[p].commit # 0)'
      /\ (active # 0 => phase[active].status = "active")'
  <2>1. active \in Phases
    BY <1>1, PhaseRange DEF Inv, TypeOK, Phases
  <2> QED BY <1>1, <1>2, <2>1 DEF Inv, HistoryInv, ReviewInv
<1>7. CASE run' = Idle
  BY <1>5, <1>6, <1>7, IdleRun, RestingInv
<1>8. CASE Outcome = "again"
  <2>1. run'.at = "code" /\ run'.phase = run.phase /\ run'.moved = run.moved
    BY <1>8 DEF Inv, TypeOK, Settle, Unsettled, Runs
  <2>2. HistoryInv' /\ ReviewInv' /\ OwnInv' /\ PassingOpensGate'
    BY <1>1, <1>2, <1>4, <1>6, <2>1 DEF Inv, HistoryInv, ReviewInv, OwnInv, PassingOpensGate, AtWork
  <2> QED BY <1>5, <2>2 DEF Inv, Recorded3
<1>9. CASE Outcome = "passed" /\ run.command = "automated"
  <2>1. /\ run'.at = "commit" /\ run'.phase = run.phase /\ run'.moved = run.moved
        /\ run'.command = run.command
    BY <1>9 DEF Inv, TypeOK, Settle, Unsettled, Runs
  <2>2. HistoryInv' /\ ReviewInv' /\ OwnInv'
    BY <1>1, <1>2, <1>3, <1>4, <1>6, <1>9, <2>1 DEF Inv, HistoryInv, ReviewInv, OwnInv, AtWork
  <2>3. ~run.moved => CommitGate'
    <3> SUFFICES ASSUME ~run.moved PROVE CommitGate'
      OBVIOUS
    <3>1. run.phase = active /\ run.file = active
      BY <1>1 DEF Inv, OwnInv, AtWork
    <3>2. ledger'[active] = Settled
      BY <1>1, <3>1 DEF Inv, TypeOK
    <3> QED BY <1>1, <1>2, <1>9, <3>1, <3>2, PassedOpensNothing DEF CommitGate
  <2> QED BY <1>5, <2>1, <2>2, <2>3 DEF Inv, Recorded3, PassingOpensGate
<1> QED BY <1>7, <1>8, <1>9 DEF Settle

LEMMA CommitInv == ASSUME Inv, TypeOK', Commit PROVE Inv'
<1>1. /\ UNCHANGED <<active, phase, ledger, tree, commits, clean>> /\ run.at = "commit"
      /\ LastCommit' = LastCommit
  BY DEF Commit, LastCommit
<1>2. CASE run' = Idle
  BY <1>1, <1>2, IdleRun, BeginInv
<1>3. CASE run' = [At("committing") EXCEPT !.before = LastCommit, !.moved = FALSE]
  <2>1. /\ run'.at = "committing" /\ run'.phase = run.phase /\ run'.command = run.command
        /\ run'.before = LastCommit
    BY <1>3 DEF Inv, TypeOK, At, Runs
  <2>2. HistoryInv' /\ ReviewInv' /\ OwnInv' /\ PassingOpensGate'
    BY <1>1, <2>1 DEF Inv, HistoryInv, ReviewInv, OwnInv, PassingOpensGate, AtWork
  <2> QED BY <1>1, <2>2, RecordedKept DEF Inv, Recorded3
<1> QED BY <1>2, <1>3 DEF Commit

LEMMA AgentCommitsInv == ASSUME Inv, TypeOK', AgentCommits PROVE Inv'
<1>1. /\ commits' = commits \/ commits' = Append(commits, [tree |-> tree, phase |-> run.phase])
      /\ UNCHANGED <<active, phase, ledger, tree, clean>> /\ run.at = "committing"
  BY DEF AgentCommits
<1>2. [tree |-> tree, phase |-> run.phase] \in [tree : Nat, phase : 0 .. NPhases]
  BY <1>1, PhaseRange DEF Inv, TypeOK
<1>3. Recorded3'
  BY <1>1, <1>2, RecordedKept, RecordedGrows
<1>4. /\ run'.at = "record" /\ run'.phase = run.phase /\ run'.command = run.command
      /\ run'.before = LastCommit
  BY <1>1 DEF Inv, HistoryInv, TypeOK, AgentCommits, At, Runs
<1>5. /\ LastCommit' >= 1
      /\ NewCommit' => (commits'[LastCommit'].phase = run.phase /\ commits'[LastCommit'].tree = tree)
  <2>1. LastCommit >= 1 /\ LastCommit \in Nat /\ TypeOK
    BY DEF Inv, HistoryInv, LastCommit, TypeOK
  <2>2. CASE commits' = commits
    BY <1>4, <2>1, <2>2 DEF NewCommit, LastCommit
  <2>3. CASE commits' = Append(commits, [tree |-> tree, phase |-> run.phase])
    <3> DEFINE c == [tree |-> tree, phase |-> run.phase]
    <3>1. c.phase = run.phase /\ c.tree = tree
      OBVIOUS
    <3>2. LastCommit' = LastCommit + 1 /\ commits'[LastCommit'] = c
      BY <1>2, <2>1, <2>3, AppendKeeps
    <3> QED BY <2>1, <3>1, <3>2
  <2> QED BY <1>1, <2>2, <2>3
<1>6. HistoryInv' /\ ReviewInv' /\ OwnInv' /\ PassingOpensGate'
  BY <1>1, <1>4, <1>5 DEF Inv, HistoryInv, ReviewInv, OwnInv, PassingOpensGate, AtWork
<1> QED BY <1>3, <1>6 DEF Inv, Recorded3

LEMMA RecordInv == ASSUME Inv, TypeOK', Record PROVE Inv'
<1>1. /\ UNCHANGED <<ledger, tree, commits, clean>> /\ run.at = "record" /\ LastCommit' = LastCommit
      /\ run.phase \in Phases /\ LastCommit >= 1 /\ LastCommit \in Nat
  BY DEF Record, LastCommit, Inv, TypeOK, HistoryInv
<1>2. CASE run' = Idle /\ UNCHANGED <<active, phase>>
  BY <1>1, <1>2, IdleRun, BeginInv
<1>3. CASE NewCommit /\ phase' = Recorded(run.phase) /\ active' = 0
  <2>1. /\ \A p \in Phases : p # run.phase => phase'[p] = phase[p]
        /\ phase'[run.phase].status = "committed" /\ phase'[run.phase].commit = LastCommit
        /\ phase'[run.phase].gate = IF run.command = "forced" THEN "operator-forced" ELSE "passed"
    BY <1>1, <1>3 DEF Inv, TypeOK, Recorded, PhaseRecords
  <2>2. commits[LastCommit].phase = run.phase /\ commits[LastCommit].tree = tree
    BY <1>1, <1>3 DEF Inv, HistoryInv
  <2>3. run.command # "forced" => clean[run.phase] = tree
    BY <1>1 DEF Inv, ReviewInv, TypeOK, Runs, Commands
  <2>4. RecordedFromOwnPass'
    BY <1>1, <2>1, <2>2 DEF Inv, RecordedFromOwnPass
  <2>5. PassedCommitsAreReviewed'
    BY <1>1, <2>1, <2>2, <2>3 DEF Inv, PassedCommitsAreReviewed
  <2>6. EarlierPhasesDone' /\ run'.at \in {"idle", "next"}
    <3>1. run'.at \in {"idle", "next"}
      BY IdleRun DEF Record, Idle
    <3> QED BY <1>3, <3>1 DEF EarlierPhasesDone
  <2>7. (\A p \in Phases : phase[p].status = "committed" => phase[p].commit # 0)'
    BY <1>1, <2>1 DEF Inv, HistoryInv
  <2> QED BY <1>1, <1>3, <2>4, <2>5, <2>6, <2>7, RestingInv DEF Recorded3
<1> QED BY <1>2, <1>3 DEF Record

LEMMA SetPhaseInv == ASSUME Inv, TypeOK', NEW n \in Phases, SetPhase(n) PROVE Inv'
<1>1. /\ active' = n /\ UNCHANGED <<ledger, tree, commits, clean>> /\ LastCommit' = LastCommit
      /\ n # 0
  BY PhaseRange DEF SetPhase, LastCommit, Phases
<1>2. /\ run'.at = run.at /\ run'.phase = run.phase /\ run'.command = run.command
      /\ run'.before = run.before /\ run'.file = run.file /\ run'.issues = run.issues
      /\ run.at # "idle" => run'.moved
  BY DEF Inv, TypeOK, SetPhase, Runs
<1>3. /\ phase'[n].status = "active"
      /\ \A p \in Phases : /\ phase'[p].gate = phase[p].gate
                           /\ phase'[p].commit = phase[p].commit
                           /\ phase'[p].status = "committed" => phase[p].status = "committed"
                           /\ p < n => phase'[p].status \in {"committed", "operator-skipped"}
  BY PhaseRange DEF Inv, TypeOK, SetPhase, PhaseRecords, Skipped, Phases
<1>4. RecordedFromOwnPass' /\ PassedCommitsAreReviewed'
  BY <1>1, <1>3 DEF Inv, RecordedFromOwnPass, PassedCommitsAreReviewed
<1>5. EarlierPhasesDone'
  <2>1. \A p \in 1 .. (n - 1) : p \in Phases /\ p < n
    BY PhaseRange DEF Phases
  <2> QED BY <1>1, <1>3, <2>1 DEF EarlierPhasesDone
<1>6. HistoryInv'
  <2>1. (\A p \in Phases : phase[p].status = "committed" => phase[p].commit # 0)'
    BY <1>3 DEF Inv, HistoryInv
  <2>2. NewCommit' = NewCommit
    BY <1>1, <1>2 DEF NewCommit
  <2> QED BY <1>1, <1>2, <2>1, <2>2 DEF Inv, HistoryInv
<1>7. ReviewInv'
  <2>1. AtWork => phase'[run.phase].status # "committed"
    BY <1>3 DEF Inv, ReviewInv, AtWork, TypeOK
  <2>2. AtWork' <=> AtWork
    BY <1>2 DEF AtWork
  <2> QED BY <1>1, <1>2, <1>3, <2>1, <2>2 DEF Inv, ReviewInv
<1>8. OwnInv' /\ PassingOpensGate'
  BY <1>2 DEF OwnInv, PassingOpensGate, AtWork
<1> QED BY <1>4, <1>5, <1>6, <1>7, <1>8 DEF Inv

LEMMA InteractiveInv == ASSUME Inv, TypeOK', Interactive PROVE Inv'
<1>1. /\ UNCHANGED <<ledger, commits, run, clean>> /\ run.at = "idle" /\ LastCommit' = LastCommit
  BY DEF Interactive, LastCommit
<1>2. CASE UNCHANGED <<active, phase>>
  BY <1>1, <1>2, BeginInv
<1>3. CASE \E p \in Phases : IsFirst(p) /\ active' = p /\ phase' = Started(p)
  BY <1>1, <1>3, StartedRecorded, RestingInv DEF Inv, HistoryInv
<1> QED BY <1>2, <1>3 DEF Interactive

\* The invariant holds at the start and every step keeps it.
LEMMA InvStep == ASSUME Inv, [Next]_vars PROVE Inv'
<1>1. TypeOK'
  BY TypeStep DEF Inv
<1>2. CASE UNCHANGED vars
  <2>1. Recorded3'
    BY <1>2, RecordedKept DEF vars
  <2>2. HistoryInv' /\ ReviewInv' /\ OwnInv' /\ PassingOpensGate'
    BY <1>2 DEF vars, Inv, HistoryInv, ReviewInv, OwnInv, PassingOpensGate, AtWork, NewCommit,
                CommitGate, LastCommit
  <2> QED BY <1>1, <2>1, <2>2 DEF Inv, Recorded3
<1>3. CASE Complete \/ NothingToForce \/ Killed
  BY <1>1, <1>3, IdleRun, BeginInv DEF Complete, NothingToForce, Killed
<1>4. CASE \E command \in Commands, only \in BOOLEAN : Begin(command, only)
  BY <1>1, <1>4, BeginInv DEF Begin, Idle
<1>5. CASE Resume \/ StartPhase \/ Code \/ Review \/ Settle
  BY <1>1, <1>5, ResumeInv, StartPhaseInv, CodeInv, ReviewStepInv, SettleInv
<1>6. CASE Commit \/ AgentCommits \/ Record \/ Interactive
  BY <1>1, <1>6, CommitInv, AgentCommitsInv, RecordInv, InteractiveInv
<1>7. CASE \E n \in Phases : SetPhase(n)
  BY <1>1, <1>7, SetPhaseInv
<1> QED BY <1>2, <1>3, <1>4, <1>5, <1>6, <1>7, Zenon DEF Next, RunStep

LEMMA InvInit == Init => Inv
<1> SUFFICES ASSUME Init PROVE Inv
  OBVIOUS
<1>1. TypeOK
  BY TypeInit
<1>2. /\ run.at = "idle" /\ active = 0 /\ LastCommit = 1
      /\ \A p \in Phases : phase[p].status = "planned" /\ phase[p].commit = 0
  BY IdleRun DEF Init, LastCommit
<1>3. HistoryInv /\ ReviewInv /\ OwnInv /\ PassingOpensGate
  BY <1>2 DEF HistoryInv, ReviewInv, OwnInv, PassingOpensGate, AtWork
<1>4. PassedCommitsAreReviewed /\ RecordedFromOwnPass /\ EarlierPhasesDone
  BY <1>2 DEF PassedCommitsAreReviewed, RecordedFromOwnPass, EarlierPhasesDone
<1> QED BY <1>1, <1>3, <1>4 DEF Inv

LEMMA InvAlways == Spec => []Inv
BY InvInit, InvStep, PTL DEF Spec

\* A phase committed through the gate is what a review of it found clean.
THEOREM PassedAreReviewed == Spec => []PassedCommitsAreReviewed
<1>1. Inv => PassedCommitsAreReviewed
  BY DEF Inv
<1> QED BY <1>1, InvAlways, PTL

\* A recorded commit comes from the commit pass of its phase.
THEOREM RecordedFromPass == Spec => []RecordedFromOwnPass
<1>1. Inv => RecordedFromOwnPass
  BY DEF Inv
<1> QED BY <1>1, InvAlways, PTL

\* Every phase before the active one is committed or skipped.
THEOREM EarlierDone == Spec => []EarlierPhasesDone
<1>1. Inv => EarlierPhasesDone
  BY DEF Inv
<1> QED BY <1>1, InvAlways, PTL

\* A review that passes leaves nothing that holds the commit gate.
THEOREM PassingOpens == Spec => []PassingOpensGate
<1>1. Inv => PassingOpensGate
  BY DEF Inv
<1> QED BY <1>1, InvAlways, PTL
=============================================================================
