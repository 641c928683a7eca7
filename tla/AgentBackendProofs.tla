------------------------- MODULE AgentBackendProofs -------------------------
(***************************************************************************)
(* For any number of contexts, sessions, jobs and backends, and whether or *)
(* not agents can be stopped: the agents that the service knows run on the *)
(* selected backend, and a revision names one backend.                     *)
(*                                                                         *)
(* Neither is inductive.  The first needs to know, during a switch that    *)
(* did not fail so far, that what still runs is still on its list, and     *)
(* that nothing captured before can start; the second that what the        *)
(* current revision names is the selected backend.                         *)
(***************************************************************************)
EXTENDS AgentBackend, TLAPS

\* A session or a job captured revision r and backend b.
Names(r, b) ==
    \/ \E s \in Sessions :
          session[s].state # "new" /\ session[s].revision = r /\ session[s].backend = b
    \/ \E j \in Jobs :
          job[j].state # "new" /\ job[j].revision = r /\ job[j].backend = b

\* What was captured is not newer than the revision, older during a switch,
\* and of the selected backend when it is current.
NamesPast ==
    \A r, b : Names(r, b) => /\ r \in Nat
                             /\ r <= revision
                             /\ switch.on => r # revision
                             /\ r = revision => b = selected

NamesAgree == \A r, b, c : Names(r, b) /\ Names(r, c) => b = c

\* A switch that did not fail so far has everything on its list that runs.
SwitchKnows ==
    switch.on /\ ~switch.failed =>
        /\ \A s \in Listed : Running(s) => s \in switch.stopping
        /\ \A j \in Jobs : job[j].state = "running" => j \in switch.waiting

Inv == TypeOK /\ NamesPast /\ NamesAgree /\ SwitchKnows /\ KnownAgentsOfSelected

-----------------------------------------------------------------------------
\* Type correctness.

LEMMA CapturedType ==
    ASSUME TypeOK
    PROVE  /\ Captured("prepared") \in SessionRecords
           /\ Captured("queued") \in JobRecords
BY BackendAssumption DEF TypeOK, Captured, SessionRecords, JobRecords, Bound

LEMMA TerminatedType ==
    ASSUME TypeOK, NEW s \in Sessions, Terminated(s)
    PROVE  /\ session' \in [Sessions -> SessionRecords]
           /\ \A u \in Sessions :
                 /\ session'[u].revision = session[u].revision
                 /\ session'[u].backend = session[u].backend
                 /\ session[u].state = "new" <=> session'[u].state = "new"
                 /\ session'[u].state = "running" => session[u].state = "running"
                 /\ u # s => session'[u] = session[u]
<1>1. CASE session' = [session EXCEPT ![s].state = IF @ = "running" THEN "ended" ELSE @]
  BY <1>1 DEF TypeOK, SessionRecords, Bound
<1>2. CASE UNCHANGED session
  BY <1>2 DEF TypeOK
<1> QED
  BY <1>1, <1>2 DEF Terminated

LEMMA TypeInit == Init => TypeOK
BY BackendAssumption DEF Init, TypeOK, NotSwitching, SessionRecords, JobRecords, Bound

LEMMA SessionTypeStep ==
    ASSUME TypeOK, NEW s \in Sessions,
           \/ \E c \in Contexts : Prepare(s, c)
           \/ Start(s) \/ StartFails(s) \/ Exit(s) \/ StopCleared(s)
    PROVE  TypeOK'
<1>1. ASSUME NEW c \in Contexts, Prepare(s, c) PROVE TypeOK'
  BY <1>1, CapturedType DEF Prepare, TypeOK
<1>2. CASE Start(s)
  BY <1>2 DEF Start, TypeOK, SessionRecords, Bound
<1>3. CASE StartFails(s)
  BY <1>3 DEF StartFails, TypeOK, SessionRecords, Bound
<1>4. CASE Exit(s)
  BY <1>4 DEF Exit, TypeOK, SessionRecords, Bound
<1>5. CASE StopCleared(s)
  BY <1>5, TerminatedType DEF StopCleared, TypeOK
<1> QED
  BY <1>1, <1>2, <1>3, <1>4, <1>5

LEMMA ContextTypeStep ==
    ASSUME TypeOK, NEW c \in Contexts,
           \/ BeginOpen(c) \/ BeginDeactivate(c) \/ FinishReset(c)
           \/ BeginClose(c) \/ FinishClose(c) \/ ClearWorkspace(c)
    PROVE  TypeOK'
<1>1. CASE BeginOpen(c)
  BY <1>1 DEF BeginOpen, TypeOK
<1>2. CASE BeginDeactivate(c)
  <2>1. table[c] \in Sessions
    BY <1>2 DEF BeginDeactivate, TypeOK
  <2> QED
    BY <1>2, <2>1, TerminatedType DEF BeginDeactivate, TypeOK
<1>3. CASE FinishReset(c)
  BY <1>3 DEF FinishReset, TypeOK
<1>4. CASE BeginClose(c)
  <2>1. table[c] \in Sessions
    BY <1>4 DEF BeginClose, TypeOK
  <2> QED
    BY <1>4, <2>1, TerminatedType DEF BeginClose, TypeOK
<1>5. CASE FinishClose(c)
  BY <1>5 DEF FinishClose, TypeOK
<1>6. CASE ClearWorkspace(c)
  BY <1>6 DEF ClearWorkspace, TypeOK
<1> QED
  BY <1>1, <1>2, <1>3, <1>4, <1>5, <1>6

LEMMA JobTypeStep ==
    ASSUME TypeOK, NEW j \in Jobs,
           Queue(j) \/ MakeRuntime(j) \/ Invoke(j) \/ InvocationEnds(j) \/ JobRefused(j)
    PROVE  TypeOK'
<1>1. CASE Queue(j)
  BY <1>1, CapturedType DEF Queue, TypeOK
<1>2. CASE MakeRuntime(j)
  BY <1>2 DEF MakeRuntime, TypeOK, JobRecords, Bound
<1>3. CASE Invoke(j)
  BY <1>3 DEF Invoke, TypeOK, JobRecords, Bound
<1>4. CASE InvocationEnds(j)
  <2>1. PICK state \in {"queued", "ended"} : job' = [job EXCEPT ![j].state = state]
    BY <1>4 DEF InvocationEnds
  <2> QED
    BY <1>4, <2>1 DEF InvocationEnds, TypeOK, JobRecords, Bound
<1>5. CASE JobRefused(j)
  BY <1>5 DEF JobRefused, TypeOK, JobRecords, Bound
<1> QED
  BY <1>1, <1>2, <1>3, <1>4, <1>5

LEMMA SwitchTypeStep ==
    ASSUME TypeOK, (\E b \in Backends : BeginSwitch(b)) \/ SwitchStep
    PROVE  TypeOK'
<1>1. ASSUME NEW b \in Backends, BeginSwitch(b) PROVE TypeOK'
  <2>1. Listed \subseteq Sessions
    BY DEF TypeOK, Listed
  <2>2. revision' \in 0..MaxRevision
    BY <1>1, BackendAssumption DEF BeginSwitch, NextRevision, TypeOK
  <2> QED
    BY <1>1, <2>1, <2>2 DEF BeginSwitch, TypeOK
<1>2. ASSUME NEW s \in Sessions, StopSession(s) PROVE TypeOK'
  <2>1. (session'[s].state = "running") \in BOOLEAN
    OBVIOUS
  <2>2. switch' \in [on : BOOLEAN, target : Backends, stopping : SUBSET Sessions,
                     waiting : SUBSET Jobs, failed : BOOLEAN]
    BY <1>2, <2>1 DEF StopSession, TypeOK
  <2> QED
    BY <1>2, <2>2, TerminatedType DEF StopSession, TypeOK
<1>3. ASSUME NEW j \in Jobs, SeesDone(j) PROVE TypeOK'
  BY <1>3 DEF SeesDone, TypeOK
<1>5. ASSUME NEW j \in Jobs, GivesUp(j) PROVE TypeOK'
  BY <1>5 DEF GivesUp, TypeOK
<1>4. CASE EndSwitch
  BY <1>4, BackendAssumption DEF EndSwitch, NotSwitching, TypeOK
<1> QED
  BY <1>1, <1>2, <1>3, <1>4, <1>5 DEF SwitchStep

LEMMA TypeStep == TypeOK /\ [Next]_vars => TypeOK'
<1> SUFFICES ASSUME TypeOK, [Next]_vars PROVE TypeOK'
  OBVIOUS
<1>1. CASE UNCHANGED vars
  BY <1>1 DEF vars, TypeOK
<1>2. CASE Next
  BY <1>2, SessionTypeStep, ContextTypeStep, JobTypeStep, SwitchTypeStep DEF Next
<1> QED
  BY <1>1, <1>2

\* The state keeps its shape; in particular a switch only ever has sessions
\* and jobs to stop, and the revision stays a number.
THEOREM BackendTypes == Spec => []TypeOK
<1> QED
  BY TypeInit, TypeStep, PTL DEF Spec

\* Only a switch that begins or ends changes what callers are checked against.
LEMMA StepKinds ==
    ASSUME TypeOK, [Next]_vars
    PROVE  \/ \E b \in Backends : BeginSwitch(b)
           \/ EndSwitch
           \/ UNCHANGED <<revision, selected>> /\ switch'.on = switch.on
<1>1. CASE UNCHANGED vars
  BY <1>1 DEF vars
<1>2. ASSUME NEW s \in Sessions, StopSession(s)
      PROVE  UNCHANGED <<revision, selected>> /\ switch'.on = switch.on
  BY <1>2 DEF StopSession, TypeOK
<1>3. ASSUME NEW j \in Jobs, SeesDone(j) \/ GivesUp(j)
      PROVE  UNCHANGED <<revision, selected>> /\ switch'.on = switch.on
  BY <1>3 DEF SeesDone, GivesUp, TypeOK
<1>4. ASSUME NEW s \in Sessions,
             \/ \E c \in Contexts : Prepare(s, c)
             \/ Start(s) \/ StartFails(s) \/ Exit(s) \/ StopCleared(s)
      PROVE  UNCHANGED <<revision, selected, switch>>
  BY <1>4 DEF Prepare, Start, StartFails, Exit, StopCleared
<1>5. ASSUME NEW c \in Contexts,
             \/ BeginOpen(c) \/ BeginDeactivate(c) \/ FinishReset(c)
             \/ BeginClose(c) \/ FinishClose(c) \/ ClearWorkspace(c)
      PROVE  UNCHANGED <<revision, selected, switch>>
  BY <1>5 DEF BeginOpen, BeginDeactivate, FinishReset, BeginClose, FinishClose, ClearWorkspace
<1>6. ASSUME NEW j \in Jobs,
             Queue(j) \/ MakeRuntime(j) \/ Invoke(j) \/ InvocationEnds(j) \/ JobRefused(j)
      PROVE  UNCHANGED <<revision, selected, switch>>
  BY <1>6 DEF Queue, MakeRuntime, Invoke, InvocationEnds, JobRefused
<1> QED
  BY <1>1, <1>2, <1>3, <1>4, <1>5, <1>6, Zenon DEF Next, SwitchStep

-----------------------------------------------------------------------------
\* What is captured.

\* A step names nothing new, but what prepare and runtime_factory capture.
LEMMA NamesStep ==
    ASSUME TypeOK, [Next]_vars, NEW r, NEW b, Names(r, b)'
    PROVE  \/ Names(r, b)
           \/ /\ ~switch.on /\ UNCHANGED <<switch, revision, selected>>
              /\ r = revision /\ b = selected
<1> DEFINE Fresh == /\ ~switch.on /\ UNCHANGED <<switch, revision, selected>>
                    /\ r = revision /\ b = selected
           Named(h) == h.revision = r /\ h.backend = b
           OldSession(s) == session'[s].state # "new" => /\ session[s].state # "new"
                                                         /\ session'[s].revision = session[s].revision
                                                         /\ session'[s].backend = session[s].backend
           OldJob(j) == job'[j].state # "new" => /\ job[j].state # "new"
                                                 /\ job'[j].revision = job[j].revision
                                                 /\ job'[j].backend = job[j].backend
<1>1. SUFFICES ASSUME ~Fresh
               PROVE  /\ \A s \in Sessions : OldSession(s) \/ ~Named(session'[s])
                      /\ \A j \in Jobs : OldJob(j) \/ ~Named(job'[j])
  BY DEF Names
<1> USE DEF TypeOK, SessionRecords, JobRecords, Bound
<1>2. CASE UNCHANGED <<session, job>>
  BY <1>2
<1>3. ASSUME NEW s \in Sessions, NEW c \in Contexts, Prepare(s, c)
      PROVE  /\ \A u \in Sessions \ {s} : OldSession(u)
             /\ Named(session'[s]) => Fresh
             /\ \A j \in Jobs : OldJob(j)
  BY <1>3 DEF Prepare, Captured
<1>4. ASSUME NEW s \in Sessions, Start(s) \/ StartFails(s) \/ Exit(s)
      PROVE  /\ \A u \in Sessions : OldSession(u)
             /\ \A j \in Jobs : OldJob(j)
  BY <1>4 DEF Start, StartFails, Exit, Running
<1>5. ASSUME NEW s \in Sessions, Terminated(s), UNCHANGED job
      PROVE  /\ \A u \in Sessions : OldSession(u)
             /\ \A j \in Jobs : OldJob(j)
  BY <1>5, TerminatedType
<1>6. ASSUME NEW j \in Jobs, Queue(j)
      PROVE  /\ \A i \in Jobs \ {j} : OldJob(i)
             /\ Named(job'[j]) => Fresh
             /\ \A s \in Sessions : OldSession(s)
  BY <1>6 DEF Queue, Captured
<1>7. ASSUME NEW j \in Jobs, MakeRuntime(j) \/ Invoke(j) \/ InvocationEnds(j) \/ JobRefused(j)
      PROVE  /\ \A i \in Jobs : OldJob(i)
             /\ \A s \in Sessions : OldSession(s)
  <2>1. PICK state \in {"made", "running", "queued", "ended"} : job' = [job EXCEPT ![j].state = state]
    BY <1>7 DEF MakeRuntime, Invoke, InvocationEnds, JobRefused
  <2>2. UNCHANGED session /\ job[j].state # "new"
    BY <1>7 DEF MakeRuntime, Invoke, InvocationEnds, JobRefused
  <2> QED
    BY <2>1, <2>2
<1> HIDE DEF OldSession, OldJob, Named, Fresh, TypeOK, SessionRecords, JobRecords, Bound
<1>8. ASSUME NEW c \in Contexts, BeginDeactivate(c) \/ BeginClose(c)
      PROVE  \E s \in Sessions : Terminated(s) /\ UNCHANGED job
  BY <1>8 DEF BeginDeactivate, BeginClose, TypeOK
<1>9. ASSUME NEW c \in Contexts, BeginOpen(c) \/ FinishReset(c) \/ FinishClose(c) \/ ClearWorkspace(c)
      PROVE  UNCHANGED <<session, job>>
  BY <1>9 DEF BeginOpen, FinishReset, FinishClose, ClearWorkspace
<1>10. ASSUME NEW s \in Sessions, StopCleared(s) \/ StopSession(s)
       PROVE  Terminated(s) /\ UNCHANGED job
  BY <1>10 DEF StopCleared, StopSession
<1>11. ASSUME \/ \E q \in Backends : BeginSwitch(q)
              \/ \E j \in Jobs : SeesDone(j) \/ GivesUp(j)
              \/ EndSwitch
       PROVE  UNCHANGED <<session, job>>
  BY <1>11 DEF BeginSwitch, SeesDone, GivesUp, EndSwitch
<1>12. CASE UNCHANGED vars
  BY <1>2, <1>12 DEF vars
<1> QED
  BY <1>1, <1>2, <1>3, <1>4, <1>5, <1>6, <1>7, <1>8, <1>9, <1>10, <1>11, <1>12, Zenon
     DEF Next, SwitchStep

LEMMA NamesInit == Init => NamesPast /\ NamesAgree
BY DEF Init, NamesPast, NamesAgree, Names

\* Every captured revision is older than that of a switch that begins.
LEMMA NamesPastStep ==
    ASSUME TypeOK, NamesPast, [Next]_vars
    PROVE  NamesPast'
<1> SUFFICES ASSUME NEW r, NEW b, Names(r, b)'
             PROVE  /\ r \in Nat /\ r <= revision'
                    /\ switch'.on => r # revision'
                    /\ r = revision' => b = selected'
  BY DEF NamesPast
<1>1. revision \in Nat
  BY BackendAssumption DEF TypeOK
<1>2. CASE /\ ~switch.on /\ UNCHANGED <<switch, revision, selected>>
           /\ r = revision /\ b = selected
  BY <1>1, <1>2
<1>3. CASE Names(r, b)
  <2>1. /\ r \in Nat /\ r <= revision
        /\ switch.on => r # revision
        /\ r = revision => b = selected
    BY <1>3 DEF NamesPast
  <2>2. ASSUME NEW q \in Backends, BeginSwitch(q) PROVE revision' = revision + 1
    BY <2>2 DEF BeginSwitch, NextRevision
  <2>3. CASE EndSwitch
    BY <2>1, <2>3 DEF EndSwitch, NotSwitching
  <2>4. CASE UNCHANGED <<revision, selected>> /\ switch'.on = switch.on
    BY <2>1, <2>4
  <2>5. \/ \E q \in Backends : BeginSwitch(q)
        \/ EndSwitch
        \/ UNCHANGED <<revision, selected>> /\ switch'.on = switch.on
    BY StepKinds
  <2> QED
    BY <1>1, <2>1, <2>2, <2>3, <2>4, <2>5
<1> QED
  BY <1>2, <1>3, NamesStep

LEMMA NamesAgreeStep ==
    ASSUME TypeOK, NamesPast, NamesAgree, [Next]_vars
    PROVE  NamesAgree'
<1> SUFFICES ASSUME NEW r, NEW b, NEW c, Names(r, b)', Names(r, c)' PROVE b = c
  BY DEF NamesAgree
<1>1. Names(r, b) \/ (r = revision /\ b = selected)
  BY NamesStep
<1>2. Names(r, c) \/ (r = revision /\ c = selected)
  BY NamesStep
<1> QED
  BY <1>1, <1>2 DEF NamesAgree, NamesPast

-----------------------------------------------------------------------------
\* The agents the service knows.

\* A session of a context that runs after a step ran before, listed as well, or
\* is started on the selected backend while there is no switch.
LEMMA SessionsKnown ==
    ASSUME TypeOK, NamesPast, [Next]_vars, NEW u \in Listed', Running(u)'
    PROVE  /\ u \in Listed
           /\ session'[u].backend = session[u].backend
           /\ \/ Running(u)
              \/ /\ ~switch.on /\ UNCHANGED <<switch, selected>>
                 /\ session[u].backend = selected
<1> DEFINE Kept == /\ u \in Listed /\ Running(u)
                   /\ session'[u].backend = session[u].backend
<1>1. u \in Sessions
  <2>1. TypeOK'
    BY TypeStep
  <2> QED
    BY <2>1 DEF TypeOK, Listed
<1>2. CASE UNCHANGED <<session, table>>
  BY <1>2 DEF Listed, Running
<1>3. ASSUME NEW s \in Sessions, NEW c \in Contexts, Prepare(s, c) PROVE Kept
  <2>1. u # s
    BY <1>3 DEF Prepare, Captured, Running, TypeOK
  <2>2. session'[u] = session[u]
    BY <1>1, <1>3, <2>1 DEF Prepare, TypeOK
  <2>3. u \in Listed
    BY <1>3, <2>1 DEF Prepare, Listed, TypeOK
  <2> QED
    BY <2>2, <2>3 DEF Running
<1>4. ASSUME NEW s \in Sessions, Start(s)
      PROVE  \/ Kept
             \/ /\ u \in Listed /\ session'[u].backend = session[u].backend
                /\ ~switch.on /\ UNCHANGED <<switch, selected>>
                /\ session[u].backend = selected
  <2>1. u \in Listed
    BY <1>4 DEF Start, Listed
  <2>2. session'[u].backend = session[u].backend
    BY <1>1, <1>4 DEF Start, TypeOK, SessionRecords, Bound
  <2>3. CASE u = s
    <3>1. ~switch.on /\ session[u].revision = revision /\ session[u].state # "new"
      BY <1>4, <2>3 DEF Start, Ready
    <3>2. Names(revision, session[u].backend)
      BY <1>1, <3>1 DEF Names
    <3>3. session[u].backend = selected
      BY <3>2 DEF NamesPast
    <3> QED
      BY <1>4, <2>1, <2>2, <3>1, <3>3 DEF Start
  <2>4. CASE u # s
    <3>1. session'[u] = session[u]
      BY <1>1, <1>4, <2>4 DEF Start, TypeOK
    <3> QED
      BY <2>1, <3>1 DEF Running
  <2> QED
    BY <2>3, <2>4
<1>5. ASSUME NEW s \in Sessions, StartFails(s) \/ Exit(s) PROVE Kept
  <2>1. session'[s].state = "ended"
    BY <1>5 DEF StartFails, Exit, TypeOK, SessionRecords, Bound
  <2>2. u # s
    BY <2>1 DEF Running
  <2>3. session'[u] = session[u]
    BY <1>1, <1>5, <2>2 DEF StartFails, Exit, TypeOK
  <2>4. u \in Listed
    BY <1>5, <2>2 DEF StartFails, Exit, Listed, TypeOK
  <2> QED
    BY <2>3, <2>4 DEF Running
<1>6. ASSUME NEW s \in Sessions, Terminated(s), UNCHANGED table PROVE Kept
  BY <1>1, <1>6, TerminatedType DEF Listed, Running
<1>7. ASSUME NEW c \in Contexts, FinishReset(c) \/ FinishClose(c) \/ ClearWorkspace(c)
      PROVE  Kept
  <2>1. UNCHANGED session
    BY <1>7 DEF FinishReset, FinishClose, ClearWorkspace
  <2>2. u \in Listed
    BY <1>1, <1>7 DEF FinishReset, FinishClose, ClearWorkspace, Listed, TypeOK
  <2> QED
    BY <2>1, <2>2 DEF Running
<1>8. ASSUME NEW c \in Contexts, BeginDeactivate(c) \/ BeginClose(c)
      PROVE  \E s \in Sessions : Terminated(s) /\ UNCHANGED table
  BY <1>8 DEF BeginDeactivate, BeginClose, TypeOK
<1>9. ASSUME NEW s \in Sessions, StopCleared(s) \/ StopSession(s)
      PROVE  Terminated(s) /\ UNCHANGED table
  BY <1>9 DEF StopCleared, StopSession
<1>10. ASSUME NEW j \in Jobs,
              \/ Queue(j) \/ MakeRuntime(j) \/ Invoke(j) \/ InvocationEnds(j)
              \/ JobRefused(j) \/ SeesDone(j) \/ GivesUp(j)
       PROVE  UNCHANGED <<session, table>>
  BY <1>10 DEF Queue, MakeRuntime, Invoke, InvocationEnds, JobRefused, SeesDone, GivesUp
<1>11. ASSUME \/ \E c \in Contexts : BeginOpen(c)
              \/ \E q \in Backends : BeginSwitch(q)
              \/ EndSwitch
              \/ UNCHANGED vars
       PROVE  UNCHANGED <<session, table>>
  BY <1>11 DEF BeginOpen, BeginSwitch, EndSwitch, vars
<1> QED
  BY <1>2, <1>3, <1>4, <1>5, <1>6, <1>7, <1>8, <1>9, <1>10, <1>11, Zenon DEF Next, SwitchStep

\* The same of the jobs with an invocation that runs.
LEMMA JobsKnown ==
    ASSUME TypeOK, NamesPast, [Next]_vars, NEW i \in Jobs, job'[i].state = "running"
    PROVE  /\ job'[i].backend = job[i].backend
           /\ \/ job[i].state = "running"
              \/ /\ ~switch.on /\ UNCHANGED <<switch, selected>>
                 /\ job[i].backend = selected
<1>1. CASE UNCHANGED job
  BY <1>1
<1>2. ASSUME NEW j \in Jobs, Queue(j) PROVE job'[i] = job[i]
  BY <1>2 DEF Queue, Captured, TypeOK
<1>3. ASSUME NEW j \in Jobs, MakeRuntime(j) \/ InvocationEnds(j) \/ JobRefused(j)
      PROVE  job'[i] = job[i]
  <2>1. PICK state \in {"made", "queued", "ended"} : job' = [job EXCEPT ![j].state = state]
    BY <1>3 DEF MakeRuntime, InvocationEnds, JobRefused
  <2> QED
    BY <2>1 DEF TypeOK, JobRecords, Bound
<1>4. ASSUME NEW j \in Jobs, Invoke(j)
      PROVE  \/ job'[i] = job[i]
             \/ /\ job'[i].backend = job[i].backend
                /\ ~switch.on /\ UNCHANGED <<switch, selected>>
                /\ job[i].backend = selected
  <2>1. CASE i = j
    <3>1. ~switch.on /\ job[i].revision = revision /\ job[i].state # "new"
      BY <1>4, <2>1 DEF Invoke, Ready
    <3>2. Names(revision, job[i].backend)
      BY <3>1 DEF Names
    <3>3. job[i].backend = selected
      BY <3>2 DEF NamesPast
    <3> QED
      BY <1>4, <2>1, <3>1, <3>3 DEF Invoke, TypeOK, JobRecords, Bound
  <2>2. CASE i # j
    BY <1>4, <2>2 DEF Invoke, TypeOK
  <2> QED
    BY <2>1, <2>2
<1>5. ASSUME NEW s \in Sessions,
             \/ \E c \in Contexts : Prepare(s, c)
             \/ Start(s) \/ StartFails(s) \/ Exit(s) \/ StopCleared(s) \/ StopSession(s)
      PROVE  UNCHANGED job
  BY <1>5 DEF Prepare, Start, StartFails, Exit, StopCleared, StopSession
<1>6. ASSUME NEW c \in Contexts,
             \/ BeginOpen(c) \/ BeginDeactivate(c) \/ FinishReset(c)
             \/ BeginClose(c) \/ FinishClose(c) \/ ClearWorkspace(c)
      PROVE  UNCHANGED job
  BY <1>6 DEF BeginOpen, BeginDeactivate, FinishReset, BeginClose, FinishClose, ClearWorkspace
<1>7. ASSUME \/ \E q \in Backends : BeginSwitch(q)
             \/ \E j \in Jobs : SeesDone(j) \/ GivesUp(j)
             \/ EndSwitch
             \/ UNCHANGED vars
      PROVE  UNCHANGED job
  BY <1>7 DEF BeginSwitch, SeesDone, GivesUp, EndSwitch, vars
<1> QED
  BY <1>1, <1>2, <1>3, <1>4, <1>5, <1>6, <1>7, Zenon DEF Next, SwitchStep

\* The list of a switch loses an agent only when it does not run any more, or
\* when the switch has failed.
LEMMA SwitchKnowsStep ==
    ASSUME Inv, [Next]_vars
    PROVE  SwitchKnows'
<1> USE DEF Inv
<1>1. SUFFICES ASSUME switch'.on, ~switch'.failed
      PROVE  /\ \A s \in Listed' : Running(s)' => s \in switch'.stopping
             /\ \A j \in Jobs : job'[j].state = "running" => j \in switch'.waiting
  BY DEF SwitchKnows
<1>2. CASE UNCHANGED switch
  BY <1>1, <1>2, SessionsKnown, JobsKnown DEF SwitchKnows
<1>3. ASSUME NEW b \in Backends, BeginSwitch(b)
      PROVE  /\ \A s \in Listed' : s \in switch'.stopping
             /\ \A j \in Jobs : job'[j].state = "running" => j \in switch'.waiting
  BY <1>3 DEF BeginSwitch, Listed
<1>4. CASE EndSwitch
  BY <1>1, <1>4 DEF EndSwitch, NotSwitching
<1>5. ASSUME NEW s \in Sessions, StopSession(s)
      PROVE  /\ \A u \in Listed' : Running(u)' => u \in switch'.stopping
             /\ \A j \in Jobs : job'[j].state = "running" => j \in switch'.waiting
  <2>1. /\ switch'.on = switch.on
        /\ switch'.failed = (switch.failed \/ session'[s].state = "running")
        /\ switch'.stopping = switch.stopping \ {s}
        /\ switch'.waiting = switch.waiting
    BY <1>5 DEF StopSession, TypeOK
  <2>2. switch.on /\ ~switch.failed /\ ~Running(s)'
    BY <1>1, <2>1 DEF Running
  <2> QED
    BY <2>1, <2>2, SessionsKnown, JobsKnown DEF SwitchKnows
<1>6. ASSUME NEW j \in Jobs, SeesDone(j)
      PROVE  /\ \A u \in Listed' : Running(u)' => u \in switch'.stopping
             /\ \A i \in Jobs : job'[i].state = "running" => i \in switch'.waiting
  <2>1. /\ switch'.on = switch.on
        /\ switch'.failed = switch.failed
        /\ switch'.stopping = switch.stopping
        /\ switch'.waiting = switch.waiting \ {j}
        /\ job[j].state # "running"
        /\ UNCHANGED job
    BY <1>6 DEF SeesDone, TypeOK
  <2> QED
    BY <1>1, <2>1, SessionsKnown, JobsKnown DEF SwitchKnows
<1>7. ASSUME NEW j \in Jobs, GivesUp(j) PROVE FALSE
  BY <1>1, <1>7 DEF GivesUp, TypeOK
<1>8. ASSUME NEW s \in Sessions,
             \/ \E c \in Contexts : Prepare(s, c)
             \/ Start(s) \/ StartFails(s) \/ Exit(s) \/ StopCleared(s)
      PROVE  UNCHANGED switch
  BY <1>8 DEF Prepare, Start, StartFails, Exit, StopCleared
<1>9. ASSUME NEW c \in Contexts,
             \/ BeginOpen(c) \/ BeginDeactivate(c) \/ FinishReset(c)
             \/ BeginClose(c) \/ FinishClose(c) \/ ClearWorkspace(c)
      PROVE  UNCHANGED switch
  BY <1>9 DEF BeginOpen, BeginDeactivate, FinishReset, BeginClose, FinishClose, ClearWorkspace
<1>10. ASSUME NEW j \in Jobs,
              Queue(j) \/ MakeRuntime(j) \/ Invoke(j) \/ InvocationEnds(j) \/ JobRefused(j)
       PROVE  UNCHANGED switch
  BY <1>10 DEF Queue, MakeRuntime, Invoke, InvocationEnds, JobRefused
<1>11. CASE UNCHANGED vars
  BY <1>2, <1>11 DEF vars
<1> HIDE DEF Inv
<1> QED
  BY <1>2, <1>3, <1>4, <1>5, <1>6, <1>7, <1>8, <1>9, <1>10, <1>11, Zenon DEF Next, SwitchStep

\* The selection moves when a switch ends that has nothing left on its list.
LEMMA KnownStep ==
    ASSUME Inv, [Next]_vars
    PROVE  KnownAgentsOfSelected'
<1> USE DEF Inv
<1>1. CASE UNCHANGED selected
  BY <1>1, SessionsKnown, JobsKnown DEF KnownAgentsOfSelected
<1>2. CASE EndSwitch
  <2>1. CASE switch.failed
    BY <1>1, <1>2, <2>1 DEF EndSwitch
  <2>2. CASE ~switch.failed
    <3>1. /\ \A s \in Listed : ~Running(s)
          /\ \A j \in Jobs : job[j].state # "running"
      BY <1>2, <2>2 DEF EndSwitch, SwitchKnows
    <3> QED
      BY <1>2, <3>1 DEF EndSwitch, KnownAgentsOfSelected, Listed, Running
  <2> QED
    BY <2>1, <2>2
<1>3. ASSUME NEW b \in Backends, BeginSwitch(b) PROVE UNCHANGED selected
  BY <1>3 DEF BeginSwitch
<1> QED
  BY <1>1, <1>2, <1>3, StepKinds

LEMMA InvInit == Init => Inv
<1> SUFFICES ASSUME Init PROVE Inv
  OBVIOUS
<1>1. TypeOK /\ NamesPast /\ NamesAgree
  BY TypeInit, NamesInit
<1>2. Listed = {}
  BY DEF Init, Listed
<1>3. SwitchKnows
  BY DEF Init, SwitchKnows, NotSwitching
<1>4. KnownAgentsOfSelected
  BY <1>2 DEF Init, KnownAgentsOfSelected
<1> QED
  BY <1>1, <1>3, <1>4 DEF Inv

LEMMA InvStep == Inv /\ [Next]_vars => Inv'
<1> SUFFICES ASSUME Inv, [Next]_vars PROVE Inv'
  OBVIOUS
<1>1. TypeOK' /\ NamesPast' /\ NamesAgree'
  BY TypeStep, NamesPastStep, NamesAgreeStep DEF Inv
<1> QED
  BY <1>1, SwitchKnowsStep, KnownStep DEF Inv

\* The sessions that a context knows, and the background invocations, run on the
\* selected backend: whatever was prepared before a switch, whatever requests
\* do during it, and whichever agents it could not stop.
THEOREM KnownAgents == Spec => []KnownAgentsOfSelected
<1>1. Inv => KnownAgentsOfSelected
  BY DEF Inv
<1> QED
  BY <1>1, InvInit, InvStep, PTL DEF Spec

\* Two holders of one revision hold one backend: comparing the revision, as
\* require_ready does, is enough to tell a stale backend.
THEOREM RevisionNames == Spec => []RevisionNamesBackend
<1>1. ASSUME Inv PROVE RevisionNamesBackend
  <2>1. ASSUME NEW s \in Sessions, session[s].state # "new"
        PROVE  Names(session[s].revision, session[s].backend)
    BY <2>1 DEF Names
  <2>2. ASSUME NEW j \in Jobs, job[j].state # "new"
        PROVE  Names(job[j].revision, job[j].backend)
    BY <2>2 DEF Names
  <2> QED
    BY <1>1, <2>1, <2>2 DEF Inv, NamesAgree, RevisionNamesBackend
<1> QED
  BY <1>1, InvInit, InvStep, PTL DEF Spec
=============================================================================
