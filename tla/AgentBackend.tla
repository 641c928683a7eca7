---------------------------- MODULE AgentBackend ----------------------------
(***************************************************************************)
(* The choice of the agent backend for a whole service                     *)
(* (service/agent_backend.py): sessions in terminals and background jobs   *)
(* are bound to the backend and the revision they were prepared with, and  *)
(* a switch stops those it knows while requests go on preparing, starting, *)
(* closing and dropping others (service/app.py and the controllers).       *)
(*                                                                         *)
(* The service lock makes each step below atomic: a switch holds it to     *)
(* take stock and to finish and not while it stops agents; a request holds *)
(* it to prepare a session and takes it again to start it.  A context has  *)
(* one place for a session here, where the program has one per kind.       *)
(***************************************************************************)
EXTENDS Integers, FiniteSets

CONSTANTS
    Backends,       \* the agents a service can run
    Contexts,       \* browser contexts, each with a place for one session
    Sessions,       \* session objects, each prepared once
    Jobs,           \* background jobs, each with one invocation at a time
    None,           \* no session
    Default,        \* the backend of a new service
    MaxRevision,    \* number of switches (bound)
    MayHang         \* can an agent survive its termination?

ASSUME BackendAssumption ==
    /\ Default \in Backends
    /\ {None, "nothing", "reset"} \cap Sessions = {}
    /\ MaxRevision \in Nat
    /\ MayHang \in BOOLEAN

VARIABLES
    selected,       \* AgentBackend.selected
    revision,       \* AgentBackend.revision
    switch,         \* the switch in progress: what it has left to stop
    session,        \* every session: its state, and what prepare gave it
    table,          \* the session in the place of each context
    pending,        \* the request that will clear the place of a context
    cleared,        \* sessions of cleared workspaces, not stopped yet
    job             \* every job: its state, and what runtime_factory gave it

vars == <<selected, revision, switch, session, table, pending, cleared, job>>

Bound(states) == [state : states, revision : Nat, backend : Backends]

SessionRecords == Bound({"new", "prepared", "running", "ended"})

JobRecords == Bound({"new", "queued", "made", "running", "ended"})

\* Variant: the places of contexts without a session are not left out.
Places == {table[c] : c \in Contexts}

\* _backend_sessions: the sessions a context still knows.
Listed == {table[c] : c \in Contexts} \ {None}

Running(s) == session[s].state = "running"

NotSwitching == [on |-> FALSE, target |-> Default, stopping |-> {}, waiting |-> {}, failed |-> FALSE]

\* Variant: launches are only held back while a switch is in progress.
NotDuring(r) == ~switch.on

\* require_ready with the revision a caller captured.
Ready(r) == ~switch.on /\ r = revision

Init ==
    /\ selected = Default
    /\ revision = 0
    /\ switch = NotSwitching
    /\ session = [s \in Sessions |-> [state |-> "new", revision |-> 0, backend |-> Default]]
    /\ table = [c \in Contexts |-> None]
    /\ pending = [c \in Contexts |-> "nothing"]
    /\ cleared = {}
    /\ job = [j \in Jobs |-> [state |-> "new", revision |-> 0, backend |-> Default]]

Captured(state) == [state |-> state, revision |-> revision, backend |-> selected]

-----------------------------------------------------------------------------
\* Sessions.

\* A start request: no session is active in the place, and the prepared one
\* takes it.  The lock is released before the session is started.
Prepare(s, c) ==
    /\ session[s].state = "new"
    /\ ~switch.on
    /\ table[c] # None => ~Running(table[c])
    /\ session' = [session EXCEPT ![s] = Captured("prepared")]
    /\ table' = [table EXCEPT ![c] = s]
    /\ UNCHANGED <<selected, revision, switch, pending, cleared, job>>

\* AgentSession.start under its guard.
Start(s) ==
    /\ session[s].state = "prepared"
    /\ Ready(session[s].revision)
    /\ session' = [session EXCEPT ![s].state = "running"]
    /\ UNCHANGED <<selected, revision, switch, table, pending, cleared, job>>

\* The guard refuses, or the program cannot be started: the request takes its
\* session out of the place again.
StartFails(s) ==
    /\ session[s].state = "prepared"
    /\ session' = [session EXCEPT ![s].state = "ended"]
    /\ table' = [c \in Contexts |-> IF table[c] = s THEN None ELSE table[c]]
    /\ UNCHANGED <<selected, revision, switch, pending, cleared, job>>

Exit(s) ==
    /\ Running(s)
    /\ session' = [session EXCEPT ![s].state = "ended"]
    /\ UNCHANGED <<selected, revision, switch, table, pending, cleared, job>>

\* terminate, for a session that is active; in tmux it may survive.
Terminated(s) ==
    \/ session' = [session EXCEPT ![s].state = IF @ = "running" THEN "ended" ELSE @]
    \/ MayHang /\ UNCHANGED session

\* Opening a project: no agent of the context may be active ...
BeginOpen(c) ==
    /\ pending[c] = "nothing"
    /\ table[c] # None => ~Running(table[c])
    /\ pending' = [pending EXCEPT ![c] = "reset"]
    /\ UNCHANGED <<selected, revision, switch, session, table, cleared, job>>

\* ... deactivating one terminates them ...
BeginDeactivate(c) ==
    /\ pending[c] = "nothing"
    /\ table[c] # None
    /\ Terminated(table[c])
    /\ pending' = [pending EXCEPT ![c] = "reset"]
    /\ UNCHANGED <<selected, revision, switch, table, cleared, job>>

\* ... and both then reset the context, whatever sessions it has by now.
FinishReset(c) ==
    /\ pending[c] = "reset"
    /\ table' = [table EXCEPT ![c] = None]
    /\ pending' = [pending EXCEPT ![c] = "nothing"]
    /\ UNCHANGED <<selected, revision, switch, session, cleared, job>>

\* Closing a session: terminate it if it is active, then clear its place.
BeginClose(c) ==
    /\ pending[c] = "nothing"
    /\ table[c] # None
    /\ Terminated(table[c])
    /\ pending' = [pending EXCEPT ![c] = table[c]]
    /\ UNCHANGED <<selected, revision, switch, table, cleared, job>>

FinishClose(c) ==
    /\ pending[c] \in Sessions
    /\ table' = [table EXCEPT ![c] = IF @ = pending[c] THEN None ELSE @]
    /\ pending' = [pending EXCEPT ![c] = "nothing"]
    /\ UNCHANGED <<selected, revision, switch, session, cleared, job>>

\* clear_workspaces: the context goes first, its sessions are stopped later.
ClearWorkspace(c) ==
    /\ table[c] # None
    /\ table' = [table EXCEPT ![c] = None]
    /\ cleared' = cleared \cup {table[c]}
    /\ UNCHANGED <<selected, revision, switch, session, pending, job>>

StopCleared(s) ==
    /\ s \in cleared
    /\ Terminated(s)
    /\ cleared' = cleared \ {s}
    /\ UNCHANGED <<selected, revision, switch, table, pending, job>>

-----------------------------------------------------------------------------
\* Background jobs.

\* runtime_factory, called once per job.
Queue(j) ==
    /\ job[j].state = "new"
    /\ ~switch.on
    /\ job' = [job EXCEPT ![j] = Captured("queued")]
    /\ UNCHANGED <<selected, revision, switch, session, table, pending, cleared>>

\* The factory makes the runtime of the next invocation.
MakeRuntime(j) ==
    /\ job[j].state = "queued"
    /\ Ready(job[j].revision)
    /\ job' = [job EXCEPT ![j].state = "made"]
    /\ UNCHANGED <<selected, revision, switch, session, table, pending, cleared>>

\* ManagedRuntime.invoke registers the invocation and runs the agent.
Invoke(j) ==
    /\ job[j].state = "made"
    /\ Ready(job[j].revision)
    /\ job' = [job EXCEPT ![j].state = "running"]
    /\ UNCHANGED <<selected, revision, switch, session, table, pending, cleared>>

\* The invocation ends, by itself or cancelled; the job may make another.
InvocationEnds(j) ==
    /\ job[j].state = "running"
    /\ \E state \in {"queued", "ended"} : job' = [job EXCEPT ![j].state = state]
    /\ UNCHANGED <<selected, revision, switch, session, table, pending, cleared>>

\* The backend changed: the job ends with an error.
JobRefused(j) ==
    /\ job[j].state \in {"queued", "made"}
    /\ ~Ready(job[j].revision)
    /\ job' = [job EXCEPT ![j].state = "ended"]
    /\ UNCHANGED <<selected, revision, switch, session, table, pending, cleared>>

-----------------------------------------------------------------------------
\* The switch.

\* Variant: the revision moves only with the backend.
SameRevision == revision

NextRevision == revision + 1

\* A confirmed switch to an installed backend: take stock of what has to stop,
\* and invalidate everything captured.
BeginSwitch(b) ==
    /\ ~switch.on
    /\ b # selected
    /\ revision < MaxRevision
    /\ revision' = NextRevision
    /\ switch' = [on |-> TRUE, target |-> b, stopping |-> Listed,
                  waiting |-> {j \in Jobs : job[j].state = "running"}, failed |-> FALSE]
    /\ UNCHANGED <<selected, session, table, pending, cleared, job>>

\* One session after the other is terminated if it is active.
StopSession(s) ==
    /\ s \in switch.stopping
    /\ Terminated(s)
    /\ switch' = [switch EXCEPT !.stopping = @ \ {s},
                                !.failed = @ \/ session'[s].state = "running"]
    /\ UNCHANGED <<selected, revision, table, pending, cleared, job>>

\* The cancelled invocations were told to stop before; wait for each.
SeesDone(j) ==
    /\ switch.stopping = {}
    /\ j \in switch.waiting
    /\ job[j].state # "running"
    /\ switch' = [switch EXCEPT !.waiting = @ \ {j}]
    /\ UNCHANGED <<selected, revision, session, table, pending, cleared, job>>

\* Variant: no deadline.
NeverGivesUp(j) == SeesDone(j)

\* Ten seconds after the last termination the wait is given up.
GivesUp(j) ==
    /\ switch.stopping = {}
    /\ j \in switch.waiting
    /\ job[j].state = "running"
    /\ switch' = [switch EXCEPT !.waiting = @ \ {j}, !.failed = TRUE]
    /\ UNCHANGED <<selected, revision, session, table, pending, cleared, job>>

\* Nobody is let in between the new selection and the end of the switch.
EndSwitch ==
    /\ switch.on
    /\ switch.stopping = {}
    /\ switch.waiting = {}
    /\ selected' = IF switch.failed THEN selected ELSE switch.target
    /\ switch' = NotSwitching
    /\ UNCHANGED <<revision, session, table, pending, cleared, job>>

SwitchStep ==
    \/ \E s \in Sessions : StopSession(s)
    \/ \E j \in Jobs : SeesDone(j) \/ GivesUp(j)
    \/ EndSwitch

Next ==
    \/ \E s \in Sessions :
        \/ \E c \in Contexts : Prepare(s, c)
        \/ Start(s)
        \/ StartFails(s)
        \/ Exit(s)
        \/ StopCleared(s)
    \/ \E c \in Contexts :
        \/ BeginOpen(c)
        \/ BeginDeactivate(c)
        \/ FinishReset(c)
        \/ BeginClose(c)
        \/ FinishClose(c)
        \/ ClearWorkspace(c)
    \/ \E j \in Jobs :
        \/ Queue(j)
        \/ MakeRuntime(j)
        \/ Invoke(j)
        \/ InvocationEnds(j)
        \/ JobRefused(j)
    \/ \E b \in Backends : BeginSwitch(b)
    \/ SwitchStep

Spec == Init /\ [][Next]_vars

\* The thread of a switch goes on: every termination and every wait it makes
\* has a time limit.  No agent and no job is assumed to end.
FairSpec == Spec /\ WF_vars(SwitchStep)

-----------------------------------------------------------------------------
\* Properties.

\* The shapes of the state; the switch stops only agents there are.
TypeOK ==
    /\ selected \in Backends
    /\ revision \in 0..MaxRevision
    /\ switch \in [on : BOOLEAN, target : Backends, stopping : SUBSET Sessions,
                   waiting : SUBSET Jobs, failed : BOOLEAN]
    /\ session \in [Sessions -> SessionRecords]
    /\ table \in [Contexts -> Sessions \cup {None}]
    /\ pending \in [Contexts -> Sessions \cup {"nothing", "reset"}]
    /\ cleared \subseteq Sessions
    /\ job \in [Jobs -> JobRecords]

\* Whatever was prepared, queued or half started when a switch began, and
\* whichever agents it could not stop: a session that a context knows, and a
\* background invocation, runs on the selected backend.
KnownAgentsOfSelected ==
    /\ \A s \in Listed : Running(s) => session[s].backend = selected
    /\ \A j \in Jobs : job[j].state = "running" => job[j].backend = selected

\* The revision tells the holders of different backends apart, also after a
\* switch that failed half way and one that went back.
RevisionNamesBackend ==
    LET holders == {session[s] : s \in Sessions} \cup {job[j] : j \in Jobs}
    IN \A h, k \in {x \in holders : x.state # "new"} :
           h.revision = k.revision => h.backend = k.backend

\* A switch ends, with agents that cannot be stopped too: while it lasts, no
\* agent of the service can be prepared or started.
SwitchEnds == switch.on ~> ~switch.on

\* docs/agent-backends.md: "Confirming stops all active agent terminals and
\* background agent invocations".  A session started after its place was reset
\* or given to another one is known to no context, and the switch misses it.
AllAgentsOfSelected ==
    \A s \in Sessions \ cleared : Running(s) => session[s].backend = selected
=============================================================================
