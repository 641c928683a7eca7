-------------------------- MODULE CourseGeneration --------------------------
(***************************************************************************)
(* Background generation of Module courses                                 *)
(* (workflows/code_learner/background_courses.py, with controller.py and   *)
(* course_generation.py).                                                  *)
(*                                                                         *)
(* A scheduler has a priority queue and a few worker threads; a worker     *)
(* takes a module, has an agent write its course and records the outcome   *)
(* in module-courses.json. A status is saved by reading the file and       *)
(* writing it back, under the lock of the scheduler. Requests start the    *)
(* scheduler of the repository, which queues what is unfinished, and move  *)
(* a module the user selects to the front. A scheduler is replaced when    *)
(* the courses are cleared or generated anew, when the agent backend is    *)
(* switched, and when the service restarts; the old one is given five      *)
(* seconds to end, or none, and may go on beside the new one.              *)
(***************************************************************************)
EXTENDS Naturals, Sequences, FiniteSets

CONSTANTS
    NModules,        \* modules of the repository, in the order of modules.json
    Workers,         \* threads of a scheduler
    Selectable,      \* modules the user selects
    MaxSchedulers,   \* bound: schedulers made
    MaxTroubles,     \* bound: clearings, backend switches, ends of the service
    AgentsMayFail    \* an agent may fail without having been stopped

ASSUME CourseAssumption ==
    /\ NModules \in Nat \ {0}
    /\ Selectable \subseteq 1 .. NModules
    /\ MaxTroubles \in Nat
    /\ MaxSchedulers \in Nat \ {0}
    /\ AgentsMayFail \in BOOLEAN

VARIABLES
    discovered,   \* modules.json and the Architecture course are there
    course,       \* modules whose course is on disk
    status,       \* module-courses.json
    scheduler,    \* every scheduler made in this repository
    made,         \* how many there are
    current,      \* the one in the controller's table, or 0
    worker,       \* the threads
    request,      \* the request that starts or prioritises, in progress
    clearing,     \* a clearing waits for the old scheduler's threads
    closing,      \* the service is shutting down
    troubles      \* clearings, switches and ends of the service so far

disk == <<discovered, course, status>>
table == <<scheduler, made, current>>
world == <<clearing, closing, troubles>>
vars == <<discovered, course, status, scheduler, made, current, worker, request,
          clearing, closing, troubles>>

Modules == 1 .. NModules
Schedulers == 1 .. MaxSchedulers
Statuses == {"none", "pending", "generating", "ready", "failed"}

\* The two priorities of the queue, each served in the order of arrival.
Fresh == [stopped |-> FALSE, cancelled |-> FALSE, started |-> FALSE,
          selected |-> <<>>, waiting |-> <<>>, queued |-> {}, active |-> {}]

NoCopy == [m \in Modules |-> "none"]
NoThread == [at |-> "absent", module |-> 1, value |-> "none", copy |-> NoCopy]
\* The test of the worker's loop: it waits for a module, or the thread is over.
NextRound(k) ==
    IF scheduler[k].stopped \/ scheduler[k].cancelled THEN NoThread
    ELSE [NoThread EXCEPT !.at = "getting"]

NoRequest == [at |-> "idle", scheduler |-> 1, selects |-> 0, todo |-> 1,
              value |-> "none", copy |-> NoCopy]

Init ==
    /\ discovered = TRUE
    /\ course = {}
    /\ status = NoCopy
    /\ scheduler = [k \in Schedulers |-> Fresh]
    /\ made = 0
    /\ current = 0
    /\ worker = [k \in Schedulers |-> [w \in Workers |-> NoThread]]
    /\ request = NoRequest
    /\ clearing = 0
    /\ closing = FALSE
    /\ troubles = 0

-----------------------------------------------------------------------------
(* Locks.                                                                  *)

\* The lock of a scheduler, held while a status is saved and by the loop of start.
Locked(k) ==
    \/ \E w \in Workers : worker[k][w].at = "saving"
    \/ request.scheduler = k /\ request.at \in {"looping", "saving"}

Known(k, m) == m \in scheduler[k].queued \cup scheduler[k].active

Interrupted(k) == scheduler[k].stopped \/ scheduler[k].cancelled

-----------------------------------------------------------------------------
(* Requests: the status poll and Initialize start the scheduler; selecting *)
(* a module starts it and then prioritises the module.                     *)

\* _start_module_scheduler: the scheduler of the table, unless it was cancelled
\* by a switch, or a new one. The controller's lock is held by a clearing.
Arrive(m) ==
    /\ request.at = "idle"
    /\ ~closing
    /\ clearing = 0
    /\ discovered
    /\ m \notin course
    /\ LET keep == current # 0 /\ ~scheduler[current].cancelled
           k == IF keep THEN current ELSE made + 1
       IN  /\ k \in Schedulers
           /\ current' = k
           /\ made' = IF keep THEN made ELSE k
           /\ request' = [NoRequest EXCEPT !.at = "starting", !.scheduler = k,
                                           !.selects = m]
    /\ UNCHANGED <<disk, scheduler, worker, world>>

\* What follows start: nothing, or the selection.
AfterStart == IF request.selects = 0 THEN "idle" ELSE "selecting"

\* start: threads are made once; nothing is done without modules.
StartBegins ==
    LET k == request.scheduler IN
    /\ request.at = "starting"
    /\ IF discovered
       THEN /\ ~Locked(k)
            /\ request' = [request EXCEPT !.at = "looping"]
            /\ scheduler' = [scheduler EXCEPT ![k].started = TRUE]
            /\ worker' = IF scheduler[k].started THEN worker
                         ELSE [worker EXCEPT ![k] =
                                [w \in Workers |-> NextRound(k)]]
       ELSE /\ request' = [NoRequest EXCEPT !.at = AfterStart, !.selects = request.selects]
            /\ UNCHANGED <<scheduler, worker>>
    /\ UNCHANGED <<disk, made, current, world>>

\* Variant: what was being generated is taken for somebody's work.
NewsOfPending(k, m) ==
    IF m \in course THEN "ready"
    ELSE IF status[m] \in {"failed", "generating"} \/ Known(k, m) THEN "none"
    ELSE "pending"

\* What the loop of start records of a module, if anything: it queues what is
\* not ready, not failed and not yet known.
News(k, m) ==
    IF m \in course THEN "ready"
    ELSE IF status[m] = "failed" \/ Known(k, m) THEN "none"
    ELSE "pending"

\* The next module there is something to record of.
StartVisits(m) ==
    LET k == request.scheduler IN
    /\ request.at = "looping"
    /\ m >= request.todo
    /\ News(k, m) # "none"
    /\ \A n \in request.todo .. m - 1 : News(k, n) = "none"
    /\ request' = [request EXCEPT
        !.at = "saving", !.todo = m, !.value = News(k, m), !.copy = status]
    /\ scheduler' = IF News(k, m) = "pending"
                    THEN [scheduler EXCEPT ![k].queued = @ \cup {m}]
                    ELSE scheduler
    /\ UNCHANGED <<disk, made, current, worker, world>>

\* The status is written, then the module put in the queue.
StartSaves ==
    LET k == request.scheduler
        m == request.todo
    IN
    /\ request.at = "saving"
    /\ m \in Modules
    /\ status' = [request.copy EXCEPT ![m] = request.value]
    /\ scheduler' = IF request.value = "pending"
                    THEN [scheduler EXCEPT ![k].waiting = Append(@, m)]
                    ELSE scheduler
    /\ request' = [request EXCEPT !.at = "looping", !.todo = m + 1,
                                  !.value = "none", !.copy = NoCopy]
    /\ UNCHANGED <<discovered, course, made, current, worker, world>>

StartEnds ==
    /\ request.at = "looping"
    /\ \A m \in request.todo .. NModules : News(request.scheduler, m) = "none"
    /\ request' = [NoRequest EXCEPT !.at = AfterStart, !.selects = request.selects]
    /\ UNCHANGED <<disk, table, worker, world>>

\* create_walkthrough looks the scheduler up again (and fails when it is gone);
\* prioritize looks whether the course is ready before it takes the lock.
SelectChecks ==
    /\ request.at = "selecting"
    /\ IF current # 0 /\ discovered /\ request.selects \notin course
       THEN request' = [request EXCEPT !.at = "selected", !.scheduler = current]
       ELSE request' = NoRequest
    /\ UNCHANGED <<disk, table, worker, world>>

\* Variant: a module whose course is being generated is queued again.
EnqueuesUnlessQueued ==
    LET k == request.scheduler
        m == request.selects
    IN
    /\ request.at = "selected"
    /\ ~Locked(k)
    /\ IF m \in scheduler[k].queued
       THEN /\ request' = NoRequest
            /\ UNCHANGED scheduler
       ELSE /\ request' = [request EXCEPT !.at = "saving", !.todo = NModules + 1,
                                          !.value = "pending", !.copy = status]
            /\ scheduler' = [scheduler EXCEPT ![k].queued = @ \cup {m}]
    /\ UNCHANGED <<disk, made, current, worker, world>>

\* _enqueue: what is queued or being generated stays where it is.
SelectEnqueues ==
    LET k == request.scheduler
        m == request.selects
    IN
    /\ request.at = "selected"
    /\ ~Locked(k)
    /\ IF Known(k, m)
       THEN /\ request' = NoRequest
            /\ UNCHANGED scheduler
       ELSE /\ request' = [request EXCEPT !.at = "saving", !.todo = NModules + 1,
                                          !.value = "pending", !.copy = status]
            /\ scheduler' = [scheduler EXCEPT ![k].queued = @ \cup {m}]
    /\ UNCHANGED <<disk, made, current, worker, world>>

SelectSaves ==
    LET k == request.scheduler
        m == request.selects
    IN
    /\ request.at = "saving"
    /\ request.todo \notin Modules
    /\ status' = [request.copy EXCEPT ![m] = request.value]
    /\ scheduler' = [scheduler EXCEPT ![k].selected = Append(@, m)]
    /\ request' = NoRequest
    /\ UNCHANGED <<discovered, course, made, current, worker, world>>

-----------------------------------------------------------------------------
(* A worker.                                                               *)

SetWorker(k, w, record) == worker' = [worker EXCEPT ![k][w] = record]

\* A thread that finds the scheduler stopped ends.
Ends(k, w) ==
    /\ worker[k][w].at = "getting"
    /\ Interrupted(k)
    /\ SetWorker(k, w, NoThread)
    /\ UNCHANGED <<disk, table, request, world>>

\* A thread that waits in get may still take a module after the stop.
Takes(k, w) ==
    LET q == IF scheduler[k].selected # <<>> THEN scheduler[k].selected
             ELSE scheduler[k].waiting
    IN
    /\ worker[k][w].at = "getting"
    /\ q # <<>>
    /\ scheduler' = IF scheduler[k].selected # <<>>
                    THEN [scheduler EXCEPT ![k].selected = Tail(@)]
                    ELSE [scheduler EXCEPT ![k].waiting = Tail(@)]
    /\ SetWorker(k, w, [NoThread EXCEPT !.at = "taken", !.module = Head(q)])
    /\ UNCHANGED <<disk, made, current, request, world>>

\* The module moves from the queued to the active ones.
Marks(k, w) ==
    LET m == worker[k][w].module IN
    /\ worker[k][w].at = "taken"
    /\ ~Locked(k)
    /\ scheduler' = [scheduler EXCEPT ![k].queued = @ \ {m}, ![k].active = @ \cup {m}]
    /\ SetWorker(k, w, [worker[k][w] EXCEPT !.at = "reporting", !.value = "generating"])
    /\ UNCHANGED <<disk, made, current, request, world>>

\* _set_status reads the file and writes it back.
Reads(k, w) ==
    /\ worker[k][w].at = "reporting"
    /\ ~Locked(k)
    /\ SetWorker(k, w, [worker[k][w] EXCEPT !.at = "saving", !.copy = status])
    /\ UNCHANGED <<disk, table, request, world>>

Writes(k, w) ==
    LET me == worker[k][w] IN
    /\ me.at = "saving"
    /\ status' = [me.copy EXCEPT ![me.module] = me.value]
    /\ SetWorker(k, w, [me EXCEPT
        !.at = IF me.value = "generating" THEN "agent" ELSE "leaving",
        !.copy = NoCopy])
    /\ UNCHANGED <<discovered, course, table, request, world>>

\* The agent has written the course or not, and ended well or not; what was
\* stopped or belongs to the backend of before counts as failed.
AgentEnds(k, w) ==
    LET m == worker[k][w].module IN
    /\ worker[k][w].at = "agent"
    /\ \E wrote, ok \in BOOLEAN :
        /\ AgentsMayFail \/ Interrupted(k) \/ (wrote /\ ok)
        /\ course' = IF wrote THEN course \cup {m} ELSE course
        /\ SetWorker(k, w, [worker[k][w] EXCEPT
            !.at = "reporting",
            !.value = IF ok /\ ~Interrupted(k) /\ m \in course' THEN "ready" ELSE "failed"])
    /\ UNCHANGED <<discovered, status, table, request, world>>

Leaves(k, w) ==
    /\ worker[k][w].at = "leaving"
    /\ ~Locked(k)
    /\ scheduler' = [scheduler EXCEPT ![k].active = @ \ {worker[k][w].module}]
    /\ SetWorker(k, w, NextRound(k))
    /\ UNCHANGED <<disk, made, current, request, world>>

-----------------------------------------------------------------------------
(* What happens to the scheduler from outside.                             *)

Trouble ==
    /\ troubles < MaxTroubles
    /\ troubles' = troubles + 1

\* The courses are cleared, or generated anew: the scheduler leaves the table
\* and is told to stop. The files go when its threads have ended or five
\* seconds each are over.
BeginClear ==
    /\ clearing = 0
    /\ ~closing
    /\ discovered
    /\ current # 0
    /\ Trouble
    /\ clearing' = current
    /\ current' = 0
    /\ scheduler' = [scheduler EXCEPT ![current].stopped = TRUE]
    /\ UNCHANGED <<disk, made, worker, request, closing>>

FinishClear ==
    /\ clearing # 0
    /\ clearing' = 0
    /\ discovered' = FALSE
    /\ course' = {}
    /\ status' = NoCopy
    /\ UNCHANGED <<table, worker, request, closing, troubles>>

\* Initialization discovers the modules again.
Discover ==
    /\ ~discovered
    /\ ~closing
    /\ discovered' = TRUE
    /\ UNCHANGED <<course, status, table, worker, request, world>>

\* Every scheduler made so far belongs to the backend of before.
SwitchBackend ==
    /\ ~closing
    /\ made # 0
    /\ Trouble
    /\ scheduler' = [k \in Schedulers |->
        IF k <= made THEN [scheduler[k] EXCEPT !.cancelled = TRUE] ELSE scheduler[k]]
    /\ UNCHANGED <<disk, made, current, worker, request, clearing, closing>>

\* The service shuts down: the scheduler of the table is told to stop.
Close ==
    /\ ~closing
    /\ current # 0
    /\ Trouble
    /\ closing' = TRUE
    /\ scheduler' = [scheduler EXCEPT ![current].stopped = TRUE]
    /\ UNCHANGED <<disk, made, current, worker, request, clearing>>

\* It is gone, after a shutdown or killed, and starts again.
Restart ==
    /\ \/ closing /\ UNCHANGED troubles
       \/ ~closing /\ Trouble
    /\ closing' = FALSE
    /\ clearing' = 0
    /\ current' = 0
    /\ request' = NoRequest
    /\ worker' = [k \in Schedulers |-> [w \in Workers |-> NoThread]]
    /\ scheduler' = [k \in Schedulers |->
        IF k <= made THEN [Fresh EXCEPT !.stopped = TRUE] ELSE Fresh]
    /\ UNCHANGED <<disk, made>>

-----------------------------------------------------------------------------

StartStep == StartBegins \/ (\E m \in Modules : StartVisits(m)) \/ StartSaves \/ StartEnds
SelectStep == SelectChecks \/ SelectEnqueues \/ SelectSaves

WorkerStep(k, w) ==
    \/ Ends(k, w) \/ Takes(k, w) \/ Marks(k, w)
    \/ Reads(k, w) \/ Writes(k, w) \/ AgentEnds(k, w) \/ Leaves(k, w)

Next ==
    \/ \E m \in {0} \cup Selectable : Arrive(m)
    \/ StartStep \/ SelectStep
    \/ \E k \in Schedulers, w \in Workers : WorkerStep(k, w)
    \/ BeginClear \/ FinishClear \/ Discover \/ SwitchBackend \/ Close \/ Restart

Spec == Init /\ [][Next]_vars

\* The page polls while something is pending or generating; requests, threads,
\* agents and clearings end.
FairSpec ==
    /\ Spec
    /\ WF_vars(Arrive(0)) /\ WF_vars(StartStep) /\ WF_vars(SelectStep)
    /\ \A k \in Schedulers, w \in Workers : SF_vars(WorkerStep(k, w))
    /\ WF_vars(FinishClear)

-----------------------------------------------------------------------------
(* Properties.                                                             *)

InQueue(k, m) ==
    Cardinality({i \in DOMAIN scheduler[k].selected : scheduler[k].selected[i] = m})
    + Cardinality({i \in DOMAIN scheduler[k].waiting : scheduler[k].waiting[i] = m})

Handling(k, m) ==
    {w \in Workers :
        worker[k][w].at \notin {"absent", "getting"}
        /\ worker[k][w].module = m}

\* Files, schedulers, threads and requests keep their shapes.
TypeOK ==
    /\ discovered \in BOOLEAN
    /\ course \subseteq Modules
    /\ status \in [Modules -> Statuses]
    /\ scheduler \in [Schedulers ->
        [stopped : BOOLEAN, cancelled : BOOLEAN, started : BOOLEAN,
         selected : Seq(Modules), waiting : Seq(Modules),
         queued : SUBSET Modules, active : SUBSET Modules]]
    /\ made \in 0 .. MaxSchedulers
    /\ current \in 0 .. made
    /\ worker \in [Schedulers -> [Workers ->
        [at : {"absent", "getting", "taken", "reporting", "saving", "agent", "leaving"},
         module : Modules, value : Statuses, copy : [Modules -> Statuses]]]]
    /\ request \in
        [at : {"idle", "starting", "looping", "saving", "selecting", "selected"},
         scheduler : Schedulers, selects : 0 .. NModules, todo : 1 .. NModules + 1,
         value : Statuses, copy : [Modules -> Statuses]]
    /\ clearing \in 0 .. made
    /\ closing \in BOOLEAN
    /\ troubles \in 0 .. MaxTroubles

\* A scheduler has a module once, in its queue or in the hands of one worker,
\* also between get and the lock that moves it to the active ones, and however
\* often and in whatever order it is started and modules are selected.
HeldOnce ==
    \A k \in Schedulers, m \in Modules :
        InQueue(k, m) + Cardinality(Handling(k, m)) <= 1

\* Whatever is cleared, switched, shut down or killed, in whatever state the
\* file was left and whoever of before still writes to it, every module the
\* repository has comes to be ready or failed, once the troubles are over and
\* the user does not go on selecting what fails.
Settled(m) == m \in course \/ status[m] = "failed"
Settles ==
    <>[](request.selects = 0)
        => []<>(closing \/ ~discovered \/ \A m \in Modules : Settled(m))

\* Where no agent fails, no module is recorded as failed: what was merely stopped
\* stays to be resumed.
StoppedIsResumed == AgentsMayFail \/ \A m \in Modules \ course : status[m] # "failed"

\* A module the user selected is taken before those that were only queued.
Waits(k, m) == m \in {scheduler[k].waiting[i] : i \in DOMAIN scheduler[k].waiting}
SelectedFirst ==
    [][\A m \in Modules :
        (request.at = "selected" /\ request.selects = m /\ request' = NoRequest)
            => ~Waits(request.scheduler, m)]_vars

=============================================================================
