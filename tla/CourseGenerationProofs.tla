----------------------- MODULE CourseGenerationProofs -----------------------
(***************************************************************************)
(* Type correctness of the background generation, and that a scheduler has *)
(* a module in one place at a time: in one of its two queues or in the     *)
(* hands of one worker.                                                    *)
(***************************************************************************)
EXTENDS CourseGeneration, FiniteSetTheorems, TLAPS

-----------------------------------------------------------------------------
\* The inductive invariant.

\* What a selection works for: it is on only for a module, and what it saves is
\* that the module waits.
RequestInv ==
    /\ request.at \in {"selecting", "selected"} => request.selects # 0
    /\ request.at = "saving" /\ request.todo \notin Modules =>
           request.selects # 0 /\ request.value = "pending"

Once(q) == \A i, j \in DOMAIN q : q[i] = q[j] => i = j

Has(q, m) == \E i \in DOMAIN q : q[i] = m

InHand(t) == t.at \notin {"absent", "getting"}

\* A scheduler s with the threads ws, of which a request is about to queue the
\* modules in due: whatever is queued or in hand is known to s, as queued until
\* a worker marks it and as active after, and is in no second place.
Held(s, ws, due) ==
    /\ Once(s.selected) /\ Once(s.waiting)
    /\ \A m \in Modules : Has(s.selected, m) => ~Has(s.waiting, m)
    /\ \A m \in Modules : Has(s.selected, m) \/ Has(s.waiting, m) => m \in s.queued \ due
    /\ due \subseteq s.queued
    /\ \A w \in Workers : InHand(ws[w]) =>
        /\ ws[w].module \notin due
        /\ ~Has(s.selected, ws[w].module) /\ ~Has(s.waiting, ws[w].module)
        /\ ws[w].module \in IF ws[w].at = "taken" THEN s.queued ELSE s.active
    /\ \A v, w \in Workers :
        InHand(ws[v]) /\ InHand(ws[w]) /\ ws[v].module = ws[w].module => v = w

\* The module a request is about to queue: what it saves now is that it waits.
Due(k) ==
    IF request.at = "saving" /\ request.value = "pending" /\ request.scheduler = k
    THEN {IF request.todo \in Modules THEN request.todo ELSE request.selects}
    ELSE {}

HeldInv == \A k \in Schedulers : Held(scheduler[k], worker[k], Due(k))

-----------------------------------------------------------------------------
\* Types.

Schedules ==
    [stopped : BOOLEAN, cancelled : BOOLEAN, started : BOOLEAN,
     selected : Seq(Modules), waiting : Seq(Modules),
     queued : SUBSET Modules, active : SUBSET Modules]

Threads ==
    [at : {"absent", "getting", "taken", "reporting", "saving", "agent", "leaving"},
     module : Modules, value : Statuses, copy : [Modules -> Statuses]]

Requests ==
    [at : {"idle", "starting", "looping", "saving", "selecting", "selected"},
     scheduler : Schedulers, selects : 0 .. NModules, todo : 1 .. NModules + 1,
     value : Statuses, copy : [Modules -> Statuses]]

DiskTypes == discovered \in BOOLEAN /\ course \subseteq Modules /\ status \in [Modules -> Statuses]

TableTypes ==
    /\ scheduler \in [Schedulers -> Schedules]
    /\ made \in 0 .. MaxSchedulers
    /\ current \in 0 .. made

WorldTypes == clearing \in 0 .. made /\ closing \in BOOLEAN /\ troubles \in 0 .. MaxTroubles

TypeInv ==
    /\ DiskTypes /\ TableTypes /\ WorldTypes
    /\ worker \in [Schedulers -> [Workers -> Threads]]
    /\ request \in Requests

LEMMA FreshTypes ==
    /\ 1 \in Modules /\ 1 \in Schedulers /\ 1 \in 1 .. NModules + 1
    /\ NoCopy \in [Modules -> Statuses]
    /\ Fresh \in Schedules /\ [Fresh EXCEPT !.stopped = TRUE] \in Schedules
    /\ NoThread \in Threads /\ [NoThread EXCEPT !.at = "getting"] \in Threads
    /\ NoRequest \in Requests
<1>1. 1 \in Modules /\ 1 \in Schedulers /\ 1 \in 1 .. NModules + 1 /\ 0 \in 0 .. NModules
  BY CourseAssumption DEF Modules, Schedulers
<1>2. NoCopy \in [Modules -> Statuses] /\ "none" \in Statuses
  BY DEF NoCopy, Statuses
<1>3. <<>> \in Seq(Modules)
  OBVIOUS
<1>4. Fresh \in Schedules /\ [Fresh EXCEPT !.stopped = TRUE] \in Schedules
  BY <1>3 DEF Fresh, Schedules
<1>5. NoThread \in Threads /\ [NoThread EXCEPT !.at = "getting"] \in Threads
  BY <1>1, <1>2 DEF NoThread, Threads
<1>6. NoRequest \in Requests
  BY <1>1, <1>2 DEF NoRequest, Requests
<1> QED
  BY <1>1, <1>2, <1>4, <1>5, <1>6

LEMMA NextRoundType ==
    ASSUME NEW k
    PROVE  /\ NextRound(k) \in Threads
           /\ NextRound(k).at \in {"absent", "getting"}
BY FreshTypes DEF NextRound, NoThread

LEMMA TypeFacts ==
    ASSUME TypeInv
    PROVE  /\ NModules \in Nat \ {0} /\ MaxSchedulers \in Nat \ {0} /\ MaxTroubles \in Nat
           /\ request.scheduler \in Schedulers /\ request.selects \in 0 .. NModules
           /\ request.todo \in 1 .. NModules + 1 /\ request.copy \in [Modules -> Statuses]
           /\ request.value \in Statuses
           /\ \A k \in Schedulers : scheduler[k] \in Schedules
           /\ \A k \in Schedulers, w \in Workers : worker[k][w] \in Threads
           /\ 0 \notin Modules
BY CourseAssumption DEF TypeInv, TableTypes, Requests, Modules

\* A scheduler that changes is the only one that does.
LEMMA SchedulerPut ==
    ASSUME NEW f \in [Schedulers -> Schedules], NEW k \in Schedulers, NEW s \in Schedules
    PROVE  /\ [f EXCEPT ![k] = s] \in [Schedulers -> Schedules]
           /\ [f EXCEPT ![k] = s][k] = s
           /\ \A j \in Schedulers \ {k} : [f EXCEPT ![k] = s][j] = f[j]
OBVIOUS

\* A thread that moves on is the only one that does.
LEMMA WorkerPut ==
    ASSUME TypeInv, NEW k \in Schedulers, NEW w \in Workers, NEW t \in Threads, SetWorker(k, w, t)
    PROVE  /\ worker' \in [Schedulers -> [Workers -> Threads]]
           /\ worker'[k][w] = t
           /\ \A v \in Workers \ {w} : worker'[k][v] = worker[k][v]
           /\ \A j \in Schedulers \ {k} : worker'[j] = worker[j]
BY DEF TypeInv, SetWorker

-----------------------------------------------------------------------------
\* Queues.

LEMMA AppendHas ==
    ASSUME NEW q \in Seq(Modules), NEW m \in Modules
    PROVE  /\ Append(q, m) \in Seq(Modules)
           /\ \A n : Has(Append(q, m), n) <=> Has(q, n) \/ n = m
           /\ Once(q) /\ ~Has(q, m) => Once(Append(q, m))
<1>1. /\ Append(q, m) \in Seq(Modules)
      /\ DOMAIN q = 1 .. Len(q) /\ Len(q) \in Nat
      /\ DOMAIN Append(q, m) = 1 .. Len(q) + 1
      /\ \A i \in 1 .. Len(q) : Append(q, m)[i] = q[i]
      /\ Append(q, m)[Len(q) + 1] = m
  OBVIOUS
<1>2. \A n : Has(Append(q, m), n) <=> Has(q, n) \/ n = m
  BY <1>1 DEF Has
<1>3. Once(q) /\ ~Has(q, m) => Once(Append(q, m))
  BY <1>1 DEF Has, Once
<1> QED
  BY <1>1, <1>2, <1>3

LEMMA TailHas ==
    ASSUME NEW q \in Seq(Modules), q # <<>>, Once(q)
    PROVE  /\ Tail(q) \in Seq(Modules) /\ Head(q) \in Modules
           /\ Has(q, Head(q))
           /\ \A n : Has(Tail(q), n) <=> Has(q, n) /\ n # Head(q)
           /\ Once(Tail(q))
<1>1. /\ Tail(q) \in Seq(Modules) /\ Head(q) \in Modules /\ Head(q) = q[1]
      /\ DOMAIN q = 1 .. Len(q) /\ Len(q) \in Nat \ {0}
      /\ DOMAIN Tail(q) = 1 .. Len(q) - 1
      /\ \A i \in 1 .. Len(q) - 1 : Tail(q)[i] = q[i + 1]
  OBVIOUS
<1>2. Has(q, Head(q))
  BY <1>1 DEF Has
<1>3. ASSUME NEW n, Has(Tail(q), n) PROVE Has(q, n) /\ n # Head(q)
  BY <1>1, <1>3 DEF Has, Once
<1>4. ASSUME NEW n, Has(q, n), n # Head(q) PROVE Has(Tail(q), n)
  <2>1. PICK i \in 1 .. Len(q) : q[i] = n
    BY <1>1, <1>4 DEF Has
  <2>2. i - 1 \in 1 .. Len(q) - 1 /\ Tail(q)[i - 1] = n
    BY <1>1, <1>4, <2>1
  <2> QED
    BY <1>1, <2>2 DEF Has
<1>5. Once(Tail(q))
  BY <1>1 DEF Once
<1> QED
  BY <1>1, <1>2, <1>3, <1>4, <1>5

-----------------------------------------------------------------------------
\* What keeps a module in one place.

\* Threads that only leave or go on with what they have.
LEMMA HeldOn ==
    ASSUME NEW s, NEW t, NEW ws, NEW vs, NEW due, Held(s, ws, due),
           t.selected = s.selected, t.waiting = s.waiting,
           t.queued = s.queued, t.active = s.active,
           \A w \in Workers : InHand(vs[w]) =>
               /\ InHand(ws[w]) /\ vs[w].module = ws[w].module
               /\ vs[w].at = "taken" <=> ws[w].at = "taken"
    PROVE  Held(t, vs, due)
BY DEF Held

\* A module nobody knows is going to be queued.
LEMMA HeldDue ==
    ASSUME NEW s, NEW t, NEW ws, NEW m, NEW due, Held(s, ws, {}), due = {m},
           m \notin s.queued \cup s.active,
           t.selected = s.selected, t.waiting = s.waiting,
           t.queued = s.queued \cup {m}, t.active = s.active
    PROVE  Held(t, ws, due)
BY DEF Held

LEMMA HeldWaits ==
    ASSUME NEW s \in Schedules, NEW t, NEW ws, NEW m \in Modules, Held(s, ws, {m}),
           t.queued = s.queued, t.active = s.active,
           \/ t.selected = s.selected /\ t.waiting = Append(s.waiting, m)
           \/ t.selected = Append(s.selected, m) /\ t.waiting = s.waiting
    PROVE  Held(t, ws, {})
<1> s.selected \in Seq(Modules) /\ s.waiting \in Seq(Modules)
  BY DEF Schedules
<1>1. /\ ~Has(s.selected, m) /\ ~Has(s.waiting, m)
      /\ Once(s.selected) /\ Once(s.waiting)
      /\ \A n \in Modules : Has(s.selected, n) => ~Has(s.waiting, n)
  BY DEF Held
<1>2. \A q \in {s.selected, s.waiting} :
        Once(Append(q, m)) /\ \A n : Has(Append(q, m), n) <=> Has(q, n) \/ n = m
  BY <1>1, AppendHas
<1>3. /\ Once(t.selected) /\ Once(t.waiting)
      /\ \A n \in Modules : Has(t.selected, n) => ~Has(t.waiting, n)
      /\ \A n : Has(t.selected, n) => Has(s.selected, n) \/ n = m
      /\ \A n : Has(t.waiting, n) => Has(s.waiting, n) \/ n = m
  BY <1>1, <1>2
<1> QED
  BY <1>3 DEF Held

LEMMA HeldTaken ==
    ASSUME NEW s \in Schedules, NEW t, NEW ws, NEW vs, NEW due, NEW u \in Workers, Held(s, ws, due),
           NEW q \in {s.selected, s.waiting}, q # <<>>,
           ~InHand(ws[u]),
           t.queued = s.queued, t.active = s.active,
           \/ q = s.selected /\ t.selected = Tail(q) /\ t.waiting = s.waiting
           \/ q = s.waiting /\ t.waiting = Tail(q) /\ t.selected = s.selected,
           vs[u].at = "taken", vs[u].module = Head(q),
           \A w \in Workers \ {u} : vs[w] = ws[w]
    PROVE  Held(t, vs, due)
<1> s.selected \in Seq(Modules) /\ s.waiting \in Seq(Modules)
  BY DEF Schedules
<1>1. /\ Has(q, Head(q)) /\ Head(q) \in Modules
      /\ \A n : Has(Tail(q), n) <=> Has(q, n) /\ n # Head(q)
      /\ Once(Tail(q))
  BY TailHas DEF Held
<1>2. /\ Head(q) \in s.queued \ due
      /\ \A w \in Workers : InHand(ws[w]) => ws[w].module # Head(q)
  BY <1>1 DEF Held
<1>3. /\ Once(t.selected) /\ Once(t.waiting)
      /\ \A n : Has(t.selected, n) => Has(s.selected, n)
      /\ \A n : Has(t.waiting, n) => Has(s.waiting, n)
      /\ ~Has(t.selected, Head(q)) /\ ~Has(t.waiting, Head(q))
  BY <1>1 DEF Held
<1>4. /\ \A n \in Modules : Has(t.selected, n) => ~Has(t.waiting, n)
      /\ \A n \in Modules : Has(t.selected, n) \/ Has(t.waiting, n) => n \in t.queued \ due
      /\ due \subseteq t.queued
  BY <1>3 DEF Held
<1>5. ASSUME NEW w \in Workers, InHand(vs[w])
      PROVE  /\ vs[w].module \notin due
             /\ ~Has(t.selected, vs[w].module) /\ ~Has(t.waiting, vs[w].module)
             /\ vs[w].module \in IF vs[w].at = "taken" THEN t.queued ELSE t.active
  <2>1. CASE w = u
    BY <1>2, <1>3, <2>1
  <2>2. CASE w # u
    BY <1>3, <1>5, <2>2 DEF Held
  <2> QED
    BY <2>1, <2>2
<1>6. \A v, w \in Workers :
        InHand(vs[v]) /\ InHand(vs[w]) /\ vs[v].module = vs[w].module => v = w
  BY <1>2 DEF Held
<1> QED
  BY <1>3, <1>4, <1>5, <1>6 DEF Held

LEMMA HeldMarked ==
    ASSUME NEW s, NEW t, NEW ws, NEW vs, NEW due, NEW u \in Workers, Held(s, ws, due),
           ws[u].at = "taken", vs[u].at = "reporting", vs[u].module = ws[u].module,
           \A w \in Workers \ {u} : vs[w] = ws[w],
           t.selected = s.selected, t.waiting = s.waiting,
           t.queued = s.queued \ {ws[u].module}, t.active = s.active \cup {ws[u].module}
    PROVE  Held(t, vs, due)
BY DEF Held, InHand

LEMMA HeldLeft ==
    ASSUME NEW s, NEW t, NEW ws, NEW vs, NEW due, NEW u \in Workers, Held(s, ws, due),
           ws[u].at = "leaving", ~InHand(vs[u]),
           \A w \in Workers \ {u} : vs[w] = ws[w],
           t.selected = s.selected, t.waiting = s.waiting,
           t.queued = s.queued, t.active = s.active \ {ws[u].module}
    PROVE  Held(t, vs, due)
BY DEF Held, InHand

-----------------------------------------------------------------------------
\* The steps.

Inv == TypeInv /\ RequestInv /\ HeldInv

\* A step of one scheduler, its threads and its request leaves the others alone.
LEMMA HeldStep ==
    ASSUME HeldInv, NEW k \in Schedulers,
           \A j \in Schedulers \ {k} :
               scheduler'[j] = scheduler[j] /\ worker'[j] = worker[j] /\ Due(j)' = Due(j),
           Held(scheduler'[k], worker'[k], Due(k)')
    PROVE  HeldInv'
BY DEF HeldInv

LEMMA SchedulerStep ==
    ASSUME TypeInv, HeldInv, NEW k \in Schedulers, NEW s \in Schedules,
           scheduler' = [scheduler EXCEPT ![k] = s],
           \A j \in Schedulers \ {k} : worker'[j] = worker[j] /\ Due(j)' = Due(j),
           Held(s, worker'[k], Due(k)')
    PROVE  scheduler' \in [Schedulers -> Schedules] /\ HeldInv'
<1>1. /\ scheduler' \in [Schedulers -> Schedules] /\ scheduler'[k] = s
      /\ \A j \in Schedulers \ {k} : scheduler'[j] = scheduler[j]
  BY SchedulerPut DEF TypeInv, TableTypes
<1> QED
  BY <1>1, HeldStep

LEMMA InvInit == Init => Inv
<1> SUFFICES ASSUME Init PROVE Inv
  OBVIOUS
<1>0. discovered \in BOOLEAN /\ closing \in BOOLEAN
  BY DEF Init
<1>1. DiskTypes /\ WorldTypes
  BY <1>0, CourseAssumption, FreshTypes DEF Init, DiskTypes, WorldTypes
<1>2. TableTypes
  BY CourseAssumption, FreshTypes DEF Init, TableTypes
<1>3. TypeInv
  BY <1>1, <1>2, FreshTypes DEF Init, TypeInv
<1>4. RequestInv
  BY DEF Init, RequestInv, NoRequest
<1>5. ASSUME NEW k \in Schedulers PROVE Held(scheduler[k], worker[k], Due(k))
  <2>1. Due(k) = {}
    BY DEF Init, Due, NoRequest
  <2>2. scheduler[k] = Fresh /\ \A w \in Workers : ~InHand(worker[k][w])
    BY <1>5 DEF Init, NoThread, InHand
  <2> QED
    BY <2>1, <2>2 DEF Held, Fresh, Once, Has
<1> QED
  BY <1>3, <1>4, <1>5 DEF Inv, HeldInv

\* A step that only moves a request that queues nothing, before and after.
LEMMA RequestStep ==
    ASSUME Inv, request' \in Requests, RequestInv', UNCHANGED <<disk, table, worker, world>>,
           \A k \in Schedulers : Due(k) = {} /\ Due(k)' = {}
    PROVE  Inv'
<1>1. TypeInv'
  BY DEF Inv, TypeInv, DiskTypes, TableTypes, WorldTypes, disk, table, world
<1>2. HeldInv'
  BY DEF Inv, HeldInv, table
<1> QED
  BY <1>1, <1>2 DEF Inv

\* A request arrives for the scheduler of the table, or for a new one.
LEMMA ArriveStep ==
    ASSUME Inv, NEW m \in {0} \cup Selectable, Arrive(m)
    PROVE  Inv'
<1> DEFINE k == IF current # 0 /\ ~scheduler[current].cancelled THEN current ELSE made + 1
<1>1. m \in 0 .. NModules /\ k \in Schedulers
  BY CourseAssumption DEF Arrive
<1>2. /\ current' = k /\ made' \in 0 .. MaxSchedulers /\ current' \in 0 .. made'
      /\ clearing' \in 0 .. made'
  <2>1. /\ current' = k /\ clearing' = clearing
        /\ made' = IF current # 0 /\ ~scheduler[current].cancelled THEN made ELSE made + 1
    BY DEF Arrive, world
  <2>2. made \in 0 .. MaxSchedulers /\ current \in 0 .. made /\ clearing \in 0 .. made
    BY DEF Inv, TypeInv, TableTypes, WorldTypes
  <2> QED
    BY <1>1, <2>1, <2>2, CourseAssumption DEF Schedulers
<1>3. request' = [NoRequest EXCEPT !.at = "starting", !.scheduler = k, !.selects = m]
  BY DEF Arrive
<1> HIDE DEF k
<1>4. request' \in Requests /\ request'.at = "starting" /\ request.at = "idle"
  BY <1>1, <1>3, FreshTypes DEF Requests, Arrive
<1>5. TypeInv'
  BY <1>2, <1>4 DEF Arrive, Inv, TypeInv, DiskTypes, TableTypes, WorldTypes, disk, world
<1>6. \A j : Due(j) = {} /\ Due(j)' = {}
  BY <1>4 DEF Due
<1>7. HeldInv'
  BY <1>6 DEF Arrive, Inv, HeldInv
<1> QED
  BY <1>4, <1>5, <1>7 DEF Inv, RequestInv

LEMMA AfterStartTypes ==
    ASSUME TypeInv, request' = [NoRequest EXCEPT !.at = AfterStart, !.selects = request.selects]
    PROVE  /\ request' \in Requests /\ RequestInv'
           /\ request'.at \in {"idle", "selecting"}
<1> DEFINE a == AfterStart
           n == request.selects
<1>1. a \in {"idle", "selecting"} /\ (a = "selecting" => n # 0) /\ n \in 0 .. NModules
  BY TypeFacts DEF AfterStart
<1>2. request' = [NoRequest EXCEPT !.at = a, !.selects = n]
  OBVIOUS
<1> HIDE DEF a, n
<1>3. request' \in Requests /\ request'.at = a /\ request'.selects = n
  BY <1>1, <1>2, FreshTypes DEF Requests
<1> QED
  BY <1>1, <1>3 DEF RequestInv

LEMMA StartBeginsStep ==
    ASSUME Inv, StartBegins
    PROVE  Inv'
<1> DEFINE k == request.scheduler
<1>0. TypeInv /\ k \in Schedulers /\ request \in Requests /\ \A j : Due(j) = {}
  BY TypeFacts DEF Inv, TypeInv, StartBegins, Due
<1>1. CASE discovered
  <2>1. /\ request' = [request EXCEPT !.at = "looping"]
        /\ scheduler' = [scheduler EXCEPT ![k].started = TRUE]
        /\ \/ worker' = worker
           \/ worker' = [worker EXCEPT ![k] = [w \in Workers |-> NextRound(k)]]
        /\ UNCHANGED <<disk, made, current, world>>
    BY <1>1, Zenon DEF StartBegins
  <2>2. request' \in Requests /\ request'.at = "looping" /\ request'.scheduler = k
    BY <1>0, <2>1 DEF Requests
  <2>3. scheduler' \in [Schedulers -> Schedules]
    <3>1. [scheduler[k] EXCEPT !.started = TRUE] \in Schedules
      <4>1. scheduler[k] \in Schedules
        BY <1>0 DEF TypeInv, TableTypes
      <4> QED
        BY <4>1 DEF Schedules
    <3>2. scheduler' = [scheduler EXCEPT ![k] = [scheduler[k] EXCEPT !.started = TRUE]]
      BY <2>1
    <3> QED
      BY <1>0, <3>1, <3>2, SchedulerPut DEF TypeInv, TableTypes
  <2>4. worker' \in [Schedulers -> [Workers -> Threads]]
    BY <1>0, <2>1, NextRoundType DEF TypeInv
  <2>5. TypeInv' /\ RequestInv'
    BY <1>0, <2>1, <2>2, <2>3, <2>4
       DEF TypeInv, DiskTypes, TableTypes, WorldTypes, disk, world, RequestInv
  <2>6. HeldInv'
    <3>1. \A j : Due(j)' = {}
      BY <2>2 DEF Due
    <3>2. Held(scheduler'[k], worker'[k], {})
      <4>1. scheduler[k] \in Schedules /\ Held(scheduler[k], worker[k], {})
        BY <1>0 DEF Inv, HeldInv, TypeInv, TableTypes
      <4>2. /\ scheduler'[k].selected = scheduler[k].selected
            /\ scheduler'[k].waiting = scheduler[k].waiting
            /\ scheduler'[k].queued = scheduler[k].queued
            /\ scheduler'[k].active = scheduler[k].active
        BY <1>0, <2>1, <4>1 DEF TypeInv, TableTypes, Schedules
      <4>3. worker'[k] = worker[k] \/ \A w \in Workers : ~InHand(worker'[k][w])
        BY <1>0, <2>1, NextRoundType DEF TypeInv, InHand
      <4> QED
        BY <4>1, <4>2, <4>3, HeldOn
    <3> QED
      BY <1>0, <2>1, <3>1, <3>2, HeldStep DEF Inv, TypeInv, TableTypes
  <2> QED
    BY <2>5, <2>6 DEF Inv
<1>2. CASE ~discovered
  <2>1. /\ request' = [NoRequest EXCEPT !.at = AfterStart, !.selects = request.selects]
        /\ UNCHANGED <<disk, table, worker, world>>
    BY <1>2 DEF StartBegins, table
  <2>2. request' \in Requests /\ RequestInv' /\ \A j : Due(j)' = {}
    BY <1>0, <2>1, AfterStartTypes DEF Due
  <2> QED
    BY <1>0, <2>1, <2>2, RequestStep
<1> QED
  BY <1>1, <1>2

LEMMA StartVisitsStep ==
    ASSUME Inv, NEW m \in Modules, StartVisits(m)
    PROVE  Inv'
<1>k. PICK k \in Schedulers : k = request.scheduler
  BY TypeFacts DEF Inv
<1> USE <1>k
<1> DEFINE x == News(k, m)
           s == [scheduler[k] EXCEPT !.queued = @ \cup {m}]
<1>0. /\ TypeInv /\ k \in Schedulers /\ request \in Requests /\ \A j : Due(j) = {}
      /\ scheduler[k] \in Schedules /\ Held(scheduler[k], worker[k], {})
      /\ m \in 1 .. NModules + 1 /\ x \in {"ready", "pending"} /\ x \in Statuses
  BY TypeFacts DEF Inv, HeldInv, TypeInv, StartVisits, Due, Modules, News, Statuses
<1>1. /\ request' = [request EXCEPT !.at = "saving", !.todo = m, !.value = x, !.copy = status]
      /\ UNCHANGED <<disk, made, current, worker, world>>
  BY DEF StartVisits
<1> HIDE DEF x
<1>2. /\ request' \in Requests /\ request'.at = "saving" /\ request'.scheduler = k
      /\ request'.value = x /\ request'.todo = m
  BY <1>0, <1>1 DEF Requests, TypeInv, DiskTypes
<1>3. Due(k)' = (IF x = "pending" THEN {m} ELSE {}) /\ \A j \in Schedulers \ {k} : Due(j)' = {}
  BY <1>2 DEF Due
<1>4. CASE x = "pending"
  <2>1. m \notin scheduler[k].queued \cup scheduler[k].active
    BY <1>4 DEF x, News, Known
  <2>2. s \in Schedules
    BY <1>0 DEF Schedules
  <2>a. scheduler' = [scheduler EXCEPT ![k] = s]
    BY <1>4 DEF StartVisits, x
  <2>3. /\ s.queued = scheduler[k].queued \cup {m} /\ s.active = scheduler[k].active
        /\ s.selected = scheduler[k].selected /\ s.waiting = scheduler[k].waiting
    BY <1>0 DEF Schedules
  <2> HIDE DEF s
  <2>4. Held(s, worker'[k], Due(k)')
    BY <1>0, <1>1, <1>3, <1>4, <2>1, <2>3, HeldDue
  <2>b. \A j \in Schedulers \ {k} : worker'[j] = worker[j] /\ Due(j)' = Due(j)
    BY <1>0, <1>1, <1>3
  <2>5. scheduler' \in [Schedulers -> Schedules] /\ HeldInv'
    BY <1>0, <2>2, <2>a, <2>b, <2>4, SchedulerStep DEF Inv
  <2> QED
    BY <1>0, <1>1, <1>2, <2>5
       DEF Inv, TypeInv, DiskTypes, TableTypes, WorldTypes, disk, world, RequestInv
<1>5. CASE x = "ready"
  <2>1. scheduler' = scheduler
    BY <1>5 DEF StartVisits, x
  <2>2. HeldInv'
    BY <1>0, <1>1, <1>3, <1>5, <2>1 DEF Inv, HeldInv
  <2> QED
    BY <1>0, <1>1, <1>2, <2>1, <2>2
       DEF Inv, TypeInv, DiskTypes, TableTypes, WorldTypes, disk, world, RequestInv
<1> QED
  BY <1>0, <1>4, <1>5

LEMMA StartSavesStep ==
    ASSUME Inv, StartSaves
    PROVE  Inv'
<1> DEFINE k == request.scheduler
           m == request.todo
           s == [scheduler[k] EXCEPT !.waiting = Append(@, m)]
<1>0. /\ TypeInv /\ k \in Schedulers /\ request \in Requests /\ m \in Modules
      /\ scheduler[k] \in Schedules /\ Held(scheduler[k], worker[k], Due(k))
      /\ m + 1 \in 1 .. NModules + 1
  BY TypeFacts DEF Inv, HeldInv, TypeInv, StartSaves, Modules
<1>1. /\ status' = [request.copy EXCEPT ![m] = request.value]
      /\ request' = [request EXCEPT !.at = "looping", !.todo = m + 1, !.value = "none", !.copy = NoCopy]
      /\ UNCHANGED <<discovered, course, made, current, worker, world>>
  BY DEF StartSaves
<1>2. status' \in [Modules -> Statuses]
  BY <1>0, <1>1, TypeFacts
<1>3. "none" \in Statuses /\ request' \in Requests /\ request'.at = "looping"
  BY <1>0, <1>1, FreshTypes DEF Requests, Statuses
<1>4. \A j \in Schedulers : Due(j)' = {} /\ (j # k => Due(j) = {})
  BY <1>3 DEF Due
<1>5. CASE request.value = "pending"
  <2>1. Due(k) = {m}
    BY <1>0, <1>5 DEF Due, StartSaves
  <2>2. Append(scheduler[k].waiting, m) \in Seq(Modules)
    BY <1>0, AppendHas DEF Schedules
  <2>3. s \in Schedules
    BY <1>0, <2>2 DEF Schedules
  <2>4. /\ s.queued = scheduler[k].queued /\ s.active = scheduler[k].active
        /\ s.selected = scheduler[k].selected /\ s.waiting = Append(scheduler[k].waiting, m)
    BY <1>0 DEF Schedules
  <2>5. scheduler' = [scheduler EXCEPT ![k] = s]
    BY <1>5 DEF StartSaves
  <2> HIDE DEF s
  <2>6. Held(s, worker'[k], {})
    BY <1>0, <1>1, <2>1, <2>4, HeldWaits
  <2>7. scheduler' \in [Schedulers -> Schedules] /\ HeldInv'
    BY <1>0, <1>1, <1>4, <2>3, <2>5, <2>6, SchedulerStep DEF Inv
  <2> QED
    BY <1>0, <1>1, <1>2, <1>3, <2>7
       DEF Inv, TypeInv, DiskTypes, TableTypes, WorldTypes, world, RequestInv
<1>6. CASE request.value # "pending"
  <2>1. scheduler' = scheduler /\ Due(k) = {}
    BY <1>6 DEF StartSaves, Due
  <2>2. HeldInv'
    BY <1>0, <1>1, <1>4, <2>1 DEF Inv, HeldInv
  <2> QED
    BY <1>0, <1>1, <1>2, <1>3, <2>1, <2>2
       DEF Inv, TypeInv, DiskTypes, TableTypes, WorldTypes, world, RequestInv
<1> QED
  BY <1>5, <1>6

LEMMA StartEndsStep ==
    ASSUME Inv, StartEnds
    PROVE  Inv'
<1>1. /\ request' = [NoRequest EXCEPT !.at = AfterStart, !.selects = request.selects]
      /\ UNCHANGED <<disk, table, worker, world>> /\ request.at = "looping"
  BY DEF StartEnds
<1>2. request' \in Requests /\ RequestInv' /\ \A j : Due(j) = {} /\ Due(j)' = {}
  BY <1>1, AfterStartTypes DEF Inv, Due
<1> QED
  BY <1>1, <1>2, RequestStep

LEMMA SelectChecksStep ==
    ASSUME Inv, SelectChecks
    PROVE  Inv'
<1>1. /\ request.at = "selecting" /\ request \in Requests /\ request.selects # 0
      /\ UNCHANGED <<disk, table, worker, world>>
  BY DEF SelectChecks, Inv, TypeInv, RequestInv
<1>2. \/ /\ current # 0
         /\ request' = [request EXCEPT !.at = "selected", !.scheduler = current]
      \/ request' = NoRequest
  BY DEF SelectChecks
<1>3. current # 0 => current \in Schedulers
  BY CourseAssumption DEF Inv, TypeInv, TableTypes, Schedulers
<1>4. request' \in Requests /\ RequestInv' /\ request'.at \in {"idle", "selected"}
  <2>1. CASE request' = NoRequest
    BY <2>1, FreshTypes DEF RequestInv, NoRequest
  <2>2. CASE current # 0 /\ request' = [request EXCEPT !.at = "selected", !.scheduler = current]
    BY <1>1, <1>3, <2>2 DEF Requests, RequestInv
  <2> QED
    BY <1>2, <2>1, <2>2
<1>5. \A j : Due(j) = {} /\ Due(j)' = {}
  BY <1>1, <1>4 DEF Due
<1> QED
  BY <1>1, <1>4, <1>5, RequestStep

LEMMA SelectEnqueuesStep ==
    ASSUME Inv, SelectEnqueues
    PROVE  Inv'
<1>k. PICK k \in Schedulers : k = request.scheduler
  BY TypeFacts DEF Inv
<1> USE <1>k
<1> DEFINE m == request.selects
           s == [scheduler[k] EXCEPT !.queued = @ \cup {m}]
<1>0. /\ TypeInv /\ k \in Schedulers /\ request \in Requests /\ \A j : Due(j) = {}
      /\ scheduler[k] \in Schedules /\ Held(scheduler[k], worker[k], {})
      /\ m \in Modules /\ NModules + 1 \notin Modules /\ NModules + 1 \in 1 .. NModules + 1
      /\ "pending" \in Statuses /\ m # 0
  BY TypeFacts DEF Inv, HeldInv, TypeInv, RequestInv, SelectEnqueues, Due, Modules, Statuses
<1>1. UNCHANGED <<disk, made, current, worker, world>>
  BY DEF SelectEnqueues
<1>2. CASE Known(k, m)
  <2>1. request' = NoRequest /\ scheduler' = scheduler
    BY <1>2 DEF SelectEnqueues
  <2>2. request' \in Requests /\ RequestInv' /\ \A j : Due(j)' = {}
    BY <2>1, FreshTypes DEF RequestInv, NoRequest, Due
  <2> QED
    BY <1>0, <1>1, <2>1, <2>2, RequestStep DEF table
<1>3. CASE ~Known(k, m)
  <2>1. request' = [request EXCEPT !.at = "saving", !.todo = NModules + 1,
                                   !.value = "pending", !.copy = status]
    BY <1>3 DEF SelectEnqueues
  <2>2. /\ request' \in Requests /\ request'.at = "saving" /\ request'.scheduler = k
        /\ request'.value = "pending" /\ request'.todo = NModules + 1 /\ request'.selects = m
    BY <1>0, <2>1 DEF Requests, TypeInv, DiskTypes
  <2>3. Due(k)' = {m} /\ \A j \in Schedulers \ {k} : Due(j)' = {}
    BY <1>0, <2>2 DEF Due
  <2>4. m \notin scheduler[k].queued \cup scheduler[k].active
    BY <1>3 DEF Known
  <2>5. s \in Schedules
    BY <1>0 DEF Schedules
  <2>6. /\ s.queued = scheduler[k].queued \cup {m} /\ s.active = scheduler[k].active
        /\ s.selected = scheduler[k].selected /\ s.waiting = scheduler[k].waiting
    BY <1>0 DEF Schedules
  <2>7. scheduler' = [scheduler EXCEPT ![k] = s]
    BY <1>3 DEF SelectEnqueues
  <2> HIDE DEF s
  <2>8. Held(s, worker'[k], Due(k)')
    BY <1>0, <1>1, <2>3, <2>4, <2>6, HeldDue
  <2>a. \A j \in Schedulers \ {k} : worker'[j] = worker[j] /\ Due(j)' = Due(j)
    BY <1>0, <1>1, <2>3
  <2>9. scheduler' \in [Schedulers -> Schedules] /\ HeldInv'
    BY <1>0, <2>5, <2>7, <2>8, <2>a, SchedulerStep DEF Inv
  <2>10. RequestInv'
    BY <1>0, <2>2 DEF RequestInv
  <2> QED
    BY <1>0, <1>1, <2>2, <2>9, <2>10
       DEF Inv, TypeInv, DiskTypes, TableTypes, WorldTypes, disk, world
<1> QED
  BY <1>2, <1>3

LEMMA SelectSavesStep ==
    ASSUME Inv, SelectSaves
    PROVE  Inv'
<1> DEFINE k == request.scheduler
           m == request.selects
           s == [scheduler[k] EXCEPT !.selected = Append(@, m)]
<1>a. /\ TypeInv /\ HeldInv /\ request.at = "saving" /\ request.todo \notin Modules
      /\ request.value = "pending" /\ m # 0
  BY DEF Inv, RequestInv, SelectSaves
<1>0. /\ TypeInv /\ k \in Schedulers /\ request \in Requests /\ m \in Modules
      /\ scheduler[k] \in Schedules /\ Held(scheduler[k], worker[k], Due(k))
      /\ Due(k) = {m}
  <2>1. k \in Schedulers /\ request \in Requests /\ m \in Modules /\ scheduler[k] \in Schedules
    BY <1>a, TypeFacts DEF TypeInv, Modules
  <2>2. Due(k) = {m}
    BY <1>a DEF Due
  <2> QED
    BY <1>a, <2>1, <2>2 DEF HeldInv
<1>1. /\ status' = [request.copy EXCEPT ![m] = request.value]
      /\ request' = NoRequest
      /\ UNCHANGED <<discovered, course, made, current, worker, world>>
  BY DEF SelectSaves
<1>2. status' \in [Modules -> Statuses]
  BY <1>0, <1>1, TypeFacts
<1>3. request' \in Requests /\ request'.at = "idle"
  BY <1>1, FreshTypes DEF NoRequest
<1>4. \A j \in Schedulers : Due(j)' = {} /\ (j # k => Due(j) = {})
  BY <1>3 DEF Due
<1>5. Append(scheduler[k].selected, m) \in Seq(Modules)
  BY <1>0, AppendHas DEF Schedules
<1>6. s \in Schedules
  BY <1>0, <1>5 DEF Schedules
<1>7. /\ s.queued = scheduler[k].queued /\ s.active = scheduler[k].active
      /\ s.waiting = scheduler[k].waiting /\ s.selected = Append(scheduler[k].selected, m)
  BY <1>0 DEF Schedules
<1>8. scheduler' = [scheduler EXCEPT ![k] = s]
  BY DEF SelectSaves
<1> HIDE DEF s
<1>9. Held(s, worker'[k], {})
  BY <1>0, <1>1, <1>7, HeldWaits
<1>10. scheduler' \in [Schedulers -> Schedules] /\ HeldInv'
  BY <1>0, <1>1, <1>4, <1>6, <1>8, <1>9, SchedulerStep DEF Inv
<1> QED
  BY <1>0, <1>1, <1>2, <1>3, <1>10
     DEF Inv, TypeInv, DiskTypes, TableTypes, WorldTypes, world, RequestInv

\* A thread that goes on with what it has, or leaves with nothing marked.
LEMMA ThreadStep ==
    ASSUME Inv, NEW k \in Schedulers, NEW w \in Workers, NEW t \in Threads,
           SetWorker(k, w, t),
           InHand(t) => InHand(worker[k][w]) /\ t.module = worker[k][w].module
                        /\ t.at # "taken" /\ worker[k][w].at # "taken",
           status' \in [Modules -> Statuses], course' \subseteq Modules,
           UNCHANGED <<discovered, table, request, world>>
    PROVE  Inv'
<1>1. /\ worker' \in [Schedulers -> [Workers -> Threads]]
      /\ worker'[k][w] = t
      /\ \A v \in Workers \ {w} : worker'[k][v] = worker[k][v]
      /\ \A j \in Schedulers \ {k} : worker'[j] = worker[j]
  BY WorkerPut DEF Inv
<1>2. TypeInv' /\ RequestInv'
  BY <1>1 DEF Inv, TypeInv, DiskTypes, TableTypes, WorldTypes, table, world, RequestInv
<1>3. \A j : Due(j)' = Due(j)
  BY DEF Due
<1>4. Held(scheduler[k], worker'[k], Due(k))
  <2>1. Held(scheduler[k], worker[k], Due(k))
    BY DEF Inv, HeldInv
  <2>2. \A v \in Workers : InHand(worker'[k][v]) =>
          /\ InHand(worker[k][v]) /\ worker'[k][v].module = worker[k][v].module
          /\ worker'[k][v].at = "taken" <=> worker[k][v].at = "taken"
    BY <1>1
  <2> QED
    BY <2>1, <2>2, HeldOn
<1>5. HeldInv'
  BY <1>1, <1>3, <1>4, HeldStep DEF Inv, table
<1> QED
  BY <1>2, <1>5 DEF Inv

LEMMA EndsStep ==
    ASSUME Inv, NEW k \in Schedulers, NEW w \in Workers, Ends(k, w)
    PROVE  Inv'
<1>1. ~InHand(NoThread) /\ NoThread \in Threads
  BY FreshTypes DEF NoThread, InHand
<1>2. /\ SetWorker(k, w, NoThread) /\ status' = status /\ course' = course
      /\ UNCHANGED <<discovered, table, request, world>>
  BY DEF Ends, disk
<1> QED
  BY <1>1, <1>2, ThreadStep DEF Inv, TypeInv, DiskTypes

LEMMA ReadsStep ==
    ASSUME Inv, NEW k \in Schedulers, NEW w \in Workers, Reads(k, w)
    PROVE  Inv'
<1> DEFINE t == [worker[k][w] EXCEPT !.at = "saving", !.copy = status]
<1>1. worker[k][w] \in Threads /\ status \in [Modules -> Statuses] /\ course \subseteq Modules
  BY TypeFacts DEF Inv, TypeInv, DiskTypes
<1>2. t \in Threads /\ t.at = "saving" /\ t.module = worker[k][w].module
  BY <1>1 DEF Threads
<1>3. /\ SetWorker(k, w, t) /\ worker[k][w].at = "reporting" /\ status' = status /\ course' = course
      /\ UNCHANGED <<discovered, table, request, world>>
  BY DEF Reads, disk
<1> HIDE DEF t
<1> QED
  BY <1>1, <1>2, <1>3, ThreadStep DEF InHand

LEMMA WritesStep ==
    ASSUME Inv, NEW k \in Schedulers, NEW w \in Workers, Writes(k, w)
    PROVE  Inv'
<1> DEFINE me == worker[k][w]
           a == IF me.value = "generating" THEN "agent" ELSE "leaving"
           t == [me EXCEPT !.at = a, !.copy = NoCopy]
<1>1. me \in Threads /\ me.module \in Modules /\ me.value \in Statuses
      /\ me.copy \in [Modules -> Statuses] /\ course \subseteq Modules
  BY TypeFacts DEF Inv, TypeInv, DiskTypes, Threads
<1>2. /\ SetWorker(k, w, t) /\ me.at = "saving" /\ course' = course
      /\ status' = [me.copy EXCEPT ![me.module] = me.value]
      /\ UNCHANGED <<discovered, table, request, world>>
  BY DEF Writes
<1>3. status' \in [Modules -> Statuses]
  BY <1>1, <1>2
<1>4. a \in {"agent", "leaving"}
  OBVIOUS
<1> HIDE DEF a
<1>5. t \in Threads /\ t.at = a /\ t.module = me.module
  BY <1>1, <1>4, FreshTypes DEF Threads
<1> HIDE DEF t
<1> QED
  BY <1>1, <1>2, <1>3, <1>4, <1>5, ThreadStep DEF InHand

LEMMA AgentEndsStep ==
    ASSUME Inv, NEW k \in Schedulers, NEW w \in Workers, AgentEnds(k, w)
    PROVE  Inv'
<1> DEFINE me == worker[k][w]
<1>1. /\ me \in Threads /\ me.module \in Modules /\ course \subseteq Modules
      /\ status \in [Modules -> Statuses]
  BY TypeFacts DEF Inv, TypeInv, DiskTypes, Threads
<1>2. /\ me.at = "agent" /\ status' = status
      /\ course' \in {course, course \cup {me.module}}
      /\ UNCHANGED <<discovered, table, request, world>>
  BY DEF AgentEnds
<1>3. PICK x \in {"ready", "failed"} : SetWorker(k, w, [me EXCEPT !.at = "reporting", !.value = x])
  BY DEF AgentEnds
<1> DEFINE t == [me EXCEPT !.at = "reporting", !.value = x]
<1>4. t \in Threads /\ t.at = "reporting" /\ t.module = me.module
  BY <1>1 DEF Threads, Statuses
<1>5. SetWorker(k, w, t)
  BY <1>3
<1> HIDE DEF t
<1> QED
  BY <1>1, <1>2, <1>4, <1>5, ThreadStep DEF InHand

\* A worker takes a module, marks it or leaves it: the scheduler changes too.
LEMMA WorkerStepKeeps ==
    ASSUME Inv, NEW k \in Schedulers, NEW w \in Workers, NEW t \in Threads, NEW s \in Schedules,
           SetWorker(k, w, t), scheduler' = [scheduler EXCEPT ![k] = s],
           Held(s, worker'[k], Due(k)),
           UNCHANGED <<disk, made, current, request, world>>
    PROVE  Inv'
<1>1. /\ worker' \in [Schedulers -> [Workers -> Threads]]
      /\ \A j \in Schedulers \ {k} : worker'[j] = worker[j]
  BY WorkerPut DEF Inv
<1>2. \A j : Due(j)' = Due(j)
  BY DEF Due
<1>3. scheduler' \in [Schedulers -> Schedules] /\ HeldInv'
  BY <1>1, <1>2, SchedulerStep DEF Inv
<1> QED
  BY <1>1, <1>3
     DEF Inv, TypeInv, DiskTypes, TableTypes, WorldTypes, disk, world, RequestInv

LEMMA TakesStep ==
    ASSUME Inv, NEW k \in Schedulers, NEW w \in Workers, Takes(k, w)
    PROVE  Inv'
<1> DEFINE s == scheduler[k]
           q == IF s.selected # <<>> THEN s.selected ELSE s.waiting
           t == [NoThread EXCEPT !.at = "taken", !.module = Head(q)]
           r == IF s.selected # <<>> THEN [s EXCEPT !.selected = Tail(@)]
                ELSE [s EXCEPT !.waiting = Tail(@)]
<1>1. /\ s \in Schedules /\ Held(s, worker[k], Due(k))
      /\ s.selected \in Seq(Modules) /\ s.waiting \in Seq(Modules)
      /\ worker[k][w].at = "getting" /\ q # <<>>
  BY TypeFacts DEF Inv, HeldInv, Takes, Schedules
<1>2. q \in Seq(Modules) /\ q \in {s.selected, s.waiting} /\ Once(q)
  BY <1>1 DEF Held
<1>3. Head(q) \in Modules /\ Tail(q) \in Seq(Modules)
  BY <1>1, <1>2, TailHas
<1>4. SetWorker(k, w, t) /\ UNCHANGED <<disk, made, current, request, world>>
  BY DEF Takes
<1>5. scheduler' = [scheduler EXCEPT ![k] = r]
  BY DEF Takes
<1>6. /\ r \in Schedules /\ r.queued = s.queued /\ r.active = s.active
      /\ \/ q = s.selected /\ r.selected = Tail(q) /\ r.waiting = s.waiting
         \/ q = s.waiting /\ r.waiting = Tail(q) /\ r.selected = s.selected
  BY <1>1, <1>3 DEF Schedules
<1> HIDE DEF s, q, r
<1>7. t \in Threads /\ t.at = "taken" /\ t.module = Head(q)
  BY <1>3, FreshTypes DEF Threads
<1> HIDE DEF t
<1>8. worker'[k][w] = t /\ \A v \in Workers \ {w} : worker'[k][v] = worker[k][v]
  BY <1>4, <1>7, WorkerPut DEF Inv
<1>9. worker'[k][w].at = "taken" /\ worker'[k][w].module = Head(q) /\ ~InHand(worker[k][w])
  BY <1>1, <1>7, <1>8 DEF InHand
<1>10. Held(r, worker'[k], Due(k))
  BY <1>1, <1>2, <1>6, <1>8, <1>9, HeldTaken
<1> QED
  BY <1>4, <1>5, <1>6, <1>7, <1>10, WorkerStepKeeps

LEMMA MarksStep ==
    ASSUME Inv, NEW k \in Schedulers, NEW w \in Workers, Marks(k, w)
    PROVE  Inv'
<1> DEFINE s == scheduler[k]
           me == worker[k][w]
           m == me.module
           t == [me EXCEPT !.at = "reporting", !.value = "generating"]
           r == [s EXCEPT !.queued = @ \ {m}, !.active = @ \cup {m}]
<1>1. /\ s \in Schedules /\ Held(s, worker[k], Due(k)) /\ me \in Threads /\ m \in Modules
      /\ me.at = "taken"
  BY TypeFacts DEF Inv, HeldInv, Marks, Threads
<1>2. SetWorker(k, w, t) /\ UNCHANGED <<disk, made, current, request, world>>
  BY DEF Marks
<1>3. scheduler' = [scheduler EXCEPT ![k] = r]
  BY DEF Marks
<1>4. /\ r \in Schedules /\ r.queued = s.queued \ {m} /\ r.active = s.active \cup {m}
      /\ r.selected = s.selected /\ r.waiting = s.waiting
  BY <1>1 DEF Schedules
<1>5. t \in Threads /\ t.at = "reporting" /\ t.module = m
  BY <1>1 DEF Threads, Statuses
<1> HIDE DEF s, t, r
<1>6. worker'[k][w] = t /\ \A v \in Workers \ {w} : worker'[k][v] = worker[k][v]
  BY <1>2, <1>5, WorkerPut DEF Inv
<1>7. Held(r, worker'[k], Due(k))
  BY <1>1, <1>4, <1>5, <1>6, HeldMarked
<1> QED
  BY <1>2, <1>3, <1>4, <1>5, <1>7, WorkerStepKeeps

LEMMA LeavesStep ==
    ASSUME Inv, NEW k \in Schedulers, NEW w \in Workers, Leaves(k, w)
    PROVE  Inv'
<1> DEFINE s == scheduler[k]
           me == worker[k][w]
           m == me.module
           t == NextRound(k)
           r == [s EXCEPT !.active = @ \ {m}]
<1>1. /\ s \in Schedules /\ Held(s, worker[k], Due(k)) /\ me.at = "leaving"
  BY TypeFacts DEF Inv, HeldInv, Leaves
<1>2. SetWorker(k, w, t) /\ UNCHANGED <<disk, made, current, request, world>>
  BY DEF Leaves
<1>3. scheduler' = [scheduler EXCEPT ![k] = r]
  BY DEF Leaves
<1>4. /\ r \in Schedules /\ r.queued = s.queued /\ r.active = s.active \ {m}
      /\ r.selected = s.selected /\ r.waiting = s.waiting
  BY <1>1 DEF Schedules
<1>5. t \in Threads /\ ~InHand(t)
  BY NextRoundType DEF InHand
<1> HIDE DEF s, t, r
<1>6. worker'[k][w] = t /\ \A v \in Workers \ {w} : worker'[k][v] = worker[k][v]
  BY <1>2, <1>5, WorkerPut DEF Inv
<1>7. Held(r, worker'[k], Due(k))
  BY <1>1, <1>4, <1>5, <1>6, HeldLeft
<1> QED
  BY <1>2, <1>3, <1>4, <1>5, <1>7, WorkerStepKeeps

\* What happens to the schedulers from outside stops or cancels some of them.
LEMMA StoppedStep ==
    ASSUME Inv, UNCHANGED <<worker, request>>,
           scheduler' \in [Schedulers -> Schedules],
           \A k \in Schedulers :
               /\ scheduler'[k].selected = scheduler[k].selected
               /\ scheduler'[k].waiting = scheduler[k].waiting
               /\ scheduler'[k].queued = scheduler[k].queued
               /\ scheduler'[k].active = scheduler[k].active,
           DiskTypes', WorldTypes', made' \in 0 .. MaxSchedulers, current' \in 0 .. made'
    PROVE  Inv'
<1>1. TypeInv' /\ RequestInv'
  BY DEF Inv, TypeInv, TableTypes, RequestInv
<1>2. \A k : Due(k)' = Due(k)
  BY DEF Due
<1>3. ASSUME NEW k \in Schedulers PROVE Held(scheduler'[k], worker'[k], Due(k)')
  BY <1>2, <1>3, HeldOn DEF Inv, HeldInv
<1> QED
  BY <1>1, <1>3 DEF Inv, HeldInv

LEMMA StopOne ==
    ASSUME TypeInv, NEW k \in Schedulers
    PROVE  LET f == [scheduler EXCEPT ![k].stopped = TRUE] IN
           /\ f \in [Schedulers -> Schedules]
           /\ \A j \in Schedulers :
               /\ f[j].selected = scheduler[j].selected /\ f[j].waiting = scheduler[j].waiting
               /\ f[j].queued = scheduler[j].queued /\ f[j].active = scheduler[j].active
<1> DEFINE s == [scheduler[k] EXCEPT !.stopped = TRUE]
           f == [scheduler EXCEPT ![k] = s]
<1>1. scheduler[k] \in Schedules
  BY TypeFacts
<1>2. /\ s \in Schedules
      /\ s.selected = scheduler[k].selected /\ s.waiting = scheduler[k].waiting
      /\ s.queued = scheduler[k].queued /\ s.active = scheduler[k].active
  BY <1>1 DEF Schedules
<1> HIDE DEF s
<1>3. /\ f \in [Schedulers -> Schedules] /\ f[k] = s
      /\ \A j \in Schedulers \ {k} : f[j] = scheduler[j]
  BY <1>2, SchedulerPut DEF TypeInv, TableTypes
<1> HIDE DEF f
<1>4. \A j \in Schedulers :
        /\ f[j].selected = scheduler[j].selected /\ f[j].waiting = scheduler[j].waiting
        /\ f[j].queued = scheduler[j].queued /\ f[j].active = scheduler[j].active
  BY <1>2, <1>3
<1>5. f = [scheduler EXCEPT ![k].stopped = TRUE]
  BY DEF f, s
<1> QED
  BY <1>3, <1>4, <1>5

LEMMA OutsideStep ==
    ASSUME Inv, BeginClear \/ FinishClear \/ Discover \/ SwitchBackend \/ Close \/ Restart
    PROVE  Inv'
<1>0. /\ TypeInv /\ DiskTypes /\ WorldTypes /\ made \in 0 .. MaxSchedulers /\ current \in 0 .. made
      /\ MaxSchedulers \in Nat /\ MaxTroubles \in Nat
      /\ scheduler \in [Schedulers -> Schedules]
      /\ current # 0 => current \in Schedulers
  BY CourseAssumption DEF Inv, TypeInv, TableTypes, Schedulers
<1>a. Trouble => troubles' \in 0 .. MaxTroubles
  BY <1>0 DEF Trouble, WorldTypes
<1>1. CASE BeginClear
  <2>1. /\ current \in Schedulers /\ scheduler' = [scheduler EXCEPT ![current].stopped = TRUE]
        /\ UNCHANGED <<disk, made, worker, request, closing>>
        /\ current' = 0 /\ clearing' = current /\ Trouble
    BY <1>0, <1>1 DEF BeginClear
  <2>2. DiskTypes' /\ WorldTypes' /\ made' \in 0 .. MaxSchedulers /\ current' \in 0 .. made'
    BY <1>0, <1>a, <2>1 DEF DiskTypes, WorldTypes, disk
  <2> QED
    BY <1>0, <2>1, <2>2, StopOne, StoppedStep
<1>2. CASE Close
  <2>1. /\ current \in Schedulers /\ scheduler' = [scheduler EXCEPT ![current].stopped = TRUE]
        /\ UNCHANGED <<disk, made, current, worker, request, clearing>>
        /\ closing' = TRUE /\ Trouble
    BY <1>0, <1>2 DEF Close
  <2>2. DiskTypes' /\ WorldTypes' /\ made' \in 0 .. MaxSchedulers /\ current' \in 0 .. made'
    BY <1>0, <1>a, <2>1 DEF DiskTypes, WorldTypes, disk
  <2> QED
    BY <1>0, <2>1, <2>2, StopOne, StoppedStep
<1>3. CASE SwitchBackend
  <2>1. /\ scheduler' = [k \in Schedulers |->
               IF k <= made THEN [scheduler[k] EXCEPT !.cancelled = TRUE] ELSE scheduler[k]]
        /\ UNCHANGED <<disk, made, current, worker, request, clearing, closing>>
        /\ Trouble
    BY <1>3 DEF SwitchBackend
  <2>2. ASSUME NEW k \in Schedulers
        PROVE  /\ scheduler'[k] \in Schedules
               /\ scheduler'[k].selected = scheduler[k].selected
               /\ scheduler'[k].waiting = scheduler[k].waiting
               /\ scheduler'[k].queued = scheduler[k].queued
               /\ scheduler'[k].active = scheduler[k].active
    <3> DEFINE s == scheduler[k]
               t == [s EXCEPT !.cancelled = TRUE]
    <3>1. s \in Schedules
      BY <1>0
    <3>2. /\ t \in Schedules /\ t.selected = s.selected /\ t.waiting = s.waiting
          /\ t.queued = s.queued /\ t.active = s.active
      BY <3>1 DEF Schedules
    <3>3. scheduler'[k] = t \/ scheduler'[k] = s
      BY <2>1
    <3> HIDE DEF t
    <3> QED
      BY <3>1, <3>2, <3>3
  <2>3. scheduler' \in [Schedulers -> Schedules]
    <3>1. scheduler' = [k \in Schedulers |-> scheduler'[k]]
      BY <2>1
    <3> QED
      BY <2>2, <3>1
  <2>4. DiskTypes' /\ WorldTypes' /\ made' \in 0 .. MaxSchedulers /\ current' \in 0 .. made'
    BY <1>0, <1>a, <2>1 DEF DiskTypes, WorldTypes, disk
  <2> QED
    BY <2>1, <2>2, <2>3, <2>4, StoppedStep
<1>4. CASE FinishClear
  <2>1. /\ UNCHANGED <<scheduler, made, current, worker, request, closing, troubles>>
        /\ discovered' = FALSE /\ course' = {} /\ status' = NoCopy /\ clearing' = 0
    BY <1>4 DEF FinishClear, table
  <2>a. discovered' \in BOOLEAN
    BY <2>1
  <2>2. DiskTypes' /\ WorldTypes' /\ made' \in 0 .. MaxSchedulers /\ current' \in 0 .. made'
    BY <1>0, <2>1, <2>a, FreshTypes DEF DiskTypes, WorldTypes
  <2> QED
    BY <1>0, <2>1, <2>2, StoppedStep
<1>5. CASE Discover
  <2>1. /\ UNCHANGED <<course, status, scheduler, made, current, worker, request, world>>
        /\ discovered' = TRUE
    BY <1>5 DEF Discover, table
  <2>2. DiskTypes' /\ WorldTypes' /\ made' \in 0 .. MaxSchedulers /\ current' \in 0 .. made'
    BY <1>0, <2>1 DEF DiskTypes, WorldTypes, world
  <2> QED
    BY <1>0, <2>1, <2>2, StoppedStep
<1>6. CASE Restart
  <2>1. /\ closing' = FALSE /\ clearing' = 0 /\ current' = 0 /\ request' = NoRequest
        /\ worker' = [k \in Schedulers |-> [w \in Workers |-> NoThread]]
        /\ scheduler' = [k \in Schedulers |->
               IF k <= made THEN [Fresh EXCEPT !.stopped = TRUE] ELSE Fresh]
        /\ UNCHANGED <<disk, made>>
        /\ troubles' \in 0 .. MaxTroubles
    BY <1>0, <1>6, <1>a DEF Restart, WorldTypes
  <2>a. closing' \in BOOLEAN
    BY <2>1
  <2>b. DiskTypes' /\ WorldTypes'
    BY <1>0, <2>1, <2>a DEF DiskTypes, WorldTypes, disk
  <2>2. TypeInv'
    BY <1>0, <2>1, <2>b, FreshTypes DEF TypeInv, TableTypes
  <2>3. RequestInv' /\ \A k : Due(k)' = {}
    BY <2>1 DEF RequestInv, Due, NoRequest
  <2>4. ASSUME NEW k \in Schedulers PROVE Held(scheduler'[k], worker'[k], {})
    <3>1. /\ scheduler'[k].selected = <<>> /\ scheduler'[k].waiting = <<>>
          /\ scheduler'[k].queued = {} /\ scheduler'[k].active = {}
      BY <2>1 DEF Fresh
    <3>2. \A w \in Workers : ~InHand(worker'[k][w])
      BY <2>1 DEF NoThread, InHand
    <3> QED
      BY <3>1, <3>2 DEF Held, Once, Has
  <2> QED
    BY <2>2, <2>3, <2>4 DEF Inv, HeldInv
<1> QED
  BY <1>1, <1>2, <1>3, <1>4, <1>5, <1>6

LEMMA InvStep == Inv /\ [Next]_vars => Inv'
<1> SUFFICES ASSUME Inv, [Next]_vars PROVE Inv'
  OBVIOUS
<1>1. CASE UNCHANGED vars
  BY <1>1 DEF vars, Inv, TypeInv, DiskTypes, TableTypes, WorldTypes, RequestInv, HeldInv, Due
<1>2. ASSUME NEW m \in {0} \cup Selectable, Arrive(m) PROVE Inv'
  BY <1>2, ArriveStep
<1>3. CASE StartStep
  BY <1>3, StartBeginsStep, StartVisitsStep, StartSavesStep, StartEndsStep DEF StartStep
<1>4. CASE SelectStep
  BY <1>4, SelectChecksStep, SelectEnqueuesStep, SelectSavesStep DEF SelectStep
<1>5. ASSUME NEW k \in Schedulers, NEW w \in Workers, WorkerStep(k, w) PROVE Inv'
  BY <1>5, EndsStep, TakesStep, MarksStep, ReadsStep, WritesStep, AgentEndsStep, LeavesStep
     DEF WorkerStep
<1>6. CASE BeginClear \/ FinishClear \/ Discover \/ SwitchBackend \/ Close \/ Restart
  BY <1>6, OutsideStep
<1> QED
  BY <1>1, <1>2, <1>3, <1>4, <1>5, <1>6 DEF Next

\* Files, schedulers, threads and requests keep their shapes, whatever is
\* cleared, switched, shut down or killed.
THEOREM CourseTypes == Spec => []TypeOK
<1>1. Inv => TypeOK
  BY DEF Inv, TypeInv, TypeOK, DiskTypes, TableTypes, WorldTypes, Schedules, Threads, Requests
<1> QED
  BY InvInit, InvStep, <1>1, PTL DEF Spec

-----------------------------------------------------------------------------
\* From places to numbers.

LEMMA AtMostOne ==
    ASSUME NEW S, \A x, y \in S : x = y
    PROVE  /\ IsFiniteSet(S)
           /\ Cardinality(S) = IF S = {} THEN 0 ELSE 1
<1>1. CASE S = {}
  BY <1>1, FS_EmptySet
<1>2. CASE S # {}
  <2>1. PICK x \in S : S = {x}
    BY <1>2
  <2> QED
    BY <2>1, FS_Singleton
<1> QED
  BY <1>1, <1>2

\* A scheduler has a module once, in its queue or in the hands of one worker,
\* with any number of modules, workers and schedulers, however often it is
\* started and modules are selected, and whatever is cleared or switched.
THEOREM ModulesAreHeldOnce == Spec => []HeldOnce
<1>1. ASSUME Inv, NEW k \in Schedulers, NEW m \in Modules
      PROVE  InQueue(k, m) + Cardinality(Handling(k, m)) <= 1
  <2> DEFINE S == {i \in DOMAIN scheduler[k].selected : scheduler[k].selected[i] = m}
             W == {i \in DOMAIN scheduler[k].waiting : scheduler[k].waiting[i] = m}
             H == Handling(k, m)
  <2>1. Held(scheduler[k], worker[k], Due(k))
    BY <1>1 DEF Inv, HeldInv
  <2>2. /\ \A i, j \in S : i = j
        /\ \A i, j \in W : i = j
        /\ \A v, w \in H : v = w
    BY <2>1 DEF Held, Once, Handling, InHand
  <2>3. /\ S # {} <=> Has(scheduler[k].selected, m)
        /\ W # {} <=> Has(scheduler[k].waiting, m)
    BY DEF Has
  <2>4. H # {} => ~Has(scheduler[k].selected, m) /\ ~Has(scheduler[k].waiting, m)
    BY <2>1 DEF Held, Handling, InHand
  <2>5. (S # {} => W = {}) /\ (H # {} => S = {} /\ W = {})
    BY <2>1, <2>3, <2>4 DEF Held
  <2>6. /\ Cardinality(S) = IF S = {} THEN 0 ELSE 1
        /\ Cardinality(W) = IF W = {} THEN 0 ELSE 1
        /\ Cardinality(H) = IF H = {} THEN 0 ELSE 1
    BY <2>2, AtMostOne
  <2> HIDE DEF S, W, H
  <2>7. Cardinality(S) + Cardinality(W) + Cardinality(H) <= 1
    BY <2>5, <2>6
  <2> QED
    BY <2>7 DEF InQueue, S, W, H
<1>2. Inv => HeldOnce
  BY <1>1 DEF HeldOnce
<1> QED
  BY InvInit, InvStep, <1>2, PTL DEF Spec

=============================================================================
