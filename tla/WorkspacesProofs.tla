-------------------------- MODULE WorkspacesProofs --------------------------
(***************************************************************************)
(* Type correctness of the registry, the agreement of its statuses with    *)
(* its connections, the exclusive lease, what tokens open, and what is on  *)
(* disk of an opened project, for any number of tabs, workspaces, projects, *)
(* owners and tokens and under every fault the specification allows.       *)
(***************************************************************************)
EXTENDS Workspaces, TLAPS

-----------------------------------------------------------------------------
(* Records.  Between two steps the status of a record agrees with its       *)
(* connections; inside a step a connection may be gone whose status is not  *)
(* recomputed yet, and expiring the record recomputes it.                   *)

StatusOK(r) == r.status = "attached" <=> Connected(r)

StatusDue(r) == Connected(r) => r.status = "attached"

Good(recs) == /\ recs \in [WsIds -> Record]
              /\ \A w \in WsIds : StatusOK(recs[w])

Due(recs) == /\ recs \in [WsIds -> Record]
             /\ \A w \in WsIds : StatusDue(recs[w])

(* Expiring connections recomputes the status. *)
LEMMA ExpireConnectionsGood ==
    ASSUME NEW r \in Record, StatusDue(r)
    PROVE  /\ ExpireConnections(r) \in Record
           /\ StatusOK(ExpireConnections(r))
<1> DEFINE kept == [t \in Tabs |-> IF t \in r.lapsed THEN None ELSE r.lease[t]]
           e == ExpireConnections(r)
<1>1. kept \in [Tabs -> Tokens \cup {None}]
  BY DEF Record
<1>2. e \in Record
  BY <1>1 DEF ExpireConnections, Record, IdleStatus, Statuses
<1>3. /\ e.lease = kept
      /\ e.status = IF r.status \notin {"absent", "closed"} /\ kept = NoLease
                    THEN IdleStatus(r) ELSE r.status
  BY DEF ExpireConnections, Record
<1>4. Connected(e) => Connected(r)
  BY <1>3 DEF Connected
<1>5. Connected(e) <=> kept # NoLease
  BY <1>1, <1>3 DEF Connected, NoLease
<1>6. StatusOK(e)
  BY <1>3, <1>4, <1>5 DEF StatusOK, StatusDue, IdleStatus
<1> QED
  BY <1>2, <1>6

LEMMA ExpireGood ==
    ASSUME NEW recs, Due(recs)
    PROVE  Good(Expire(recs))
BY ExpireConnectionsGood DEF Good, Due, Expire

LEMMA GoodIsDue ==
    ASSUME NEW recs, Good(recs)
    PROVE  Due(recs)
BY DEF Good, Due, StatusOK, StatusDue

(* A record that lost a connection is good again after Drop. *)
LEMMA DropGood ==
    ASSUME NEW r \in Record, StatusDue(r), NEW t \in Tabs
    PROVE  Drop(r, t) \in Record /\ StatusOK(Drop(r, t))
<1> DEFINE q == [r EXCEPT !.lease[t] = None, !.lapsed = @ \ {t}]
<1>1. q \in Record
  BY DEF Record
<1>2. q.status = r.status /\ q.lease = [r.lease EXCEPT ![t] = None]
  BY DEF Record
<1>3. r.lease \in [Tabs -> Tokens \cup {None}]
  BY DEF Record
<1>4. StatusDue(q)
  BY <1>2, <1>3 DEF StatusDue, Connected
<1> QED
  BY <1>1, <1>4, ExpireConnectionsGood DEF Drop

(* Attaching a tab makes every record good, the target one attached. *)
LEMMA AttachedGood ==
    ASSUME NEW recs, Due(recs), NEW w \in WsIds, NEW t \in Tabs,
           NEW k \in Tokens
    PROVE  /\ Good(Attached(recs, w, t, k))
           /\ LeaseToken(recs, w, t, k) \in Tokens
<1> DEFINE live == Expire(recs)
           token == LeaseToken(recs, w, t, k)
           base == IF live[w].lease[t] = None /\ live[w].policy = "exclusive"
                   THEN NoLease ELSE live[w].lease
           a == Attached(recs, w, t, k)
           new == [live[w] EXCEPT !.lease = [base EXCEPT ![t] = token],
                                  !.status = "attached"]
<1>1. Good(live)
  BY ExpireGood
<1>2. live[w] \in Record /\ live[w].lease \in [Tabs -> Tokens \cup {None}]
  BY <1>1 DEF Good, Record
<1>3. token \in Tokens /\ token # None
  BY <1>2, NoneAssumption DEF LeaseToken
<1>4. base \in [Tabs -> Tokens \cup {None}]
  BY <1>2 DEF NoLease
<1>5. new \in Record
  BY <1>2, <1>3, <1>4 DEF Record, Statuses
<1>6. new.status = "attached" /\ new.lease = [base EXCEPT ![t] = token]
  BY <1>2 DEF Record
<1>7. StatusOK(new)
  BY <1>3, <1>4, <1>6 DEF StatusOK, Connected
<1>8. a = [live EXCEPT ![w] = new]
  BY <1>1, <1>2 DEF Attached, Good, Record
<1>9. Good(a)
  BY <1>1, <1>5, <1>7, <1>8 DEF Good
<1> QED
  BY <1>3, <1>9

LEMMA NewRecordGood ==
    /\ NewRecord \in Record /\ StatusOK(NewRecord)
    /\ AbsentRecord \in Record /\ StatusOK(AbsentRecord)
BY DEF NewRecord, AbsentRecord, Record, StatusOK, Connected, NoLease,
       Statuses, Policies

LEMMA SavedType ==
    ASSUME NEW recs \in [WsIds -> Record],
           NEW roots \in [WsIds -> Projects \cup {None}]
    PROVE  Saved(recs, roots) \in [WsIds -> Entry]
BY DEF Saved, Entry, NoEntry, Record, Policies

LEMMA LoadedGood ==
    ASSUME NEW d \in [WsIds -> Entry]
    PROVE  Good(Loaded(d))
<1> SUFFICES ASSUME NEW w \in WsIds
             PROVE  Loaded(d)[w] \in Record /\ StatusOK(Loaded(d)[w])
  BY DEF Good, Loaded
<1>1. CASE ~d[w].saved
  BY <1>1, NewRecordGood DEF Loaded
<1>2. CASE d[w].saved
  <2> DEFINE r == [NewRecord EXCEPT !.status = "detached",
                                    !.identity = d[w].identity,
                                    !.policy = d[w].policy]
  <2>1. d[w] \in Entry
    OBVIOUS
  <2>2. r \in Record
    BY <2>1, NewRecordGood DEF Entry, Record, Statuses
  <2>3. r.status = "detached" /\ r.lease = NoLease
    BY DEF NewRecord
  <2>4. StatusOK(r)
    BY <2>3 DEF StatusOK, Connected, NoLease
  <2> QED
    BY <1>2, <2>2, <2>4 DEF Loaded
<1> QED
  BY <1>1, <1>2

(* Closing a record leaves it good. *)
LEMMA ClosedGood ==
    ASSUME NEW r \in Record
    PROVE  LET shut == [r EXCEPT !.status = "closed", !.lease = NoLease,
                                 !.lapsed = {}]
           IN  shut \in Record /\ StatusOK(shut)
BY DEF Record, Statuses, StatusOK, Connected, NoLease

(* Renewing a lease that did not lapse leaves every record good. *)
LEMMA RenewedGood ==
    ASSUME Good(records), NEW t \in Tabs, view[t].ws \in WsIds, Holds(t),
           t \notin records[view[t].ws].lapsed
    PROVE  Good(Renewed(t))
<1> DEFINE w == view[t].ws
           live == Expire(records)
           r == [live[w] EXCEPT !.status = "attached"]
<1>1. Good(live) /\ records[w] \in Record
  BY ExpireGood, GoodIsDue DEF Good
<1>2. live[w].lease[t] = records[w].lease[t]
  BY <1>1 DEF Expire, ExpireConnections, Record
<1>3. live[w].lease[t] # None
  BY <1>2 DEF Holds
<1>4. live[w] \in Record
  BY <1>1 DEF Good
<1>5. r \in Record /\ r.status = "attached" /\ r.lease = live[w].lease
  BY <1>4 DEF Record, Statuses
<1>6. StatusOK(r)
  BY <1>3, <1>5 DEF StatusOK, Connected
<1> QED
  BY <1>1, <1>5, <1>6 DEF Renewed, Good

(* A tab that leaves its workspace leaves records that Attached makes good. *)
LEMMA LeftDue ==
    ASSUME NEW live, Due(live), NEW t \in Tabs, view[t] \in Views, NEW w
    PROVE  Due(Left(live, t, w))
<1> DEFINE current == view[t].ws
           q == [live[current] EXCEPT !.lease[t] = None]
<1>1. CASE ~Known(t) \/ current = w
  BY <1>1 DEF Left
<1>2. ASSUME Known(t), current # w PROVE Due(Left(live, t, w))
  <2>1. current \in WsIds
    BY <1>2 DEF Known, Views
  <2>2. live[current] \in Record /\ StatusDue(live[current])
    BY <2>1 DEF Due
  <2>3. q \in Record /\ q.status = live[current].status
                     /\ q.lease = [live[current].lease EXCEPT ![t] = None]
    BY <2>2 DEF Record
  <2>4. StatusDue(q)
    BY <2>2, <2>3 DEF StatusDue, Connected, Record
  <2>5. Due([live EXCEPT ![current] = q])
    BY <2>1, <2>3, <2>4 DEF Due
  <2>6. Due([live EXCEPT ![current] = AbsentRecord])
    BY <2>1, NewRecordGood DEF Due, StatusOK, StatusDue
  <2> QED
    BY <1>2, <2>5, <2>6 DEF Left
<1> QED
  BY <1>1, <1>2

-----------------------------------------------------------------------------
(* The specification. *)

Inv == TypeOK /\ StatusMatchesLeases

LEMMA InvGood == Inv <=> TypeOK /\ Good(records)
BY DEF Inv, TypeOK, StatusMatchesLeases, Good, StatusOK

LEMMA InitInv == Init => Inv
<1> SUFFICES ASSUME Init PROVE TypeOK /\ Good(records)
  BY InvGood
<1>1. Good(records)
  BY NewRecordGood DEF Init, Good
<1>2. NoEntry \in Entry
  BY DEF NoEntry, Entry, Policies
<1>3. NoView \in Views
  BY DEF NoView, Views
<1> QED
  BY <1>1, <1>2, <1>3 DEF Init, TypeOK, Good

(* Every step keeps the types and the agreement of statuses and connections *)
LEMMA NextInv == Inv /\ [Next]_vars => Inv'
<1> SUFFICES ASSUME TypeOK, Good(records), Due(records), [Next]_vars
             PROVE  TypeOK' /\ Good(records')
  <2>1. Good(records') => (Good(records))'
    OBVIOUS
  <2> QED
    BY <2>1, InvGood, GoodIsDue DEF Inv, TypeOK, StatusMatchesLeases, Good, StatusOK
<1> USE DEF TypeOK
<1>a. /\ \A w \in WsIds : records[w] \in Record /\ StatusOK(records[w])
      /\ \A w \in WsIds : StatusDue(records[w])
  BY DEF Good, Due
<1>b. Good(Expire(records))
  BY ExpireGood
<1>c. \A t \in Tabs : view[t] \in Views
  OBVIOUS
<1>d. \A t \in Tabs : Holds(t) => view[t].ws \in WsIds /\ view[t].token \in Tokens
  BY <1>c DEF Holds, Views
<1>1. ASSUME NEW t \in Tabs, CreateContext(t)
      PROVE  TypeOK' /\ Good(records')
  <2> PICK w \in WsIds, k \in Tokens :
           /\ records' = Attached([records EXCEPT ![w] = NewRecord], w, t, k)
           /\ Shows(t, w, k)
    BY <1>1 DEF CreateContext
  <2>1. Due([records EXCEPT ![w] = NewRecord])
    BY <1>a, NewRecordGood DEF Due, StatusOK, StatusDue
  <2>2. Good(records')
    BY <2>1, AttachedGood
  <2>3. view' \in [Tabs -> Views]
    BY DEF Shows, Views
  <2>4. disk' \in [WsIds -> Entry]
    BY <1>1, <2>2, SavedType DEF CreateContext, Good
  <2> QED
    BY <1>1, <2>2, <2>3, <2>4 DEF CreateContext, Good
<1>2. ASSUME NEW t \in Tabs, NEW target \in WsIds, Attach(t, target)
      PROVE  TypeOK' /\ Good(records')
  <2> DEFINE current == view[t].ws
  <2> PICK k \in Tokens :
           /\ LET taken == Attached(records, target, t, k)
              IN  records' = IF current \notin {None, target}
                             THEN [taken EXCEPT ![current] = Drop(@, t)]
                             ELSE taken
           /\ Shows(t, target, LeaseToken(records, target, t, k))
    BY <1>2 DEF Attach
  <2> DEFINE taken == Attached(records, target, t, k)
  <2>1. Good(taken) /\ LeaseToken(records, target, t, k) \in Tokens
    BY AttachedGood
  <2>2. Good(records')
    <3>1. CASE current \notin {None, target}
      <4>1. current \in WsIds
        BY <1>c, <3>1 DEF Views
      <4>2. Drop(taken[current], t) \in Record /\ StatusOK(Drop(taken[current], t))
        BY <2>1, <4>1, DropGood DEF Good, StatusOK, StatusDue
      <4> QED
        BY <2>1, <3>1, <4>1, <4>2 DEF Good
    <3>2. CASE current \in {None, target}
      BY <2>1, <3>2
    <3> QED
      BY <3>1, <3>2
  <2>3. view' \in [Tabs -> Views]
    BY <2>1 DEF Shows, Views
  <2>4. disk' \in [WsIds -> Entry]
    BY <1>2, <2>2, SavedType DEF Attach, Good
  <2> QED
    BY <1>2, <2>2, <2>3, <2>4 DEF Attach, Good
<1>3. ASSUME NEW t \in Tabs, Detach(t)
      PROVE  TypeOK' /\ Good(records')
  <2>1. view[t].ws \in WsIds
    BY <1>3, <1>d DEF Detach
  <2>2. Good(records')
    BY <1>3, <1>a, <2>1, DropGood DEF Detach, Good
  <2>3. disk' \in [WsIds -> Entry]
    BY <1>3, <2>2, SavedType DEF Detach, Good
  <2> QED
    BY <1>3, <2>2, <2>3 DEF Detach, Good
<1>4. ASSUME NEW t \in Tabs, Heartbeat(t)
      PROVE  TypeOK' /\ Good(records')
  <2>1. Good(Renewed(t))
    BY <1>4, <1>d, RenewedGood DEF Heartbeat, Holds
  <2> QED
    BY <1>4, <2>1 DEF Heartbeat, Good
<1>5. ASSUME NEW t \in Tabs, HeartbeatRefused(t)
      PROVE  TypeOK' /\ Good(records')
  BY <1>5, <1>b DEF HeartbeatRefused, Good
<1>6. ASSUME NEW t \in Tabs, Close(t)
      PROVE  TypeOK' /\ Good(records')
  <2>1. view[t].ws \in WsIds
    BY <1>6, <1>d DEF Close
  <2>2. Good(records')
    BY <1>6, <1>a, <2>1, ClosedGood DEF Close, Good
  <2>3. disk' \in [WsIds -> Entry]
    BY <1>6, <2>2, SavedType DEF Close, Good
  <2> QED
    BY <1>6, <2>2, <2>3 DEF Close, Good
<1>7. ASSUME NEW t \in Tabs, NEW o \in Owners, CreateSingleton(t, o)
      PROVE  TypeOK' /\ Good(records')
  <2> DEFINE live == Expire(records)
             shared == [NewRecord EXCEPT !.identity = o, !.owner = o,
                                         !.policy = "shared"]
  <2> PICK w \in WsIds, k \in Tokens :
          /\ records' = Attached([live EXCEPT ![w] = shared], w, t, k)
          /\ Shows(t, w, k)
    BY <1>7 DEF CreateSingleton
  <2>1. shared \in Record /\ StatusDue(shared)
    BY DEF NewRecord, Record, NoLease, Statuses, Policies, StatusDue, Connected
  <2>2. Due([live EXCEPT ![w] = shared])
    BY <1>b, <2>1, GoodIsDue DEF Due
  <2>3. Good(records')
    BY <2>2, AttachedGood
  <2>4. view' \in [Tabs -> Views]
    BY DEF Shows, Views
  <2>5. disk' \in [WsIds -> Entry]
    BY <1>7, <2>3, SavedType DEF CreateSingleton, Good
  <2> QED
    BY <1>7, <2>3, <2>4, <2>5 DEF CreateSingleton, Good
<1>8. ASSUME NEW t \in Tabs, NEW o \in Owners, JoinSingleton(t, o)
      PROVE  TypeOK' /\ Good(records')
  <2> DEFINE live == Expire(records)
  <2> PICK w \in WsIds, k \in Tokens :
          /\ records' = Attached(Left(live, t, w), w, t, k)
          /\ Shows(t, w, LeaseToken(live, w, t, k))
    BY <1>8 DEF JoinSingleton, Singletons
  <2>1. Due(live)
    BY <1>b, GoodIsDue
  <2>2. Due(Left(live, t, w))
    BY <1>c, <2>1, LeftDue
  <2>3. Good(records')
    BY <2>2, AttachedGood
  <2>4. LeaseToken(live, w, t, k) \in Tokens
    BY <2>1, AttachedGood
  <2>5. view' \in [Tabs -> Views]
    BY <2>4 DEF Shows, Views
  <2>6. contexts' \in [WsIds -> Projects \cup {None}]
    BY <1>8 DEF JoinSingleton
  <2>7. disk' \in [WsIds -> Entry]
    BY <1>8, <2>3, <2>6, SavedType DEF JoinSingleton, Good
  <2> QED
    BY <1>8, <2>3, <2>5, <2>6, <2>7 DEF JoinSingleton, Good
<1>9. ASSUME NEW t \in Tabs, NEW op \in {"open", "deactivate"},
             NEW p \in Projects \cup {None}, Validate(t, op, p)
      PROVE  TypeOK' /\ Good(records')
  <2>1. Good(Renewed(t)) /\ view[t].ws \in WsIds
    BY <1>9, <1>d, RenewedGood DEF Validate, Holds
  <2>2. request' \in [Tabs -> Requests \cup {None}]
    BY <1>9, <2>1 DEF Validate, Requests
  <2> QED
    BY <1>9, <2>1, <2>2 DEF Validate, Good
<1>e. \A t \in Tabs : request[t] # None => request[t] \in Requests
  OBVIOUS
<1>10. ASSUME NEW t \in Tabs, ReserveRefused(t)
      PROVE  TypeOK' /\ Good(records')
  BY <1>10, <1>b DEF ReserveRefused, Done, Good
<1>11. ASSUME NEW t \in Tabs, ReserveResumes(t)
      PROVE  TypeOK' /\ Good(records')
  <2> DEFINE live == Expire(records)
             current == request[t].ws
  <2>1. current \in WsIds
    BY <1>11, <1>e DEF ReserveResumes, InStep, Requests
  <2> PICK w \in WsIds \ {current} :
          /\ records' = [live EXCEPT
                ![w].lease = live[current].lease,
                ![w].status = IF Connected(live[current]) THEN "attached"
                                                          ELSE "detached",
                ![current] = AbsentRecord]
          /\ view' = [view EXCEPT ![t].ws = w]
    BY <1>11 DEF ReserveResumes, OpenIn
  <2> DEFINE moved == [live[w] EXCEPT
                          !.lease = live[current].lease,
                          !.status = IF Connected(live[current])
                                     THEN "attached" ELSE "detached"]
  <2>2. live[w] \in Record /\ live[current] \in Record
    BY <1>b, <2>1 DEF Good
  <2>3. moved \in Record
    BY <2>2 DEF Record, Statuses
  <2>4. StatusOK(moved)
    BY <2>2 DEF StatusOK, Connected, Record
  <2>5. records' = [live EXCEPT ![w] = moved, ![current] = AbsentRecord]
    BY <1>b, <2>2 DEF Good, Record
  <2>6. Good(records')
    BY <1>b, <2>1, <2>3, <2>4, <2>5, NewRecordGood DEF Good
  <2>7. view' \in [Tabs -> Views]
    BY DEF Views
  <2>8. contexts' \in [WsIds -> Projects \cup {None}]
    BY <1>11 DEF ReserveResumes
  <2>9. disk' \in [WsIds -> Entry]
    BY <1>11, <2>6, <2>8, SavedType DEF ReserveResumes, Good
  <2> QED
    BY <1>11, <2>6, <2>7, <2>8, <2>9 DEF ReserveResumes, Done, Good
<1>12. ASSUME NEW t \in Tabs, ReserveBinds(t)
      PROVE  TypeOK' /\ Good(records')
  <2> DEFINE live == Expire(records)
             current == request[t].ws
             bound == [live[current] EXCEPT
                          !.identity = request[t].project,
                          !.policy = "exclusive",
                          !.status = IF Connected(live[current])
                                     THEN "attached" ELSE "detached"]
  <2>1. request[t] \in Requests /\ request[t].project \in Projects \cup {None}
    BY <1>12, <1>e DEF ReserveBinds, InStep, Requests
  <2>2. current \in WsIds /\ live[current] \in Record
    BY <1>b, <2>1 DEF Good, Requests
  <2>3. bound \in Record /\ StatusOK(bound)
    BY <2>1, <2>2 DEF Record, Statuses, Policies, StatusOK, Connected
  <2>4. records' = [live EXCEPT ![current] = bound]
    BY <1>12, <1>b, <2>2 DEF ReserveBinds, Good, Record
  <2>5. Good(records')
    BY <1>b, <2>2, <2>3, <2>4 DEF Good
  <2>6. request' \in [Tabs -> Requests \cup {None}]
    BY <1>12, <2>1 DEF ReserveBinds, Requests
  <2> QED
    BY <1>12, <2>5, <2>6 DEF ReserveBinds, Good
<1>13. ASSUME NEW t \in Tabs, OpenFinishes(t)
      PROVE  TypeOK' /\ Good(records')
  <2>1. request[t] \in Requests
    BY <1>13, <1>e DEF OpenFinishes, InStep
  <2>2. contexts' \in [WsIds -> Projects \cup {None}]
    BY <1>13, <2>1 DEF OpenFinishes, Requests
  <2>3. view' \in [Tabs -> Views]
    BY <1>13, <2>1 DEF OpenFinishes, Requests, Views
  <2>4. disk' \in [WsIds -> Entry]
    BY <1>13, <2>2, SavedType DEF OpenFinishes
  <2> QED
    BY <1>13, <2>2, <2>3, <2>4 DEF OpenFinishes, Done
<1>14. ASSUME NEW t \in Tabs, Deactivate(t)
      PROVE  TypeOK' /\ Good(records')
  <2> DEFINE old == request[t].ws
  <2>1. old \in WsIds
    BY <1>14, <1>e DEF Deactivate, InStep, Requests
  <2> PICK w \in WsIds, k \in Tokens :
          /\ records' = Attached(
                 [records EXCEPT ![old].status = "closed",
                                 ![old].lease = NoLease,
                                 ![old].lapsed = {},
                                 ![w] = NewRecord], w, t, k)
          /\ Shows(t, w, k)
    BY <1>14 DEF Deactivate
  <2> DEFINE shut == [records[old] EXCEPT !.status = "closed",
                                          !.lease = NoLease, !.lapsed = {}]
  <2>2. shut \in Record /\ StatusOK(shut)
    BY <1>a, <2>1, ClosedGood
  <2>3. Due([records EXCEPT ![old] = shut, ![w] = NewRecord])
    BY <1>a, <2>1, <2>2, NewRecordGood DEF Due, StatusOK, StatusDue
  <2>4. [records EXCEPT ![old] = shut, ![w] = NewRecord]
          = [records EXCEPT ![old].status = "closed",
                            ![old].lease = NoLease,
                            ![old].lapsed = {},
                            ![w] = NewRecord]
    BY <1>a, <2>1 DEF Record
  <2>5. Good(records')
    BY <2>3, <2>4, AttachedGood
  <2>6. contexts' \in [WsIds -> Projects \cup {None}]
    BY <1>14 DEF Deactivate
  <2>7. disk' \in [WsIds -> Entry]
    BY <1>14, <2>5, <2>6, SavedType DEF Deactivate, Good
  <2>8. view' \in [Tabs -> Views]
    BY DEF Shows, Views
  <2> QED
    BY <1>14, <2>5, <2>6, <2>7, <2>8 DEF Deactivate, Done, Good
<1>15. ASSUME NEW t \in Tabs, RequestFails(t)
      PROVE  TypeOK' /\ Good(records')
  BY <1>15 DEF RequestFails, Done, Good
<1>16. ASSUME NEW chosen \in SUBSET WsIds, ClearDetached(chosen)
      PROVE  TypeOK' /\ Good(records')
  <2>1. Good(records')
    BY <1>16, <1>b, NewRecordGood DEF ClearDetached, Good
  <2>2. contexts' \in [WsIds -> Projects \cup {None}]
    BY <1>16 DEF ClearDetached
  <2>3. disk' \in [WsIds -> Entry]
    BY <1>16, <2>1, <2>2, SavedType DEF ClearDetached, Good
  <2> QED
    BY <1>16, <2>1, <2>2, <2>3 DEF ClearDetached, Good
<1>17. ASSUME NEW w \in WsIds, NEW t \in Tabs, Lapse(w, t)
      PROVE  TypeOK' /\ Good(records')
  <2> DEFINE late == [records[w] EXCEPT !.lapsed = @ \cup {t}]
  <2>1. late \in Record /\ StatusOK(late)
    BY <1>a DEF Record, StatusOK, Connected
  <2> QED
    BY <1>17, <1>a, <2>1 DEF Lapse, Good
<1>18. ASSUME Restart
      PROVE  TypeOK' /\ Good(records')
  <2>1. contexts' \in [WsIds -> Projects \cup {None}]
    BY <1>18 DEF Restart, Entry
  <2> QED
    BY <1>18, <2>1, LoadedGood DEF Restart, Good
<1>19. CASE UNCHANGED vars
  BY <1>19 DEF vars, Good
<1> QED
  BY <1>1, <1>2, <1>3, <1>4, <1>5, <1>6, <1>7, <1>8, <1>9, <1>10, <1>11,
     <1>12, <1>13, <1>14, <1>15, <1>16, <1>17, <1>18, <1>19 DEF Next

(* The registry keeps its types, whatever tabs, requests and restarts do.   *)
THEOREM RegistryTypes == Spec => []TypeOK
<1>1. Inv => TypeOK
  BY DEF Inv
<1> QED
  BY InitInv, NextInv, <1>1, PTL DEF Spec

(* The status a selector filters on agrees with the connections, for every  *)
(* number of tabs and workspaces and under every fault.                     *)
THEOREM StatusAgrees == Spec => []StatusMatchesLeases
<1>1. Inv => StatusMatchesLeases
  BY DEF Inv
<1> QED
  BY InitInv, NextInv, <1>1, PTL DEF Spec

-----------------------------------------------------------------------------
(* Exclusive leases.  Without shared workspaces every record is exclusive,  *)
(* in the registry and on disk, and has at most one connection.             *)

AtMostOne(lease) == \A t, u \in Tabs : lease[t] # None /\ lease[u] # None => t = u

Sole(recs) == \A w \in WsIds : /\ recs[w].policy = "exclusive"
                              /\ AtMostOne(recs[w].lease)

SavedExclusive == \A w \in WsIds : disk[w].policy = "exclusive"

LEMMA ExpireSole ==
    ASSUME NEW recs \in [WsIds -> Record], Sole(recs)
    PROVE  Sole(Expire(recs)) /\ Expire(recs) \in [WsIds -> Record]
<1> SUFFICES ASSUME NEW w \in WsIds
             PROVE  /\ Expire(recs)[w] \in Record
                    /\ Expire(recs)[w].policy = "exclusive"
                    /\ AtMostOne(Expire(recs)[w].lease)
  BY DEF Sole, Expire
<1> DEFINE r == recs[w]
           kept == [t \in Tabs |-> IF t \in r.lapsed THEN None ELSE r.lease[t]]
<1>1. r \in Record /\ r.policy = "exclusive" /\ AtMostOne(r.lease)
  BY DEF Sole
<1>2. kept \in [Tabs -> Tokens \cup {None}] /\ AtMostOne(kept)
  BY <1>1 DEF Record, AtMostOne
<1>3. /\ Expire(recs)[w].policy = r.policy
      /\ Expire(recs)[w].lease = kept
      /\ Expire(recs)[w] \in Record
  BY <1>1, <1>2 DEF Expire, ExpireConnections, Record, IdleStatus, Statuses
<1> QED
  BY <1>1, <1>2, <1>3

LEMMA AttachedSole ==
    ASSUME NEW recs \in [WsIds -> Record], Sole(recs), NEW w \in WsIds,
           NEW t \in Tabs, NEW k \in Tokens
    PROVE  Sole(Attached(recs, w, t, k))
<1> DEFINE live == Expire(recs)
           token == LeaseToken(recs, w, t, k)
           base == IF live[w].lease[t] = None /\ live[w].policy = "exclusive"
                   THEN NoLease ELSE live[w].lease
           lease == [base EXCEPT ![t] = token]
           a == Attached(recs, w, t, k)
<1>1. Sole(live) /\ live \in [WsIds -> Record]
  BY ExpireSole
<1>2. live[w].lease \in [Tabs -> Tokens \cup {None}] /\ AtMostOne(live[w].lease)
  BY <1>1 DEF Record, Sole
<1>3. base \in [Tabs -> Tokens \cup {None}]
  BY <1>2 DEF NoLease
<1>4. \A u \in Tabs \ {t} : base[u] = None
  BY <1>1, <1>2 DEF NoLease, AtMostOne, Sole
<1>5. AtMostOne(lease)
  BY <1>3, <1>4 DEF AtMostOne
<1>6. /\ a[w].policy = live[w].policy
      /\ a[w].lease = lease
      /\ \A x \in WsIds \ {w} : a[x] = live[x]
  BY <1>1 DEF Attached, Record
<1> QED
  BY <1>1, <1>5, <1>6 DEF Sole

LEMMA AttachedType ==
    ASSUME NEW recs \in [WsIds -> Record], NEW w \in WsIds, NEW t \in Tabs,
           NEW k \in Tokens
    PROVE  Attached(recs, w, t, k) \in [WsIds -> Record]
<1> DEFINE live == Expire(recs)
<1>1. live \in [WsIds -> Record]
  <2> SUFFICES ASSUME NEW x \in WsIds PROVE live[x] \in Record
    BY DEF Expire
  <2> DEFINE r == recs[x]
  <2>1. [u \in Tabs |-> IF u \in r.lapsed THEN None ELSE r.lease[u]]
          \in [Tabs -> Tokens \cup {None}]
    BY DEF Record
  <2> QED
    BY <2>1 DEF Expire, ExpireConnections, Record, IdleStatus, Statuses
<1>2. live[w] \in Record /\ live[w].lease \in [Tabs -> Tokens \cup {None}]
  BY <1>1 DEF Record
<1>3. LeaseToken(recs, w, t, k) \in Tokens \cup {None}
  BY <1>2 DEF LeaseToken
<1> DEFINE base == IF live[w].lease[t] = None /\ live[w].policy = "exclusive"
                   THEN NoLease ELSE live[w].lease
<1>4. [base EXCEPT ![t] = LeaseToken(recs, w, t, k)]
         \in [Tabs -> Tokens \cup {None}]
  BY <1>2, <1>3 DEF NoLease
<1> QED
  BY <1>1, <1>2, <1>4 DEF Attached, Record, Statuses

LEMMA DropSole ==
    ASSUME NEW r \in Record, AtMostOne(r.lease), NEW t \in Tabs
    PROVE  Drop(r, t).policy = r.policy /\ AtMostOne(Drop(r, t).lease)
<1> DEFINE q == [r EXCEPT !.lease[t] = None, !.lapsed = @ \ {t}]
<1>1. r.lease \in [Tabs -> Tokens \cup {None}]
  BY DEF Record
<1>2. q.lease = [r.lease EXCEPT ![t] = None] /\ q.policy = r.policy
  BY DEF Record
<1>3. AtMostOne(q.lease)
  BY <1>1, <1>2 DEF AtMostOne
<1>4. /\ Drop(r, t).policy = q.policy
      /\ Drop(r, t).lease = [u \in Tabs |-> IF u \in q.lapsed THEN None
                                                             ELSE q.lease[u]]
  BY DEF Drop, ExpireConnections, Record
<1> QED
  BY <1>2, <1>3, <1>4 DEF AtMostOne

LEMMA NewSole ==
    /\ NewRecord.policy = "exclusive" /\ AtMostOne(NewRecord.lease)
    /\ AbsentRecord.policy = "exclusive" /\ AtMostOne(AbsentRecord.lease)
    /\ AtMostOne(NoLease)
BY DEF NewRecord, AbsentRecord, AtMostOne, NoLease

LEMMA SavedSole ==
    ASSUME NEW recs, NEW roots, Sole(recs)
    PROVE  \A w \in WsIds : Saved(recs, roots)[w].policy = "exclusive"
BY DEF Saved, Sole, NoEntry

(* Without owners every step keeps the registry and the file exclusive.     *)
LEMMA NextSole ==
    ASSUME Owners = {}, TypeOK, Sole(records), SavedExclusive, [Next]_vars
    PROVE  Sole(records') /\ SavedExclusive'
<1> USE DEF TypeOK
<1> DEFINE live == Expire(records)
<1>a. Sole(live) /\ live \in [WsIds -> Record]
  BY ExpireSole
<1>b. \A w \in WsIds : /\ records[w] \in Record
                       /\ records[w].policy = "exclusive"
                       /\ AtMostOne(records[w].lease)
  BY DEF Sole
<1>c. \A t \in Tabs : Known(t) => view[t].ws \in WsIds
  BY DEF Known, Views
<1>d. \A t \in Tabs : Holds(t) => view[t].ws \in WsIds
  BY DEF Holds, Views
<1>e. \A t \in Tabs : request[t] # None => request[t].ws \in WsIds
  BY DEF Requests
<1>f. Sole(records') /\ disk' = Saved(records', contexts') => SavedExclusive'
  BY SavedSole DEF SavedExclusive
<1>g. UNCHANGED disk => SavedExclusive'
  BY DEF SavedExclusive
<1>1. ASSUME NEW t \in Tabs, CreateContext(t)
      PROVE  Sole(records') /\ SavedExclusive'
  <2> PICK w \in WsIds, k \in Tokens :
          records' = Attached([records EXCEPT ![w] = NewRecord], w, t, k)
    BY <1>1 DEF CreateContext
  <2>1. /\ [records EXCEPT ![w] = NewRecord] \in [WsIds -> Record]
        /\ Sole([records EXCEPT ![w] = NewRecord])
    BY <1>b, NewSole, NewRecordGood DEF Sole
  <2>2. Sole(records')
    BY <2>1, AttachedSole
  <2> QED
    BY <1>1, <1>f, <2>2 DEF CreateContext
<1>2. ASSUME NEW t \in Tabs, NEW target \in WsIds, Attach(t, target)
      PROVE  Sole(records') /\ SavedExclusive'
  <2> DEFINE current == view[t].ws
  <2> PICK k \in Tokens :
          LET taken == Attached(records, target, t, k)
          IN  records' = IF current \notin {None, target}
                         THEN [taken EXCEPT ![current] = Drop(@, t)]
                         ELSE taken
    BY <1>2 DEF Attach
  <2> DEFINE taken == Attached(records, target, t, k)
  <2>1. Sole(taken)
    BY AttachedSole
  <2>2. taken \in [WsIds -> Record]
    BY <1>2, AttachedType
  <2>3. CASE current \notin {None, target}
    <3>1. current \in WsIds
      BY <2>3 DEF Views
    <3>2. /\ Drop(taken[current], t).policy = "exclusive"
          /\ AtMostOne(Drop(taken[current], t).lease)
      BY <2>1, <2>2, <3>1, DropSole DEF Sole
    <3>3. Sole(records')
      BY <2>1, <2>2, <2>3, <3>1, <3>2 DEF Sole
    <3> QED
      BY <1>2, <1>f, <3>3 DEF Attach
  <2>4. CASE current \in {None, target}
    BY <1>2, <1>f, <2>1, <2>4 DEF Attach
  <2> QED
    BY <2>3, <2>4
<1>3. ASSUME NEW t \in Tabs, Detach(t)
      PROVE  Sole(records') /\ SavedExclusive'
  <2>1. view[t].ws \in WsIds
    BY <1>3, <1>d DEF Detach
  <2>2. Sole(records')
    BY <1>3, <1>b, <2>1, DropSole DEF Detach, Sole
  <2> QED
    BY <1>3, <1>f, <2>2 DEF Detach
<1>4. ASSUME NEW t \in Tabs, Holds(t), records' = Renewed(t)
      PROVE  Sole(records')
  BY <1>4, <1>a DEF Renewed, Sole, Record
<1>5. ASSUME NEW t \in Tabs, Heartbeat(t)
      PROVE  Sole(records') /\ SavedExclusive'
  BY <1>4, <1>5, <1>g DEF Heartbeat
<1>6. ASSUME NEW t \in Tabs, HeartbeatRefused(t)
      PROVE  Sole(records') /\ SavedExclusive'
  BY <1>6, <1>a, <1>g DEF HeartbeatRefused
<1>7. ASSUME NEW t \in Tabs, Close(t)
      PROVE  Sole(records') /\ SavedExclusive'
  <2>1. view[t].ws \in WsIds
    BY <1>7, <1>d DEF Close
  <2>2. Sole(records')
    BY <1>7, <1>b, <2>1, NewSole DEF Close, Sole, Record
  <2> QED
    BY <1>7, <1>f, <2>2 DEF Close
<1>8. ASSUME NEW t \in Tabs, NEW op \in {"open", "deactivate"},
             NEW p \in Projects \cup {None}, Validate(t, op, p)
      PROVE  Sole(records') /\ SavedExclusive'
  BY <1>4, <1>8, <1>g DEF Validate
<1>9. ASSUME NEW t \in Tabs, ReserveRefused(t)
      PROVE  Sole(records') /\ SavedExclusive'
  BY <1>9, <1>a, <1>g DEF ReserveRefused
<1>10. ASSUME NEW t \in Tabs, ReserveResumes(t)
      PROVE  Sole(records') /\ SavedExclusive'
  <2> DEFINE current == request[t].ws
  <2>1. current \in WsIds
    BY <1>10, <1>e DEF ReserveResumes, InStep
  <2> PICK w \in WsIds \ {current} :
          records' = [live EXCEPT
                ![w].lease = live[current].lease,
                ![w].status = IF Connected(live[current]) THEN "attached"
                                                          ELSE "detached",
                ![current] = AbsentRecord]
    BY <1>10 DEF ReserveResumes, OpenIn
  <2>2. /\ records'[current] = AbsentRecord
        /\ records'[w].policy = live[w].policy
        /\ records'[w].lease = live[current].lease
        /\ \A x \in WsIds \ {w, current} : records'[x] = live[x]
    BY <1>a, <2>1 DEF Record
  <2>3. Sole(records')
    BY <1>a, <2>1, <2>2, NewSole DEF Sole
  <2> QED
    BY <1>10, <1>f, <2>3 DEF ReserveResumes
<1>11. ASSUME NEW t \in Tabs, ReserveBinds(t)
      PROVE  Sole(records') /\ SavedExclusive'
  <2> DEFINE current == request[t].ws
  <2>1. current \in WsIds
    BY <1>11, <1>e DEF ReserveBinds, InStep
  <2>2. /\ records'[current].policy = "exclusive"
        /\ records'[current].lease = live[current].lease
        /\ \A x \in WsIds \ {current} : records'[x] = live[x]
    BY <1>11, <1>a, <2>1 DEF ReserveBinds, Record
  <2>3. Sole(records')
    BY <1>a, <2>1, <2>2 DEF Sole
  <2> QED
    BY <1>11, <1>g, <2>3 DEF ReserveBinds
<1>12. ASSUME NEW t \in Tabs, OpenFinishes(t)
      PROVE  Sole(records') /\ SavedExclusive'
  <2>1. disk' = Saved(records', contexts')
    BY <1>12 DEF OpenFinishes
  <2> QED
    BY <1>12, <1>f, <2>1 DEF OpenFinishes
<1>13. ASSUME NEW t \in Tabs, Deactivate(t)
      PROVE  Sole(records') /\ SavedExclusive'
  <2> DEFINE old == request[t].ws
  <2>1. old \in WsIds
    BY <1>13, <1>e DEF Deactivate, InStep
  <2> PICK w \in WsIds, k \in Tokens :
          records' = Attached(
                 [records EXCEPT ![old].status = "closed",
                                 ![old].lease = NoLease,
                                 ![old].lapsed = {},
                                 ![w] = NewRecord], w, t, k)
    BY <1>13 DEF Deactivate
  <2> DEFINE shut == [records[old] EXCEPT !.status = "closed",
                                          !.lease = NoLease, !.lapsed = {}]
             recs == [records EXCEPT ![old] = shut, ![w] = NewRecord]
  <2>2. shut \in Record
    BY <1>b, <2>1, ClosedGood
  <2>3. shut.policy = "exclusive" /\ shut.lease = NoLease
    BY <1>b, <2>1 DEF Record
  <2>4. recs \in [WsIds -> Record] /\ Sole(recs)
    BY <1>b, <2>1, <2>2, <2>3, NewSole, NewRecordGood DEF Sole
  <2>5. recs = [records EXCEPT ![old].status = "closed",
                               ![old].lease = NoLease,
                               ![old].lapsed = {},
                               ![w] = NewRecord]
    BY <1>b, <2>1 DEF Record
  <2>6. Sole(records')
    BY <2>4, <2>5, AttachedSole
  <2> QED
    BY <1>13, <1>f, <2>6 DEF Deactivate
<1>14. ASSUME NEW t \in Tabs, RequestFails(t)
      PROVE  Sole(records') /\ SavedExclusive'
  BY <1>14, <1>g DEF RequestFails
<1>15. ASSUME NEW chosen \in SUBSET WsIds, ClearDetached(chosen)
      PROVE  Sole(records') /\ SavedExclusive'
  <2>1. Sole(records')
    BY <1>15, <1>a, NewSole DEF ClearDetached, Sole
  <2> QED
    BY <1>15, <1>f, <1>g, <2>1 DEF ClearDetached
<1>16. ASSUME NEW w \in WsIds, NEW t \in Tabs, Lapse(w, t)
      PROVE  Sole(records') /\ SavedExclusive'
  <2>1. Sole(records')
    BY <1>16, <1>b DEF Lapse, Sole, Record
  <2> QED
    BY <1>16, <1>g, <2>1 DEF Lapse
<1>17. ASSUME Restart
      PROVE  Sole(records') /\ SavedExclusive'
  <2>1. \A w \in WsIds : /\ Loaded(disk)[w].policy = "exclusive"
                         /\ Loaded(disk)[w].lease = NoLease
    BY DEF Loaded, AbsentRecord, NewRecord, SavedExclusive
  <2> QED
    BY <1>17, <1>g, <2>1, NewSole DEF Restart, Sole
<1>18. CASE UNCHANGED vars
  BY <1>18, <1>g DEF vars
<1> QED
  BY <1>1, <1>2, <1>3, <1>5, <1>6, <1>7, <1>8, <1>9, <1>10, <1>11, <1>12,
     <1>13, <1>14, <1>15, <1>16, <1>17, <1>18 DEF Next

(* When no workflow shares its workspaces, an exclusive workspace never has *)
(* two tabs, through takeovers, moved connections, races and restarts.      *)
THEOREM LeaseIsExclusive ==
    ASSUME Owners = {}
    PROVE  Spec => []ExclusiveLease
<1> DEFINE I == TypeOK /\ Sole(records) /\ SavedExclusive
<1>1. Init => Sole(records) /\ SavedExclusive
  BY NewSole DEF Init, Sole, SavedExclusive, NoEntry
<1>2. TypeOK /\ Sole(records) /\ SavedExclusive /\ [Next]_vars
         => (Sole(records) /\ SavedExclusive)'
  BY NextSole DEF Sole
<1>3. Sole(records) => ExclusiveLease
  BY DEF Sole, AtMostOne, ExclusiveLease
<1> QED
  BY RegistryTypes, <1>1, <1>2, <1>3, PTL DEF Spec

-----------------------------------------------------------------------------
(* Tokens.  A step takes leases away, gives one tab a fresh token besides,  *)
(* or moves the leases of a workspace that goes to one that had none.       *)

LeasesFrom(new, w, old, x) ==
    \A u \in Tabs : new[w].lease[u] \in {None, old[x].lease[u]}

Fewer(new, old) == \A w \in WsIds : LeasesFrom(new, w, old, w)

GainsAt(new, old, w, t, k) ==
    \A x \in WsIds, u \in Tabs :
        \/ new[x].lease[u] \in {None, old[x].lease[u]}
        \/ x = w /\ u = t /\ new[x].lease[u] = k

Gains(new, old) ==
    \E w \in WsIds, t \in Tabs, k \in Tokens :
        FreshToken(k) /\ GainsAt(new, old, w, t, k)

Moves(new, old) ==
    \E w, c \in WsIds :
        /\ w # c
        /\ LeasesFrom(new, w, old, c)
        /\ \A u \in Tabs : new[c].lease[u] = None
        /\ \A x \in WsIds \ {w, c} : LeasesFrom(new, x, old, x)

LEMMA ExpireFewer ==
    ASSUME NEW recs \in [WsIds -> Record]
    PROVE  Fewer(Expire(recs), recs) /\ Expire(recs) \in [WsIds -> Record]
<1> SUFFICES ASSUME NEW w \in WsIds
             PROVE  /\ Expire(recs)[w] \in Record
                    /\ \A u \in Tabs : Expire(recs)[w].lease[u]
                                          \in {None, recs[w].lease[u]}
  BY DEF Fewer, LeasesFrom, Expire
<1> DEFINE r == recs[w]
           kept == [t \in Tabs |-> IF t \in r.lapsed THEN None ELSE r.lease[t]]
<1>1. kept \in [Tabs -> Tokens \cup {None}]
  BY DEF Record
<1>2. Expire(recs)[w].lease = kept /\ Expire(recs)[w] \in Record
  BY <1>1 DEF Expire, ExpireConnections, Record, IdleStatus, Statuses
<1> QED
  BY <1>1, <1>2

LEMMA DropFewer ==
    ASSUME NEW r \in Record, NEW t \in Tabs, NEW u \in Tabs
    PROVE  Drop(r, t).lease[u] \in {None, r.lease[u]}
<1> DEFINE q == [r EXCEPT !.lease[t] = None, !.lapsed = @ \ {t}]
<1>1. q.lease = [r.lease EXCEPT ![t] = None] /\ r.lease \in [Tabs -> Tokens \cup {None}]
  BY DEF Record
<1>2. Drop(r, t).lease = [v \in Tabs |-> IF v \in q.lapsed THEN None ELSE q.lease[v]]
  BY DEF Drop, ExpireConnections, Record
<1> QED
  BY <1>1, <1>2

LEMMA AttachedGains ==
    ASSUME NEW recs \in [WsIds -> Record], NEW w \in WsIds, NEW t \in Tabs,
           NEW k \in Tokens
    PROVE  GainsAt(Attached(recs, w, t, k), recs, w, t, k)
<1> DEFINE live == Expire(recs)
           token == LeaseToken(recs, w, t, k)
           base == IF live[w].lease[t] = None /\ live[w].policy = "exclusive"
                   THEN NoLease ELSE live[w].lease
           a == Attached(recs, w, t, k)
<1>1. live \in [WsIds -> Record] /\ Fewer(live, recs)
  BY ExpireFewer
<1>2. live[w] \in Record /\ live[w].lease \in [Tabs -> Tokens \cup {None}]
  BY <1>1 DEF Record
<1>3. base \in [Tabs -> Tokens \cup {None}]
  BY <1>2 DEF NoLease
<1>4. /\ a[w].lease = [base EXCEPT ![t] = token]
      /\ \A x \in WsIds \ {w} : a[x] = live[x]
  BY <1>1 DEF Attached, Record
<1>5. \A u \in Tabs : base[u] \in {None, live[w].lease[u]}
  BY DEF NoLease
<1>6. token \in {k, live[w].lease[t]}
  BY DEF LeaseToken
<1>7. ASSUME NEW x \in WsIds, NEW u \in Tabs, x # w
      PROVE  a[x].lease[u] \in {None, recs[x].lease[u]}
  BY <1>1, <1>4, <1>7 DEF Fewer, LeasesFrom
<1>8. ASSUME NEW u \in Tabs
      PROVE  \/ a[w].lease[u] \in {None, recs[w].lease[u]}
             \/ u = t /\ a[w].lease[u] = k
  <2>1. live[w].lease[u] \in {None, recs[w].lease[u]}
    BY <1>1 DEF Fewer, LeasesFrom
  <2>2. CASE u = t
    BY <1>3, <1>4, <1>6, <2>1, <2>2
  <2>3. CASE u # t
    BY <1>3, <1>4, <1>5, <2>1, <2>3
  <2> QED
    BY <2>2, <2>3
<1> QED
  BY <1>7, <1>8 DEF GainsAt

(* What Attached gains over records that are already fewer. *)
LEMMA FewerGains ==
    ASSUME NEW new, NEW mid, NEW old, Fewer(mid, old),
           NEW w \in WsIds, NEW t \in Tabs, NEW k \in Tokens,
           FreshToken(k), GainsAt(new, mid, w, t, k)
    PROVE  Gains(new, old)
<1>1. GainsAt(new, old, w, t, k)
  BY DEF GainsAt, Fewer, LeasesFrom
<1> QED
  BY <1>1 DEF Gains

LEMMA LeftFewer ==
    ASSUME NEW live \in [WsIds -> Record], NEW t \in Tabs, view[t] \in Views,
           NEW w
    PROVE  Left(live, t, w) \in [WsIds -> Record] /\ Fewer(Left(live, t, w), live)
<1> DEFINE current == view[t].ws
           q == [live[current] EXCEPT !.lease[t] = None]
<1>1. CASE ~Known(t) \/ current = w
  BY <1>1 DEF Left, Fewer, LeasesFrom
<1>2. ASSUME Known(t), current # w
      PROVE  Left(live, t, w) \in [WsIds -> Record] /\ Fewer(Left(live, t, w), live)
  <2>1. current \in WsIds
    BY <1>2 DEF Known, Views
  <2>2. live[current].lease \in [Tabs -> Tokens \cup {None}]
    BY <2>1 DEF Record
  <2>3. q \in Record /\ q.lease = [live[current].lease EXCEPT ![t] = None]
    BY <2>1, <2>2 DEF Record
  <2>4. AbsentRecord \in Record /\ \A u \in Tabs : AbsentRecord.lease[u] = None
    BY NewRecordGood DEF AbsentRecord, NewRecord, NoLease
  <2>5. /\ [live EXCEPT ![current] = AbsentRecord] \in [WsIds -> Record]
        /\ Fewer([live EXCEPT ![current] = AbsentRecord], live)
    BY <2>1, <2>4 DEF Fewer, LeasesFrom
  <2>6. /\ [live EXCEPT ![current] = q] \in [WsIds -> Record]
        /\ Fewer([live EXCEPT ![current] = q], live)
    BY <2>1, <2>2, <2>3 DEF Fewer, LeasesFrom
  <2>7. [live EXCEPT ![current].lease[t] = None] = [live EXCEPT ![current] = q]
    BY <2>1
  <2> QED
    BY <1>2, <2>5, <2>6, <2>7 DEF Left
<1> QED
  BY <1>1, <1>2

LEMMA NextLeases ==
    ASSUME TypeOK, Next
    PROVE  \/ Fewer(records', records)
           \/ Gains(records', records)
           \/ Moves(records', records)
<1> USE DEF TypeOK
<1> DEFINE live == Expire(records)
           Fine == \/ Fewer(records', records)
                   \/ Gains(records', records)
                   \/ Moves(records', records)
<1>a. live \in [WsIds -> Record] /\ Fewer(live, records)
  BY ExpireFewer
<1>b. \A w \in WsIds : records[w] \in Record
  OBVIOUS
<1>c. \A u \in Tabs : NewRecord.lease[u] = None /\ AbsentRecord.lease[u] = None
                       /\ NoLease[u] = None
  BY DEF NewRecord, AbsentRecord, NoLease
<1>d. \A t \in Tabs : Holds(t) => view[t].ws \in WsIds
  BY DEF Holds, Views
<1>e. \A t \in Tabs : request[t] # None => request[t].ws \in WsIds
  BY DEF Requests
<1>f. Fewer(records, records)
  BY DEF Fewer, LeasesFrom
<1>1. ASSUME NEW t \in Tabs, CreateContext(t) PROVE Fine
  <2> PICK w \in WsIds, k \in Tokens :
          /\ FreshToken(k)
          /\ records' = Attached([records EXCEPT ![w] = NewRecord], w, t, k)
    BY <1>1 DEF CreateContext
  <2> DEFINE mid == [records EXCEPT ![w] = NewRecord]
  <2>1. mid \in [WsIds -> Record] /\ Fewer(mid, records)
    BY <1>c, NewRecordGood DEF Fewer, LeasesFrom
  <2>2. GainsAt(records', mid, w, t, k)
    BY <2>1, AttachedGains
  <2> QED
    BY <2>1, <2>2, FewerGains
<1>2. ASSUME NEW t \in Tabs, NEW target \in WsIds, Attach(t, target) PROVE Fine
  <2> DEFINE current == view[t].ws
  <2> PICK k \in Tokens :
          /\ FreshToken(k)
          /\ LET taken == Attached(records, target, t, k)
             IN  records' = IF current \notin {None, target}
                            THEN [taken EXCEPT ![current] = Drop(@, t)]
                            ELSE taken
    BY <1>2 DEF Attach
  <2> DEFINE taken == Attached(records, target, t, k)
  <2>1. taken \in [WsIds -> Record] /\ GainsAt(taken, records, target, t, k)
    BY AttachedType, AttachedGains
  <2>2. CASE current \notin {None, target}
    <3>1. current \in WsIds
      BY <2>2 DEF Views
    <3>2. \A u \in Tabs : records'[current].lease[u] \in {None, taken[current].lease[u]}
      BY <2>1, <2>2, <3>1, DropFewer
    <3>3. \A x \in WsIds \ {current} : records'[x] = taken[x]
      BY <2>1, <2>2, <3>1
    <3>4. GainsAt(records', records, target, t, k)
      BY <2>1, <3>2, <3>3 DEF GainsAt
    <3> QED
      BY <3>4 DEF Gains
  <2>3. CASE current \in {None, target}
    BY <2>1, <2>3 DEF Gains
  <2> QED
    BY <2>2, <2>3
<1>3. ASSUME NEW t \in Tabs, Detach(t) PROVE Fine
  <2>1. view[t].ws \in WsIds
    BY <1>3, <1>d DEF Detach
  <2>2. Fewer(records', records)
    BY <1>3, <1>b, <2>1, DropFewer DEF Detach, Fewer, LeasesFrom
  <2> QED
    BY <2>2
<1>4. ASSUME NEW t \in Tabs, records' = Renewed(t) PROVE Fine
  <2>1. \A w \in WsIds : records'[w].lease = live[w].lease
    BY <1>4, <1>a DEF Renewed, Record
  <2> QED
    BY <1>a, <2>1 DEF Fewer, LeasesFrom
<1>5. ASSUME NEW t \in Tabs, Heartbeat(t) PROVE Fine
  BY <1>4, <1>5 DEF Heartbeat
<1>6. ASSUME NEW t \in Tabs, HeartbeatRefused(t) PROVE Fine
  BY <1>6, <1>a DEF HeartbeatRefused
<1>7. ASSUME NEW t \in Tabs, Close(t) PROVE Fine
  <2>1. view[t].ws \in WsIds
    BY <1>7, <1>d DEF Close
  <2>2. /\ records'[view[t].ws].lease = NoLease
        /\ \A x \in WsIds \ {view[t].ws} : records'[x] = records[x]
    BY <1>7, <1>b, <2>1 DEF Close, Record
  <2> QED
    BY <1>c, <2>2 DEF Fewer, LeasesFrom
<1>8. ASSUME NEW t \in Tabs, NEW o \in Owners, CreateSingleton(t, o) PROVE Fine
  <2> DEFINE shared == [NewRecord EXCEPT !.identity = o, !.owner = o,
                                         !.policy = "shared"]
  <2> PICK w \in WsIds, k \in Tokens :
          /\ FreshToken(k)
          /\ records' = Attached([live EXCEPT ![w] = shared], w, t, k)
    BY <1>8 DEF CreateSingleton
  <2> DEFINE mid == [live EXCEPT ![w] = shared]
  <2>1. shared \in Record /\ \A u \in Tabs : shared.lease[u] = None
    BY DEF NewRecord, Record, NoLease, Statuses, Policies
  <2>2. mid \in [WsIds -> Record] /\ Fewer(mid, records)
    BY <1>a, <2>1 DEF Fewer, LeasesFrom
  <2>3. GainsAt(records', mid, w, t, k)
    BY <2>2, AttachedGains
  <2> QED
    BY <2>2, <2>3, FewerGains
<1>9. ASSUME NEW t \in Tabs, NEW o \in Owners, JoinSingleton(t, o) PROVE Fine
  <2> PICK w \in WsIds, k \in Tokens :
          /\ FreshToken(k)
          /\ records' = Attached(Left(live, t, w), w, t, k)
    BY <1>9 DEF JoinSingleton, Singletons
  <2> DEFINE mid == Left(live, t, w)
  <2>1. view[t] \in Views
    OBVIOUS
  <2>2. mid \in [WsIds -> Record] /\ Fewer(mid, live)
    BY <1>a, <2>1, LeftFewer
  <2>3. Fewer(mid, records)
    BY <1>a, <2>2 DEF Fewer, LeasesFrom
  <2>4. GainsAt(records', mid, w, t, k)
    BY <2>2, AttachedGains
  <2> QED
    BY <2>3, <2>4, FewerGains
<1>10. ASSUME NEW t \in Tabs, NEW op \in {"open", "deactivate"},
              NEW p \in Projects \cup {None}, Validate(t, op, p)
       PROVE  Fine
  BY <1>4, <1>10 DEF Validate
<1>11. ASSUME NEW t \in Tabs, ReserveRefused(t) PROVE Fine
  BY <1>11, <1>a DEF ReserveRefused
<1>12. ASSUME NEW t \in Tabs, ReserveResumes(t) PROVE Fine
  <2> DEFINE current == request[t].ws
  <2>1. current \in WsIds
    BY <1>12, <1>e DEF ReserveResumes, InStep
  <2> PICK w \in WsIds \ {current} :
          records' = [live EXCEPT
                ![w].lease = live[current].lease,
                ![w].status = IF Connected(live[current]) THEN "attached"
                                                          ELSE "detached",
                ![current] = AbsentRecord]
    BY <1>12 DEF ReserveResumes, OpenIn
  <2>2. /\ records'[current] = AbsentRecord
        /\ records'[w].lease = live[current].lease
        /\ \A x \in WsIds \ {w, current} : records'[x] = live[x]
    BY <1>a, <2>1 DEF Record
  <2>3. LeasesFrom(records', w, records, current)
    BY <1>a, <2>1, <2>2 DEF Fewer, LeasesFrom
  <2>4. \A u \in Tabs : records'[current].lease[u] = None
    BY <1>c, <2>2
  <2>5. \A x \in WsIds \ {w, current} : LeasesFrom(records', x, records, x)
    BY <1>a, <2>2 DEF Fewer, LeasesFrom
  <2>6. Moves(records', records)
    BY <2>1, <2>3, <2>4, <2>5 DEF Moves
  <2> QED
    BY <2>6
<1>13. ASSUME NEW t \in Tabs, ReserveBinds(t) PROVE Fine
  <2> DEFINE current == request[t].ws
  <2>1. current \in WsIds
    BY <1>13, <1>e DEF ReserveBinds, InStep
  <2>2. \A x \in WsIds : records'[x].lease = live[x].lease
    BY <1>13, <1>a, <2>1 DEF ReserveBinds, Record
  <2> QED
    BY <1>a, <2>2 DEF Fewer, LeasesFrom
<1>14. ASSUME NEW t \in Tabs, OpenFinishes(t) PROVE Fine
  BY <1>14, <1>f DEF OpenFinishes
<1>15. ASSUME NEW t \in Tabs, Deactivate(t) PROVE Fine
  <2> DEFINE old == request[t].ws
  <2>1. old \in WsIds
    BY <1>15, <1>e DEF Deactivate, InStep
  <2> PICK w \in WsIds, k \in Tokens :
          /\ FreshToken(k)
          /\ records' = Attached(
                 [records EXCEPT ![old].status = "closed",
                                 ![old].lease = NoLease,
                                 ![old].lapsed = {},
                                 ![w] = NewRecord], w, t, k)
    BY <1>15 DEF Deactivate
  <2> DEFINE shut == [records[old] EXCEPT !.status = "closed",
                                          !.lease = NoLease, !.lapsed = {}]
             mid == [records EXCEPT ![old] = shut, ![w] = NewRecord]
  <2>2. shut \in Record /\ shut.lease = NoLease
    BY <1>b, <2>1, ClosedGood DEF Record
  <2>3. mid \in [WsIds -> Record] /\ Fewer(mid, records)
    BY <1>c, <2>1, <2>2, NewRecordGood DEF Fewer, LeasesFrom
  <2>4. mid = [records EXCEPT ![old].status = "closed",
                              ![old].lease = NoLease,
                              ![old].lapsed = {},
                              ![w] = NewRecord]
    BY <1>b, <2>1 DEF Record
  <2>5. GainsAt(records', mid, w, t, k)
    BY <2>3, <2>4, AttachedGains
  <2> QED
    BY <2>3, <2>5, FewerGains
<1>16. ASSUME NEW t \in Tabs, RequestFails(t) PROVE Fine
  BY <1>16, <1>f DEF RequestFails
<1>17. ASSUME NEW chosen \in SUBSET WsIds, ClearDetached(chosen) PROVE Fine
  BY <1>17, <1>a, <1>c DEF ClearDetached, Fewer, LeasesFrom
<1>18. ASSUME NEW w \in WsIds, NEW t \in Tabs, Lapse(w, t) PROVE Fine
  BY <1>18, <1>b DEF Lapse, Fewer, LeasesFrom, Record
<1>19. ASSUME Restart PROVE Fine
  <2>1. \A w \in WsIds : Loaded(disk)[w].lease = NoLease
    BY DEF Loaded, AbsentRecord, NewRecord
  <2> QED
    BY <1>19, <1>c, <2>1 DEF Restart, Fewer, LeasesFrom
<1> QED
  BY <1>1, <1>2, <1>3, <1>5, <1>6, <1>7, <1>8, <1>9, <1>10, <1>11, <1>12,
     <1>13, <1>14, <1>15, <1>16, <1>17, <1>18, <1>19 DEF Next

(* A token opens one lease, under every fault: a service that mixed up the  *)
(* connections of two tabs or two workspaces would let one act for the      *)
(* other.                                                                   *)
THEOREM OneLeasePerToken == Spec => []TokenNamesOneLease
<1>1. Init => TokenNamesOneLease
  BY DEF Init, TokenNamesOneLease, AbsentRecord, NewRecord, NoLease
<1>2. ASSUME TypeOK, TokenNamesOneLease, [Next]_vars
      PROVE  TokenNamesOneLease'
  <2>1. CASE UNCHANGED vars
    BY <1>2, <2>1 DEF vars, TokenNamesOneLease
  <2>2. CASE Fewer(records', records)
    BY <1>2, <2>2 DEF Fewer, LeasesFrom, TokenNamesOneLease
  <2>3. CASE Gains(records', records)
    <3> PICK w \in WsIds, t \in Tabs, k \in Tokens :
            FreshToken(k) /\ GainsAt(records', records, w, t, k)
      BY <2>3 DEF Gains
    <3>1. \A x \in WsIds, u \in Tabs : records[x].lease[u] # k
      BY DEF FreshToken
    <3> QED
      BY <1>2, <3>1 DEF GainsAt, TokenNamesOneLease
  <2>4. CASE Moves(records', records)
    <3> PICK w \in WsIds, c \in WsIds :
            /\ w # c
            /\ LeasesFrom(records', w, records, c)
            /\ \A u \in Tabs : records'[c].lease[u] = None
            /\ \A x \in WsIds \ {w, c} : LeasesFrom(records', x, records, x)
      BY <2>4 DEF Moves
    <3> DEFINE from(x) == IF x = w THEN c ELSE x
    <3>1. \A x \in WsIds, u \in Tabs :
             records'[x].lease[u] # None =>
                /\ x # c
                /\ records'[x].lease[u] = records[from(x)].lease[u]
      BY DEF LeasesFrom
    <3>2. \A x, y \in WsIds \ {c} : from(x) = from(y) => x = y
      OBVIOUS
    <3>3. \A x \in WsIds : from(x) \in WsIds
      OBVIOUS
    <3> HIDE DEF from
    <3> SUFFICES ASSUME NEW x \in WsIds, NEW y \in WsIds, NEW t \in Tabs,
                        NEW u \in Tabs, records'[x].lease[t] # None,
                        records'[x].lease[t] = records'[y].lease[u]
                 PROVE  x = y /\ t = u
      BY DEF TokenNamesOneLease
    <3>4. /\ x # c /\ y # c
          /\ records[from(x)].lease[t] = records'[x].lease[t]
          /\ records[from(y)].lease[u] = records'[y].lease[u]
      BY <3>1
    <3>5. from(x) = from(y) /\ t = u
      BY <1>2, <3>3, <3>4 DEF TokenNamesOneLease
    <3> QED
      BY <3>2, <3>4, <3>5
  <2> QED
    BY <1>2, <2>1, <2>2, <2>3, <2>4, NextLeases
<1>3. TypeOK /\ TokenNamesOneLease /\ [Next]_vars => TokenNamesOneLease'
  BY <1>2
<1> QED
  BY RegistryTypes, <1>1, <1>3, PTL DEF Spec

(* A token that was revoked never opens a lease again while a tab still     *)
(* presents it, whatever happens to its workspace meanwhile.                *)
THEOREM StaleStaysStale == Spec => StaleTokenStaysStale
<1> DEFINE Kept == \A t \in Tabs :
                LET k == view[t].token
                IN  k # None /\ ~Live(k) /\ view'[t].token = k => ~Live(k)'
<1>1. ASSUME TypeOK, [Next]_vars
      PROVE  [Kept]_vars
  <2> SUFFICES ASSUME Next, NEW t \in Tabs, view[t].token # None,
                      ~Live(view[t].token), view'[t].token = view[t].token
               PROVE  ~Live(view[t].token)'
    BY <1>1
  <2> DEFINE k == view[t].token
  <2>1. \A w \in WsIds, u \in Tabs : records[w].lease[u] # k
    BY DEF Live
  <2>2. ASSUME NEW w \in WsIds, NEW u \in Tabs PROVE records'[w].lease[u] # k
    <3>1. CASE Fewer(records', records)
      BY <2>1, <2>2, <3>1 DEF Fewer, LeasesFrom
    <3>2. CASE Gains(records', records)
      BY <2>1, <2>2, <3>2 DEF Gains, GainsAt, FreshToken
    <3>3. CASE Moves(records', records)
      BY <2>1, <2>2, <3>3 DEF Moves, LeasesFrom
    <3> QED
      BY <1>1, <3>1, <3>2, <3>3, NextLeases
  <2> QED
    BY <2>2 DEF Live
<1>2. TypeOK /\ [Next]_vars => [Kept]_vars
  BY <1>1
<1> QED
  BY RegistryTypes, <1>2, PTL DEF Spec, StaleTokenStaysStale

-----------------------------------------------------------------------------
(* Opened projects.  A record whose context has a root, or that a request   *)
(* has reserved, has an identity and is no draft, so every save keeps it,   *)
(* and what is on disk with a root comes back such a record.                *)

Solid(r) == r.identity # None /\ r.status \notin {"absent", "draft"}

Sound(r) == r.status = "absent" \/ Solid(r)

Rooted(recs, roots) == \A w \in WsIds : roots[w] # None => Solid(recs[w])

OnDisk(roots, d) ==
    \A w \in WsIds : /\ roots[w] # None => d[w].saved /\ d[w].root = roots[w]
                     /\ d[w].root # None => d[w].saved /\ d[w].identity # None

Reserved(recs, reqs) ==
    \A t \in Tabs :
        reqs[t] # None =>
            /\ reqs[t].op = "open" => reqs[t].project # None
            /\ reqs[t].at = "reserved" => Sound(recs[reqs[t].ws])

DiskInv == /\ Rooted(records, contexts)
           /\ OnDisk(contexts, disk)
           /\ Reserved(records, request)

(* Expiring and dropping connections keep a record solid, or absent. *)
LEMMA ExpireSolid ==
    ASSUME NEW r \in Record
    PROVE  /\ ExpireConnections(r).identity = r.identity
           /\ Solid(r) => Solid(ExpireConnections(r))
           /\ r.status = "absent" => ExpireConnections(r).status = "absent"
<1> DEFINE e == ExpireConnections(r)
<1>1. /\ e.identity = r.identity
      /\ e.status \in {r.status, IdleStatus(r)}
      /\ r.status = "absent" => e.status = "absent"
  BY DEF ExpireConnections, Record
<1>2. r.identity # None => IdleStatus(r) = "detached"
  BY DEF IdleStatus
<1> QED
  BY <1>1, <1>2 DEF Solid

LEMMA DropSolid ==
    ASSUME NEW r \in Record, NEW t \in Tabs
    PROVE  /\ Solid(r) => Solid(Drop(r, t))
           /\ r.status = "absent" => Drop(r, t).status = "absent"
<1> DEFINE q == [r EXCEPT !.lease[t] = None, !.lapsed = @ \ {t}]
<1>1. q \in Record /\ q.status = r.status /\ q.identity = r.identity
  BY DEF Record
<1> QED
  BY <1>1, ExpireSolid DEF Drop, Solid

(* Attaching keeps every other record as it was but for expiry, and makes   *)
(* the target solid when it has an identity.                                *)
LEMMA AttachedSolid ==
    ASSUME NEW recs \in [WsIds -> Record], NEW w \in WsIds, NEW t \in Tabs,
           NEW k \in Tokens
    PROVE  /\ recs[w].identity # None => Solid(Attached(recs, w, t, k)[w])
           /\ \A x \in WsIds \ {w} :
                 /\ Solid(recs[x]) => Solid(Attached(recs, w, t, k)[x])
                 /\ recs[x].status = "absent"
                       => Attached(recs, w, t, k)[x].status = "absent"
<1> DEFINE live == Expire(recs)
           a == Attached(recs, w, t, k)
<1>1. live \in [WsIds -> Record]
  BY ExpireFewer
<1>2. \A x \in WsIds : live[x] = ExpireConnections(recs[x])
  BY DEF Expire
<1>3. /\ a[w].identity = live[w].identity
      /\ a[w].status = "attached"
      /\ \A x \in WsIds \ {w} : a[x] = live[x]
  BY <1>1 DEF Attached, Record
<1> QED
  BY <1>2, <1>3, ExpireSolid DEF Solid

(* A save writes every project that is open. *)
LEMMA SavedOnDisk ==
    ASSUME NEW recs, NEW roots, Rooted(recs, roots)
    PROVE  OnDisk(roots, Saved(recs, roots))
BY DEF Rooted, OnDisk, Saved, NoEntry, Solid

LEMMA NextDisk ==
    ASSUME Inv, DiskInv, [Next]_vars
    PROVE  DiskInv'
<1> USE DEF Inv, TypeOK
<1> DEFINE live == Expire(records)
<1>a. \A w \in WsIds : records[w] \in Record
  OBVIOUS
<1>b. /\ live \in [WsIds -> Record]
      /\ \A w \in WsIds : live[w] = ExpireConnections(records[w])
  BY ExpireFewer DEF Expire
<1>c. \A w \in WsIds : /\ Solid(records[w]) => Solid(live[w])
                       /\ records[w].status = "absent" => live[w].status = "absent"
  BY <1>a, <1>b, ExpireSolid
<1>d. \A t \in Tabs : Holds(t) =>
          /\ view[t].ws \in WsIds
          /\ records[view[t].ws].status = "attached"
  BY DEF Holds, Views, StatusMatchesLeases, Connected
<1>e. \A t \in Tabs : request[t] # None =>
          /\ request[t].ws \in WsIds
          /\ request[t].project \in Projects \cup {None}
  BY DEF Requests
<1>f. \A w \in WsIds : ~Present(w) => contexts[w] = None
  BY DEF DiskInv, Rooted, Solid, Present
<1>g. ASSUME Rooted(records', contexts'), disk' = Saved(records', contexts'),
             Reserved(records', request')
      PROVE  DiskInv'
  BY <1>g, SavedOnDisk DEF DiskInv, Rooted, OnDisk, Reserved
<1>h. ASSUME Rooted(records', contexts'), UNCHANGED <<contexts, disk>>,
             Reserved(records', request')
      PROVE  DiskInv'
  BY <1>h DEF DiskInv, Rooted, OnDisk, Reserved
<1>i. ASSUME \A w \in WsIds : /\ Solid(records[w]) => Solid(records'[w])
                              /\ Sound(records[w]) => Sound(records'[w])
      PROVE  /\ Rooted(records', contexts)
             /\ Reserved(records', request)
  BY <1>e, <1>i DEF DiskInv, Rooted, Reserved
<1>j. ASSUME Reserved(records', request), NEW t \in Tabs, Done(t)
      PROVE  Reserved(records', request')
  BY <1>j DEF Done, Reserved
<1>1. ASSUME NEW t \in Tabs, CreateContext(t)
      PROVE  DiskInv'
  <2> PICK w \in WsIds, k \in Tokens :
          /\ FreshId(w)
          /\ records' = Attached([records EXCEPT ![w] = NewRecord], w, t, k)
    BY <1>1 DEF CreateContext
  <2> DEFINE mid == [records EXCEPT ![w] = NewRecord]
             new == Attached(mid, w, t, k)
  <2>1. /\ mid \in [WsIds -> Record]
        /\ \A x \in WsIds \ {w} : mid[x] = records[x]
    BY NewRecordGood
  <2>a. \A x \in WsIds \ {w} : /\ Solid(mid[x]) => Solid(new[x])
                               /\ mid[x].status = "absent" => new[x].status = "absent"
    <3> HIDE DEF mid
    <3> QED
      BY <2>1, AttachedSolid
  <2>2. \A x \in WsIds \ {w} :
           /\ Solid(records[x]) => Solid(records'[x])
           /\ Sound(records[x]) => Sound(records'[x])
    <3>1. records' = new
      OBVIOUS
    <3> HIDE DEF mid, new
    <3> QED
      BY <2>1, <2>a, <3>1 DEF Sound
  <2>3. contexts[w] = None /\ \A u \in Tabs : request[u] # None => request[u].ws # w
    BY <1>f DEF FreshId
  <2>4. Rooted(records', contexts) /\ Reserved(records', request)
    BY <1>e, <2>2, <2>3 DEF DiskInv, Rooted, Reserved
  <2> QED
    BY <1>1, <1>g, <2>4 DEF CreateContext
<1>2. ASSUME NEW t \in Tabs, NEW target \in WsIds, Attach(t, target)
      PROVE  DiskInv'
  <2> DEFINE current == view[t].ws
  <2> PICK k \in Tokens :
          LET taken == Attached(records, target, t, k)
          IN  records' = IF current \notin {None, target}
                         THEN [taken EXCEPT ![current] = Drop(@, t)]
                         ELSE taken
    BY <1>2 DEF Attach
  <2> DEFINE taken == Attached(records, target, t, k)
  <2>1. taken \in [WsIds -> Record]
    BY AttachedType
  <2>2. \A x \in WsIds : /\ Solid(records[x]) => Solid(taken[x])
                         /\ Sound(records[x]) => Sound(taken[x])
    BY <1>2, AttachedSolid DEF Attach, Present, Sound, Solid
  <2>3. \A x \in WsIds : /\ Solid(taken[x]) => Solid(records'[x])
                         /\ Sound(taken[x]) => Sound(records'[x])
    <3>1. CASE current \notin {None, target}
      <4>1. current \in WsIds
        BY <3>1 DEF Views
      <4>2. /\ records'[current] = Drop(taken[current], t)
            /\ \A x \in WsIds \ {current} : records'[x] = taken[x]
        BY <2>1, <3>1, <4>1
      <4> QED
        BY <2>1, <4>1, <4>2, DropSolid DEF Sound
    <3>2. CASE current \in {None, target}
      BY <3>2
    <3> QED
      BY <3>1, <3>2
  <2>4. Rooted(records', contexts) /\ Reserved(records', request)
    BY <1>i, <2>2, <2>3
  <2> QED
    BY <1>2, <1>g, <2>4 DEF Attach
<1>3. ASSUME NEW t \in Tabs, Detach(t)
      PROVE  DiskInv'
  <2>1. view[t].ws \in WsIds
    BY <1>3, <1>d DEF Detach
  <2>2. /\ records'[view[t].ws] = Drop(records[view[t].ws], t)
        /\ \A x \in WsIds \ {view[t].ws} : records'[x] = records[x]
    BY <1>3, <2>1 DEF Detach
  <2>3. \A x \in WsIds : /\ Solid(records[x]) => Solid(records'[x])
                         /\ Sound(records[x]) => Sound(records'[x])
    BY <1>a, <2>1, <2>2, DropSolid DEF Sound
  <2>4. Rooted(records', contexts) /\ Reserved(records', request)
    BY <1>i, <2>3
  <2> QED
    BY <1>3, <1>g, <2>4 DEF Detach
<1>4. ASSUME NEW t \in Tabs, Holds(t), records' = Renewed(t)
      PROVE  Rooted(records', contexts) /\ Reserved(records', request)
  <2> DEFINE w == view[t].ws
  <2>1. w \in WsIds /\ records[w].status = "attached"
    BY <1>4, <1>d
  <2>2. /\ records'[w].identity = live[w].identity
        /\ records'[w].status = "attached"
        /\ \A x \in WsIds \ {w} : records'[x] = live[x]
    BY <1>4, <1>b, <2>1 DEF Renewed, Record
  <2>3. \A x \in WsIds : /\ Solid(records[x]) => Solid(records'[x])
                         /\ Sound(records[x]) => Sound(records'[x])
    BY <1>c, <2>1, <2>2 DEF Sound, Solid
  <2> QED
    BY <1>i, <2>3
<1>5. ASSUME NEW t \in Tabs, Heartbeat(t)
      PROVE  DiskInv'
  BY <1>4, <1>5, <1>h DEF Heartbeat
<1>6. Rooted(live, contexts) /\ Reserved(live, request)
  BY <1>c, <1>e DEF DiskInv, Rooted, Reserved, Sound
<1>7. ASSUME NEW t \in Tabs, HeartbeatRefused(t)
      PROVE  DiskInv'
  BY <1>6, <1>7, <1>h DEF HeartbeatRefused
<1>8. ASSUME NEW t \in Tabs, Close(t)
      PROVE  DiskInv'
  <2>1. view[t].ws \in WsIds /\ records[view[t].ws].status = "attached"
    BY <1>8, <1>d DEF Close
  <2>2. /\ records'[view[t].ws].identity = records[view[t].ws].identity
        /\ records'[view[t].ws].status = "closed"
        /\ \A x \in WsIds \ {view[t].ws} : records'[x] = records[x]
    BY <1>8, <1>a, <2>1 DEF Close, Record
  <2>3. \A x \in WsIds : /\ Solid(records[x]) => Solid(records'[x])
                         /\ Sound(records[x]) => Sound(records'[x])
    BY <2>1, <2>2 DEF Sound, Solid
  <2>4. Rooted(records', contexts) /\ Reserved(records', request)
    BY <1>i, <2>3
  <2> QED
    BY <1>8, <1>g, <2>4 DEF Close
<1>9. ASSUME NEW t \in Tabs, NEW o \in Owners, CreateSingleton(t, o)
      PROVE  DiskInv'
  <2> DEFINE shared == [NewRecord EXCEPT !.identity = o, !.owner = o,
                                         !.policy = "shared"]
  <2> PICK w \in WsIds, k \in Tokens :
          records' = Attached([live EXCEPT ![w] = shared], w, t, k)
    BY <1>9 DEF CreateSingleton
  <2> DEFINE mid == [live EXCEPT ![w] = shared]
  <2>1. shared \in Record /\ shared.identity # None
    BY NoneAssumption DEF NewRecord, Record, NoLease, Statuses, Policies
  <2>2. mid \in [WsIds -> Record] /\ mid[w].identity # None
    BY <1>b, <2>1
  <2>3. \A x \in WsIds : /\ Solid(records[x]) => Solid(records'[x])
                         /\ Sound(records[x]) => Sound(records'[x])
    BY <1>b, <1>c, <2>2, AttachedSolid DEF Sound
  <2>4. Rooted(records', contexts) /\ Reserved(records', request)
    BY <1>i, <2>3
  <2> QED
    BY <1>9, <1>g, <2>4 DEF CreateSingleton
<1>10. ASSUME NEW t \in Tabs, NEW o \in Owners, JoinSingleton(t, o)
       PROVE  DiskInv'
  <2> PICK w \in Singletons(live, o), k \in Tokens :
          /\ records' = Attached(Left(live, t, w), w, t, k)
          /\ contexts' = [x \in WsIds |-> IF Left(live, t, w)[x] = AbsentRecord
                                          THEN None ELSE contexts[x]]
    BY <1>10 DEF JoinSingleton
  <2> DEFINE mid == Left(live, t, w)
  <2>1. w \in WsIds /\ live[w].status # "absent" /\ view[t] \in Views
    BY DEF Singletons
  <2>2. mid \in [WsIds -> Record]
    BY <1>b, <2>1, LeftFewer
  <2>3. /\ mid[w] = live[w]
        /\ \A x \in WsIds : \/ mid[x] = AbsentRecord
                             \/ /\ mid[x].status = live[x].status
                                /\ mid[x].identity = live[x].identity
    <3>1. CASE ~Known(t) \/ view[t].ws = w
      BY <3>1 DEF Left
    <3>2. CASE Known(t) /\ view[t].ws # w
      <4> DEFINE current == view[t].ws
      <4>1. current \in WsIds
        BY <2>1, <3>2 DEF Known, Views
      <4>2. /\ \A x \in WsIds \ {current} : mid[x] = live[x]
            /\ \/ mid[current] = AbsentRecord
               \/ mid[current] = [live[current] EXCEPT !.lease[t] = None]
        BY <1>b, <3>2, <4>1 DEF Left
      <4>3. live[current] \in Record
        BY <1>b, <4>1
      <4>4. LET q == [live[current] EXCEPT !.lease[t] = None]
            IN  /\ q.status = live[current].status
                /\ q.identity = live[current].identity
        BY <4>3 DEF Record
      <4> HIDE DEF mid, live
      <4> QED
        BY <2>1, <3>2, <4>1, <4>2, <4>4
    <3> QED
      BY <3>1, <3>2
  <2>4. AbsentRecord.status = "absent"
    BY DEF AbsentRecord, NewRecord
  <2>5. \A x \in WsIds : /\ mid[x] # AbsentRecord /\ Solid(records[x]) => Solid(mid[x])
                         /\ Sound(records[x]) => Sound(mid[x])
    BY <1>c, <2>3, <2>4 DEF Sound, Solid
  <2>9. /\ Solid(mid[w]) => Solid(records'[w])
        /\ \A x \in WsIds \ {w} :
              /\ Solid(mid[x]) => Solid(records'[x])
              /\ mid[x].status = "absent" => records'[x].status = "absent"
    <3> DEFINE new == Attached(mid, w, t, k)
    <3>1. records' = new
      OBVIOUS
    <3> HIDE DEF mid
    <3>2. /\ mid[w].identity # None => Solid(new[w])
          /\ \A x \in WsIds \ {w} :
                /\ Solid(mid[x]) => Solid(new[x])
                /\ mid[x].status = "absent" => new[x].status = "absent"
      BY <2>1, <2>2, AttachedSolid
    <3> HIDE DEF new
    <3> QED
      BY <3>1, <3>2 DEF Solid
  <2>6. \A x \in WsIds : /\ Solid(mid[x]) => Solid(records'[x])
                         /\ Sound(mid[x]) => Sound(records'[x])
    <3>1. mid[w].status # "absent"
      BY <2>1, <2>3
    <3> HIDE DEF mid
    <3> QED
      BY <2>9, <3>1 DEF Sound
  <2>7. Rooted(records', contexts')
    BY <2>5, <2>6 DEF DiskInv, Rooted
  <2>8. Reserved(records', request)
    BY <1>e, <2>5, <2>6 DEF DiskInv, Reserved
  <2> QED
    BY <1>10, <1>g, <2>7, <2>8 DEF JoinSingleton
<1>11. ASSUME NEW t \in Tabs, NEW op \in {"open", "deactivate"},
              NEW p \in Projects \cup {None}, Validate(t, op, p)
       PROVE  DiskInv'
  <2>1. Rooted(records', contexts) /\ Reserved(records', request)
    BY <1>4, <1>11 DEF Validate
  <2>2. Reserved(records', request')
    BY <1>11, <2>1 DEF Validate, Reserved
  <2> QED
    BY <1>11, <1>h, <2>1, <2>2 DEF Validate
<1>12. ASSUME NEW t \in Tabs, ReserveRefused(t)
       PROVE  DiskInv'
  BY <1>6, <1>12, <1>h, <1>j DEF ReserveRefused
<1>13. ASSUME NEW t \in Tabs, ReserveResumes(t)
       PROVE  DiskInv'
  <2> DEFINE current == request[t].ws
  <2>1. current \in WsIds /\ request[t].project # None
    BY <1>13, <1>e DEF ReserveResumes, InStep, DiskInv, Reserved
  <2> PICK w \in OpenIn(live, request[t].project) \ {current} :
          records' = [live EXCEPT
                ![w].lease = live[current].lease,
                ![w].status = IF Connected(live[current]) THEN "attached"
                                                          ELSE "detached",
                ![current] = AbsentRecord]
    BY <1>13 DEF ReserveResumes
  <2>2. w \in WsIds /\ w # current /\ live[w].identity # None
    BY <2>1 DEF OpenIn
  <2>3. /\ records'[current].status = "absent"
        /\ records'[w].identity = live[w].identity
        /\ records'[w].status \in {"attached", "detached"}
        /\ \A x \in WsIds \ {w, current} : records'[x] = live[x]
    BY <1>b, <2>1, <2>2 DEF Record, AbsentRecord, NewRecord
  <2>4. Rooted(records', contexts')
    BY <1>13, <1>c, <2>1, <2>2, <2>3 DEF ReserveResumes, DiskInv, Rooted, Solid
  <2>5. Reserved(records', request)
    BY <1>c, <1>e, <2>2, <2>3 DEF DiskInv, Reserved, Sound, Solid
  <2> QED
    BY <1>13, <1>g, <1>j, <2>4, <2>5 DEF ReserveResumes
<1>14. ASSUME NEW t \in Tabs, ReserveBinds(t)
       PROVE  DiskInv'
  <2> DEFINE current == request[t].ws
  <2>1. current \in WsIds /\ request[t].project # None /\ request[t] \in Requests
    BY <1>14, <1>e DEF ReserveBinds, InStep, DiskInv, Reserved
  <2>2. /\ records'[current].identity # None
        /\ records'[current].status \in {"attached", "detached"}
        /\ \A x \in WsIds \ {current} : records'[x] = live[x]
    BY <1>14, <1>b, <2>1 DEF ReserveBinds, Record
  <2>3. \A x \in WsIds : /\ Solid(records[x]) => Solid(records'[x])
                         /\ Sound(records[x]) => Sound(records'[x])
    BY <1>c, <2>2 DEF Sound, Solid
  <2>4. Rooted(records', contexts) /\ Reserved(records', request)
    BY <1>i, <2>3
  <2>5. Sound(records'[current])
    BY <2>2 DEF Sound, Solid
  <2>6. Reserved(records', request')
    BY <1>14, <2>1, <2>4, <2>5 DEF ReserveBinds, Reserved, Requests
  <2> QED
    BY <1>14, <1>h, <2>4, <2>6 DEF ReserveBinds
<1>15. ASSUME NEW t \in Tabs, OpenFinishes(t)
       PROVE  DiskInv'
  <2> DEFINE current == request[t].ws
  <2>1. current \in WsIds /\ Solid(records[current])
    BY <1>15, <1>e DEF OpenFinishes, InStep, Present, DiskInv, Reserved, Sound
  <2>2. Rooted(records', contexts')
    BY <1>15, <2>1 DEF OpenFinishes, DiskInv, Rooted
  <2>3. Reserved(records', request) /\ disk' = Saved(records', contexts')
    BY <1>15 DEF OpenFinishes, DiskInv
  <2> QED
    BY <1>15, <1>g, <1>j, <2>2, <2>3 DEF OpenFinishes
<1>16. ASSUME NEW t \in Tabs, Deactivate(t)
       PROVE  DiskInv'
  <2> DEFINE old == request[t].ws
  <2>1. old \in WsIds /\ Present(old)
    BY <1>16, <1>e DEF Deactivate, InStep
  <2> PICK w \in WsIds, k \in Tokens :
          /\ FreshId(w)
          /\ records' = Attached(
                 [records EXCEPT ![old].status = "closed",
                                 ![old].lease = NoLease,
                                 ![old].lapsed = {},
                                 ![w] = NewRecord], w, t, k)
    BY <1>16 DEF Deactivate
  <2> DEFINE shut == [records[old] EXCEPT !.status = "closed",
                                          !.lease = NoLease, !.lapsed = {}]
             mid == [records EXCEPT ![old] = shut, ![w] = NewRecord]
  <2>2. /\ shut \in Record
        /\ shut.status = "closed" /\ shut.identity = records[old].identity
    BY <1>a, <2>1, ClosedGood DEF Record
  <2>3. mid \in [WsIds -> Record]
    BY <2>1, <2>2, NewRecordGood
  <2>4. mid = [records EXCEPT ![old].status = "closed",
                              ![old].lease = NoLease,
                              ![old].lapsed = {},
                              ![w] = NewRecord]
    BY <1>a, <2>1 DEF Record
  <2>5. contexts[w] = None /\ \A u \in Tabs : request[u] # None => request[u].ws # w
    BY <1>f DEF FreshId
  <2>6. \A x \in WsIds \ {w} : /\ Solid(records[x]) => Solid(mid[x])
                               /\ Sound(records[x]) => Sound(mid[x])
    BY <2>1, <2>2 DEF Present, Sound, Solid
  <2>7. \A x \in WsIds \ {w} : /\ Solid(mid[x]) => Solid(records'[x])
                               /\ Sound(mid[x]) => Sound(records'[x])
    <3> DEFINE new == Attached(mid, w, t, k)
    <3>1. records' = new
      BY <2>4
    <3> HIDE DEF mid
    <3>2. \A x \in WsIds \ {w} :
             /\ Solid(mid[x]) => Solid(new[x])
             /\ mid[x].status = "absent" => new[x].status = "absent"
      BY <2>3, AttachedSolid
    <3> HIDE DEF new
    <3> QED
      BY <3>1, <3>2 DEF Sound
  <2>8. Rooted(records', contexts')
    BY <1>16, <2>5, <2>6, <2>7 DEF Deactivate, DiskInv, Rooted
  <2>9. Reserved(records', request)
    BY <1>e, <2>5, <2>6, <2>7 DEF DiskInv, Reserved
  <2> QED
    BY <1>16, <1>g, <1>j, <2>8, <2>9 DEF Deactivate
<1>17. ASSUME NEW t \in Tabs, RequestFails(t)
       PROVE  DiskInv'
  BY <1>17, <1>h, <1>j DEF RequestFails, DiskInv
<1>18. ASSUME NEW chosen \in SUBSET WsIds, ClearDetached(chosen)
       PROVE  DiskInv'
  <2>1. AbsentRecord.status = "absent"
    BY DEF AbsentRecord, NewRecord
  <2> PICK removed \in SUBSET WsIds :
          /\ records' = [w \in WsIds |-> IF w \in removed THEN AbsentRecord
                                                          ELSE live[w]]
          /\ contexts' = [w \in WsIds |-> IF w \in removed THEN None
                                                           ELSE contexts[w]]
          /\ disk' = IF removed = {} THEN disk ELSE Saved(records', contexts')
          /\ UNCHANGED <<view, request>>
    <3> DEFINE gone == {w \in chosen : /\ live[w].status = "detached"
                                       /\ ~Connected(live[w])
                                       /\ live[w].policy = "exclusive"}
    <3> WITNESS gone \in SUBSET WsIds
    <3> QED
      BY <1>18 DEF ClearDetached
  <2>2. Rooted(records', contexts')
    BY <1>c DEF DiskInv, Rooted
  <2>3. Reserved(records', request')
    BY <1>c, <1>e, <2>1 DEF DiskInv, Reserved, Sound
  <2>4. CASE removed = {}
    <3>1. contexts' = contexts
      BY <2>4
    <3> QED
      BY <1>h, <2>2, <2>3, <2>4, <3>1
  <2>5. CASE removed # {}
    BY <1>g, <2>2, <2>3, <2>5
  <2> QED
    BY <2>4, <2>5
<1>19. ASSUME NEW w \in WsIds, NEW t \in Tabs, Lapse(w, t)
       PROVE  DiskInv'
  <2>1. \A x \in WsIds : /\ records'[x].status = records[x].status
                         /\ records'[x].identity = records[x].identity
    BY <1>19, <1>a DEF Lapse, Record
  <2>2. Rooted(records', contexts) /\ Reserved(records', request)
    BY <1>i, <2>1 DEF Solid, Sound
  <2> QED
    BY <1>19, <1>h, <2>2 DEF Lapse
<1>20. ASSUME Restart
       PROVE  DiskInv'
  <2>1. \A w \in WsIds : disk[w].root # None => Solid(Loaded(disk)[w])
    BY DEF DiskInv, OnDisk, Loaded, NewRecord, Solid
  <2>2. Rooted(records', contexts')
    BY <1>20, <2>1 DEF Restart, Rooted
  <2>3. OnDisk(contexts', disk')
    BY <1>20 DEF Restart, DiskInv, OnDisk
  <2>4. Reserved(records', request')
    BY <1>20 DEF Restart, Reserved
  <2> QED
    BY <2>2, <2>3, <2>4 DEF DiskInv, Rooted, OnDisk, Reserved
<1>21. CASE UNCHANGED vars
  BY <1>21 DEF vars, DiskInv, Rooted, OnDisk, Reserved
<1> QED
  BY <1>1, <1>2, <1>3, <1>5, <1>7, <1>8, <1>9, <1>10, <1>11, <1>12, <1>13,
     <1>14, <1>15, <1>16, <1>17, <1>18, <1>19, <1>20, <1>21 DEF Next

(* A service that stops at any point, within an open or a close of a        *)
(* project too, finds every project a context has open on disk again.       *)
THEOREM OpenedIsOnDisk == Spec => []OpenedProjectOnDisk
<1>1. Init => DiskInv
  BY DEF Init, DiskInv, Rooted, OnDisk, Reserved, NoEntry
<1>2. Inv /\ DiskInv /\ [Next]_vars => DiskInv'
  BY NextDisk
<1>3. DiskInv => OpenedProjectOnDisk
  BY DEF DiskInv, OnDisk, OpenedProjectOnDisk
<1> QED
  BY InitInv, NextInv, <1>1, <1>2, <1>3, PTL DEF Spec
=============================================================================
