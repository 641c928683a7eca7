----------------------------- MODULE Workspaces -----------------------------
(***************************************************************************)
(* The workspace registry of the browser service                           *)
(* (src/electroboy/service/workspaces.py) with the requests that change it *)
(* (service/app.py, service/core_module.py, the software controller) and   *)
(* what a browser tab remembers between them (core/runtime.js).            *)
(*                                                                         *)
(* The registry lock makes every registry method one step.  A request that *)
(* opens or closes a project is several steps: the dispatcher validates    *)
(* the lease under the lock, releases it, and the handler takes the lock   *)
(* again, once to reserve the project and once to set the context's root.  *)
(*                                                                         *)
(* Time is abstracted: Lapse says that the last heartbeat of a connection  *)
(* is now older than the lease.  A record that is not in the registry has  *)
(* the status "absent"; the context of a workspace exists exactly when its *)
(* record does, and contexts holds the root it has open.                   *)
(***************************************************************************)
EXTENDS FiniteSets, TLC

CONSTANTS
    Tabs,          \* browser connections (connection_id)
    WsIds,         \* workspace ids; an id nobody refers to is as good as new
    Projects,      \* canonical project directories
    Owners,        \* owner keys of shared-singleton workspaces
    Tokens,        \* lease tokens; a token nobody holds is as good as new
    None,          \* no project, no owner, no token, no workspace
    Overlap,       \* may two tabs have a request in progress at once?
    OpenMayFail,   \* may opening a project fail after it was reserved?
    MayRestart     \* may the service stop and start again?

ASSUME NoneAssumption ==
    /\ None \notin Tabs \cup WsIds \cup Projects \cup Owners \cup Tokens
    /\ Projects \cap Owners = {}
ASSUME FaultAssumption == {Overlap, OpenMayFail, MayRestart} \subseteq BOOLEAN

VARIABLES
    records,       \* WorkspaceRegistry.records
    contexts,      \* ContextStore.contexts: the project root each one has open
    disk,          \* .electroboy/service/workspaces.json
    view,          \* the workspace id and token a tab keeps in sessionStorage
    request        \* the open or deactivate request a tab has in progress

vars == <<records, contexts, disk, view, request>>

-----------------------------------------------------------------------------
(* Records. *)

Statuses == {"absent", "draft", "attached", "detached", "closed"}
Policies == {"exclusive", "shared"}

Record == [status   : Statuses,
           identity : Projects \cup Owners \cup {None},
           owner    : Owners \cup {None},
           policy   : Policies,
           lease    : [Tabs -> Tokens \cup {None}],   \* connections' tokens
           lapsed   : SUBSET Tabs]                    \* heartbeat too old

Entry == [saved    : BOOLEAN,
          identity : Projects \cup Owners \cup {None},
          policy   : Policies,
          root     : Projects \cup {None}]

NoLease == [t \in Tabs |-> None]

NewRecord == [status |-> "draft", identity |-> None, owner |-> None,
              policy |-> "exclusive", lease |-> NoLease, lapsed |-> {}]

AbsentRecord == [NewRecord EXCEPT !.status = "absent"]

NoEntry == [saved |-> FALSE, identity |-> None, policy |-> "exclusive",
            root |-> None]

Present(w) == records[w].status # "absent"

Connected(r) == \E t \in Tabs : r.lease[t] # None

(* Mutant: the status field is reset to nothing. *)
IdleStatusUnset(r) == IF r.identity # None \/ r.owner # None
                      THEN "detached" ELSE "none"

(* What a record without connections falls back to. *)
IdleStatus(r) == IF r.identity # None \/ r.owner # None
                 THEN "detached" ELSE "draft"

(* WorkspaceRecord.expire_connections. *)
ExpireConnections(r) ==
    LET kept == [t \in Tabs |-> IF t \in r.lapsed THEN None ELSE r.lease[t]]
    IN  [r EXCEPT !.lease  = kept,
                  !.lapsed = {},
                  !.status = IF @ \notin {"absent", "closed"} /\ kept = NoLease
                             THEN IdleStatus(r) ELSE @]

(* WorkspaceRegistry._expire_locked. *)
Expire(recs) == [w \in WsIds |-> ExpireConnections(recs[w])]

(* Mutant: a detach that forgets to recompute the status. *)
DropKeepsStatus(r, t) == [r EXCEPT !.lease[t] = None, !.lapsed = @ \ {t}]

(* connections.pop(connection_id) followed by expire_connections. *)
Drop(r, t) == ExpireConnections([r EXCEPT !.lease[t] = None, !.lapsed = @ \ {t}])

(* The token _attach_locked returns: the tab's own when the record still    *)
(* has its connection, and a new one otherwise.                             *)
LeaseToken(recs, w, t, fresh) ==
    LET own == Expire(recs)[w].lease[t] IN IF own # None THEN own ELSE fresh

(* Mutant: the other connections stay when a tab takes a workspace over. *)
AttachedBesides(recs, w, t, fresh) ==
    [Expire(recs) EXCEPT ![w].lease[t] = LeaseToken(recs, w, t, fresh),
                         ![w].status = "attached"]

(* WorkspaceRegistry._attach_locked: a new connection to an exclusive       *)
(* workspace takes it over from whoever has it.                             *)
Attached(recs, w, t, fresh) ==
    LET live == Expire(recs)
        base == IF live[w].lease[t] = None /\ live[w].policy = "exclusive"
                THEN NoLease ELSE live[w].lease
    IN  [live EXCEPT
            ![w].lease  = [base EXCEPT ![t] = LeaseToken(recs, w, t, fresh)],
            ![w].status = "attached"]

(* Mutant: only workspaces somebody is attached to are saved. *)
SavedAttached(recs, roots) ==
    [w \in WsIds |->
        IF recs[w].status # "attached" THEN NoEntry
        ELSE [saved |-> TRUE, identity |-> recs[w].identity,
              policy |-> recs[w].policy, root |-> roots[w]]]

(* WorkspaceRegistry._save_locked: drafts are left out, and neither the     *)
(* owner key nor the leases are part of an entry.                           *)
Saved(recs, roots) ==
    [w \in WsIds |->
        IF recs[w].status \in {"absent", "draft"} THEN NoEntry
        ELSE [saved |-> TRUE, identity |-> recs[w].identity,
              policy |-> recs[w].policy, root |-> roots[w]]]

(* WorkspaceRegistry._load: every saved workspace comes back detached.      *)
Loaded(d) ==
    [w \in WsIds |->
        IF ~d[w].saved THEN AbsentRecord
        ELSE [NewRecord EXCEPT !.status = "detached",
                               !.identity = d[w].identity,
                               !.policy = d[w].policy]]

-----------------------------------------------------------------------------
(* Tabs and their requests. *)

Views == [ws : WsIds \cup {None}, token : Tokens \cup {None}]
NoView == [ws |-> None, token |-> None]

Requests == [op      : {"open", "deactivate"},
             ws      : WsIds,
             project : Projects \cup {None},
             at      : {"validated", "reserved"}]

(* The workspace the tab shows is in the registry.                          *)
Known(t) == view[t].ws # None /\ Present(view[t].ws)

(* The tab has the lease of the workspace it shows.                         *)
Holds(t) == /\ view[t].ws # None
            /\ view[t].token # None
            /\ records[view[t].ws].lease[t] = view[t].token

FreshId(w) == /\ ~Present(w)
              /\ ~disk[w].saved
              /\ \A t \in Tabs : /\ view[t].ws # w
                                 /\ request[t] # None => request[t].ws # w

(* Mutant: a token is only compared with those the tabs hold. *)
FreshToView(k) == \A t \in Tabs : view[t].token # k

(* Mutant: a token is only compared with those of the live connections. *)
FreshToLeases(k) == \A w \in WsIds, t \in Tabs : records[w].lease[t] # k

FreshToken(k) == /\ \A w \in WsIds, t \in Tabs : records[w].lease[t] # k
                 /\ \A t \in Tabs : view[t].token # k

MayStart(t) == /\ request[t] = None
               /\ Overlap \/ \A u \in Tabs : request[u] = None

Init ==
    /\ records = [w \in WsIds |-> AbsentRecord]
    /\ contexts = [w \in WsIds |-> None]
    /\ disk = [w \in WsIds |-> NoEntry]
    /\ view = [t \in Tabs |-> NoView]
    /\ request = [t \in Tabs |-> None]

Shows(t, w, token) == view' = [view EXCEPT ![t] = [ws |-> w, token |-> token]]

(* POST /api/contexts: a tab with no usable workspace gets a draft one      *)
(* (create_draft, saved by the project_payload of the reply).               *)
CreateContext(t) ==
    /\ request[t] = None
    /\ ~Known(t)
    /\ \E w \in WsIds, k \in Tokens :
        /\ FreshId(w)
        /\ FreshToken(k)
        /\ records' = Attached([records EXCEPT ![w] = NewRecord], w, t, k)
        /\ Shows(t, w, k)
    /\ disk' = Saved(records', contexts)
    /\ UNCHANGED <<contexts, request>>

(* Mutant: a workspace is only attached when nobody else is connected. *)
AttachDetached(t, target) ==
    /\ Present(target)
    /\ records[target].status = "detached"
    /\ \E k \in Tokens : /\ FreshToken(k)
                         /\ records' = Attached(records, target, t, k)
                         /\ Shows(t, target, k)
    /\ disk' = Saved(records', contexts)
    /\ UNCHANGED <<contexts, request>>

(* POST /api/workspaces/attach (switch): from the overlay with another      *)
(* workspace as the target, or, when a heartbeat failed or the page was     *)
(* reloaded, with the tab's own.                                            *)
Attach(t, target) ==
    LET current == view[t].ws
    IN  /\ Present(target)
        /\ records[target].policy # "shared"
        /\ Known(t) /\ current # target => Holds(t)
        /\ current = target
              => records[target].lease[t] \in {None, view[t].token}
        /\ \E k \in Tokens :
            /\ FreshToken(k)
            /\ LET taken == Attached(records, target, t, k)
               IN  records' = IF current \notin {None, target}
                              THEN [taken EXCEPT ![current] = Drop(@, t)]
                              ELSE taken
            /\ Shows(t, target, LeaseToken(records, target, t, k))
        /\ disk' = Saved(records', contexts)
        /\ UNCHANGED <<contexts, request>>

(* POST /api/workspaces/detach, also sent as a beacon when the page goes.   *)
Detach(t) ==
    /\ Holds(t)
    /\ records' = [records EXCEPT ![view[t].ws] = Drop(@, t)]
    /\ disk' = Saved(records', contexts)
    /\ UNCHANGED <<contexts, view, request>>

(* Renew the lease of a tab that still has one (renew_connection).          *)
Renewed(t) == [Expire(records) EXCEPT ![view[t].ws].status = "attached"]

(* POST /api/workspaces/heartbeat, and the validation the dispatcher does   *)
(* before every route that needs the lease.                                 *)
Heartbeat(t) ==
    /\ Holds(t)
    /\ t \notin records[view[t].ws].lapsed
    /\ records' = Renewed(t)
    /\ UNCHANGED <<contexts, disk, view, request>>

(* A heartbeat that is refused still expires every lapsed connection.       *)
HeartbeatRefused(t) ==
    /\ Known(t)
    /\ Holds(t) => t \in records[view[t].ws].lapsed
    /\ records' = Expire(records)
    /\ UNCHANGED <<contexts, disk, view, request>>

(* POST /api/workspaces/close, with the lease.                              *)
Close(t) ==
    /\ Holds(t)
    /\ records' = [records EXCEPT ![view[t].ws].status = "closed",
                                  ![view[t].ws].lease = NoLease,
                                  ![view[t].ws].lapsed = {}]
    /\ disk' = Saved(records', contexts)
    /\ UNCHANGED <<contexts, view, request>>

(* POST /api/workspaces/clear: remove the chosen detached workspaces.       *)
ClearDetached(chosen) ==
    LET live == Expire(records)
        removed == {w \in chosen : /\ live[w].status = "detached"
                                   /\ ~Connected(live[w])
                                   /\ live[w].policy = "exclusive"}
    IN  /\ records' = [w \in WsIds |-> IF w \in removed THEN AbsentRecord
                                                        ELSE live[w]]
        /\ contexts' = [w \in WsIds |-> IF w \in removed THEN None
                                                         ELSE contexts[w]]
        /\ disk' = IF removed = {} THEN disk ELSE Saved(records', contexts')
        /\ UNCHANGED <<view, request>>

(* The shared workspaces of an owner that are not closed. *)
Singletons(recs, owner) ==
    {w \in WsIds : /\ recs[w].status \notin {"absent", "closed"}
                  /\ recs[w].owner = owner
                  /\ recs[w].policy = "shared"}

(* The tab and the current workspace it leaves to join another: its         *)
(* connection goes, and so does a draft nobody is connected to.             *)
Left(live, t, w) ==
    LET current == view[t].ws
    IN  IF ~Known(t) \/ current = w THEN live
        ELSE IF live[current].status = "draft"
        THEN [live EXCEPT ![current] = AbsentRecord]
        ELSE [live EXCEPT ![current].lease[t] = None]

(* resolve_shared_singleton, called by a workflow that owns an application  *)
(* account: every tab of the account shares one workspace.  Nobody has it   *)
(* yet: the record of the current workspace is replaced by a shared one.    *)
CreateSingleton(t, owner) ==
    LET live == Expire(records)
        shared == [NewRecord EXCEPT !.identity = owner, !.owner = owner,
                                    !.policy = "shared"]
    IN  /\ request[t] = None
        /\ Singletons(live, owner) = {}
        /\ \E w \in WsIds, k \in Tokens :
            /\ IF Known(t) THEN w = view[t].ws ELSE FreshId(w)
            /\ FreshToken(k)
            /\ records' = Attached([live EXCEPT ![w] = shared], w, t, k)
            /\ Shows(t, w, k)
        /\ disk' = Saved(records', contexts)
        /\ UNCHANGED <<contexts, request>>

(* resolve_shared_singleton when the owner has a workspace: the tab joins.  *)
JoinSingleton(t, owner) ==
    LET live == Expire(records)
    IN  /\ request[t] = None
        /\ \E w \in Singletons(live, owner), k \in Tokens :
            /\ FreshToken(k)
            /\ records' = Attached(Left(live, t, w), w, t, k)
            /\ Shows(t, w, LeaseToken(live, w, t, k))
            /\ contexts' = [x \in WsIds |-> IF Left(live, t, w)[x] = AbsentRecord
                                            THEN None ELSE contexts[x]]
        /\ disk' = Saved(records', contexts')
        /\ UNCHANGED request

-----------------------------------------------------------------------------
(* Opening and closing a project: three steps of one request.               *)

(* The dispatcher validates and renews the lease, and lets the lock go.     *)
Validate(t, op, project) ==
    /\ MayStart(t)
    /\ op = "open" <=> project # None
    /\ Holds(t)
    /\ t \notin records[view[t].ws].lapsed
    /\ records' = Renewed(t)
    /\ request' = [request EXCEPT ![t] =
                      [op |-> op, ws |-> view[t].ws, project |-> project,
                       at |-> "validated"]]
    /\ UNCHANGED <<contexts, disk, view>>

Done(t) == request' = [request EXCEPT ![t] = None]

InStep(t, op, at) == /\ request[t] # None
                     /\ request[t].op = op
                     /\ request[t].at = at

(* reserve_project: the workspaces that have the project open now.          *)
OpenIn(recs, project) ==
    {w \in WsIds : /\ recs[w].status \notin {"absent", "closed"}
                   /\ recs[w].identity = project
                   /\ contexts[w] = project}

(* Another workspace has the project and a connection: the open is refused. *)
ReserveRefused(t) ==
    /\ InStep(t, "open", "validated")
    /\ Present(request[t].ws)
    /\ LET live == Expire(records)
       IN  /\ \E w \in OpenIn(live, request[t].project) \ {request[t].ws} :
                  Connected(live[w])
           /\ records' = live
    /\ Done(t)
    /\ UNCHANGED <<contexts, disk, view>>

(* Another workspace has the project and no connection: the connections of  *)
(* the current workspace move to it and the current workspace is dropped.   *)
ReserveResumes(t) ==
    /\ InStep(t, "open", "validated")
    /\ Present(request[t].ws)
    /\ LET live == Expire(records)
           current == request[t].ws
       IN  \E w \in OpenIn(live, request[t].project) \ {current} :
            /\ ~Connected(live[w])
            /\ records' = [live EXCEPT
                  ![w].lease = live[current].lease,
                  ![w].status = IF Connected(live[current]) THEN "attached"
                                                            ELSE "detached",
                  ![current] = AbsentRecord]
            /\ contexts' = [contexts EXCEPT ![current] = None]
            /\ view' = [view EXCEPT ![t].ws = w]
    /\ disk' = Saved(records', contexts')
    /\ Done(t)

(* Nobody else has the project: the current workspace is bound to it.  The  *)
(* context's root and the file on disk do not change yet.                   *)
ReserveBinds(t) ==
    /\ InStep(t, "open", "validated")
    /\ Present(request[t].ws)
    /\ LET live == Expire(records)
           current == request[t].ws
           open == OpenIn(live, request[t].project)
       IN  /\ open = {} \/ current \in open
           /\ records' = [live EXCEPT
                  ![current].identity = request[t].project,
                  ![current].policy = "exclusive",
                  ![current].status = IF Connected(live[current])
                                      THEN "attached" ELSE "detached"]
    /\ request' = [request EXCEPT ![t].at = "reserved"]
    /\ UNCHANGED <<contexts, disk, view>>

(* The controller sets the root of the context and saves the registry.      *)
OpenFinishes(t) ==
    /\ InStep(t, "open", "reserved")
    /\ Present(request[t].ws)
    /\ contexts' = [contexts EXCEPT ![request[t].ws] = request[t].project]
    /\ disk' = Saved(records, contexts')
    /\ view' = [view EXCEPT ![t].ws = request[t].ws]
    /\ Done(t)
    /\ UNCHANGED records

(* deactivate_project: reset the context, close the workspace whoever has   *)
(* its lease now, and give the tab a new draft.                             *)
Deactivate(t) ==
    /\ InStep(t, "deactivate", "validated")
    /\ Present(request[t].ws)
    /\ \E w \in WsIds, k \in Tokens :
        /\ FreshId(w)
        /\ FreshToken(k)
        /\ records' = Attached(
               [records EXCEPT ![request[t].ws].status = "closed",
                               ![request[t].ws].lease = NoLease,
                               ![request[t].ws].lapsed = {},
                               ![w] = NewRecord], w, t, k)
        /\ Shows(t, w, k)
    /\ contexts' = [contexts EXCEPT ![request[t].ws] = None]
    /\ disk' = Saved(records', contexts')
    /\ Done(t)

(* The request ends with an error: its workspace is gone, or the project    *)
(* could not be read or created after it was reserved.                      *)
RequestFails(t) ==
    /\ request[t] # None
    /\ \/ ~Present(request[t].ws)
       \/ OpenMayFail /\ InStep(t, "open", "reserved")
    /\ Done(t)
    /\ UNCHANGED <<records, contexts, disk, view>>

-----------------------------------------------------------------------------
(* The environment. *)

(* No heartbeat of the tab reached the workspace for the length of a lease. *)
Lapse(w, t) ==
    /\ records[w].lease[t] # None
    /\ t \notin records[w].lapsed
    /\ records' = [records EXCEPT ![w].lapsed = @ \cup {t}]
    /\ UNCHANGED <<contexts, disk, view, request>>

(* The service process stops, at any point, and starts again.               *)
Restart ==
    /\ MayRestart
    /\ records' = Loaded(disk)
    /\ contexts' = [w \in WsIds |-> disk[w].root]
    /\ request' = [t \in Tabs |-> None]
    /\ UNCHANGED <<disk, view>>

Next ==
    \/ \E t \in Tabs :
        \/ CreateContext(t)
        \/ \E w \in WsIds : Attach(t, w)
        \/ Detach(t)
        \/ Heartbeat(t)
        \/ HeartbeatRefused(t)
        \/ Close(t)
        \/ \E o \in Owners : CreateSingleton(t, o) \/ JoinSingleton(t, o)
        \/ \E p \in Projects : Validate(t, "open", p)
        \/ Validate(t, "deactivate", None)
        \/ ReserveRefused(t)
        \/ ReserveResumes(t)
        \/ ReserveBinds(t)
        \/ OpenFinishes(t)
        \/ Deactivate(t)
        \/ RequestFails(t)
    \/ \E chosen \in SUBSET WsIds : ClearDetached(chosen)
    \/ \E w \in WsIds, t \in Tabs : Lapse(w, t)
    \/ Restart

Spec == Init /\ [][Next]_vars

(* A tab whose heartbeat is refused attaches its workspace again.           *)
Recover(t) == Known(t) /\ ~Holds(t) /\ Attach(t, view[t].ws)

(* Every open tab sends heartbeats on an interval timer and recovers when   *)
(* one is refused, so a recovery that stays possible is made; nothing else  *)
(* a user or another tab does is assumed to happen.                         *)
FairSpec == Spec /\ \A t \in Tabs : WF_vars(Recover(t))

-----------------------------------------------------------------------------
(* What the code does. *)

(* Every record, entry, view and request has the shape the code gives it.   *)
TypeOK ==
    /\ records \in [WsIds -> Record]
    /\ contexts \in [WsIds -> Projects \cup {None}]
    /\ disk \in [WsIds -> Entry]
    /\ view \in [Tabs -> Views]
    /\ request \in [Tabs -> Requests \cup {None}]

(* The status the selector filters on agrees with the connections: attached *)
(* exactly when somebody is connected, whatever expired, moved, was taken   *)
(* over or was dropped (expire_connections, reserve_project, switch).       *)
StatusMatchesLeases ==
    \A w \in WsIds : records[w].status = "attached" <=> Connected(records[w])

(* An exclusive workspace is controlled by at most one browser tab          *)
(* (_attach_locked clears the others, reserve_project moves connections).   *)
ExclusiveLease ==
    \A w \in WsIds : records[w].policy = "exclusive" =>
        \A t, u \in Tabs : /\ records[w].lease[t] # None
                           /\ records[w].lease[u] # None
                           => t = u

(* A token opens one lease: that of one tab on one workspace.               *)
TokenNamesOneLease ==
    \A w, x \in WsIds, t, u \in Tabs :
        records[w].lease[t] # None /\ records[w].lease[t] = records[x].lease[u]
            => w = x /\ t = u

(* A project a context has open is on disk with that root, so a service     *)
(* that stops at any point finds it again (the saves of open_project,       *)
(* deactivate_project and everything that moves or removes a record).       *)
OpenedProjectOnDisk ==
    \A w \in WsIds : contexts[w] # None =>
        disk[w].saved /\ disk[w].root = contexts[w]

Live(k) == \E w \in WsIds, t \in Tabs : records[w].lease[t] = k

(* A token that was revoked, by expiry, takeover, detach, close or restart, *)
(* is never accepted again while a tab still presents it (renew_connection: *)
(* "without allowing stale-token takeover").                                *)
StaleTokenStaysStale ==
    [][\A t \in Tabs :
        LET k == view[t].token
        IN  k # None /\ ~Live(k) /\ view'[t].token = k => ~Live(k)']_vars

(* A tab of an exclusive workspace that still exists never stays without    *)
(* its lease: after an expiry, a takeover, a close or a restart the recovery *)
(* of runtime.js gets it back, whoever holds it meanwhile.  (A shared one is *)
(* refused to it: its page must ask for the singleton again.)               *)
Exclusive(t) == Known(t) /\ records[view[t].ws].policy = "exclusive"
DisplacedTabRecovers ==
    \A t \in Tabs : Exclusive(t) /\ ~Holds(t) ~> Holds(t) \/ ~Exclusive(t)

-----------------------------------------------------------------------------
(* What the documents promise and the code does not keep. *)

InUse(w) == records[w].status \notin {"absent", "closed"}

(* docs/detailed-design-isolation.md: "The registry enforces one non-closed *)
(* workspace for each workflow and canonical project identity."             *)
OneWorkspacePerIdentity ==
    \A w, x \in WsIds : /\ InUse(w) /\ InUse(x)
                        /\ records[w].identity = records[x].identity
                        /\ records[w].identity # None
                        => w = x
=============================================================================
