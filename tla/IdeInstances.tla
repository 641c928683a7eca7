---------------------------- MODULE IdeInstances ----------------------------
(***************************************************************************)
(* The IDE processes of the service: IDEInstanceManager (ide/manager.py),  *)
(* its registry (ide/ownership.py) and the provider that runs the          *)
(* processes (ide/openvscode.py), as the requests of several HTTP threads  *)
(* drive them through IDEService (ide/service.py).                         *)
(*                                                                         *)
(* start() holds the lock of its workspace throughout; stop(), the idle    *)
(* sweep inside every start() and the views take no lock.  A step is what  *)
(* a thread does between two points where another one can get in: an       *)
(* operation of the registry, of the provider's table, or on a process.    *)
(*                                                                         *)
(* A process outlives the service: the file provider-process.json (marker) *)
(* names it to the next life of the service, and it serves at a socket     *)
(* whose path depends on the workspace only, as the marker's does.         *)
(*                                                                         *)
(* Left out: resolving and installing the runtime (it works or fails), the *)
(* bridge and the editor's context, proxy sessions, the count of views.    *)
(***************************************************************************)
EXTENDS Integers, Sequences, FiniteSets

CONSTANTS Workspaces, Projects,
          Requests,      \* the threads of the HTTP server
          Nobody,        \* no thread, no workspace
          MaxInstances,  \* maximum_instances
          MaxLaunches,   \* bound: processes ever launched
          MaxLives       \* bound: lives of the service

ASSUME NobodyAssumption == Nobody \notin Requests \cup Workspaces
ASSUME BoundsAssumption == MaxInstances \in Nat /\ MaxLaunches \in Nat /\ MaxLives \in Nat \ {0}

VARIABLES
  made,      \* every process launched: its workspace, project and life of the service
  live,      \* the processes that run
  bound,     \* those whose server has opened its socket
  socket,    \* per workspace, the process serving at its socket path; 0: no file
  marker,    \* per workspace, the process its marker file names; 0: no file
  table,     \* OpenVSCodeProvider._processes
  registry,  \* IDEInstanceRegistry._instances; 0: none
  lastUsed,  \* IDEInstanceManager._last_used, against the idle timeout
  lock,      \* IDEInstanceManager._workspace_locks: who holds each
  req,       \* where each thread is, and its locals
  life       \* which life of the service this is

files == <<socket, marker>>
world == <<made, live, bound>>
vars == <<made, live, bound, socket, marker, table, registry, lastUsed, lock, req, life>>

NoInstance == 0

(* at: the next operation.  inst: the process this start launched.         *)
(* target, victim: the workspace and the process being stopped.  back:     *)
(* where provider.stop returns to; then: where manager.stop returns to.    *)
Idle == [at |-> "idle", kind |-> "none", ws |-> Nobody, project |-> Nobody,
         inst |-> NoInstance, target |-> Nobody, victim |-> NoInstance,
         expired |-> {}, back |-> "none", then |-> "none"]

Places == {"idle", "locking", "check", "listing", "sweeping", "limit", "launch",
           "record", "claim", "wait", "giveup", "update", "touch",
           "stop", "kill", "pop", "unlink", "release", "unuse", "exit"}

Init ==
  /\ made = <<>> /\ live = {} /\ bound = {} /\ table = {}
  /\ socket = [w \in Workspaces |-> NoInstance]
  /\ marker = [w \in Workspaces |-> NoInstance]
  /\ registry = [w \in Workspaces |-> NoInstance]
  /\ lastUsed = [w \in Workspaces |-> "none"]
  /\ lock = [w \in Workspaces |-> Nobody]
  /\ req = [r \in Requests |-> Idle]
  /\ life = 1

Registered == {w \in Workspaces : registry[w] # NoInstance}

(* provider.status: exited unless the process runs; stopped rather than    *)
(* failed while a stop that has killed it has not removed it yet.          *)
BeingStopped(i) == \E r \in Requests : req[r].at = "pop" /\ req[r].victim = i

(* _socket_ready: somebody answers at the workspace's socket path.         *)
Answers(w) == socket[w] \in live

Go(r, place) == req' = [req EXCEPT ![r].at = place]

(* The request ends; start() leaves the with statement of its lock.        *)
Finish(r) ==
  /\ req' = [req EXCEPT ![r] = Idle]
  /\ lock' = [w \in Workspaces |-> IF lock[w] = r THEN Nobody ELSE lock[w]]

-----------------------------------------------------------------------------
(* Requests arrive.  IDEService.start asks manager.status first, which     *)
(* fails when the registered process is no longer in the table.            *)
BeginStart(r, w, p) ==
  /\ req[r].at = "idle"
  /\ registry[w] # NoInstance => registry[w] \in table
  /\ req' = [req EXCEPT ![r] = [Idle EXCEPT !.at = "locking", !.kind = "start",
                                            !.ws = w, !.project = p]]
  /\ UNCHANGED <<world, files, table, registry, lastUsed, lock, life>>

BeginStop(r, w) ==
  /\ req[r].at = "idle"
  /\ req' = [req EXCEPT ![r] = [Idle EXCEPT !.at = "stop", !.kind = "stop", !.ws = w,
                                            !.target = w, !.then = "idle"]]
  /\ UNCHANGED <<world, files, table, registry, lastUsed, lock, life>>

(* open_location and attach_view: the status is asked, then touched.       *)
BeginUse(r, w) ==
  /\ req[r].at = "idle"
  /\ registry[w] \in table \cap live /\ Answers(w)
  /\ req' = [req EXCEPT ![r] = [Idle EXCEPT !.at = "touch", !.kind = "use", !.ws = w]]
  /\ UNCHANGED <<world, files, table, registry, lastUsed, lock, life>>

(* Variant: stop_all passes the instances on instead of their workspaces.  *)
BeginCloseOfInstances(r) ==
  /\ req[r].at = "idle" /\ life < MaxLives
  /\ req' = [req EXCEPT ![r] = [Idle EXCEPT !.at = "sweeping", !.kind = "close",
                                            !.expired = {registry[w] : w \in Registered}]]
  /\ UNCHANGED <<world, files, table, registry, lastUsed, lock, life>>

(* server_close: stop_all goes through the instances registered now; the   *)
(* threads of the other requests are not waited for.                       *)
BeginClose(r) ==
  /\ req[r].at = "idle" /\ life < MaxLives
  /\ req' = [req EXCEPT ![r] = [Idle EXCEPT !.at = "sweeping", !.kind = "close",
                                            !.expired = Registered]]
  /\ UNCHANGED <<world, files, table, registry, lastUsed, lock, life>>

-----------------------------------------------------------------------------
(* IDEInstanceManager.start                                                *)
Lock(r) ==
  /\ req[r].at = "locking" /\ lock[req[r].ws] = Nobody
  /\ lock' = [lock EXCEPT ![req[r].ws] = r]
  /\ Go(r, "check")
  /\ UNCHANGED <<world, files, table, registry, lastUsed, life>>

CheckNone(r) ==
  /\ req[r].at = "check" /\ registry[req[r].ws] = NoInstance
  /\ Go(r, "listing")
  /\ UNCHANGED <<world, files, table, registry, lastUsed, lock, life>>

CheckGone(r) ==
  LET i == registry[req[r].ws] IN
  /\ req[r].at = "check" /\ i # NoInstance /\ i \notin table
  /\ Finish(r)
  /\ UNCHANGED <<world, files, table, registry, lastUsed, life>>

CheckReuse(r) ==
  LET i == registry[req[r].ws] IN
  /\ req[r].at = "check" /\ i \in table
  /\ i \in live /\ made[i].project = req[r].project
  /\ Go(r, "touch")
  /\ UNCHANGED <<world, files, table, registry, lastUsed, lock, life>>

CheckReplace(r) ==
  LET i == registry[req[r].ws] IN
  /\ req[r].at = "check" /\ i \in table
  /\ i \notin live \/ made[i].project # req[r].project
  /\ req' = [req EXCEPT ![r].at = "stop", ![r].target = req[r].ws, ![r].then = "listing"]
  /\ UNCHANGED <<world, files, table, registry, lastUsed, lock, life>>

(* cleanup_idle lists the expired workspaces, then stops one by one.       *)
List(r) ==
  /\ req[r].at = "listing"
  /\ req' = [req EXCEPT ![r].at = "sweeping",
                        ![r].expired = {w \in Workspaces : lastUsed[w] = "expired"}]
  /\ UNCHANGED <<world, files, table, registry, lastUsed, lock, life>>

SweepNext(r, w) ==
  /\ req[r].at = "sweeping" /\ w \in req[r].expired
  /\ req' = [req EXCEPT ![r].at = "stop", ![r].target = w, ![r].then = "sweeping",
                        ![r].expired = @ \ {w}]
  /\ UNCHANGED <<world, files, table, registry, lastUsed, lock, life>>

SweepDone(r) ==
  /\ req[r].at = "sweeping" /\ req[r].expired = {}
  /\ Go(r, IF req[r].kind = "close" THEN "exit" ELSE "limit")
  /\ UNCHANGED <<world, files, table, registry, lastUsed, lock, life>>

(* The limit counts the instances claimed so far.                          *)
LimitReached(r) ==
  /\ req[r].at = "limit" /\ Cardinality(Registered) >= MaxInstances
  /\ Finish(r)
  /\ UNCHANGED <<world, files, table, registry, lastUsed, life>>

LimitPassed(r) ==
  /\ req[r].at = "limit" /\ Cardinality(Registered) < MaxInstances
  /\ Go(r, "launch")
  /\ UNCHANGED <<world, files, table, registry, lastUsed, lock, life>>

(* The runtime cannot be resolved or installed.                            *)
RuntimeFails(r) ==
  /\ req[r].at = "launch"
  /\ Finish(r)
  /\ UNCHANGED <<world, files, table, registry, lastUsed, life>>

(* provider.start: the process the marker names is killed, its files are   *)
(* removed, and the new process is launched...                             *)
Clear(w) ==
  /\ marker' = [marker EXCEPT ![w] = NoInstance]
  /\ socket' = [socket EXCEPT ![w] = NoInstance]

(* Variant: the process of an earlier life is left running.                *)
LaunchBeside(r) ==
  LET w == req[r].ws IN
  /\ req[r].at = "launch" /\ Len(made) < MaxLaunches
  /\ Clear(w)
  /\ made' = Append(made, [ws |-> w, project |-> req[r].project, life |-> life])
  /\ live' = live \cup {Len(made) + 1}
  /\ req' = [req EXCEPT ![r].at = "record", ![r].inst = Len(made) + 1]
  /\ UNCHANGED <<bound, table, registry, lastUsed, lock, life>>

Launch(r) ==
  LET w == req[r].ws IN
  /\ req[r].at = "launch" /\ Len(made) < MaxLaunches
  /\ Clear(w)
  /\ made' = Append(made, [ws |-> w, project |-> req[r].project, life |-> life])
  /\ live' = (live \ {marker[w]}) \cup {Len(made) + 1}
  /\ req' = [req EXCEPT ![r].at = "record", ![r].inst = Len(made) + 1]
  /\ UNCHANGED <<bound, table, registry, lastUsed, lock, life>>

LaunchFails(r) ==
  /\ req[r].at = "launch"
  /\ Clear(req[r].ws)
  /\ live' = live \ {marker[req[r].ws]}
  /\ Finish(r)
  /\ UNCHANGED <<made, bound, table, registry, lastUsed, life>>

(* ... and recorded in the marker and the table; a marker that cannot be   *)
(* written has the process killed.                                         *)
Record(r) ==
  LET i == req[r].inst IN
  /\ req[r].at = "record"
  /\ marker' = [marker EXCEPT ![req[r].ws] = i]
  /\ table' = table \cup {i}
  /\ Go(r, "claim")
  /\ UNCHANGED <<world, socket, registry, lastUsed, lock, life>>

RecordFails(r) ==
  /\ req[r].at = "record"
  /\ live' = live \ {req[r].inst}
  /\ Finish(r)
  /\ UNCHANGED <<made, bound, files, table, registry, lastUsed, life>>

(* registry.claim.  It refuses a workspace that another instance owns,     *)
(* which the lock rules out: a start that met it could not go on here,     *)
(* which HolderGoesOn excludes.                                            *)
Claim(r) ==
  /\ req[r].at = "claim" /\ registry[req[r].ws] = NoInstance
  /\ registry' = [registry EXCEPT ![req[r].ws] = req[r].inst]
  /\ Go(r, "wait")
  /\ UNCHANGED <<world, files, table, lastUsed, lock, life>>

(* provider.wait_until_ready polls until one of four things is seen.       *)
WaitReady(r) ==
  LET i == req[r].inst IN
  /\ req[r].at = "wait" /\ i \in table /\ i \in live /\ Answers(req[r].ws)
  /\ Go(r, "update")
  /\ UNCHANGED <<world, files, table, registry, lastUsed, lock, life>>

WaitFailed(r) ==
  LET i == req[r].inst IN
  /\ req[r].at = "wait" /\ i \in table /\ i \notin live /\ ~BeingStopped(i)
  /\ req' = [req EXCEPT ![r].at = "pop", ![r].victim = i, ![r].back = "giveup"]
  /\ UNCHANGED <<world, files, table, registry, lastUsed, lock, life>>

(* Variant: an instance that is not ready in time is given up, not stopped. *)
WaitAbandons(r) ==
  /\ req[r].at = "wait" /\ req[r].inst \in table
  /\ Go(r, "giveup")
  /\ UNCHANGED <<world, files, table, registry, lastUsed, lock, life>>

WaitTimeout(r) ==
  /\ req[r].at = "wait" /\ req[r].inst \in table
  /\ req' = [req EXCEPT ![r].at = "kill", ![r].victim = req[r].inst, ![r].back = "giveup"]
  /\ UNCHANGED <<world, files, table, registry, lastUsed, lock, life>>

WaitGone(r) ==
  /\ req[r].at = "wait" /\ req[r].inst \notin table
  /\ Go(r, "giveup")
  /\ UNCHANGED <<world, files, table, registry, lastUsed, lock, life>>

GiveUp(r) ==
  /\ req[r].at = "giveup"
  /\ registry' = [registry EXCEPT ![req[r].ws] = IF @ = req[r].inst THEN NoInstance ELSE @]
  /\ Finish(r)
  /\ UNCHANGED <<world, files, table, lastUsed, life>>

(* registry.update refuses an instance that was released meanwhile.        *)
UpdateOwned(r) ==
  /\ req[r].at = "update" /\ registry[req[r].ws] = req[r].inst
  /\ Go(r, "touch")
  /\ UNCHANGED <<world, files, table, registry, lastUsed, lock, life>>

UpdateReleased(r) ==
  /\ req[r].at = "update" /\ registry[req[r].ws] # req[r].inst
  /\ Finish(r)
  /\ UNCHANGED <<world, files, table, registry, lastUsed, life>>

Touch(r) ==
  /\ req[r].at = "touch"
  /\ lastUsed' = [lastUsed EXCEPT ![req[r].ws] = "fresh"]
  /\ Finish(r)
  /\ UNCHANGED <<world, files, table, registry, life>>

-----------------------------------------------------------------------------
(* IDEInstanceManager.stop returns to where it was called, or ends a       *)
(* request to stop.                                                        *)
Return(r) ==
  IF req[r].then = "idle" THEN req' = [req EXCEPT ![r] = Idle] ELSE Go(r, req[r].then)

StopNone(r) ==
  /\ req[r].at = "stop" /\ registry[req[r].target] = NoInstance
  /\ Return(r)
  /\ UNCHANGED <<world, files, table, registry, lastUsed, lock, life>>

(* Variant: stopping takes the lock of the workspace, as starting does.     *)
StopLocks(r) ==
  /\ req[r].at = "stop" /\ registry[req[r].target] # NoInstance
  /\ lock[req[r].target] \in {Nobody, r}
  /\ req' = [req EXCEPT ![r].at = "kill", ![r].victim = registry[req[r].target],
                        ![r].back = "release"]
  /\ UNCHANGED <<world, files, table, registry, lastUsed, lock, life>>

StopSome(r) ==
  /\ req[r].at = "stop" /\ registry[req[r].target] # NoInstance
  /\ req' = [req EXCEPT ![r].at = "kill", ![r].victim = registry[req[r].target],
                        ![r].back = "release"]
  /\ UNCHANGED <<world, files, table, registry, lastUsed, lock, life>>

(* provider.stop                                                           *)
KillAbsent(r) ==
  /\ req[r].at = "kill" /\ req[r].victim \notin table
  /\ Go(r, req[r].back)
  /\ UNCHANGED <<world, files, table, registry, lastUsed, lock, life>>

Kill(r) ==
  /\ req[r].at = "kill" /\ req[r].victim \in table
  /\ live' = live \ {req[r].victim}
  /\ Go(r, "pop")
  /\ UNCHANGED <<made, bound, files, table, registry, lastUsed, lock, life>>

(* _cleanup_process: whoever takes the process out of the table waits for  *)
(* its reader and then removes the workspace's socket and marker.          *)
Pop(r) ==
  /\ req[r].at = "pop"
  /\ Go(r, IF req[r].victim \in table THEN "unlink" ELSE req[r].back)
  /\ table' = table \ {req[r].victim}
  /\ UNCHANGED <<world, files, registry, lastUsed, lock, life>>

Unlink(r) ==
  /\ req[r].at = "unlink"
  /\ Clear(made[req[r].victim].ws)
  /\ Go(r, req[r].back)
  /\ UNCHANGED <<world, table, registry, lastUsed, lock, life>>

(* registry.release raises when another instance owns the workspace now.   *)
Release(r) ==
  LET w == req[r].target IN
  /\ req[r].at = "release" /\ registry[w] \in {NoInstance, req[r].victim}
  /\ registry' = [registry EXCEPT ![w] = NoInstance]
  /\ Go(r, "unuse")
  /\ UNCHANGED <<world, files, table, lastUsed, lock, life>>

ReleaseConflict(r) ==
  /\ req[r].at = "release" /\ registry[req[r].target] \notin {NoInstance, req[r].victim}
  /\ IF req[r].kind = "close" THEN Go(r, "exit") /\ UNCHANGED lock ELSE Finish(r)
  /\ UNCHANGED <<world, files, table, registry, lastUsed, life>>

Unuse(r) ==
  /\ req[r].at = "unuse"
  /\ lastUsed' = [lastUsed EXCEPT ![req[r].target] = "none"]
  /\ Return(r)
  /\ UNCHANGED <<world, files, table, registry, lock, life>>

-----------------------------------------------------------------------------
(* The service ends, closed or killed, and starts again with nothing but   *)
(* the marker files.                                                       *)
NextLife ==
  /\ life < MaxLives /\ life' = life + 1
  /\ table' = {}
  /\ registry' = [w \in Workspaces |-> NoInstance]
  /\ lastUsed' = [w \in Workspaces |-> "none"]
  /\ lock' = [w \in Workspaces |-> Nobody]
  /\ req' = [r \in Requests |-> Idle]
  /\ UNCHANGED <<world, files>>

Exit(r) == req[r].at = "exit" /\ NextLife
Crash == NextLife

(* A process opens its socket once, or dies; time passes.                  *)
Listen(i) ==
  /\ i \in live \ bound /\ socket[made[i].ws] = NoInstance
  /\ bound' = bound \cup {i}
  /\ socket' = [socket EXCEPT ![made[i].ws] = i]
  /\ UNCHANGED <<made, live, marker, table, registry, lastUsed, lock, req, life>>

Die(i) ==
  /\ live' = live \ {i}
  /\ UNCHANGED <<made, bound, files, table, registry, lastUsed, lock, req, life>>

Age(w) ==
  /\ lastUsed[w] = "fresh"
  /\ lastUsed' = [lastUsed EXCEPT ![w] = "expired"]
  /\ UNCHANGED <<world, files, table, registry, lock, req, life>>

(* What a request does once it has begun and holds its lock.               *)
Step(r) ==
  \/ CheckNone(r) \/ CheckGone(r) \/ CheckReuse(r) \/ CheckReplace(r)
  \/ List(r) \/ (\E w \in Workspaces : SweepNext(r, w)) \/ SweepDone(r)
  \/ LimitReached(r) \/ LimitPassed(r)
  \/ RuntimeFails(r) \/ Launch(r) \/ LaunchFails(r) \/ Record(r) \/ RecordFails(r)
  \/ Claim(r) \/ WaitReady(r) \/ WaitFailed(r) \/ WaitTimeout(r) \/ WaitGone(r)
  \/ GiveUp(r) \/ UpdateOwned(r) \/ UpdateReleased(r) \/ Touch(r)
  \/ StopNone(r) \/ StopSome(r) \/ KillAbsent(r) \/ Kill(r) \/ Pop(r) \/ Unlink(r)
  \/ Release(r) \/ ReleaseConflict(r) \/ Unuse(r) \/ Exit(r)

Next ==
  \/ \E r \in Requests, w \in Workspaces :
       \/ \E p \in Projects : BeginStart(r, w, p)
       \/ BeginStop(r, w) \/ BeginUse(r, w)
  \/ \E r \in Requests : BeginClose(r) \/ Lock(r) \/ Step(r)
  \/ Crash
  \/ \E i \in live : Listen(i) \/ Die(i)
  \/ \E w \in Workspaces : Age(w)

Spec == Init /\ [][Next]_vars

-----------------------------------------------------------------------------
(* Types of the variables and of the locals of every request.              *)
Known == 0..Len(made)

Locals ==
  [at : Places, kind : {"none", "start", "stop", "use", "close"},
   ws : Workspaces \cup {Nobody}, project : Projects \cup {Nobody},
   inst : Known, target : Workspaces \cup {Nobody}, victim : Known,
   expired : SUBSET Workspaces, back : {"none", "release", "giveup"},
   then : {"none", "idle", "listing", "sweeping"}]

TypeOK ==
  /\ made \in Seq([ws : Workspaces, project : Projects, life : 1..MaxLives])
  /\ Len(made) <= MaxLaunches
  /\ live \subseteq Known \ {NoInstance} /\ bound \subseteq Known \ {NoInstance}
  /\ table \subseteq Known \ {NoInstance}
  /\ socket \in [Workspaces -> Known]
  /\ marker \in [Workspaces -> Known]
  /\ registry \in [Workspaces -> Known]
  /\ lastUsed \in [Workspaces -> {"none", "fresh", "expired"}]
  /\ lock \in [Workspaces -> Requests \cup {Nobody}]
  /\ req \in [Requests -> Locals]
  /\ life \in 1..MaxLives

(* "A crashed instance may be restarted for the same workspace without     *)
(* creating a second live process" (docs/requirements-ide.md): a process   *)
(* is launched beside another one of its workspace only when that one is   *)
(* left over from an earlier life of the service and no marker names it.   *)
(* Within a life that takes the lock, the order of provider.stop and       *)
(* registry.release, and every stop that runs beside a start; across lives *)
(* it takes the marker.                                                    *)
Orphan(i) == made[i].life < life /\ marker[made[i].ws] # i

OneProcessPerWorkspace ==
  [][\A j \in live' \ live, i \in live' \cap live :
        made[i].ws = made'[j].ws => Orphan(i)]_vars

(* A process of this life is registered, or a start that has just launched *)
(* it will register or kill it: otherwise nothing could stop it any more.  *)
NoneForgotten ==
  \A i \in live : made[i].life = life =>
    \/ registry[made[i].ws] = i
    \/ \E r \in Requests : req[r].inst = i

(* A request in progress can always go on: the holder of a workspace's     *)
(* lock never waits for another lock, not even while it stops the idle     *)
(* instances of other workspaces, and never finds its own taken.           *)
HolderGoesOn ==
  \A r \in Requests : req[r].at \notin {"idle", "locking"} => ENABLED Step(r)

(* Not true of the code, each shown by a configuration of its own.         *)

(* "enforce a configured upper bound on concurrently running IDE           *)
(* instances" (docs/requirements-ide.md): two starts pass the limit        *)
(* together, before either has claimed its instance.                       *)
LimitKept == Cardinality({i \in live : made[i].life = life}) <= MaxInstances

(* "Closing the ElectroBoy service stops every IDE process it owns"        *)
(* (docs/requirements-ide.md): a start in progress launches after stop_all *)
(* has looked, or has not claimed its process yet.                         *)
ClosedStopsAll ==
  [][\A r \in Requests : Exit(r) => \A i \in live : made[i].life < life]_vars

(* A process that serves keeps its socket while it runs: a stop that is    *)
(* still cleaning up removes the socket and the marker of the instance     *)
(* started after it, when another one released the workspace meanwhile.    *)
SocketKept ==
  [][\A i \in live \cap live' :
        made[i].life = life /\ socket[made[i].ws] = i => socket'[made[i].ws] = i]_vars

=============================================================================
