------------------------- MODULE IdeInstancesProofs -------------------------
(***************************************************************************)
(* No IDE process is forgotten, none is launched beside another one of its *)
(* workspace, and no request is stuck, for any number of workspaces,       *)
(* threads and lives of the service.  IInv is the inductive invariant: who *)
(* holds a lock, which request knows which process, and which of them are  *)
(* known to be dead.                                                       *)
(***************************************************************************)
EXTENDS IdeInstances, TLAPS, FiniteSetTheorems

(* Of the locals x of a request: it is a start past its lock; it is inside *)
(* provider.stop; it is inside manager.stop.                               *)
Holds(x) == x.kind = "start" /\ x.at \notin {"idle", "locking"}
Killing(x) == x.at \in {"kill", "pop", "unlink"}
InStop(x) == x.at \in {"stop", "release", "unuse"} \/ (Killing(x) /\ x.back = "release")

(* Only a start is in the places of start, and a request to stop knows of  *)
(* which workspace.                                                        *)
Placed(x) ==
  /\ x.at \in {"locking", "check", "listing", "limit", "launch", "record", "claim",
               "wait", "giveup", "update"} => x.kind = "start"
  /\ x.at = "sweeping" => x.kind \in {"start", "close"}
  /\ x.kind = "start" => x.ws \in Workspaces /\ x.project \in Projects
  /\ InStop(x) =>
       /\ x.target \in Workspaces
       /\ \/ x.then = "idle" /\ x.kind = "stop"
          \/ x.then = "listing" /\ x.kind = "start" /\ x.target = x.ws
          \/ x.then = "sweeping" /\ x.kind \in {"start", "close"}

(* A launched process belongs to the start that launched it, until the     *)
(* start ends.                                                             *)
Launched(x) ==
  /\ x.at \in {"record", "claim", "wait", "update"} => x.inst # NoInstance
  /\ x.inst # NoInstance =>
       /\ Holds(x) /\ ~InStop(x)
       /\ x.at \notin {"check", "listing", "sweeping", "limit", "launch", "exit"}
       /\ made[x.inst].ws = x.ws /\ made[x.inst].life = life
  /\ Killing(x) /\ x.back # "release" =>
       x.back = "giveup" /\ x.victim = x.inst /\ x.inst # NoInstance
  /\ x.victim # NoInstance => made[x.victim].life = life

(* What is about to be taken out of the registry is not among those that   *)
(* run, l.                                                                 *)
Dead(x, l) ==
  /\ x.at \in {"pop", "unlink", "release"} => x.victim \notin l
  /\ x.at = "giveup" => x.inst \notin l

(* The workspace of a start is free from the moment it has found or made   *)
(* it free until it claims it, and after that its own as long as its       *)
(* process runs.                                                           *)
Vacant(x) ==
  /\ Holds(x)
  /\ \/ x.at \in {"listing", "sweeping", "limit", "launch", "record", "claim", "unuse"}
     \/ (InStop(x) /\ x.then = "sweeping")

Owns(x, l, owner) ==
  /\ Vacant(x) => owner[x.ws] = NoInstance
  /\ x.at \in {"wait", "update", "touch"} /\ x.inst \in l => owner[x.ws] = x.inst

Fit(r, x) == /\ Placed(x) /\ Launched(x) /\ Dead(x, live) /\ Owns(x, live, registry)
             /\ Holds(x) => lock[x.ws] = r

OneLauncher ==
  \A r, q \in Requests : r # q /\ req[r].inst # NoInstance => req[r].inst # req[q].inst

(* What is registered was launched in this life, for its workspace.        *)
OfThisLife ==
  /\ \A i \in Known \ {NoInstance} : made[i].life <= life
  /\ \A w \in Workspaces : registry[w] # NoInstance =>
       made[registry[w]].ws = w /\ made[registry[w]].life = life

(* Nobody else knows a process before it is claimed.                       *)
NotYetClaimed ==
  \A r \in Requests : req[r].at \in {"record", "claim"} =>
    /\ \A w \in Workspaces : registry[w] # req[r].inst
    /\ \A q \in Requests : req[q].victim # req[r].inst

InTable ==
  \A i \in live \ table : made[i].life = life =>
    \E r \in Requests : req[r].at = "record" /\ req[r].inst = i

IInv == /\ TypeOK /\ (\A r \in Requests : Fit(r, req[r]))
        /\ OneLauncher /\ OfThisLife /\ NotYetClaimed /\ InTable /\ NoneForgotten

-----------------------------------------------------------------------------
LEMMA ElementOfSeq ==
  ASSUME NEW S, NEW s \in Seq(S), NEW i \in 1 .. Len(s)
  PROVE  s[i] \in S
OBVIOUS

(* A known process is an element of made.                                  *)
LEMMA KnownMade ==
  ASSUME TypeOK, NEW i \in Known \ {NoInstance}
  PROVE  /\ i \in 1 .. Len(made) /\ Len(made) \in Nat
         /\ made[i] \in [ws : Workspaces, project : Projects, life : 1 .. MaxLives]
<1>1. made \in Seq([ws : Workspaces, project : Projects, life : 1 .. MaxLives])
  BY DEF TypeOK
<1>2. Len(made) \in Nat
  BY <1>1
<1>3. i \in 1 .. Len(made)
  BY <1>2 DEF Known, NoInstance
<1> QED BY <1>1, <1>2, <1>3, ElementOfSeq

(* What one request does keeps the invariant if it launches and claims     *)
(* nothing, nobody else's lock is touched, and processes leave the table   *)
(* and the registry dead only.                                             *)
LEMMA RequestStep ==
  ASSUME IInv, NEW r \in Requests, NEW x \in Locals, req' = [req EXCEPT ![r] = x],
         made' = made, life' = life, live' \subseteq live,
         bound' \subseteq Known \ {NoInstance},
         socket' \in [Workspaces -> Known], marker' \in [Workspaces -> Known],
         lastUsed' \in [Workspaces -> {"none", "fresh", "expired"}],
         table' \subseteq table, \A i \in table : i \in live' => i \in table',
         registry' \in [Workspaces -> Known],
         \A w \in Workspaces :
           registry'[w] = registry[w] \/ (registry'[w] = NoInstance /\ registry[w] \notin live'),
         lock' \in [Workspaces -> Requests \cup {Nobody}],
         \A q \in Requests : q # r /\ Holds(req[q]) => lock'[req[q].ws] = q,
         Placed(x), Launched(x), Dead(x, live'), Owns(x, live', registry'),
         Holds(x) => lock'[x.ws] = r,
         x.inst \in {NoInstance, req[r].inst},
         req[r].inst \in live' /\ x.inst = NoInstance => registry'[req[r].ws] = req[r].inst,
         x.at \notin {"record", "claim"},
         req[r].at = "record" => req[r].inst \notin live',
         \A q \in Requests : req[q].at \in {"record", "claim"} => x.victim # req[q].inst
  PROVE  IInv'
<1>1. Known' = Known
  BY DEF Known
<1>2. Locals' = Locals
  BY <1>1 DEF Locals
<1>3. TypeOK'
  BY <1>1, <1>2 DEF IInv, TypeOK
<1>4. /\ \A q \in Requests : q # r => req'[q] = req[q]
      /\ req'[r] = x
  BY DEF IInv, TypeOK
<1>5. \A q \in Requests : Fit(q, req[q])'
  <2> SUFFICES ASSUME NEW q \in Requests PROVE Fit(q, req[q])'
    OBVIOUS
  <2>1. CASE q = r
    BY <2>1, <1>4 DEF Fit, Placed, Launched, Dead, Owns, Vacant, Holds, InStop, Killing
  <2>2. CASE q # r
    <3>1. Fit(q, req[q]) /\ req'[q] = req[q]
      BY <2>2, <1>4 DEF IInv
    <3>2. Placed(req[q])' /\ Launched(req[q])'
      BY <3>1 DEF Fit, Placed, Launched, Holds, InStop, Killing
    <3>3. Dead(req[q], live)' /\ (Holds(req[q]) => lock[req[q].ws] = q)'
      BY <3>1, <2>2 DEF Fit, Dead, Holds
    <3>4. Owns(req[q], live, registry)'
      <4>1. req[q].ws \in Workspaces \/ ~Holds(req[q])
        BY <3>1 DEF Fit, Placed, Holds
      <4>2. (Vacant(req[q]) => registry[req[q].ws] = NoInstance)'
        BY <4>1, <3>1 DEF Fit, Owns, Vacant, Holds, InStop, Killing
      <4>3. req[q].at \in {"wait", "update", "touch"} /\ req[q].inst \in live' =>
              registry'[req[q].ws] = req[q].inst
        BY <4>1, <3>1 DEF Fit, Owns, Launched, IInv, TypeOK
      <4> QED BY <4>2, <4>3, <3>1 DEF Owns
    <3> QED BY <3>2, <3>3, <3>4 DEF Fit
  <2> QED BY <2>1, <2>2
<1>6. OneLauncher'
  BY <1>4 DEF IInv, OneLauncher
<1>7. OfThisLife' /\ NotYetClaimed'
  <2>1. OfThisLife'
    BY <1>1 DEF IInv, OfThisLife
  <2>2. \A q \in Requests : req'[q].at \in {"record", "claim"} => q # r
    BY <1>4
  <2>3. NotYetClaimed'
    <3> SUFFICES ASSUME NEW q \in Requests, req[q].at \in {"record", "claim"}, q # r
                 PROVE  /\ \A w \in Workspaces : registry'[w] # req[q].inst
                        /\ \A p \in Requests : req'[p].victim # req[q].inst
      BY <2>2, <1>4 DEF NotYetClaimed
    <3>1. req[q].inst # NoInstance
      BY DEF IInv, Fit, Launched
    <3> QED BY <3>1, <1>4 DEF IInv, NotYetClaimed
  <2> QED BY <2>1, <2>3
<1>8. InTable'
  <2> SUFFICES ASSUME NEW i \in live', i \notin table', made[i].life = life
               PROVE  \E q \in Requests : req'[q].at = "record" /\ req'[q].inst = i
    BY DEF InTable
  <2>1. i \in live \ table
    OBVIOUS
  <2>2. PICK q \in Requests : req[q].at = "record" /\ req[q].inst = i
    BY <2>1 DEF IInv, InTable
  <2>3. q # r
    BY <2>2
  <2> QED BY <2>2, <2>3, <1>4
<1>9. NoneForgotten'
  <2> SUFFICES ASSUME NEW i \in live', made[i].life = life, registry'[made[i].ws] # i
               PROVE  \E q \in Requests : req'[q].inst = i
    BY DEF NoneForgotten
  <2>1. i \in Known \ {NoInstance} /\ made[i].ws \in Workspaces
    <3>1. i \in Known \ {NoInstance}
      BY DEF IInv, TypeOK
    <3> QED BY <3>1, KnownMade DEF IInv
  <2>2. PICK q \in Requests : req[q].inst = i
    BY <2>1 DEF IInv, NoneForgotten
  <2>3. CASE q # r
    BY <2>2, <2>3, <1>4
  <2>4. CASE q = r
    <3>1. x.inst = NoInstance => registry'[req[r].ws] = i
      BY <2>2, <2>4
    <3>2. made[i].ws = req[r].ws
      BY <2>1, <2>2, <2>4 DEF IInv, Fit, Launched
    <3> QED BY <3>1, <3>2, <2>2, <2>4, <1>4
  <2> QED BY <2>3, <2>4
<1> QED BY <1>3, <1>5, <1>6, <1>7, <1>8, <1>9 DEF IInv

LEMMA IdleFits ==
  ASSUME TypeOK
  PROVE  /\ Idle \in Locals
         /\ Idle.at = "idle" /\ Idle.kind = "none" /\ Idle.inst = NoInstance
         /\ Idle.victim = NoInstance
BY DEF TypeOK, Idle, Locals, Places, Known, NoInstance

(* A step inside a request, which keeps its process.                       *)
LEMMA QuietStep ==
  ASSUME IInv, NEW r \in Requests, NEW x \in Locals, req' = [req EXCEPT ![r] = x],
         UNCHANGED <<made, live, bound, socket, marker, table, registry, lastUsed, lock, life>>,
         Fit(r, x), x.inst = req[r].inst,
         x.at \notin {"record", "claim"}, req[r].at # "record",
         \A q \in Requests : req[q].at \in {"record", "claim"} => x.victim # req[q].inst
  PROVE  IInv'
<1>1. TypeOK /\ \A q \in Requests : Fit(q, req[q])
  BY DEF IInv
<1>2. req[r].inst \in live /\ x.inst = NoInstance => registry[req[r].ws] = req[r].inst
  BY <1>1 DEF TypeOK
<1>3. \A q \in Requests : q # r /\ Holds(req[q]) => lock'[req[q].ws] = q
  BY <1>1 DEF Fit
<1>4. Placed(x) /\ Launched(x) /\ Dead(x, live') /\ Owns(x, live', registry')
      /\ (Holds(x) => lock'[x.ws] = r)
  BY DEF Fit
<1>5. /\ bound' \subseteq Known \ {NoInstance}
      /\ socket' \in [Workspaces -> Known] /\ marker' \in [Workspaces -> Known]
      /\ lastUsed' \in [Workspaces -> {"none", "fresh", "expired"}]
      /\ registry' \in [Workspaces -> Known]
      /\ lock' \in [Workspaces -> Requests \cup {Nobody}]
  BY <1>1 DEF TypeOK
<1> QED BY <1>2, <1>3, <1>4, <1>5, RequestStep

(* A request that ends knows no process that needs it.                     *)
LEMMA FinishStep ==
  ASSUME IInv, NEW r \in Requests, Finish(r),
         UNCHANGED <<made, bound, table, life>>, live' \subseteq live,
         socket' \in [Workspaces -> Known], marker' \in [Workspaces -> Known],
         lastUsed' \in [Workspaces -> {"none", "fresh", "expired"}],
         registry' \in [Workspaces -> Known],
         \A w \in Workspaces :
           registry'[w] = registry[w] \/ (registry'[w] = NoInstance /\ registry[w] \notin live'),
         req[r].inst \in live' => registry'[req[r].ws] = req[r].inst,
         req[r].at = "record" => req[r].inst \notin live'
  PROVE  IInv'
<1>1. TypeOK /\ \A q \in Requests : Fit(q, req[q])
  BY DEF IInv
<1>2. req' = [req EXCEPT ![r] = Idle]
  BY DEF Finish
<1>3. lock' \in [Workspaces -> Requests \cup {Nobody}]
  BY <1>1 DEF Finish, TypeOK
<1>4. \A q \in Requests : q # r /\ Holds(req[q]) => lock'[req[q].ws] = q
  BY <1>1 DEF Finish, Fit, Placed, Holds
<1>5. Placed(Idle) /\ Launched(Idle) /\ Dead(Idle, live') /\ Owns(Idle, live', registry') /\ ~Holds(Idle)
  BY <1>1, IdleFits DEF Placed, Launched, Dead, Owns, Vacant, Holds, InStop, Killing
<1>6. \A q \in Requests : req[q].at \in {"record", "claim"} => Idle.victim # req[q].inst
  BY <1>1, IdleFits DEF Fit, Launched
<1>7. bound' \subseteq Known \ {NoInstance} /\ \A i \in table : i \in live' => i \in table'
  BY <1>1 DEF TypeOK
<1> HIDE DEF Finish
<1> QED BY <1>1, <1>2, <1>3, <1>4, <1>5, <1>6, <1>7, IdleFits, RequestStep

-----------------------------------------------------------------------------
(* One lemma per action.  First those that end the request or only move it *)
(* on.                                                                     *)

LEMMA CheckGoneInv ==
  ASSUME IInv, NEW r \in Requests, CheckGone(r)
  PROVE  IInv'
<1>1. Finish(r) /\ UNCHANGED <<made, live, bound, socket, marker, table, registry, life>>
  BY DEF CheckGone, world, files
<1>2. req[r].inst \in live => registry[req[r].ws] = req[r].inst
  BY DEF CheckGone, IInv, TypeOK, Fit, Launched, Owns
<1>3. req[r].at # "record" /\ lastUsed' \in [Workspaces -> {"none", "fresh", "expired"}]
  BY DEF CheckGone, IInv, TypeOK
<1> QED BY <1>1, <1>2, <1>3, FinishStep DEF IInv, TypeOK

LEMMA LimitReachedInv ==
  ASSUME IInv, NEW r \in Requests, LimitReached(r)
  PROVE  IInv'
<1>1. Finish(r) /\ UNCHANGED <<made, live, bound, socket, marker, table, registry, life>>
  BY DEF LimitReached, world, files
<1>2. req[r].inst \in live => registry[req[r].ws] = req[r].inst
  BY DEF LimitReached, IInv, TypeOK, Fit, Launched, Owns
<1>3. req[r].at # "record" /\ lastUsed' \in [Workspaces -> {"none", "fresh", "expired"}]
  BY DEF LimitReached, IInv, TypeOK
<1> QED BY <1>1, <1>2, <1>3, FinishStep DEF IInv, TypeOK

LEMMA RuntimeFailsInv ==
  ASSUME IInv, NEW r \in Requests, RuntimeFails(r)
  PROVE  IInv'
<1>1. Finish(r) /\ UNCHANGED <<made, live, bound, socket, marker, table, registry, life>>
  BY DEF RuntimeFails, world, files
<1>2. req[r].inst \in live => registry[req[r].ws] = req[r].inst
  BY DEF RuntimeFails, IInv, TypeOK, Fit, Launched, Owns
<1>3. req[r].at # "record" /\ lastUsed' \in [Workspaces -> {"none", "fresh", "expired"}]
  BY DEF RuntimeFails, IInv, TypeOK
<1> QED BY <1>1, <1>2, <1>3, FinishStep DEF IInv, TypeOK

LEMMA UpdateReleasedInv ==
  ASSUME IInv, NEW r \in Requests, UpdateReleased(r)
  PROVE  IInv'
<1>1. Finish(r) /\ UNCHANGED <<made, live, bound, socket, marker, table, registry, life>>
  BY DEF UpdateReleased, world, files
<1>2. req[r].inst \in live => registry[req[r].ws] = req[r].inst
  BY DEF UpdateReleased, IInv, TypeOK, Fit, Launched, Owns
<1>3. req[r].at # "record" /\ lastUsed' \in [Workspaces -> {"none", "fresh", "expired"}]
  BY DEF UpdateReleased, IInv, TypeOK
<1> QED BY <1>1, <1>2, <1>3, FinishStep DEF IInv, TypeOK

LEMMA TouchInv ==
  ASSUME IInv, NEW r \in Requests, Touch(r)
  PROVE  IInv'
<1>1. Finish(r) /\ UNCHANGED <<made, live, bound, socket, marker, table, registry, life>>
  BY DEF Touch, world, files
<1>2. req[r].inst \in live => registry[req[r].ws] = req[r].inst
  BY DEF Touch, IInv, TypeOK, Fit, Launched, Owns
<1>3. req[r].at # "record" /\ lastUsed' \in [Workspaces -> {"none", "fresh", "expired"}]
  BY DEF Touch, IInv, TypeOK
<1> QED BY <1>1, <1>2, <1>3, FinishStep DEF IInv, TypeOK

LEMMA BeginStartInv ==
  ASSUME IInv, NEW r \in Requests, NEW w \in Workspaces, NEW p \in Projects, BeginStart(r, w, p)
  PROVE  IInv'
<1> DEFINE x == [Idle EXCEPT !.at = "locking", !.kind = "start", !.ws = w, !.project = p]
<1>1. TypeOK /\ Fit(r, req[r]) /\ req[r] \in Locals
  BY DEF IInv, TypeOK
<1>2. /\ req' = [req EXCEPT ![r] = x]
      /\ UNCHANGED <<made, live, bound, socket, marker, table, registry, lastUsed, lock, life>>
  BY <1>1 DEF BeginStart, Go, Return, world, files, TypeOK
<1>3. x \in Locals
  BY <1>1, IdleFits DEF BeginStart, Locals, Places, Known, NoInstance, TypeOK, Registered
<1>4. Placed(x)
  BY <1>1, SMT, ZenonT(40) DEF BeginStart, Fit, Placed, Holds, InStop, Killing, Locals, Idle, TypeOK
<1>5. Launched(x) /\ Dead(x, live)
  BY <1>1 DEF BeginStart, Fit, Launched, Dead, Holds, InStop, Killing, Locals, Idle
<1>6. Owns(x, live, registry) /\ (Holds(x) => lock[x.ws] = r)
  BY <1>1, IdleFits DEF BeginStart, Fit, Owns, Placed, Launched, Vacant, Holds, InStop, Killing, Locals, NoInstance, TypeOK
<1>7. /\ x.inst = req[r].inst /\ x.at \notin {"record", "claim"} /\ req[r].at # "record"
      /\ \A q \in Requests : req[q].at \in {"record", "claim"} => x.victim # req[q].inst
  BY <1>1 DEF BeginStart, IInv, Fit, Launched, NotYetClaimed, OneLauncher, Locals, Idle, Holds, NoInstance
<1> HIDE DEF x
<1> QED BY <1>2, <1>3, <1>4, <1>5, <1>6, <1>7, QuietStep DEF Fit

LEMMA BeginStopInv ==
  ASSUME IInv, NEW r \in Requests, NEW w \in Workspaces, BeginStop(r, w)
  PROVE  IInv'
<1> DEFINE x == [Idle EXCEPT !.at = "stop", !.kind = "stop", !.ws = w, !.target = w, !.then = "idle"]
<1>1. TypeOK /\ Fit(r, req[r]) /\ req[r] \in Locals
  BY DEF IInv, TypeOK
<1>2. /\ req' = [req EXCEPT ![r] = x]
      /\ UNCHANGED <<made, live, bound, socket, marker, table, registry, lastUsed, lock, life>>
  BY <1>1 DEF BeginStop, Go, Return, world, files, TypeOK
<1>3. x \in Locals
  BY <1>1, IdleFits DEF BeginStop, Locals, Places, Known, NoInstance, TypeOK, Registered
<1>4. Placed(x)
  BY <1>1, SMT, ZenonT(40) DEF BeginStop, Fit, Placed, Holds, InStop, Killing, Locals, Idle, TypeOK
<1>5. Launched(x) /\ Dead(x, live)
  BY <1>1 DEF BeginStop, Fit, Launched, Dead, Holds, InStop, Killing, Locals, Idle
<1>6. Owns(x, live, registry) /\ (Holds(x) => lock[x.ws] = r)
  BY <1>1, IdleFits DEF BeginStop, Fit, Owns, Placed, Launched, Vacant, Holds, InStop, Killing, Locals, NoInstance, TypeOK
<1>7. /\ x.inst = req[r].inst /\ x.at \notin {"record", "claim"} /\ req[r].at # "record"
      /\ \A q \in Requests : req[q].at \in {"record", "claim"} => x.victim # req[q].inst
  BY <1>1 DEF BeginStop, IInv, Fit, Launched, NotYetClaimed, OneLauncher, Locals, Idle, Holds, NoInstance
<1> HIDE DEF x
<1> QED BY <1>2, <1>3, <1>4, <1>5, <1>6, <1>7, QuietStep DEF Fit

LEMMA BeginUseInv ==
  ASSUME IInv, NEW r \in Requests, NEW w \in Workspaces, BeginUse(r, w)
  PROVE  IInv'
<1> DEFINE x == [Idle EXCEPT !.at = "touch", !.kind = "use", !.ws = w]
<1>1. TypeOK /\ Fit(r, req[r]) /\ req[r] \in Locals
  BY DEF IInv, TypeOK
<1>2. /\ req' = [req EXCEPT ![r] = x]
      /\ UNCHANGED <<made, live, bound, socket, marker, table, registry, lastUsed, lock, life>>
  BY <1>1 DEF BeginUse, Go, Return, world, files, TypeOK
<1>3. x \in Locals
  BY <1>1, IdleFits DEF BeginUse, Locals, Places, Known, NoInstance, TypeOK, Registered
<1>4. Placed(x)
  BY <1>1, SMT, ZenonT(40) DEF BeginUse, Fit, Placed, Holds, InStop, Killing, Locals, Idle, TypeOK
<1>5. Launched(x) /\ Dead(x, live)
  BY <1>1 DEF BeginUse, Fit, Launched, Dead, Holds, InStop, Killing, Locals, Idle
<1>6. Owns(x, live, registry) /\ (Holds(x) => lock[x.ws] = r)
  BY <1>1, IdleFits DEF BeginUse, Fit, Owns, Placed, Launched, Vacant, Holds, InStop, Killing, Locals, NoInstance, TypeOK
<1>7. /\ x.inst = req[r].inst /\ x.at \notin {"record", "claim"} /\ req[r].at # "record"
      /\ \A q \in Requests : req[q].at \in {"record", "claim"} => x.victim # req[q].inst
  BY <1>1 DEF BeginUse, IInv, Fit, Launched, NotYetClaimed, OneLauncher, Locals, Idle, Holds, NoInstance
<1> HIDE DEF x
<1> QED BY <1>2, <1>3, <1>4, <1>5, <1>6, <1>7, QuietStep DEF Fit

LEMMA BeginCloseInv ==
  ASSUME IInv, NEW r \in Requests, BeginClose(r)
  PROVE  IInv'
<1> DEFINE x == [Idle EXCEPT !.at = "sweeping", !.kind = "close", !.expired = Registered]
<1>1. TypeOK /\ Fit(r, req[r]) /\ req[r] \in Locals
  BY DEF IInv, TypeOK
<1>2. /\ req' = [req EXCEPT ![r] = x]
      /\ UNCHANGED <<made, live, bound, socket, marker, table, registry, lastUsed, lock, life>>
  BY <1>1 DEF BeginClose, Go, Return, world, files, TypeOK
<1>3. x \in Locals
  BY <1>1, IdleFits DEF BeginClose, Locals, Places, Known, NoInstance, TypeOK, Registered
<1>4. Placed(x)
  BY <1>1, SMT, ZenonT(40) DEF BeginClose, Fit, Placed, Holds, InStop, Killing, Locals, Idle, TypeOK
<1>5. Launched(x) /\ Dead(x, live)
  BY <1>1 DEF BeginClose, Fit, Launched, Dead, Holds, InStop, Killing, Locals, Idle
<1>6. Owns(x, live, registry) /\ (Holds(x) => lock[x.ws] = r)
  BY <1>1, IdleFits DEF BeginClose, Fit, Owns, Placed, Launched, Vacant, Holds, InStop, Killing, Locals, NoInstance, TypeOK
<1>7. /\ x.inst = req[r].inst /\ x.at \notin {"record", "claim"} /\ req[r].at # "record"
      /\ \A q \in Requests : req[q].at \in {"record", "claim"} => x.victim # req[q].inst
  BY <1>1 DEF BeginClose, IInv, Fit, Launched, NotYetClaimed, OneLauncher, Locals, Idle, Holds, NoInstance
<1> HIDE DEF x
<1> QED BY <1>2, <1>3, <1>4, <1>5, <1>6, <1>7, QuietStep DEF Fit

LEMMA CheckNoneInv ==
  ASSUME IInv, NEW r \in Requests, CheckNone(r)
  PROVE  IInv'
<1> DEFINE x == [req[r] EXCEPT !.at = "listing"]
<1>1. TypeOK /\ Fit(r, req[r]) /\ req[r] \in Locals
  BY DEF IInv, TypeOK
<1>2. /\ req' = [req EXCEPT ![r] = x]
      /\ UNCHANGED <<made, live, bound, socket, marker, table, registry, lastUsed, lock, life>>
  BY <1>1 DEF CheckNone, Go, Return, world, files, TypeOK
<1>3. x \in Locals
  BY <1>1, SMT, ZenonT(40) DEF CheckNone, Locals, Places, Known, NoInstance, TypeOK, Idle
<1>4. Placed(x)
  BY <1>1, SMT, ZenonT(40) DEF CheckNone, Fit, Placed, Holds, InStop, Killing, Locals, Idle, TypeOK
<1>5. Launched(x) /\ Dead(x, live)
  BY <1>1 DEF CheckNone, Fit, Launched, Dead, Holds, InStop, Killing, Locals, Idle
<1>6. Owns(x, live, registry) /\ (Holds(x) => lock[x.ws] = r)
  BY <1>1 DEF CheckNone, Fit, Owns, Placed, Launched, Vacant, Holds, InStop, Killing, Locals, Idle
<1>7. /\ x.inst = req[r].inst /\ x.at \notin {"record", "claim"} /\ req[r].at # "record"
      /\ \A q \in Requests : req[q].at \in {"record", "claim"} => x.victim # req[q].inst
  BY <1>1 DEF CheckNone, IInv, Fit, Launched, NotYetClaimed, OneLauncher, Locals, Idle, Holds, NoInstance
<1> HIDE DEF x
<1> QED BY <1>2, <1>3, <1>4, <1>5, <1>6, <1>7, QuietStep DEF Fit

LEMMA CheckReuseInv ==
  ASSUME IInv, NEW r \in Requests, CheckReuse(r)
  PROVE  IInv'
<1> DEFINE x == [req[r] EXCEPT !.at = "touch"]
<1>1. TypeOK /\ Fit(r, req[r]) /\ req[r] \in Locals
  BY DEF IInv, TypeOK
<1>2. /\ req' = [req EXCEPT ![r] = x]
      /\ UNCHANGED <<made, live, bound, socket, marker, table, registry, lastUsed, lock, life>>
  BY <1>1 DEF CheckReuse, Go, Return, world, files, TypeOK
<1>3. x \in Locals
  BY <1>1, SMT, ZenonT(40) DEF CheckReuse, Locals, Places, Known, NoInstance, TypeOK, Idle
<1>4. Placed(x)
  BY <1>1, SMT, ZenonT(40) DEF CheckReuse, Fit, Placed, Holds, InStop, Killing, Locals, Idle, TypeOK
<1>5. Launched(x) /\ Dead(x, live)
  BY <1>1 DEF CheckReuse, Fit, Launched, Dead, Holds, InStop, Killing, Locals, Idle
<1>6. Owns(x, live, registry) /\ (Holds(x) => lock[x.ws] = r)
  BY <1>1 DEF CheckReuse, Fit, Owns, Placed, Launched, Vacant, Holds, InStop, Killing, Locals, Idle, NoInstance, TypeOK
<1>7. /\ x.inst = req[r].inst /\ x.at \notin {"record", "claim"} /\ req[r].at # "record"
      /\ \A q \in Requests : req[q].at \in {"record", "claim"} => x.victim # req[q].inst
  BY <1>1 DEF CheckReuse, IInv, Fit, Launched, NotYetClaimed, OneLauncher, Locals, Idle, Holds, NoInstance
<1> HIDE DEF x
<1> QED BY <1>2, <1>3, <1>4, <1>5, <1>6, <1>7, QuietStep DEF Fit

LEMMA CheckReplaceInv ==
  ASSUME IInv, NEW r \in Requests, CheckReplace(r)
  PROVE  IInv'
<1> DEFINE x == [req[r] EXCEPT !.at = "stop", !.target = req[r].ws, !.then = "listing"]
<1>1. TypeOK /\ Fit(r, req[r]) /\ req[r] \in Locals
  BY DEF IInv, TypeOK
<1>2. /\ req' = [req EXCEPT ![r] = x]
      /\ UNCHANGED <<made, live, bound, socket, marker, table, registry, lastUsed, lock, life>>
  BY <1>1 DEF CheckReplace, Go, Return, world, files, TypeOK
<1>3. x \in Locals
  BY <1>1, SMT, ZenonT(40) DEF CheckReplace, Locals, Places, Known, NoInstance, TypeOK, Idle
<1>4. Placed(x)
  BY <1>1, SMT, ZenonT(40) DEF CheckReplace, Fit, Placed, Holds, InStop, Killing, Locals, Idle, TypeOK
<1>5. Launched(x) /\ Dead(x, live)
  BY <1>1 DEF CheckReplace, Fit, Launched, Dead, Holds, InStop, Killing, Locals, Idle
<1>6. Owns(x, live, registry) /\ (Holds(x) => lock[x.ws] = r)
  BY <1>1 DEF CheckReplace, Fit, Owns, Placed, Launched, Vacant, Holds, InStop, Killing, Locals, Idle
<1>7. /\ x.inst = req[r].inst /\ x.at \notin {"record", "claim"} /\ req[r].at # "record"
      /\ \A q \in Requests : req[q].at \in {"record", "claim"} => x.victim # req[q].inst
  BY <1>1 DEF CheckReplace, IInv, Fit, Launched, NotYetClaimed, OneLauncher, Locals, Idle, Holds, NoInstance
<1> HIDE DEF x
<1> QED BY <1>2, <1>3, <1>4, <1>5, <1>6, <1>7, QuietStep DEF Fit

LEMMA ListInv ==
  ASSUME IInv, NEW r \in Requests, List(r)
  PROVE  IInv'
<1> DEFINE x == [req[r] EXCEPT !.at = "sweeping", !.expired = {w \in Workspaces : lastUsed[w] = "expired"}]
<1>1. TypeOK /\ Fit(r, req[r]) /\ req[r] \in Locals
  BY DEF IInv, TypeOK
<1>2. /\ req' = [req EXCEPT ![r] = x]
      /\ UNCHANGED <<made, live, bound, socket, marker, table, registry, lastUsed, lock, life>>
  BY <1>1 DEF List, Go, Return, world, files, TypeOK
<1>3. x \in Locals
  BY <1>1, SMT, ZenonT(40) DEF List, Locals, Places, Known, NoInstance, TypeOK, Idle
<1>4. Placed(x)
  BY <1>1, SMT, ZenonT(40) DEF List, Fit, Placed, Holds, InStop, Killing, Locals, Idle, TypeOK
<1>5. Launched(x) /\ Dead(x, live)
  BY <1>1 DEF List, Fit, Launched, Dead, Holds, InStop, Killing, Locals, Idle
<1>6. Owns(x, live, registry) /\ (Holds(x) => lock[x.ws] = r)
  BY <1>1 DEF List, Fit, Owns, Placed, Launched, Vacant, Holds, InStop, Killing, Locals, Idle
<1>7. /\ x.inst = req[r].inst /\ x.at \notin {"record", "claim"} /\ req[r].at # "record"
      /\ \A q \in Requests : req[q].at \in {"record", "claim"} => x.victim # req[q].inst
  BY <1>1 DEF List, IInv, Fit, Launched, NotYetClaimed, OneLauncher, Locals, Idle, Holds, NoInstance
<1> HIDE DEF x
<1> QED BY <1>2, <1>3, <1>4, <1>5, <1>6, <1>7, QuietStep DEF Fit

LEMMA SweepNextInv ==
  ASSUME IInv, NEW r \in Requests, NEW w \in Workspaces, SweepNext(r, w)
  PROVE  IInv'
<1> DEFINE x == [req[r] EXCEPT !.at = "stop", !.target = w, !.then = "sweeping", !.expired = @ \ {w}]
<1>1. TypeOK /\ Fit(r, req[r]) /\ req[r] \in Locals
  BY DEF IInv, TypeOK
<1>2. /\ req' = [req EXCEPT ![r] = x]
      /\ UNCHANGED <<made, live, bound, socket, marker, table, registry, lastUsed, lock, life>>
  BY <1>1 DEF SweepNext, Go, Return, world, files, TypeOK
<1>3. x \in Locals
  BY <1>1, SMT, ZenonT(40) DEF SweepNext, Locals, Places, Known, NoInstance, TypeOK, Idle
<1>4. Placed(x)
  BY <1>1, SMT, ZenonT(40) DEF SweepNext, Fit, Placed, Holds, InStop, Killing, Locals, Idle, TypeOK
<1>5. Launched(x) /\ Dead(x, live)
  BY <1>1 DEF SweepNext, Fit, Launched, Dead, Holds, InStop, Killing, Locals, Idle
<1>6. Owns(x, live, registry) /\ (Holds(x) => lock[x.ws] = r)
  BY <1>1 DEF SweepNext, Fit, Owns, Placed, Launched, Vacant, Holds, InStop, Killing, Locals, Idle
<1>7. /\ x.inst = req[r].inst /\ x.at \notin {"record", "claim"} /\ req[r].at # "record"
      /\ \A q \in Requests : req[q].at \in {"record", "claim"} => x.victim # req[q].inst
  BY <1>1 DEF SweepNext, IInv, Fit, Launched, NotYetClaimed, OneLauncher, Locals, Idle, Holds, NoInstance
<1> HIDE DEF x
<1> QED BY <1>2, <1>3, <1>4, <1>5, <1>6, <1>7, QuietStep DEF Fit

LEMMA SweepDoneInv ==
  ASSUME IInv, NEW r \in Requests, SweepDone(r)
  PROVE  IInv'
<1> DEFINE x == [req[r] EXCEPT !.at = IF req[r].kind = "close" THEN "exit" ELSE "limit"]
<1>1. TypeOK /\ Fit(r, req[r]) /\ req[r] \in Locals
  BY DEF IInv, TypeOK
<1>2. /\ req' = [req EXCEPT ![r] = x]
      /\ UNCHANGED <<made, live, bound, socket, marker, table, registry, lastUsed, lock, life>>
  BY <1>1 DEF SweepDone, Go, Return, world, files, TypeOK
<1>3. x \in Locals
  BY <1>1, SMT, ZenonT(40) DEF SweepDone, Locals, Places, Known, NoInstance, TypeOK, Idle
<1>4. Placed(x)
  BY <1>1, SMT, ZenonT(40) DEF SweepDone, Fit, Placed, Holds, InStop, Killing, Locals, Idle, TypeOK
<1>5. Launched(x) /\ Dead(x, live)
  BY <1>1 DEF SweepDone, Fit, Launched, Dead, Holds, InStop, Killing, Locals, Idle
<1>6. Owns(x, live, registry) /\ (Holds(x) => lock[x.ws] = r)
  BY <1>1 DEF SweepDone, Fit, Owns, Placed, Launched, Vacant, Holds, InStop, Killing, Locals, Idle
<1>7. /\ x.inst = req[r].inst /\ x.at \notin {"record", "claim"} /\ req[r].at # "record"
      /\ \A q \in Requests : req[q].at \in {"record", "claim"} => x.victim # req[q].inst
  BY <1>1 DEF SweepDone, IInv, Fit, Launched, NotYetClaimed, OneLauncher, Locals, Idle, Holds, NoInstance
<1> HIDE DEF x
<1> QED BY <1>2, <1>3, <1>4, <1>5, <1>6, <1>7, QuietStep DEF Fit

LEMMA LimitPassedInv ==
  ASSUME IInv, NEW r \in Requests, LimitPassed(r)
  PROVE  IInv'
<1> DEFINE x == [req[r] EXCEPT !.at = "launch"]
<1>1. TypeOK /\ Fit(r, req[r]) /\ req[r] \in Locals
  BY DEF IInv, TypeOK
<1>2. /\ req' = [req EXCEPT ![r] = x]
      /\ UNCHANGED <<made, live, bound, socket, marker, table, registry, lastUsed, lock, life>>
  BY <1>1 DEF LimitPassed, Go, Return, world, files, TypeOK
<1>3. x \in Locals
  BY <1>1, SMT, ZenonT(40) DEF LimitPassed, Locals, Places, Known, NoInstance, TypeOK, Idle
<1>4. Placed(x)
  BY <1>1, SMT, ZenonT(40) DEF LimitPassed, Fit, Placed, Holds, InStop, Killing, Locals, Idle, TypeOK
<1>5. Launched(x) /\ Dead(x, live)
  BY <1>1 DEF LimitPassed, Fit, Launched, Dead, Holds, InStop, Killing, Locals, Idle
<1>6. Owns(x, live, registry) /\ (Holds(x) => lock[x.ws] = r)
  BY <1>1 DEF LimitPassed, Fit, Owns, Placed, Launched, Vacant, Holds, InStop, Killing, Locals, Idle
<1>7. /\ x.inst = req[r].inst /\ x.at \notin {"record", "claim"} /\ req[r].at # "record"
      /\ \A q \in Requests : req[q].at \in {"record", "claim"} => x.victim # req[q].inst
  BY <1>1 DEF LimitPassed, IInv, Fit, Launched, NotYetClaimed, OneLauncher, Locals, Idle, Holds, NoInstance
<1> HIDE DEF x
<1> QED BY <1>2, <1>3, <1>4, <1>5, <1>6, <1>7, QuietStep DEF Fit

LEMMA WaitReadyInv ==
  ASSUME IInv, NEW r \in Requests, WaitReady(r)
  PROVE  IInv'
<1> DEFINE x == [req[r] EXCEPT !.at = "update"]
<1>1. TypeOK /\ Fit(r, req[r]) /\ req[r] \in Locals
  BY DEF IInv, TypeOK
<1>2. /\ req' = [req EXCEPT ![r] = x]
      /\ UNCHANGED <<made, live, bound, socket, marker, table, registry, lastUsed, lock, life>>
  BY <1>1 DEF WaitReady, Go, Return, world, files, TypeOK
<1>3. x \in Locals
  BY <1>1, SMT, ZenonT(40) DEF WaitReady, Locals, Places, Known, NoInstance, TypeOK, Idle
<1>4. Placed(x)
  BY <1>1, SMT, ZenonT(40) DEF WaitReady, Fit, Placed, Holds, InStop, Killing, Locals, Idle, TypeOK
<1>5. Launched(x) /\ Dead(x, live)
  BY <1>1 DEF WaitReady, Fit, Launched, Dead, Holds, InStop, Killing, Locals, Idle
<1>6. Owns(x, live, registry) /\ (Holds(x) => lock[x.ws] = r)
  BY <1>1 DEF WaitReady, Fit, Owns, Placed, Launched, Vacant, Holds, InStop, Killing, Locals, Idle
<1>7. /\ x.inst = req[r].inst /\ x.at \notin {"record", "claim"} /\ req[r].at # "record"
      /\ \A q \in Requests : req[q].at \in {"record", "claim"} => x.victim # req[q].inst
  BY <1>1 DEF WaitReady, IInv, Fit, Launched, NotYetClaimed, OneLauncher, Locals, Idle, Holds, NoInstance
<1> HIDE DEF x
<1> QED BY <1>2, <1>3, <1>4, <1>5, <1>6, <1>7, QuietStep DEF Fit

LEMMA WaitFailedInv ==
  ASSUME IInv, NEW r \in Requests, WaitFailed(r)
  PROVE  IInv'
<1> DEFINE x == [req[r] EXCEPT !.at = "pop", !.victim = req[r].inst, !.back = "giveup"]
<1>1. TypeOK /\ Fit(r, req[r]) /\ req[r] \in Locals
  BY DEF IInv, TypeOK
<1>2. /\ req' = [req EXCEPT ![r] = x]
      /\ UNCHANGED <<made, live, bound, socket, marker, table, registry, lastUsed, lock, life>>
  BY <1>1 DEF WaitFailed, Go, Return, world, files, TypeOK
<1>3. x \in Locals
  BY <1>1, SMT, ZenonT(40) DEF WaitFailed, Locals, Places, Known, NoInstance, TypeOK, Idle
<1>4. Placed(x)
  BY <1>1, SMT, ZenonT(40) DEF WaitFailed, Fit, Placed, Holds, InStop, Killing, Locals, Idle, TypeOK
<1>5. Launched(x) /\ Dead(x, live)
  BY <1>1 DEF WaitFailed, Fit, Launched, Dead, Holds, InStop, Killing, Locals, Idle
<1>6. Owns(x, live, registry) /\ (Holds(x) => lock[x.ws] = r)
  BY <1>1 DEF WaitFailed, Fit, Owns, Placed, Launched, Vacant, Holds, InStop, Killing, Locals, Idle
<1>7. /\ x.inst = req[r].inst /\ x.at \notin {"record", "claim"} /\ req[r].at # "record"
      /\ \A q \in Requests : req[q].at \in {"record", "claim"} => x.victim # req[q].inst
  BY <1>1 DEF WaitFailed, IInv, Fit, Launched, NotYetClaimed, OneLauncher, Locals, Idle, Holds, NoInstance
<1> HIDE DEF x
<1> QED BY <1>2, <1>3, <1>4, <1>5, <1>6, <1>7, QuietStep DEF Fit

LEMMA WaitTimeoutInv ==
  ASSUME IInv, NEW r \in Requests, WaitTimeout(r)
  PROVE  IInv'
<1> DEFINE x == [req[r] EXCEPT !.at = "kill", !.victim = req[r].inst, !.back = "giveup"]
<1>1. TypeOK /\ Fit(r, req[r]) /\ req[r] \in Locals
  BY DEF IInv, TypeOK
<1>2. /\ req' = [req EXCEPT ![r] = x]
      /\ UNCHANGED <<made, live, bound, socket, marker, table, registry, lastUsed, lock, life>>
  BY <1>1 DEF WaitTimeout, Go, Return, world, files, TypeOK
<1>3. x \in Locals
  BY <1>1, SMT, ZenonT(40) DEF WaitTimeout, Locals, Places, Known, NoInstance, TypeOK, Idle
<1>4. Placed(x)
  BY <1>1, SMT, ZenonT(40) DEF WaitTimeout, Fit, Placed, Holds, InStop, Killing, Locals, Idle, TypeOK
<1>5. Launched(x) /\ Dead(x, live)
  BY <1>1 DEF WaitTimeout, Fit, Launched, Dead, Holds, InStop, Killing, Locals, Idle
<1>6. Owns(x, live, registry) /\ (Holds(x) => lock[x.ws] = r)
  BY <1>1 DEF WaitTimeout, Fit, Owns, Placed, Launched, Vacant, Holds, InStop, Killing, Locals, Idle
<1>7. /\ x.inst = req[r].inst /\ x.at \notin {"record", "claim"} /\ req[r].at # "record"
      /\ \A q \in Requests : req[q].at \in {"record", "claim"} => x.victim # req[q].inst
  BY <1>1 DEF WaitTimeout, IInv, Fit, Launched, NotYetClaimed, OneLauncher, Locals, Idle, Holds, NoInstance
<1> HIDE DEF x
<1> QED BY <1>2, <1>3, <1>4, <1>5, <1>6, <1>7, QuietStep DEF Fit

LEMMA WaitGoneInv ==
  ASSUME IInv, NEW r \in Requests, WaitGone(r)
  PROVE  IInv'
<1> DEFINE x == [req[r] EXCEPT !.at = "giveup"]
<1>1. TypeOK /\ Fit(r, req[r]) /\ req[r] \in Locals
  BY DEF IInv, TypeOK
<1>2. /\ req' = [req EXCEPT ![r] = x]
      /\ UNCHANGED <<made, live, bound, socket, marker, table, registry, lastUsed, lock, life>>
  BY <1>1 DEF WaitGone, Go, Return, world, files, TypeOK
<1>3. x \in Locals
  BY <1>1, SMT, ZenonT(40) DEF WaitGone, Locals, Places, Known, NoInstance, TypeOK, Idle
<1>4. Placed(x)
  BY <1>1, SMT, ZenonT(40) DEF WaitGone, Fit, Placed, Holds, InStop, Killing, Locals, Idle, TypeOK
<1>5. Launched(x) /\ Dead(x, live)
  BY <1>1 DEF WaitGone, Fit, Launched, Dead, Holds, InStop, Killing, Locals, Idle, IInv, InTable, OneLauncher, TypeOK, NoInstance
<1>6. Owns(x, live, registry) /\ (Holds(x) => lock[x.ws] = r)
  BY <1>1 DEF WaitGone, Fit, Owns, Placed, Launched, Vacant, Holds, InStop, Killing, Locals, Idle
<1>7. /\ x.inst = req[r].inst /\ x.at \notin {"record", "claim"} /\ req[r].at # "record"
      /\ \A q \in Requests : req[q].at \in {"record", "claim"} => x.victim # req[q].inst
  BY <1>1 DEF WaitGone, IInv, Fit, Launched, NotYetClaimed, OneLauncher, Locals, Idle, Holds, NoInstance
<1> HIDE DEF x
<1> QED BY <1>2, <1>3, <1>4, <1>5, <1>6, <1>7, QuietStep DEF Fit

LEMMA UpdateOwnedInv ==
  ASSUME IInv, NEW r \in Requests, UpdateOwned(r)
  PROVE  IInv'
<1> DEFINE x == [req[r] EXCEPT !.at = "touch"]
<1>1. TypeOK /\ Fit(r, req[r]) /\ req[r] \in Locals
  BY DEF IInv, TypeOK
<1>2. /\ req' = [req EXCEPT ![r] = x]
      /\ UNCHANGED <<made, live, bound, socket, marker, table, registry, lastUsed, lock, life>>
  BY <1>1 DEF UpdateOwned, Go, Return, world, files, TypeOK
<1>3. x \in Locals
  BY <1>1, SMT, ZenonT(40) DEF UpdateOwned, Locals, Places, Known, NoInstance, TypeOK, Idle
<1>4. Placed(x)
  BY <1>1, SMT, ZenonT(40) DEF UpdateOwned, Fit, Placed, Holds, InStop, Killing, Locals, Idle, TypeOK
<1>5. Launched(x) /\ Dead(x, live)
  BY <1>1 DEF UpdateOwned, Fit, Launched, Dead, Holds, InStop, Killing, Locals, Idle
<1>6. Owns(x, live, registry) /\ (Holds(x) => lock[x.ws] = r)
  BY <1>1 DEF UpdateOwned, Fit, Owns, Placed, Launched, Vacant, Holds, InStop, Killing, Locals, Idle
<1>7. /\ x.inst = req[r].inst /\ x.at \notin {"record", "claim"} /\ req[r].at # "record"
      /\ \A q \in Requests : req[q].at \in {"record", "claim"} => x.victim # req[q].inst
  BY <1>1 DEF UpdateOwned, IInv, Fit, Launched, NotYetClaimed, OneLauncher, Locals, Idle, Holds, NoInstance
<1> HIDE DEF x
<1> QED BY <1>2, <1>3, <1>4, <1>5, <1>6, <1>7, QuietStep DEF Fit

LEMMA StopNoneEnds ==
  ASSUME IInv, NEW r \in Requests, StopNone(r), req[r].then = "idle"
  PROVE  IInv'
<1> DEFINE x == Idle
<1>1. TypeOK /\ Fit(r, req[r]) /\ req[r] \in Locals
  BY DEF IInv, TypeOK
<1>2. /\ req' = [req EXCEPT ![r] = x]
      /\ UNCHANGED <<made, live, bound, socket, marker, table, registry, lastUsed, lock, life>>
  BY <1>1 DEF StopNone, Go, Return, world, files, TypeOK
<1>3. x \in Locals
  BY <1>1, IdleFits DEF StopNone, Locals, Places, Known, NoInstance, TypeOK
<1>4. Placed(x)
  BY <1>1, IdleFits DEF StopNone, Fit, Placed, Holds, InStop, Killing, Locals, Idle, TypeOK
<1>5. Launched(x) /\ Dead(x, live)
  BY <1>1, IdleFits DEF StopNone, Fit, Launched, Dead, Holds, InStop, Killing, Locals, Idle
<1>6. Owns(x, live, registry) /\ (Holds(x) => lock[x.ws] = r)
  BY <1>1, IdleFits DEF StopNone, Fit, Owns, Placed, Launched, Vacant, Holds, InStop, Killing, Locals
<1>7. /\ x.inst = req[r].inst /\ x.at \notin {"record", "claim"} /\ req[r].at # "record"
      /\ \A q \in Requests : req[q].at \in {"record", "claim"} => x.victim # req[q].inst
  BY <1>1, IdleFits DEF StopNone, IInv, Fit, Launched, NotYetClaimed, OneLauncher, Locals, Idle, Holds, NoInstance, InStop
<1> HIDE DEF x
<1> QED BY <1>2, <1>3, <1>4, <1>5, <1>6, <1>7, QuietStep DEF Fit

LEMMA StopNoneReturns ==
  ASSUME IInv, NEW r \in Requests, StopNone(r), req[r].then # "idle"
  PROVE  IInv'
<1> DEFINE x == [req[r] EXCEPT !.at = req[r].then]
<1>1. TypeOK /\ Fit(r, req[r]) /\ req[r] \in Locals
  BY DEF IInv, TypeOK
<1>2. /\ req' = [req EXCEPT ![r] = x]
      /\ UNCHANGED <<made, live, bound, socket, marker, table, registry, lastUsed, lock, life>>
  BY <1>1 DEF StopNone, Go, Return, world, files, TypeOK
<1>3. x \in Locals
  BY <1>1, SMT, ZenonT(40) DEF StopNone, Locals, Places, Known, NoInstance, TypeOK, Idle, Fit, Placed, InStop
<1>4. Placed(x)
  BY <1>1, SMT, ZenonT(40) DEF StopNone, Fit, Placed, Holds, InStop, Killing, Locals, Idle, TypeOK
<1>5. Launched(x) /\ Dead(x, live)
  BY <1>1 DEF StopNone, Fit, Launched, Dead, Holds, InStop, Killing, Locals, Idle
<1>6. Owns(x, live, registry) /\ (Holds(x) => lock[x.ws] = r)
  BY <1>1 DEF StopNone, Fit, Owns, Placed, Launched, Vacant, Holds, InStop, Killing, Locals, Idle
<1>7. /\ x.inst = req[r].inst /\ x.at \notin {"record", "claim"} /\ req[r].at # "record"
      /\ \A q \in Requests : req[q].at \in {"record", "claim"} => x.victim # req[q].inst
  BY <1>1 DEF StopNone, IInv, Fit, Launched, NotYetClaimed, OneLauncher, Locals, Idle, Holds, NoInstance, Placed, InStop
<1> HIDE DEF x
<1> QED BY <1>2, <1>3, <1>4, <1>5, <1>6, <1>7, QuietStep DEF Fit

LEMMA StopNoneInv ==
  ASSUME IInv, NEW r \in Requests, StopNone(r)
  PROVE  IInv'
BY StopNoneEnds, StopNoneReturns

LEMMA StopSomeInv ==
  ASSUME IInv, NEW r \in Requests, StopSome(r)
  PROVE  IInv'
<1> DEFINE x == [req[r] EXCEPT !.at = "kill", !.victim = registry[req[r].target], !.back = "release"]
<1>1. TypeOK /\ Fit(r, req[r]) /\ req[r] \in Locals
  BY DEF IInv, TypeOK
<1>2. /\ req' = [req EXCEPT ![r] = x]
      /\ UNCHANGED <<made, live, bound, socket, marker, table, registry, lastUsed, lock, life>>
  BY <1>1 DEF StopSome, Go, Return, world, files, TypeOK
<1>3. x \in Locals
  BY <1>1, SMT, ZenonT(40) DEF StopSome, Locals, Places, Known, NoInstance, TypeOK, Idle, Fit, Placed, InStop
<1>4. Placed(x)
  BY <1>1, SMT, ZenonT(40) DEF StopSome, Fit, Placed, Holds, InStop, Killing, Locals, Idle, TypeOK
<1>5. Launched(x) /\ Dead(x, live)
  BY <1>1 DEF StopSome, Fit, Launched, Dead, Holds, InStop, Killing, Locals, Idle, IInv, OfThisLife, Placed, TypeOK
<1>6. Owns(x, live, registry) /\ (Holds(x) => lock[x.ws] = r)
  BY <1>1 DEF StopSome, Fit, Owns, Placed, Launched, Vacant, Holds, InStop, Killing, Locals, Idle
<1>7. /\ x.inst = req[r].inst /\ x.at \notin {"record", "claim"} /\ req[r].at # "record"
      /\ \A q \in Requests : req[q].at \in {"record", "claim"} => x.victim # req[q].inst
  BY <1>1 DEF StopSome, IInv, Fit, Launched, NotYetClaimed, OneLauncher, Locals, Idle, Holds, NoInstance, Placed, InStop, TypeOK
<1> HIDE DEF x
<1> QED BY <1>2, <1>3, <1>4, <1>5, <1>6, <1>7, QuietStep DEF Fit

LEMMA KillAbsentInv ==
  ASSUME IInv, NEW r \in Requests, KillAbsent(r)
  PROVE  IInv'
<1> DEFINE x == [req[r] EXCEPT !.at = req[r].back]
<1>1. TypeOK /\ Fit(r, req[r]) /\ req[r] \in Locals
  BY DEF IInv, TypeOK
<1>2. /\ req' = [req EXCEPT ![r] = x]
      /\ UNCHANGED <<made, live, bound, socket, marker, table, registry, lastUsed, lock, life>>
  BY <1>1 DEF KillAbsent, Go, Return, world, files, TypeOK
<1>3. x \in Locals
  BY <1>1, SMT, ZenonT(40) DEF KillAbsent, Locals, Places, Known, NoInstance, TypeOK, Idle, Fit, Launched, Killing
<1>4. Placed(x)
  BY <1>1, SMT, ZenonT(40) DEF KillAbsent, Fit, Placed, Holds, InStop, Killing, Locals, Idle, TypeOK, Launched
<1>5. Launched(x) /\ Dead(x, live)
  BY <1>1 DEF KillAbsent, Fit, Launched, Dead, Holds, InStop, Killing, Locals, Idle, IInv, InTable, NotYetClaimed, TypeOK, NoInstance
<1>6. Owns(x, live, registry) /\ (Holds(x) => lock[x.ws] = r)
  BY <1>1 DEF KillAbsent, Fit, Owns, Placed, Launched, Vacant, Holds, InStop, Killing, Locals, Idle
<1>7. /\ x.inst = req[r].inst /\ x.at \notin {"record", "claim"} /\ req[r].at # "record"
      /\ \A q \in Requests : req[q].at \in {"record", "claim"} => x.victim # req[q].inst
  BY <1>1 DEF KillAbsent, IInv, Fit, Launched, NotYetClaimed, OneLauncher, Locals, Idle, Holds, NoInstance
<1> HIDE DEF x
<1> QED BY <1>2, <1>3, <1>4, <1>5, <1>6, <1>7, QuietStep DEF Fit
LEMMA LaunchFailsInv ==
  ASSUME IInv, NEW r \in Requests, LaunchFails(r)
  PROVE  IInv'
<1>1. TypeOK /\ Fit(r, req[r]) /\ req[r] \in Locals /\ 0 \in Known
  BY DEF IInv, TypeOK, Known
<1>2. Finish(r) /\ UNCHANGED <<made, bound, table, life>>
  BY DEF LaunchFails, world, files
<1>3. /\ live' \subseteq live
      /\ socket' \in [Workspaces -> Known] /\ marker' \in [Workspaces -> Known]
      /\ lastUsed' \in [Workspaces -> {"none", "fresh", "expired"}]
  BY <1>1 DEF LaunchFails, Clear, files, world, TypeOK, NoInstance
<1>4. /\ registry' \in [Workspaces -> Known]
      /\ \A w \in Workspaces :
           registry'[w] = registry[w] \/ (registry'[w] = NoInstance /\ registry[w] \notin live')
  BY <1>1 DEF LaunchFails, TypeOK, Fit, Dead, NoInstance, world
<1>5. req[r].inst \in live' => registry'[req[r].ws] = req[r].inst
  BY <1>1 DEF LaunchFails, TypeOK, Fit, Launched, Dead, Placed, InStop, NoInstance, world
<1>6. req[r].at = "record" => req[r].inst \notin live'
  BY DEF LaunchFails
<1> QED BY <1>2, <1>3, <1>4, <1>5, <1>6, FinishStep

LEMMA RecordFailsInv ==
  ASSUME IInv, NEW r \in Requests, RecordFails(r)
  PROVE  IInv'
<1>1. TypeOK /\ Fit(r, req[r]) /\ req[r] \in Locals /\ 0 \in Known
  BY DEF IInv, TypeOK, Known
<1>2. Finish(r) /\ UNCHANGED <<made, bound, table, life>>
  BY DEF RecordFails, world, files
<1>3. /\ live' \subseteq live
      /\ socket' \in [Workspaces -> Known] /\ marker' \in [Workspaces -> Known]
      /\ lastUsed' \in [Workspaces -> {"none", "fresh", "expired"}]
  BY <1>1 DEF RecordFails, Clear, files, world, TypeOK, NoInstance
<1>4. /\ registry' \in [Workspaces -> Known]
      /\ \A w \in Workspaces :
           registry'[w] = registry[w] \/ (registry'[w] = NoInstance /\ registry[w] \notin live')
  BY <1>1 DEF RecordFails, TypeOK, Fit, Dead, NoInstance, world
<1>5. req[r].inst \in live' => registry'[req[r].ws] = req[r].inst
  BY <1>1 DEF RecordFails, TypeOK, Fit, Launched, Dead, Placed, InStop, NoInstance, world
<1>6. req[r].at = "record" => req[r].inst \notin live'
  BY DEF RecordFails
<1> QED BY <1>2, <1>3, <1>4, <1>5, <1>6, FinishStep

LEMMA GiveUpInv ==
  ASSUME IInv, NEW r \in Requests, GiveUp(r)
  PROVE  IInv'
<1>1. TypeOK /\ Fit(r, req[r]) /\ req[r] \in Locals /\ 0 \in Known
  BY DEF IInv, TypeOK, Known
<1>2. Finish(r) /\ UNCHANGED <<made, bound, table, life>>
  BY DEF GiveUp, world, files
<1>3. /\ live' \subseteq live
      /\ socket' \in [Workspaces -> Known] /\ marker' \in [Workspaces -> Known]
      /\ lastUsed' \in [Workspaces -> {"none", "fresh", "expired"}]
  BY <1>1 DEF GiveUp, Clear, files, world, TypeOK, NoInstance
<1>4. /\ registry' \in [Workspaces -> Known]
      /\ \A w \in Workspaces :
           registry'[w] = registry[w] \/ (registry'[w] = NoInstance /\ registry[w] \notin live')
  BY <1>1 DEF GiveUp, TypeOK, Fit, Dead, NoInstance, world
<1>5. req[r].inst \in live' => registry'[req[r].ws] = req[r].inst
  BY <1>1 DEF GiveUp, TypeOK, Fit, Launched, Dead, Placed, InStop, NoInstance, world
<1>6. req[r].at = "record" => req[r].inst \notin live'
  BY DEF GiveUp
<1> QED BY <1>2, <1>3, <1>4, <1>5, <1>6, FinishStep

LEMMA KillInv ==
  ASSUME IInv, NEW r \in Requests, Kill(r)
  PROVE  IInv'
<1> DEFINE x == [req[r] EXCEPT !.at = "pop"]
<1>1. TypeOK /\ (\A q \in Requests : Fit(q, req[q])) /\ req[r] \in Locals /\ 0 \in Known
  BY DEF IInv, TypeOK, Known
<1>2. req' = [req EXCEPT ![r] = x] /\ made' = made /\ life' = life
  BY <1>1 DEF Kill, Go, Return, world, TypeOK
<1>3. x \in Locals
  BY <1>1, SMT, ZenonT(40) DEF Kill, Locals, Places, Fit, Placed, Launched, InStop, Killing
<1>4. /\ live' \subseteq live /\ bound' \subseteq Known \ {NoInstance}
      /\ socket' \in [Workspaces -> Known] /\ marker' \in [Workspaces -> Known]
      /\ lastUsed' \in [Workspaces -> {"none", "fresh", "expired"}]
      /\ table' \subseteq table /\ \A i \in table : i \in live' => i \in table'
  BY <1>1 DEF Kill, Clear, world, files, TypeOK, Fit, Dead, NoInstance
<1>5. /\ registry' \in [Workspaces -> Known]
      /\ \A w \in Workspaces :
           registry'[w] = registry[w] \/ (registry'[w] = NoInstance /\ registry[w] \notin live')
  BY <1>1 DEF Kill, TypeOK, Fit, Dead, NoInstance, world
<1>6. /\ lock' \in [Workspaces -> Requests \cup {Nobody}]
      /\ \A q \in Requests : q # r /\ Holds(req[q]) => lock'[req[q].ws] = q
      /\ Holds(x) => lock'[x.ws] = r
  BY <1>1 DEF Kill, TypeOK, Fit, Placed, Holds, InStop, Killing, Locals
<1>7. Placed(x) /\ Launched(x)
  BY <1>1 DEF Kill, Fit, Placed, Launched, Holds, InStop, Killing, Locals
<1>8. Dead(x, live')
  BY <1>1 DEF Kill, Fit, Dead, Launched, Placed, InStop, Killing, Locals, world
<1>9. Owns(x, live', registry')
  BY <1>1 DEF Kill, Fit, Owns, Placed, Launched, Vacant, Holds, InStop, Killing, Locals, TypeOK, NoInstance, world
<1>10. /\ x.inst = req[r].inst /\ x.at \notin {"record", "claim"} /\ req[r].at # "record"
       /\ req[r].inst \in live' /\ x.inst = NoInstance => registry'[req[r].ws] = req[r].inst
       /\ \A q \in Requests : req[q].at \in {"record", "claim"} => x.victim # req[q].inst
  BY <1>1, <1>4 DEF Kill, IInv, Fit, Launched, Placed, InStop, Killing, NotYetClaimed, TypeOK, Locals, NoInstance
<1> HIDE DEF x
<1> QED BY <1>2, <1>3, <1>4, <1>5, <1>6, <1>7, <1>8, <1>9, <1>10, RequestStep

LEMMA PopInv ==
  ASSUME IInv, NEW r \in Requests, Pop(r)
  PROVE  IInv'
<1> DEFINE x == [req[r] EXCEPT !.at = IF req[r].victim \in table THEN "unlink" ELSE req[r].back]
<1>1. TypeOK /\ (\A q \in Requests : Fit(q, req[q])) /\ req[r] \in Locals /\ 0 \in Known
  BY DEF IInv, TypeOK, Known
<1>2. req' = [req EXCEPT ![r] = x] /\ made' = made /\ life' = life
  BY <1>1 DEF Pop, Go, Return, world, TypeOK
<1>3. x \in Locals
  BY <1>1, SMT, ZenonT(40) DEF Pop, Locals, Places, Fit, Placed, Launched, InStop, Killing
<1>4. /\ live' \subseteq live /\ bound' \subseteq Known \ {NoInstance}
      /\ socket' \in [Workspaces -> Known] /\ marker' \in [Workspaces -> Known]
      /\ lastUsed' \in [Workspaces -> {"none", "fresh", "expired"}]
      /\ table' \subseteq table /\ \A i \in table : i \in live' => i \in table'
  BY <1>1 DEF Pop, Clear, world, files, TypeOK, Fit, Dead, NoInstance
<1>5. /\ registry' \in [Workspaces -> Known]
      /\ \A w \in Workspaces :
           registry'[w] = registry[w] \/ (registry'[w] = NoInstance /\ registry[w] \notin live')
  BY <1>1 DEF Pop, TypeOK, Fit, Dead, NoInstance, world
<1>6. /\ lock' \in [Workspaces -> Requests \cup {Nobody}]
      /\ \A q \in Requests : q # r /\ Holds(req[q]) => lock'[req[q].ws] = q
      /\ Holds(x) => lock'[x.ws] = r
  BY <1>1 DEF Pop, TypeOK, Fit, Placed, Holds, InStop, Killing, Locals
<1>7. Placed(x) /\ Launched(x)
  BY <1>1 DEF Pop, Fit, Placed, Launched, Holds, InStop, Killing, Locals
<1>8. Dead(x, live')
  BY <1>1 DEF Pop, Fit, Dead, Launched, Placed, InStop, Killing, Locals, world
<1>9. Owns(x, live', registry')
  BY <1>1 DEF Pop, Fit, Owns, Placed, Launched, Vacant, Holds, InStop, Killing, Locals, TypeOK, NoInstance, world
<1>10. /\ x.inst = req[r].inst /\ x.at \notin {"record", "claim"} /\ req[r].at # "record"
       /\ req[r].inst \in live' /\ x.inst = NoInstance => registry'[req[r].ws] = req[r].inst
       /\ \A q \in Requests : req[q].at \in {"record", "claim"} => x.victim # req[q].inst
  BY <1>1, <1>4 DEF Pop, IInv, Fit, Launched, Placed, InStop, Killing, NotYetClaimed, TypeOK, Locals, NoInstance
<1> HIDE DEF x
<1> QED BY <1>2, <1>3, <1>4, <1>5, <1>6, <1>7, <1>8, <1>9, <1>10, RequestStep

LEMMA UnlinkInv ==
  ASSUME IInv, NEW r \in Requests, Unlink(r)
  PROVE  IInv'
<1> DEFINE x == [req[r] EXCEPT !.at = req[r].back]
<1>1. TypeOK /\ (\A q \in Requests : Fit(q, req[q])) /\ req[r] \in Locals /\ 0 \in Known
  BY DEF IInv, TypeOK, Known
<1>2. req' = [req EXCEPT ![r] = x] /\ made' = made /\ life' = life
  BY <1>1 DEF Unlink, Go, Return, world, TypeOK
<1>3. x \in Locals
  BY <1>1, SMT, ZenonT(40) DEF Unlink, Locals, Places, Fit, Placed, Launched, InStop, Killing
<1>4. /\ live' \subseteq live /\ bound' \subseteq Known \ {NoInstance}
      /\ socket' \in [Workspaces -> Known] /\ marker' \in [Workspaces -> Known]
      /\ lastUsed' \in [Workspaces -> {"none", "fresh", "expired"}]
      /\ table' \subseteq table /\ \A i \in table : i \in live' => i \in table'
  BY <1>1 DEF Unlink, Clear, world, files, TypeOK, Fit, Dead, NoInstance
<1>5. /\ registry' \in [Workspaces -> Known]
      /\ \A w \in Workspaces :
           registry'[w] = registry[w] \/ (registry'[w] = NoInstance /\ registry[w] \notin live')
  BY <1>1 DEF Unlink, TypeOK, Fit, Dead, NoInstance, world
<1>6. /\ lock' \in [Workspaces -> Requests \cup {Nobody}]
      /\ \A q \in Requests : q # r /\ Holds(req[q]) => lock'[req[q].ws] = q
      /\ Holds(x) => lock'[x.ws] = r
  BY <1>1 DEF Unlink, TypeOK, Fit, Placed, Holds, InStop, Killing, Locals
<1>7. Placed(x) /\ Launched(x)
  BY <1>1 DEF Unlink, Fit, Placed, Launched, Holds, InStop, Killing, Locals
<1>8. Dead(x, live')
  BY <1>1 DEF Unlink, Fit, Dead, Launched, Placed, InStop, Killing, Locals, world
<1>9. Owns(x, live', registry')
  BY <1>1 DEF Unlink, Fit, Owns, Placed, Launched, Vacant, Holds, InStop, Killing, Locals, TypeOK, NoInstance, world
<1>10. /\ x.inst = req[r].inst /\ x.at \notin {"record", "claim"} /\ req[r].at # "record"
       /\ req[r].inst \in live' /\ x.inst = NoInstance => registry'[req[r].ws] = req[r].inst
       /\ \A q \in Requests : req[q].at \in {"record", "claim"} => x.victim # req[q].inst
  BY <1>1, <1>4 DEF Unlink, IInv, Fit, Launched, Placed, InStop, Killing, NotYetClaimed, TypeOK, Locals, NoInstance
<1> HIDE DEF x
<1> QED BY <1>2, <1>3, <1>4, <1>5, <1>6, <1>7, <1>8, <1>9, <1>10, RequestStep

LEMMA ReleaseInv ==
  ASSUME IInv, NEW r \in Requests, Release(r)
  PROVE  IInv'
<1> DEFINE x == [req[r] EXCEPT !.at = "unuse"]
<1>1. TypeOK /\ (\A q \in Requests : Fit(q, req[q])) /\ req[r] \in Locals /\ 0 \in Known
  BY DEF IInv, TypeOK, Known
<1>2. req' = [req EXCEPT ![r] = x] /\ made' = made /\ life' = life
  BY <1>1 DEF Release, Go, Return, world, TypeOK
<1>3. x \in Locals
  BY <1>1, SMT, ZenonT(40) DEF Release, Locals, Places, Fit, Placed, Launched, InStop, Killing
<1>4. /\ live' \subseteq live /\ bound' \subseteq Known \ {NoInstance}
      /\ socket' \in [Workspaces -> Known] /\ marker' \in [Workspaces -> Known]
      /\ lastUsed' \in [Workspaces -> {"none", "fresh", "expired"}]
      /\ table' \subseteq table /\ \A i \in table : i \in live' => i \in table'
  BY <1>1 DEF Release, Clear, world, files, TypeOK, Fit, Dead, NoInstance
<1>5. /\ registry' \in [Workspaces -> Known]
      /\ \A w \in Workspaces :
           registry'[w] = registry[w] \/ (registry'[w] = NoInstance /\ registry[w] \notin live')
  BY <1>1 DEF Release, TypeOK, Fit, Dead, NoInstance, world
<1>6. /\ lock' \in [Workspaces -> Requests \cup {Nobody}]
      /\ \A q \in Requests : q # r /\ Holds(req[q]) => lock'[req[q].ws] = q
      /\ Holds(x) => lock'[x.ws] = r
  BY <1>1 DEF Release, TypeOK, Fit, Placed, Holds, InStop, Killing, Locals
<1>7. Placed(x) /\ Launched(x)
  BY <1>1 DEF Release, Fit, Placed, Launched, Holds, InStop, Killing, Locals
<1>8. Dead(x, live')
  BY <1>1 DEF Release, Fit, Dead, Launched, Placed, InStop, Killing, Locals, world
<1>9. Owns(x, live', registry')
  BY <1>1 DEF Release, Fit, Owns, Placed, Launched, Vacant, Holds, InStop, Killing, Locals, TypeOK, NoInstance, world
<1>10. /\ x.inst = req[r].inst /\ x.at \notin {"record", "claim"} /\ req[r].at # "record"
       /\ req[r].inst \in live' /\ x.inst = NoInstance => registry'[req[r].ws] = req[r].inst
       /\ \A q \in Requests : req[q].at \in {"record", "claim"} => x.victim # req[q].inst
  BY <1>1, <1>4 DEF Release, IInv, Fit, Launched, Placed, InStop, Killing, NotYetClaimed, TypeOK, Locals, NoInstance
<1> HIDE DEF x
<1> QED BY <1>2, <1>3, <1>4, <1>5, <1>6, <1>7, <1>8, <1>9, <1>10, RequestStep

LEMMA UnuseEnds ==
  ASSUME IInv, NEW r \in Requests, Unuse(r), req[r].then = "idle"
  PROVE  IInv'
<1> DEFINE x == Idle
<1>1. TypeOK /\ (\A q \in Requests : Fit(q, req[q])) /\ req[r] \in Locals /\ 0 \in Known
  BY DEF IInv, TypeOK, Known
<1>2. req' = [req EXCEPT ![r] = x] /\ made' = made /\ life' = life
  BY <1>1 DEF Unuse, Go, Return, world, TypeOK
<1>3. x \in Locals
  BY <1>1, IdleFits DEF Unuse, Locals, Places, Fit, Placed, Launched, InStop, Killing
<1>4. /\ live' \subseteq live /\ bound' \subseteq Known \ {NoInstance}
      /\ socket' \in [Workspaces -> Known] /\ marker' \in [Workspaces -> Known]
      /\ lastUsed' \in [Workspaces -> {"none", "fresh", "expired"}]
      /\ table' \subseteq table /\ \A i \in table : i \in live' => i \in table'
  BY <1>1 DEF Unuse, Clear, world, files, TypeOK, Fit, Dead, NoInstance
<1>5. /\ registry' \in [Workspaces -> Known]
      /\ \A w \in Workspaces :
           registry'[w] = registry[w] \/ (registry'[w] = NoInstance /\ registry[w] \notin live')
  BY <1>1 DEF Unuse, TypeOK, Fit, Dead, NoInstance, world
<1>6. /\ lock' \in [Workspaces -> Requests \cup {Nobody}]
      /\ \A q \in Requests : q # r /\ Holds(req[q]) => lock'[req[q].ws] = q
      /\ Holds(x) => lock'[x.ws] = r
  BY <1>1, IdleFits DEF Unuse, TypeOK, Fit, Placed, Holds, InStop, Killing, Locals
<1>7. Placed(x) /\ Launched(x)
  BY <1>1, IdleFits DEF Unuse, Fit, Placed, Launched, Holds, InStop, Killing, Locals
<1>8. Dead(x, live')
  BY <1>1, IdleFits DEF Unuse, Fit, Dead, Launched, Placed, InStop, Killing, Locals, world
<1>9. Owns(x, live', registry')
  BY <1>1, IdleFits DEF Unuse, Fit, Owns, Placed, Launched, Vacant, Holds, InStop, Killing, Locals, TypeOK, NoInstance, world
<1>10. /\ x.inst = req[r].inst /\ x.at \notin {"record", "claim"} /\ req[r].at # "record"
       /\ req[r].inst \in live' /\ x.inst = NoInstance => registry'[req[r].ws] = req[r].inst
       /\ \A q \in Requests : req[q].at \in {"record", "claim"} => x.victim # req[q].inst
  BY <1>1, <1>4, IdleFits DEF Unuse, IInv, Fit, Launched, Placed, InStop, Killing, NotYetClaimed, TypeOK, Locals, NoInstance
<1> HIDE DEF x
<1> QED BY <1>2, <1>3, <1>4, <1>5, <1>6, <1>7, <1>8, <1>9, <1>10, RequestStep

LEMMA UnuseReturns ==
  ASSUME IInv, NEW r \in Requests, Unuse(r), req[r].then # "idle"
  PROVE  IInv'
<1> DEFINE x == [req[r] EXCEPT !.at = req[r].then]
<1>1. TypeOK /\ (\A q \in Requests : Fit(q, req[q])) /\ req[r] \in Locals /\ 0 \in Known
  BY DEF IInv, TypeOK, Known
<1>2. req' = [req EXCEPT ![r] = x] /\ made' = made /\ life' = life
  BY <1>1 DEF Unuse, Go, Return, world, TypeOK
<1>3. x \in Locals
  BY <1>1, SMT, ZenonT(40) DEF Unuse, Locals, Places, Fit, Placed, Launched, InStop, Killing
<1>4. /\ live' \subseteq live /\ bound' \subseteq Known \ {NoInstance}
      /\ socket' \in [Workspaces -> Known] /\ marker' \in [Workspaces -> Known]
      /\ lastUsed' \in [Workspaces -> {"none", "fresh", "expired"}]
      /\ table' \subseteq table /\ \A i \in table : i \in live' => i \in table'
  BY <1>1 DEF Unuse, Clear, world, files, TypeOK, Fit, Dead, NoInstance
<1>5. /\ registry' \in [Workspaces -> Known]
      /\ \A w \in Workspaces :
           registry'[w] = registry[w] \/ (registry'[w] = NoInstance /\ registry[w] \notin live')
  BY <1>1 DEF Unuse, TypeOK, Fit, Dead, NoInstance, world
<1>6. /\ lock' \in [Workspaces -> Requests \cup {Nobody}]
      /\ \A q \in Requests : q # r /\ Holds(req[q]) => lock'[req[q].ws] = q
      /\ Holds(x) => lock'[x.ws] = r
  BY <1>1 DEF Unuse, TypeOK, Fit, Placed, Holds, InStop, Killing, Locals
<1>7. Placed(x) /\ Launched(x)
  BY <1>1 DEF Unuse, Fit, Placed, Launched, Holds, InStop, Killing, Locals
<1>8. Dead(x, live')
  BY <1>1 DEF Unuse, Fit, Dead, Launched, Placed, InStop, Killing, Locals, world
<1>9. Owns(x, live', registry')
  BY <1>1 DEF Unuse, Fit, Owns, Placed, Launched, Vacant, Holds, InStop, Killing, Locals, TypeOK, NoInstance, world
<1>10. /\ x.inst = req[r].inst /\ x.at \notin {"record", "claim"} /\ req[r].at # "record"
       /\ req[r].inst \in live' /\ x.inst = NoInstance => registry'[req[r].ws] = req[r].inst
       /\ \A q \in Requests : req[q].at \in {"record", "claim"} => x.victim # req[q].inst
  BY <1>1, <1>4 DEF Unuse, IInv, Fit, Launched, Placed, InStop, Killing, NotYetClaimed, TypeOK, Locals, NoInstance
<1> HIDE DEF x
<1> QED BY <1>2, <1>3, <1>4, <1>5, <1>6, <1>7, <1>8, <1>9, <1>10, RequestStep

LEMMA ReleaseConflictCloses ==
  ASSUME IInv, NEW r \in Requests, ReleaseConflict(r), req[r].kind = "close"
  PROVE  IInv'
<1> DEFINE x == [req[r] EXCEPT !.at = "exit"]
<1>1. TypeOK /\ (\A q \in Requests : Fit(q, req[q])) /\ req[r] \in Locals /\ 0 \in Known
  BY DEF IInv, TypeOK, Known
<1>2. req' = [req EXCEPT ![r] = x] /\ made' = made /\ life' = life
  BY <1>1 DEF ReleaseConflict, Go, Return, world, TypeOK
<1>3. x \in Locals
  BY <1>1, SMT, ZenonT(40) DEF ReleaseConflict, Locals, Places, Fit, Placed, Launched, InStop, Killing
<1>4. /\ live' \subseteq live /\ bound' \subseteq Known \ {NoInstance}
      /\ socket' \in [Workspaces -> Known] /\ marker' \in [Workspaces -> Known]
      /\ lastUsed' \in [Workspaces -> {"none", "fresh", "expired"}]
      /\ table' \subseteq table /\ \A i \in table : i \in live' => i \in table'
  BY <1>1 DEF ReleaseConflict, Clear, world, files, TypeOK, Fit, Dead, NoInstance
<1>5. /\ registry' \in [Workspaces -> Known]
      /\ \A w \in Workspaces :
           registry'[w] = registry[w] \/ (registry'[w] = NoInstance /\ registry[w] \notin live')
  BY <1>1 DEF ReleaseConflict, TypeOK, Fit, Dead, NoInstance, world
<1>6. /\ lock' \in [Workspaces -> Requests \cup {Nobody}]
      /\ \A q \in Requests : q # r /\ Holds(req[q]) => lock'[req[q].ws] = q
      /\ Holds(x) => lock'[x.ws] = r
  BY <1>1 DEF ReleaseConflict, TypeOK, Fit, Placed, Holds, InStop, Killing, Locals
<1>7. Placed(x) /\ Launched(x)
  BY <1>1 DEF ReleaseConflict, Fit, Placed, Launched, Holds, InStop, Killing, Locals
<1>8. Dead(x, live')
  BY <1>1 DEF ReleaseConflict, Fit, Dead, Launched, Placed, InStop, Killing, Locals, world
<1>9. Owns(x, live', registry')
  BY <1>1 DEF ReleaseConflict, Fit, Owns, Placed, Launched, Vacant, Holds, InStop, Killing, Locals, TypeOK, NoInstance, world
<1>10. /\ x.inst = req[r].inst /\ x.at \notin {"record", "claim"} /\ req[r].at # "record"
       /\ req[r].inst \in live' /\ x.inst = NoInstance => registry'[req[r].ws] = req[r].inst
       /\ \A q \in Requests : req[q].at \in {"record", "claim"} => x.victim # req[q].inst
  BY <1>1, <1>4 DEF ReleaseConflict, IInv, Fit, Launched, Placed, InStop, Killing, NotYetClaimed, TypeOK, Locals, NoInstance
<1> HIDE DEF x
<1> QED BY <1>2, <1>3, <1>4, <1>5, <1>6, <1>7, <1>8, <1>9, <1>10, RequestStep

LEMMA LockInv ==
  ASSUME IInv, NEW r \in Requests, Lock(r)
  PROVE  IInv'
<1> DEFINE x == [req[r] EXCEPT !.at = "check"]
<1>1. TypeOK /\ (\A q \in Requests : Fit(q, req[q])) /\ req[r] \in Locals /\ 0 \in Known
  BY DEF IInv, TypeOK, Known
<1>2. req' = [req EXCEPT ![r] = x] /\ made' = made /\ life' = life
  BY <1>1 DEF Lock, Go, Return, world, TypeOK
<1>3. x \in Locals
  BY <1>1, SMT, ZenonT(40) DEF Lock, Locals, Places, Fit, Placed, Launched, InStop, Killing
<1>4. /\ live' \subseteq live /\ bound' \subseteq Known \ {NoInstance}
      /\ socket' \in [Workspaces -> Known] /\ marker' \in [Workspaces -> Known]
      /\ lastUsed' \in [Workspaces -> {"none", "fresh", "expired"}]
      /\ table' \subseteq table /\ \A i \in table : i \in live' => i \in table'
  BY <1>1 DEF Lock, Clear, world, files, TypeOK, Fit, Dead, NoInstance
<1>5. /\ registry' \in [Workspaces -> Known]
      /\ \A w \in Workspaces :
           registry'[w] = registry[w] \/ (registry'[w] = NoInstance /\ registry[w] \notin live')
  BY <1>1 DEF Lock, TypeOK, Fit, Dead, NoInstance, world
<1>6. /\ lock' \in [Workspaces -> Requests \cup {Nobody}]
      /\ \A q \in Requests : q # r /\ Holds(req[q]) => lock'[req[q].ws] = q
      /\ Holds(x) => lock'[x.ws] = r
  BY <1>1, NobodyAssumption DEF Lock, TypeOK, Fit, Placed, Holds, InStop, Killing, Locals
<1>7. Placed(x) /\ Launched(x)
  BY <1>1 DEF Lock, Fit, Placed, Launched, Holds, InStop, Killing, Locals
<1>8. Dead(x, live')
  BY <1>1 DEF Lock, Fit, Dead, Launched, Placed, InStop, Killing, Locals, world
<1>9. Owns(x, live', registry')
  BY <1>1 DEF Lock, Fit, Owns, Placed, Launched, Vacant, Holds, InStop, Killing, Locals, TypeOK, NoInstance, world
<1>10. /\ x.inst = req[r].inst /\ x.at \notin {"record", "claim"} /\ req[r].at # "record"
       /\ req[r].inst \in live' /\ x.inst = NoInstance => registry'[req[r].ws] = req[r].inst
       /\ \A q \in Requests : req[q].at \in {"record", "claim"} => x.victim # req[q].inst
  BY <1>1, <1>4 DEF Lock, IInv, Fit, Launched, Placed, InStop, Killing, NotYetClaimed, TypeOK, Locals, NoInstance
<1> HIDE DEF x
<1> QED BY <1>2, <1>3, <1>4, <1>5, <1>6, <1>7, <1>8, <1>9, <1>10, RequestStep

LEMMA UnuseInv ==
  ASSUME IInv, NEW r \in Requests, Unuse(r)
  PROVE  IInv'
BY UnuseEnds, UnuseReturns

LEMMA ReleaseConflictInv ==
  ASSUME IInv, NEW r \in Requests, ReleaseConflict(r)
  PROVE  IInv'
<1>1. CASE req[r].kind = "close"
  BY <1>1, ReleaseConflictCloses
<1>2. CASE req[r].kind # "close"
  <2>1. Finish(r) /\ UNCHANGED <<made, live, bound, socket, marker, table, registry, lastUsed, life>>
    BY <1>2 DEF ReleaseConflict, world, files
  <2>2. req[r].inst \notin live /\ req[r].at # "record"
    BY DEF ReleaseConflict, IInv, TypeOK, Fit, Launched, InStop, NoInstance
  <2> QED BY <2>1, <2>2, FinishStep DEF IInv, TypeOK
<1> QED BY <1>1, <1>2

-----------------------------------------------------------------------------
(* The three steps that bring a process in.                                *)
LEMMA LaunchInv ==
  ASSUME IInv, NEW r \in Requests, Launch(r)
  PROVE  IInv'
<1> DEFINE n == Len(made) + 1
           x == [req[r] EXCEPT !.at = "record", !.inst = n]
           rec == [ws |-> req[r].ws, project |-> req[r].project, life |-> life]
<1>1. /\ TypeOK /\ (\A q \in Requests : Fit(q, req[q])) /\ req[r] \in Locals
      /\ 0 \in Known /\ Len(made) \in Nat
      /\ made \in Seq([ws : Workspaces, project : Projects, life : 1 .. MaxLives])
  BY DEF IInv, TypeOK, Known
<1>2. /\ req' = [req EXCEPT ![r] = x] /\ life' = life /\ lock' = lock /\ registry' = registry
      /\ table' = table /\ bound' = bound /\ lastUsed' = lastUsed
      /\ live' = (live \ {marker[req[r].ws]}) \cup {n}
      /\ made' = Append(made, rec)
  BY <1>1 DEF Launch, TypeOK
<1>3. req[r].kind = "start" /\ req[r].ws \in Workspaces /\ req[r].project \in Projects
  BY <1>1 DEF Launch, Fit, Placed, Locals
<1>4. rec \in [ws : Workspaces, project : Projects, life : 1 .. MaxLives]
  BY <1>1, <1>3 DEF TypeOK
<1>5. /\ made' \in Seq([ws : Workspaces, project : Projects, life : 1 .. MaxLives])
      /\ Len(made') = n /\ made'[n] = rec /\ \A i \in 1 .. Len(made) : made'[i] = made[i]
  <2> HIDE DEF rec
  <2> QED BY <1>1, <1>2, <1>4
<1>6. Known \subseteq Known' /\ n \in Known' \ Known /\ Known' = Known \cup {n} /\ n # NoInstance
  BY <1>1, <1>5 DEF Known, NoInstance
<1>7. \A i \in Known \ {NoInstance} : made'[i] = made[i]
  BY <1>1, <1>5 DEF Known, NoInstance
<1>8. /\ \A q \in Requests : q # r => req'[q] = req[q]
      /\ req'[r] = x
  BY <1>1, <1>2 DEF TypeOK
<1>9. /\ x.at = "record" /\ x.inst = n /\ x.kind = req[r].kind /\ x.ws = req[r].ws
      /\ x.project = req[r].project /\ x.victim = req[r].victim /\ x.then = req[r].then
      /\ x.back = req[r].back /\ x.target = req[r].target /\ x.expired = req[r].expired
      /\ x \in Locals' /\ Locals \subseteq Locals' /\ req[r].inst = NoInstance
  <2>1. Locals \subseteq Locals'
    BY <1>6 DEF Locals
  <2>2. x \in Locals'
    BY <1>1, <1>6, SMT, ZenonT(40) DEF Locals, Places
  <2>3. req[r].inst = NoInstance
    BY <1>1 DEF Launch, Fit, Launched
  <2> QED BY <1>1, <2>1, <2>2, <2>3 DEF Locals
<1>10. TypeOK'
  <2> HIDE DEF x, n
  <2>1. req' \in [Requests -> Locals']
    BY <1>1, <1>2, <1>9 DEF TypeOK
  <2>2. /\ live' \subseteq Known' \ {NoInstance} /\ bound' \subseteq Known' \ {NoInstance}
        /\ table' \subseteq Known' \ {NoInstance}
    BY <1>1, <1>2, <1>6 DEF TypeOK
  <2>3. socket' \in [Workspaces -> Known'] /\ marker' \in [Workspaces -> Known']
    BY <1>1, <1>6 DEF Launch, Clear, TypeOK, NoInstance
  <2>4. registry' \in [Workspaces -> Known']
    BY <1>1, <1>2, <1>6 DEF TypeOK
  <2>5. Len(made') <= MaxLaunches
    BY <1>1, <1>5, BoundsAssumption DEF Launch, n
  <2> QED BY <1>1, <1>2, <1>5, <2>1, <2>2, <2>3, <2>4, <2>5 DEF TypeOK
<1>11. \A q \in Requests : req[q].inst \in Known /\ req[q].victim \in Known
  BY <1>1 DEF TypeOK, Locals
<1> HIDE DEF x
<1>12. Fit(r, req[r])'
  <2>1. Placed(req[r])'
    BY <1>1, <1>3, <1>8, <1>9 DEF Placed, InStop, Killing
  <2>2. Launched(req[r])'
    <3>1. made'[n].ws = req[r].ws /\ made'[n].life = life /\ n # NoInstance
      BY <1>5, <1>6
    <3>2. req[r].victim # NoInstance => made'[req[r].victim].life = life
      BY <1>1, <1>7, <1>11 DEF Fit, Launched
    <3> QED BY <3>1, <3>2, <1>2, <1>3, <1>8, <1>9 DEF Launched, Holds, InStop, Killing
  <2>3. Owns(req[r], live, registry)' /\ lock'[req'[r].ws] = r
    BY <1>1, <1>2, <1>3, <1>8, <1>9 DEF Launch, Fit, Owns, Vacant, Holds
  <2>4. Dead(req[r], live)'
    BY <1>8, <1>9 DEF Dead
  <2> QED BY <2>1, <2>2, <2>3, <2>4 DEF Fit
<1>13. \A q \in Requests : q # r => Fit(q, req[q])'
  <2> SUFFICES ASSUME NEW q \in Requests, q # r PROVE Fit(q, req[q])'
    OBVIOUS
  <2>1. Fit(q, req[q]) /\ req'[q] = req[q]
    BY <1>1, <1>8
  <2>2. Placed(req[q])' /\ (Holds(req[q]) => lock[req[q].ws] = q)'
    BY <2>1, <1>2 DEF Fit, Placed, Holds, InStop, Killing
  <2>3. Launched(req[q])'
    BY <2>1, <1>2, <1>7, <1>11, SMT, ZenonT(40) DEF Fit, Launched, Holds, InStop, Killing
  <2>4. Dead(req[q], live)'
    BY <2>1, <1>2, <1>6, <1>11 DEF Fit, Dead
  <2>5. Owns(req[q], live, registry)'
    BY <2>1, <1>2, <1>6, <1>11 DEF Fit, Owns, Vacant, Holds, InStop, Killing
  <2> QED BY <2>2, <2>3, <2>4, <2>5 DEF Fit
<1>14. OneLauncher'
  BY <1>6, <1>8, <1>9, <1>11 DEF IInv, OneLauncher
<1>15. OfThisLife'
  <2>1. \A i \in Known' \ {NoInstance} : made'[i].life <= life
    BY <1>1, <1>5, <1>6, <1>7 DEF IInv, OfThisLife, TypeOK
  <2>2. \A w \in Workspaces : registry[w] \in Known
    BY <1>1 DEF TypeOK
  <2> QED BY <1>2, <1>7, <2>1, <2>2 DEF IInv, OfThisLife
<1>16. NotYetClaimed'
  <2>1. \A w \in Workspaces : registry[w] \in Known
    BY <1>1 DEF TypeOK
  <2>2. \A q \in Requests : req'[q].victim = req[q].victim
    BY <1>8, <1>9
  <2>3. n \notin Known
    BY <1>6
  <2> HIDE DEF n
  <2> QED BY <1>2, <1>8, <1>9, <1>11, <2>1, <2>2, <2>3 DEF IInv, NotYetClaimed
<1>17. InTable' /\ NoneForgotten'
  <2> SUFFICES ASSUME NEW i \in live', made'[i].life = life
               PROVE  /\ i \notin table => \E q \in Requests : req'[q].at = "record" /\ req'[q].inst = i
                      /\ registry[made'[i].ws] = i \/ \E q \in Requests : req'[q].inst = i
    BY <1>2 DEF InTable, NoneForgotten
  <2>1. CASE i = n
    BY <2>1, <1>8, <1>9
  <2>2. CASE i # n
    <3>1. i \in live /\ i \in Known \ {NoInstance} /\ made[i] = made'[i]
      BY <2>2, <1>1, <1>2, <1>7 DEF TypeOK
    <3>2. i \notin table => \E q \in Requests : q # r /\ req[q].at = "record" /\ req[q].inst = i
      BY <3>1 DEF IInv, InTable, Launch
    <3>3. registry[made[i].ws] = i \/ \E q \in Requests : q # r /\ req[q].inst = i
      BY <3>1, <1>9 DEF IInv, NoneForgotten
    <3> QED BY <3>1, <3>2, <3>3, <1>8
  <2> QED BY <2>1, <2>2
<1> QED BY <1>10, <1>12, <1>13, <1>14, <1>15, <1>16, <1>17 DEF IInv

LEMMA RecordInv ==
  ASSUME IInv, NEW r \in Requests, Record(r)
  PROVE  IInv'
<1> DEFINE x == [req[r] EXCEPT !.at = "claim"]
<1>1. TypeOK /\ (\A q \in Requests : Fit(q, req[q])) /\ req[r] \in Locals
  BY DEF IInv, TypeOK
<1>2. /\ req' = [req EXCEPT ![r] = x] /\ made' = made /\ live' = live /\ bound' = bound
      /\ socket' = socket /\ registry' = registry /\ lastUsed' = lastUsed /\ lock' = lock
      /\ life' = life /\ table' = table \cup {req[r].inst}
  BY <1>1 DEF Record, Go, world, TypeOK
<1>3. Known' = Known /\ Locals' = Locals /\ x \in Locals
  BY <1>1, <1>2 DEF Known, Locals, Places
<1>4. /\ x.at = "claim" /\ x.inst = req[r].inst /\ x.kind = req[r].kind /\ x.ws = req[r].ws
      /\ x.project = req[r].project /\ x.victim = req[r].victim /\ x.then = req[r].then
      /\ x.back = req[r].back /\ x.target = req[r].target /\ req[r].at = "record"
      /\ req[r].inst \in Known \ {NoInstance}
  BY <1>1 DEF Record, Locals, Fit, Launched
<1>5. TypeOK'
  BY <1>1, <1>2, <1>3, <1>4 DEF Record, TypeOK
<1> HIDE DEF x
<1>6. /\ \A q \in Requests : q # r => req'[q] = req[q]
      /\ req'[r] = x
  BY <1>1, <1>2 DEF TypeOK
<1>7. Fit(r, req[r])'
  BY <1>1, <1>2, <1>4, <1>6
  DEF Fit, Placed, Launched, Dead, Owns, Vacant, Holds, InStop, Killing
<1>8. \A q \in Requests : q # r => Fit(q, req[q])'
  <2> SUFFICES ASSUME NEW q \in Requests, q # r PROVE Fit(q, req[q])'
    OBVIOUS
  <2>1. Fit(q, req[q]) /\ req'[q] = req[q]
    BY <1>1, <1>6
  <2> QED BY <2>1, <1>2
          DEF Fit, Placed, Launched, Dead, Owns, Vacant, Holds, InStop, Killing
<1>9. OneLauncher'
  BY <1>4, <1>6 DEF IInv, OneLauncher
<1>10. OfThisLife'
  BY <1>2, <1>3 DEF IInv, OfThisLife
<1>11. NotYetClaimed'
  BY <1>2, <1>4, <1>6 DEF IInv, NotYetClaimed
<1>12. InTable'
  BY <1>2, <1>4, <1>6 DEF IInv, InTable
<1>13. NoneForgotten'
  BY <1>2, <1>4, <1>6 DEF IInv, NoneForgotten
<1> QED BY <1>5, <1>7, <1>8, <1>9, <1>10, <1>11, <1>12, <1>13 DEF IInv

LEMMA ClaimInv ==
  ASSUME IInv, NEW r \in Requests, Claim(r)
  PROVE  IInv'
<1> DEFINE x == [req[r] EXCEPT !.at = "wait"]
<1>1. TypeOK /\ (\A q \in Requests : Fit(q, req[q])) /\ req[r] \in Locals
  BY DEF IInv, TypeOK
<1>2. /\ req' = [req EXCEPT ![r] = x] /\ made' = made /\ live' = live /\ bound' = bound
      /\ socket' = socket /\ marker' = marker /\ lastUsed' = lastUsed /\ lock' = lock
      /\ life' = life /\ table' = table
      /\ registry' = [registry EXCEPT ![req[r].ws] = req[r].inst]
  BY <1>1 DEF Claim, Go, world, files, TypeOK
<1>3. Known' = Known /\ Locals' = Locals /\ x \in Locals
  BY <1>1, <1>2 DEF Known, Locals, Places
<1>4. /\ x.at = "wait" /\ x.inst = req[r].inst /\ x.kind = req[r].kind /\ x.ws = req[r].ws
      /\ x.project = req[r].project /\ x.victim = req[r].victim /\ x.then = req[r].then
      /\ x.back = req[r].back /\ x.target = req[r].target /\ req[r].at = "claim"
      /\ req[r].inst \in Known \ {NoInstance}
      /\ req[r].ws \in Workspaces /\ Holds(req[r])
      /\ made[req[r].inst].ws = req[r].ws /\ made[req[r].inst].life = life
  BY <1>1 DEF Claim, Locals, Fit, Launched, Placed
<1>5. TypeOK'
  BY <1>1, <1>2, <1>3, <1>4 DEF TypeOK
<1> HIDE DEF x
<1>6. /\ \A q \in Requests : q # r => req'[q] = req[q]
      /\ req'[r] = x
      /\ registry'[req[r].ws] = req[r].inst
      /\ \A w \in Workspaces : w # req[r].ws => registry'[w] = registry[w]
  BY <1>1, <1>2, <1>4 DEF TypeOK
<1>7. Fit(r, req[r])'
  BY <1>1, <1>2, <1>4, <1>6
  DEF Fit, Placed, Launched, Dead, Owns, Vacant, Holds, InStop, Killing
<1>8. \A q \in Requests : q # r => Fit(q, req[q])'
  <2> SUFFICES ASSUME NEW q \in Requests, q # r PROVE Fit(q, req[q])'
    OBVIOUS
  <2>1. Fit(q, req[q]) /\ req'[q] = req[q]
    BY <1>1, <1>6
  <2>2. Holds(req[q]) => req[q].ws # req[r].ws /\ req[q].ws \in Workspaces
    BY <2>1, <1>1, <1>4 DEF Fit, Placed, Holds
  <2>3. Owns(req[q], live, registry)'
    <3>1. (Vacant(req[q]) => registry[req[q].ws] = NoInstance)'
      BY <2>1, <2>2, <1>6 DEF Fit, Owns, Vacant, Holds, InStop, Killing
    <3>2. req[q].inst # NoInstance => Holds(req[q])
      BY <2>1 DEF Fit, Launched
    <3>3. NoInstance \notin live
      BY <1>1 DEF TypeOK
    <3> QED BY <2>1, <2>2, <3>1, <3>2, <3>3, <1>2, <1>6 DEF Fit, Owns
  <2> QED BY <2>1, <2>3, <1>2 DEF Fit, Placed, Launched, Dead, Holds, InStop, Killing
<1>9. OneLauncher'
  BY <1>4, <1>6 DEF IInv, OneLauncher
<1>10. OfThisLife'
  BY <1>2, <1>3, <1>4, <1>6 DEF IInv, OfThisLife
<1>11. NotYetClaimed'
  <2> SUFFICES ASSUME NEW q \in Requests, q # r, req[q].at \in {"record", "claim"}
               PROVE  /\ \A w \in Workspaces : registry'[w] # req[q].inst
                      /\ \A p \in Requests : req'[p].victim # req[q].inst
    BY <1>4, <1>6 DEF NotYetClaimed
  <2>1. req[q].inst # req[r].inst
    BY <1>4 DEF IInv, OneLauncher
  <2> QED BY <2>1, <1>4, <1>6 DEF IInv, NotYetClaimed
<1>12. InTable'
  BY <1>2, <1>4, <1>6 DEF IInv, InTable
<1>13. NoneForgotten'
  <2> SUFFICES ASSUME NEW i \in live, made[i].life = life, registry'[made[i].ws] # i
               PROVE  \E q \in Requests : req'[q].inst = i
    BY <1>2 DEF NoneForgotten
  <2>1. made[i].ws \in Workspaces
    <3>1. i \in Known \ {NoInstance}
      BY <1>1 DEF TypeOK
    <3> QED BY <3>1, <1>1, KnownMade
  <2>2. registry[made[i].ws] # i
    <3>1. i # NoInstance
      BY <1>1 DEF TypeOK
    <3> QED BY <3>1, <2>1, <1>6 DEF Claim
  <2> QED BY <2>2, <1>4, <1>6 DEF IInv, NoneForgotten
<1> QED BY <1>5, <1>7, <1>8, <1>9, <1>10, <1>11, <1>12, <1>13 DEF IInv

-----------------------------------------------------------------------------
(* The world around the requests.                                          *)
LEMMA WorldStep ==
  ASSUME IInv, UNCHANGED <<made, table, registry, lock, req, life, marker>>,
         live' \subseteq live, bound' \subseteq Known,
         NoInstance \notin bound', socket' \in [Workspaces -> Known],
         lastUsed' \in [Workspaces -> {"none", "fresh", "expired"}]
  PROVE  IInv'
<1>1. Known' = Known
  BY DEF Known
<1>2. Locals' = Locals
  BY <1>1 DEF Locals
<1>3. TypeOK'
  BY <1>1, <1>2 DEF IInv, TypeOK
<1>4. \A r \in Requests : Fit(r, req[r])'
  <2> SUFFICES ASSUME NEW r \in Requests PROVE Fit(r, req[r])'
    OBVIOUS
  <2>1. Fit(r, req[r]) /\ req'[r] = req[r]
    BY DEF IInv
  <2> QED BY <2>1 DEF Fit, Placed, Launched, Dead, Owns, Vacant, Holds, InStop, Killing
<1>5. OneLauncher' /\ OfThisLife' /\ NotYetClaimed'
  BY <1>1 DEF IInv, OneLauncher, OfThisLife, NotYetClaimed
<1>6. InTable' /\ NoneForgotten'
  BY DEF IInv, InTable, NoneForgotten
<1> QED BY <1>3, <1>4, <1>5, <1>6 DEF IInv

LEMMA ListenInv ==
  ASSUME IInv, NEW i \in live, Listen(i)
  PROVE  IInv'
<1>1. TypeOK /\ i \in Known \ {NoInstance}
  BY DEF IInv, TypeOK
<1>2. /\ UNCHANGED <<made, table, registry, lock, req, life, marker>> /\ live' \subseteq live
      /\ bound' \subseteq Known /\ NoInstance \notin bound'
  BY <1>1 DEF Listen, TypeOK
<1>3. /\ socket' \in [Workspaces -> Known]
      /\ lastUsed' \in [Workspaces -> {"none", "fresh", "expired"}]
  BY <1>1 DEF Listen, TypeOK
<1> QED BY <1>2, <1>3, WorldStep

LEMMA DieInv ==
  ASSUME IInv, NEW i \in live, Die(i)
  PROVE  IInv'
BY WorldStep DEF Die, files, IInv, TypeOK

LEMMA AgeInv ==
  ASSUME IInv, NEW w \in Workspaces, Age(w)
  PROVE  IInv'
<1>1. /\ UNCHANGED <<made, table, registry, lock, req, life, marker, socket, bound, live>>
      /\ lastUsed' \in [Workspaces -> {"none", "fresh", "expired"}]
  BY DEF Age, world, files, IInv, TypeOK
<1> QED BY <1>1, WorldStep DEF IInv, TypeOK

LEMMA StutterInv ==
  ASSUME IInv, UNCHANGED vars
  PROVE  IInv'
BY WorldStep DEF vars, IInv, TypeOK

LEMMA NextLifeInv ==
  ASSUME IInv, NextLife
  PROVE  IInv'
<1>1. TypeOK /\ 0 \in Known /\ life \in Nat /\ MaxLives \in Nat
  BY BoundsAssumption DEF IInv, TypeOK, Known
<1>2. /\ made' = made /\ live' = live /\ bound' = bound /\ socket' = socket
      /\ marker' = marker /\ life' = life + 1 /\ table' = {}
      /\ registry' = [w \in Workspaces |-> NoInstance]
      /\ req' = [r \in Requests |-> Idle]
  BY DEF NextLife, world, files
<1>3. Known' = Known
  BY <1>2 DEF Known
<1>4. Locals' = Locals
  BY <1>3 DEF Locals
<1>5. TypeOK'
  BY <1>1, <1>2, <1>3, <1>4, IdleFits DEF NextLife, TypeOK, NoInstance
<1>6. \A r \in Requests : req'[r] = Idle
  BY <1>2
<1>7. \A r \in Requests : Fit(r, req[r])'
  BY <1>1, <1>6, IdleFits
  DEF Fit, Placed, Launched, Dead, Owns, Vacant, Holds, InStop, Killing
<1>8. \A i \in Known \ {NoInstance} : made[i].life \in Int /\ made[i].life <= life
  BY <1>1, KnownMade DEF IInv, OfThisLife
<1>9. OneLauncher' /\ NotYetClaimed'
  BY <1>1, <1>6, IdleFits DEF OneLauncher, NotYetClaimed
<1>10. OfThisLife'
  BY <1>1, <1>2, <1>3, <1>8 DEF OfThisLife
<1>11. live \subseteq Known \ {NoInstance}
  BY <1>1 DEF TypeOK
<1>12. InTable' /\ NoneForgotten'
  BY <1>1, <1>2, <1>8, <1>11 DEF InTable, NoneForgotten
<1> QED BY <1>5, <1>7, <1>9, <1>10, <1>12 DEF IInv

-----------------------------------------------------------------------------
LEMMA InitIInv ==
  ASSUME Init
  PROVE  IInv
<1>1. 0 \in Known /\ Len(made) = 0 /\ made = <<>>
  BY DEF Init, Known
<1>2. TypeOK
  BY <1>1, BoundsAssumption DEF Init, TypeOK, Idle, Locals, Places, NoInstance, Known
<1>3. \A r \in Requests : req[r] = Idle
  BY DEF Init
<1>4. \A r \in Requests : Fit(r, req[r])
  BY <1>2, <1>3, IdleFits
  DEF Fit, Placed, Launched, Dead, Owns, Vacant, Holds, InStop, Killing
<1>5. OneLauncher /\ NotYetClaimed
  BY <1>2, <1>3, IdleFits DEF OneLauncher, NotYetClaimed
<1>6. Known \ {NoInstance} = {}
  BY <1>1 DEF Known, NoInstance
<1>7. OfThisLife /\ InTable /\ NoneForgotten
  BY <1>6 DEF Init, OfThisLife, InTable, NoneForgotten
<1> QED BY <1>2, <1>4, <1>5, <1>7 DEF IInv

LEMMA StepInv ==
  ASSUME IInv, NEW r \in Requests, Step(r)
  PROVE  IInv'
<1>1. CASE \/ CheckNone(r) \/ CheckGone(r) \/ CheckReuse(r) \/ CheckReplace(r)
           \/ List(r) \/ (\E w \in Workspaces : SweepNext(r, w)) \/ SweepDone(r)
           \/ LimitReached(r) \/ LimitPassed(r)
  BY <1>1, CheckNoneInv, CheckGoneInv, CheckReuseInv, CheckReplaceInv, ListInv,
     SweepNextInv, SweepDoneInv, LimitReachedInv, LimitPassedInv
<1>2. CASE \/ RuntimeFails(r) \/ Launch(r) \/ LaunchFails(r) \/ Record(r) \/ RecordFails(r)
           \/ Claim(r) \/ WaitReady(r) \/ WaitFailed(r) \/ WaitTimeout(r) \/ WaitGone(r)
  BY <1>2, RuntimeFailsInv, LaunchInv, LaunchFailsInv, RecordInv, RecordFailsInv,
     ClaimInv, WaitReadyInv, WaitFailedInv, WaitTimeoutInv, WaitGoneInv
<1>3. CASE \/ GiveUp(r) \/ UpdateOwned(r) \/ UpdateReleased(r) \/ Touch(r)
           \/ StopNone(r) \/ StopSome(r) \/ KillAbsent(r) \/ Kill(r) \/ Pop(r) \/ Unlink(r)
           \/ Release(r) \/ ReleaseConflict(r) \/ Unuse(r) \/ Exit(r)
  BY <1>3, GiveUpInv, UpdateOwnedInv, UpdateReleasedInv, TouchInv, StopNoneInv,
     StopSomeInv, KillAbsentInv, KillInv, PopInv, UnlinkInv, ReleaseInv,
     ReleaseConflictInv, UnuseInv, NextLifeInv DEF Exit
<1> QED BY <1>1, <1>2, <1>3, Zenon DEF Step

LEMMA NextIInv ==
  ASSUME IInv, [Next]_vars
  PROVE  IInv'
<1>1. CASE \E r \in Requests, w \in Workspaces :
             \/ \E p \in Projects : BeginStart(r, w, p)
             \/ BeginStop(r, w) \/ BeginUse(r, w)
  BY <1>1, BeginStartInv, BeginStopInv, BeginUseInv
<1>2. CASE \E r \in Requests : BeginClose(r) \/ Lock(r) \/ Step(r)
  BY <1>2, BeginCloseInv, LockInv, StepInv
<1>3. CASE Crash \/ (\E i \in live : Listen(i) \/ Die(i)) \/ (\E w \in Workspaces : Age(w))
  BY <1>3, NextLifeInv, ListenInv, DieInv, AgeInv DEF Crash
<1>4. CASE UNCHANGED vars
  BY <1>4, StutterInv
<1> QED BY <1>1, <1>2, <1>3, <1>4, Zenon DEF Next

LEMMA IInvHolds == Spec => []IInv
<1>1. Init => IInv
  BY InitIInv
<1>2. IInv /\ [Next]_vars => IInv'
  BY NextIInv
<1> QED BY <1>1, <1>2, PTL DEF Spec

-----------------------------------------------------------------------------
(* The registry, the processes and the locals of every request stay within *)
(* their types: an instance number always names a launched process.        *)
THEOREM IdeTypes == Spec => []TypeOK
<1>1. IInv => TypeOK
  BY DEF IInv
<1> QED BY <1>1, IInvHolds, PTL

(* A process of this life is registered or in the hands of its start, so   *)
(* that a stop or the end of the start reaches it.                         *)
THEOREM NoneIsForgotten == Spec => []NoneForgotten
<1>1. IInv => NoneForgotten
  BY DEF IInv
<1> QED BY <1>1, IInvHolds, PTL

(* Only a launch brings a process to life.                                 *)
LEMMA OnlyLaunch ==
  ASSUME Next, NEW j \in live' \ live
  PROVE  \E r \in Requests : Launch(r)
<1>1. ASSUME NEW r \in Requests, Step(r), ~Launch(r)
      PROVE  FALSE
  <2>1. CASE \/ CheckNone(r) \/ CheckGone(r) \/ CheckReuse(r) \/ CheckReplace(r)
             \/ List(r) \/ (\E w \in Workspaces : SweepNext(r, w)) \/ SweepDone(r)
             \/ LimitReached(r) \/ LimitPassed(r)
    BY <2>1 DEF CheckNone, CheckGone, CheckReuse, CheckReplace, List, SweepNext, SweepDone,
       LimitReached, LimitPassed, world
  <2>2. CASE \/ RuntimeFails(r) \/ LaunchFails(r) \/ Record(r) \/ RecordFails(r)
             \/ Claim(r) \/ WaitReady(r) \/ WaitFailed(r) \/ WaitTimeout(r) \/ WaitGone(r)
    BY <2>2 DEF RuntimeFails, LaunchFails, Record, RecordFails, Claim, WaitReady, WaitFailed,
       WaitTimeout, WaitGone, world
  <2>3. CASE \/ GiveUp(r) \/ UpdateOwned(r) \/ UpdateReleased(r) \/ Touch(r)
             \/ StopNone(r) \/ StopSome(r) \/ KillAbsent(r) \/ Kill(r) \/ Pop(r) \/ Unlink(r)
             \/ Release(r) \/ ReleaseConflict(r) \/ Unuse(r) \/ Exit(r)
    BY <2>3 DEF GiveUp, UpdateOwned, UpdateReleased, Touch, StopNone, StopSome, KillAbsent,
       Kill, Pop, Unlink, Release, ReleaseConflict, Unuse, Exit, NextLife, world
  <2> QED BY <1>1, <2>1, <2>2, <2>3, Zenon DEF Step
<1>2. CASE \E r \in Requests, w \in Workspaces :
             \/ \E p \in Projects : BeginStart(r, w, p)
             \/ BeginStop(r, w) \/ BeginUse(r, w)
  BY <1>2 DEF BeginStart, BeginStop, BeginUse, world
<1>3. CASE \E r \in Requests : BeginClose(r) \/ Lock(r)
  BY <1>3 DEF BeginClose, Lock, world
<1>4. CASE Crash \/ (\E i \in live : Listen(i) \/ Die(i)) \/ (\E w \in Workspaces : Age(w))
  BY <1>4 DEF Crash, NextLife, Listen, Die, Age, world
<1> QED BY <1>1, <1>2, <1>3, <1>4, Zenon DEF Next

(* No process is launched beside one of its workspace: in one life by the  *)
(* lock and the invariant, across lives by the marker.                     *)
THEOREM OneProcess == Spec => OneProcessPerWorkspace
<1> DEFINE A == \A j \in live' \ live, i \in live' \cap live :
                  made[i].ws = made'[j].ws => Orphan(i)
<1>1. IInv /\ Next => A
  <2> SUFFICES ASSUME IInv, Next, NEW j \in live' \ live, NEW i \in live' \cap live,
                      made[i].ws = made'[j].ws
               PROVE  Orphan(i)
    OBVIOUS
  <2>1. PICK r \in Requests : Launch(r)
    BY OnlyLaunch
  <2>2. /\ TypeOK /\ Fit(r, req[r]) /\ req[r].at = "launch" /\ Len(made) \in Nat
        /\ made \in Seq([ws : Workspaces, project : Projects, life : 1 .. MaxLives])
    BY <2>1 DEF IInv, TypeOK, Launch
  <2>3. req[r].kind = "start" /\ req[r].ws \in Workspaces /\ registry[req[r].ws] = NoInstance
        /\ lock[req[r].ws] = r /\ req[r].inst = NoInstance
    BY <2>2 DEF Fit, Placed, Launched, Owns, Vacant, Holds
  <2>4. made'[j].ws = req[r].ws
    <3>1. j = Len(made) + 1
      BY <2>1 DEF Launch
    <3> QED BY <3>1, <2>1, <2>2 DEF Launch
  <2>5. i \in Known \ {NoInstance}
    BY <2>2 DEF TypeOK
  <2>6. made[i].life # life
    <3> SUFFICES ASSUME made[i].life = life PROVE FALSE
      OBVIOUS
    <3>1. PICK q \in Requests : req[q].inst = i
      BY <2>3, <2>4, <2>5 DEF IInv, NoneForgotten
    <3>2. req[q].ws = req[r].ws /\ lock[req[q].ws] = q
      BY <3>1, <2>4, <2>5 DEF IInv, Fit, Launched
    <3> QED BY <3>1, <3>2, <2>3, <2>5
  <2>7. made[i].life < life
    <3>1. made[i].life <= life /\ made[i].life \in Int /\ life \in Int
      BY <2>2, <2>5, KnownMade DEF IInv, OfThisLife, TypeOK
    <3> QED BY <3>1, <2>6
  <2>8. marker[made[i].ws] # i
    <3>1. i \notin {marker[req[r].ws]}
      <4>1. live' = (live \ {marker[req[r].ws]}) \cup {Len(made) + 1}
        BY <2>1 DEF Launch
      <4>2. i # Len(made) + 1
        BY <2>2, <2>5 DEF Known, NoInstance
      <4> QED BY <4>1, <4>2
    <3> QED BY <3>1, <2>4
  <2> QED BY <2>7, <2>8 DEF Orphan
<1>2. IInv /\ [Next]_vars => [A]_vars
  BY <1>1
<1> QED BY <1>2, IInvHolds, PTL DEF Spec, OneProcessPerWorkspace

-----------------------------------------------------------------------------
(* What the actions of Step ask for before they change anything, by the    *)
(* place of the request: HolderGoesOn without ENABLED, since each of them  *)
(* is such a condition and assignments.                                    *)
MayGoOn(r) ==
  LET x == req[r]
      owner == registry[x.ws]
      target == registry[x.target]
  IN
  \/ /\ x.at = "check"
     /\ \/ owner = NoInstance
        \/ owner # NoInstance /\ owner \notin table
        \/ owner \in table /\ owner \in live /\ made[owner].project = x.project
        \/ owner \in table /\ (owner \notin live \/ made[owner].project # x.project)
  \/ x.at = "sweeping" /\ (x.expired = {} \/ \E w \in Workspaces : w \in x.expired)
  \/ /\ x.at = "limit"
     /\ \/ Cardinality(Registered) >= MaxInstances
        \/ Cardinality(Registered) < MaxInstances
  \/ x.at = "claim" /\ owner = NoInstance
  \/ /\ x.at = "wait"
     /\ \/ x.inst \in table /\ x.inst \in live /\ Answers(x.ws)
        \/ x.inst \in table /\ x.inst \notin live /\ ~BeingStopped(x.inst)
        \/ x.inst \in table
        \/ x.inst \notin table
  \/ x.at = "update" /\ (owner = x.inst \/ owner # x.inst)
  \/ x.at = "stop" /\ (target = NoInstance \/ target # NoInstance)
  \/ x.at = "kill" /\ (x.victim \notin table \/ x.victim \in table)
  \/ /\ x.at = "release"
     /\ target \in {NoInstance, x.victim} \/ target \notin {NoInstance, x.victim}
  \/ x.at \in {"listing", "launch", "record", "giveup", "touch", "pop", "unlink", "unuse"}
  \/ x.at = "exit" /\ life < MaxLives

(* No action of Step does with less.                                       *)
LEMMA StepMayGoOn ==
  ASSUME NEW r \in Requests, Step(r)
  PROVE  MayGoOn(r)
<1>1. CASE CheckNone(r) \/ CheckGone(r) \/ CheckReuse(r) \/ CheckReplace(r)
  BY <1>1 DEF CheckNone, CheckGone, CheckReuse, CheckReplace, MayGoOn
<1>2. CASE \/ List(r) \/ (\E w \in Workspaces : SweepNext(r, w)) \/ SweepDone(r)
           \/ LimitReached(r) \/ LimitPassed(r)
  BY <1>2 DEF List, SweepNext, SweepDone, LimitReached, LimitPassed, MayGoOn
<1>3. CASE RuntimeFails(r) \/ Launch(r) \/ LaunchFails(r) \/ Record(r) \/ RecordFails(r)
  BY <1>3 DEF RuntimeFails, Launch, LaunchFails, Record, RecordFails, MayGoOn
<1>4. CASE Claim(r) \/ WaitReady(r) \/ WaitFailed(r) \/ WaitTimeout(r) \/ WaitGone(r)
  BY <1>4 DEF Claim, WaitReady, WaitFailed, WaitTimeout, WaitGone, MayGoOn
<1>5. CASE GiveUp(r) \/ UpdateOwned(r) \/ UpdateReleased(r) \/ Touch(r)
  BY <1>5 DEF GiveUp, UpdateOwned, UpdateReleased, Touch, MayGoOn
<1>6. CASE StopNone(r) \/ StopSome(r) \/ KillAbsent(r) \/ Kill(r) \/ Pop(r) \/ Unlink(r)
  BY <1>6 DEF StopNone, StopSome, KillAbsent, Kill, Pop, Unlink, MayGoOn
<1>7. CASE Release(r) \/ ReleaseConflict(r) \/ Unuse(r) \/ Exit(r)
  BY <1>7 DEF Release, ReleaseConflict, Unuse, Exit, NextLife, MayGoOn
<1> QED BY <1>1, <1>2, <1>3, <1>4, <1>5, <1>6, <1>7, Zenon DEF Step

(* Only a close exits, and it began in a life that has a next one.         *)
Closing(x) ==
  /\ x.at = "exit" => x.kind = "close"
  /\ x.kind = "close" => life < MaxLives

ExitInv == \A r \in Requests : Closing(req[r])

LEMMA ExitStep ==
  ASSUME TypeOK, ExitInv, NEW r \in Requests, NEW x,
         req' = [req EXCEPT ![r] = x], life' = life,
         x.at = "exit" => x.kind = "close",
         x.kind = "close" => req[r].kind = "close" \/ life < MaxLives
  PROVE  ExitInv'
<1>1. req \in [Requests -> Locals]
  BY DEF TypeOK
<1>2. \A q \in Requests : req'[q] = IF q = r THEN x ELSE req[q]
  BY <1>1
<1> QED BY <1>2 DEF ExitInv, Closing

LEMMA ExitRests ==
  ASSUME ExitInv, UNCHANGED <<req, life>>
  PROVE  ExitInv'
BY DEF ExitInv, Closing

(* A request that goes on keeps its kind.                                  *)
LEMMA ExitGoes ==
  ASSUME TypeOK, ExitInv, NEW r \in Requests, NEW place, Go(r, place), life' = life,
         place = "exit" => req[r].kind = "close"
  PROVE  ExitInv'
<1> DEFINE x == [req[r] EXCEPT !.at = place]
<1>1. req[r] \in Locals
  BY DEF TypeOK
<1>2. x.at = place /\ x.kind = req[r].kind
  BY <1>1 DEF Locals
<1>3. req' = [req EXCEPT ![r] = x]
  BY DEF Go
<1> HIDE DEF x
<1> QED BY <1>2, <1>3, ExitStep

LEMMA ExitFinishes ==
  ASSUME TypeOK, ExitInv, NEW r \in Requests, req' = [req EXCEPT ![r] = Idle], life' = life
  PROVE  ExitInv'
<1>1. Idle.at # "exit" /\ Idle.kind # "close"
  BY DEF Idle
<1> QED BY <1>1, ExitStep

LEMMA ExitReturns ==
  ASSUME TypeOK, ExitInv, NEW r \in Requests, Return(r), life' = life
  PROVE  ExitInv'
<1>1. req[r].then # "exit"
  BY DEF TypeOK, Locals
<1> QED BY <1>1, ExitGoes, ExitFinishes DEF Return

LEMMA ExitBegins ==
  ASSUME TypeOK, ExitInv, NEW r \in Requests, NEW w \in Workspaces,
         \/ \E p \in Projects : BeginStart(r, w, p)
         \/ BeginStop(r, w) \/ BeginUse(r, w) \/ BeginClose(r)
  PROVE  ExitInv'
<1>1. ASSUME NEW p \in Projects, BeginStart(r, w, p)
      PROVE  ExitInv'
  <2> DEFINE x == [Idle EXCEPT !.at = "locking", !.kind = "start", !.ws = w, !.project = p]
  <2>1. x.at # "exit" /\ x.kind # "close"
    BY DEF Idle
  <2>2. req' = [req EXCEPT ![r] = x] /\ life' = life
    BY <1>1 DEF BeginStart
  <2> HIDE DEF x
  <2> QED BY <2>1, <2>2, ExitStep
<1>2. CASE BeginStop(r, w)
  <2> DEFINE x == [Idle EXCEPT !.at = "stop", !.kind = "stop", !.ws = w,
                               !.target = w, !.then = "idle"]
  <2>1. x.at # "exit" /\ x.kind # "close"
    BY DEF Idle
  <2>2. req' = [req EXCEPT ![r] = x] /\ life' = life
    BY <1>2 DEF BeginStop
  <2> HIDE DEF x
  <2> QED BY <2>1, <2>2, ExitStep
<1>3. CASE BeginUse(r, w)
  <2> DEFINE x == [Idle EXCEPT !.at = "touch", !.kind = "use", !.ws = w]
  <2>1. x.at # "exit" /\ x.kind # "close"
    BY DEF Idle
  <2>2. req' = [req EXCEPT ![r] = x] /\ life' = life
    BY <1>3 DEF BeginUse
  <2> HIDE DEF x
  <2> QED BY <2>1, <2>2, ExitStep
<1>4. CASE BeginClose(r)
  <2> DEFINE x == [Idle EXCEPT !.at = "sweeping", !.kind = "close", !.expired = Registered]
  <2>1. x.at # "exit"
    BY DEF Idle
  <2>2. req' = [req EXCEPT ![r] = x] /\ life' = life /\ life < MaxLives
    BY <1>4 DEF BeginClose
  <2> HIDE DEF x
  <2> QED BY <2>1, <2>2, ExitStep
<1> QED BY <1>1, <1>2, <1>3, <1>4

LEMMA ExitLife ==
  ASSUME NextLife
  PROVE  ExitInv'
BY DEF NextLife, ExitInv, Closing, Idle

(* The steps that give several locals new values at once.                  *)
LEMMA ExitMoves ==
  ASSUME TypeOK, ExitInv, NEW r \in Requests,
         \/ CheckReplace(r) \/ List(r) \/ (\E w \in Workspaces : SweepNext(r, w))
         \/ Launch(r) \/ WaitFailed(r) \/ WaitTimeout(r) \/ StopSome(r)
  PROVE  ExitInv'
<1>1. req \in [Requests -> Locals] /\ req[r] \in Locals
  BY DEF TypeOK
<1>2. life' = life /\ \A q \in Requests \ {r} : req'[q] = req[q]
  BY <1>1 DEF CheckReplace, List, SweepNext, Launch, WaitFailed, WaitTimeout, StopSome
<1>3. req'[r].kind = req[r].kind /\ req'[r].at # "exit"
  <2>1. CASE CheckReplace(r)
    BY <1>1, <2>1 DEF CheckReplace, Locals
  <2>2. CASE List(r)
    BY <1>1, <2>2 DEF List, Locals
  <2>3. CASE \E w \in Workspaces : SweepNext(r, w)
    <3>1. PICK w \in Workspaces : SweepNext(r, w)
      BY <2>3
    <3>2. req'[r] = [req[r] EXCEPT !.at = "stop", !.target = w, !.then = "sweeping",
                                   !.expired = @ \ {w}]
      BY <1>1, <3>1 DEF SweepNext
    <3> QED BY <1>1, <3>2 DEF Locals
  <2>4. CASE Launch(r)
    BY <1>1, <2>4 DEF Launch, Locals
  <2>5. CASE WaitFailed(r)
    BY <1>1, <2>5 DEF WaitFailed, Locals
  <2>6. CASE WaitTimeout(r)
    BY <1>1, <2>6 DEF WaitTimeout, Locals
  <2>7. CASE StopSome(r)
    BY <1>1, <2>7 DEF StopSome, Locals
  <2> QED BY <2>1, <2>2, <2>3, <2>4, <2>5, <2>6, <2>7
<1> QED BY <1>2, <1>3 DEF ExitInv, Closing

(* Where provider.stop returns to is not the exit.                         *)
LEMMA ExitKills ==
  ASSUME TypeOK, ExitInv, NEW r \in Requests,
         KillAbsent(r) \/ Kill(r) \/ Pop(r) \/ Unlink(r)
  PROVE  ExitInv'
<1>1. req[r].back # "exit" /\ life' = life
  BY DEF TypeOK, Locals, KillAbsent, Kill, Pop, Unlink
<1>2. CASE KillAbsent(r) \/ Unlink(r)
  <2>1. Go(r, req[r].back)
    BY <1>2 DEF KillAbsent, Unlink
  <2> QED BY <1>1, <2>1, ExitGoes
<1>3. CASE Kill(r)
  BY <1>1, <1>3, ExitGoes DEF Kill
<1>4. CASE Pop(r)
  <2>1. Go(r, IF req[r].victim \in table THEN "unlink" ELSE req[r].back)
    BY <1>4 DEF Pop
  <2> QED BY <1>1, <2>1, ExitGoes
<1> QED BY <1>2, <1>3, <1>4

LEMMA ExitOfStep ==
  ASSUME TypeOK, ExitInv, NEW r \in Requests, Step(r)
  PROVE  ExitInv'
<1>1. CASE CheckNone(r) \/ CheckReuse(r) \/ LimitPassed(r) \/ Record(r) \/ Claim(r)
  BY <1>1, ExitGoes DEF CheckNone, CheckReuse, LimitPassed, Record, Claim
<1>2. CASE WaitReady(r) \/ WaitGone(r) \/ UpdateOwned(r) \/ Release(r)
  BY <1>2, ExitGoes DEF WaitReady, WaitGone, UpdateOwned, Release
<1>3. CASE \/ CheckGone(r) \/ LimitReached(r) \/ RuntimeFails(r) \/ LaunchFails(r)
           \/ RecordFails(r) \/ GiveUp(r) \/ UpdateReleased(r) \/ Touch(r)
  <2>1. req' = [req EXCEPT ![r] = Idle] /\ life' = life
    BY <1>3 DEF CheckGone, LimitReached, RuntimeFails, LaunchFails, RecordFails, GiveUp,
       UpdateReleased, Touch, Finish
  <2> QED BY <2>1, ExitFinishes
<1>4. CASE StopNone(r) \/ Unuse(r)
  BY <1>4, ExitReturns DEF StopNone, Unuse
<1>5. CASE SweepDone(r)
  <2>1. Go(r, IF req[r].kind = "close" THEN "exit" ELSE "limit") /\ life' = life
    BY <1>5 DEF SweepDone
  <2> QED BY <2>1, ExitGoes
<1>6. CASE ReleaseConflict(r)
  BY <1>6, ExitGoes, ExitFinishes DEF ReleaseConflict, Finish
<1>7. CASE Exit(r)
  BY <1>7, ExitLife DEF Exit
<1> QED BY <1>1, <1>2, <1>3, <1>4, <1>5, <1>6, <1>7, ExitMoves, ExitKills, Zenon DEF Step

LEMMA ExitOfNext ==
  ASSUME TypeOK, ExitInv, [Next]_vars
  PROVE  ExitInv'
<1>1. CASE \E r \in Requests, w \in Workspaces :
             \/ \E p \in Projects : BeginStart(r, w, p)
             \/ BeginStop(r, w) \/ BeginUse(r, w)
  BY <1>1, ExitBegins
<1>2. ASSUME NEW r \in Requests, BeginClose(r)
      PROVE  ExitInv'
  <2> DEFINE x == [Idle EXCEPT !.at = "sweeping", !.kind = "close", !.expired = Registered]
  <2>1. x.at # "exit"
    BY DEF Idle
  <2>2. req' = [req EXCEPT ![r] = x] /\ life' = life /\ life < MaxLives
    BY <1>2 DEF BeginClose
  <2> HIDE DEF x
  <2> QED BY <2>1, <2>2, ExitStep
<1>3. ASSUME NEW r \in Requests, Lock(r) \/ Step(r)
      PROVE  ExitInv'
  BY <1>3, ExitGoes, ExitOfStep DEF Lock
<1>4. CASE Crash
  BY <1>4, ExitLife DEF Crash
<1>5. CASE (\E i \in live : Listen(i) \/ Die(i)) \/ \E w \in Workspaces : Age(w)
  BY <1>5, ExitRests DEF Listen, Die, Age
<1>6. CASE UNCHANGED vars
  BY <1>6, ExitRests DEF vars
<1> QED BY <1>1, <1>2, <1>3, <1>4, <1>5, <1>6, Zenon DEF Next

(* Every registered workspace has a process of its own.                    *)
LEMMA RegisteredIsFinite ==
  ASSUME TypeOK, OfThisLife
  PROVE  Cardinality(Registered) \in Nat
<1> DEFINE of == [w \in Registered |-> registry[w]]
<1>1. Len(made) \in Nat /\ registry \in [Workspaces -> Known]
  BY DEF TypeOK
<1>2. IsFiniteSet(1 .. Len(made))
  BY <1>1, FS_Interval
<1>3. of \in Injection(Registered, 1 .. Len(made))
  <2>1. \A w \in Registered : w \in Workspaces /\ registry[w] \in 1 .. Len(made)
    BY <1>1 DEF Registered, Known, NoInstance
  <2>2. \A v, w \in Registered : registry[v] = registry[w] => v = w
    BY <2>1 DEF OfThisLife, Registered
  <2> QED BY <2>1, <2>2 DEF Injection, IsInjective
<1> HIDE DEF of
<1>4. IsFiniteSet(Registered)
  BY <1>2, <1>3, FS_Injection
<1> QED BY <1>4, FS_CardinalityType

HoldersMayGoOn ==
  \A r \in Requests : req[r].at \notin {"idle", "locking"} => MayGoOn(r)

(* A request in progress can always go on: whoever holds the lock of a     *)
(* workspace waits for no other lock, finds its workspace free when it     *)
(* claims it, and a close can end its life of the service.                 *)
THEOREM HolderMayGoOn == Spec => []HoldersMayGoOn
<1>1. Init => ExitInv
  BY DEF Init, Idle, ExitInv, Closing
<1>2. IInv /\ ExitInv /\ [Next]_vars => ExitInv'
  BY ExitOfNext DEF IInv
<1>3. ASSUME IInv, ExitInv, NEW r \in Requests, req[r].at \notin {"idle", "locking"}
      PROVE  MayGoOn(r)
  <2>1. TypeOK /\ Fit(r, req[r]) /\ Closing(req[r]) /\ OfThisLife
    BY <1>3 DEF IInv, ExitInv
  <2>2. req[r].at \in Places /\ req[r].expired \subseteq Workspaces
    BY <2>1 DEF TypeOK, Locals
  <2>3. Cardinality(Registered) \in Nat /\ MaxInstances \in Nat
    BY <2>1, RegisteredIsFinite, BoundsAssumption
  <2>4. req[r].at = "claim" => registry[req[r].ws] = NoInstance
    BY <2>1 DEF Fit, Placed, Owns, Vacant, Holds
  <2>5. req[r].at = "exit" => life < MaxLives
    BY <2>1 DEF Closing
  <2>6. CASE req[r].at \in {"sweeping", "limit"}
    <3>1. req[r].expired = {} \/ \E w \in Workspaces : w \in req[r].expired
      BY <2>2
    <3>2. \/ Cardinality(Registered) >= MaxInstances
          \/ Cardinality(Registered) < MaxInstances
      BY <2>3
    <3> QED BY <2>6, <3>1, <3>2, Zenon DEF MayGoOn
  <2>7. CASE req[r].at \in {"claim", "exit"}
    BY <2>4, <2>5, <2>7 DEF MayGoOn
  <2>8. CASE req[r].at \in {"check", "wait"}
    BY <2>8 DEF MayGoOn
  <2>9. CASE req[r].at \in {"listing", "launch", "record", "giveup", "touch", "pop", "unlink",
                            "unuse", "update", "stop", "kill", "release"}
    BY <2>9 DEF MayGoOn
  <2> QED BY <1>3, <2>2, <2>6, <2>7, <2>8, <2>9 DEF Places
<1>4. IInv /\ ExitInv => HoldersMayGoOn
  BY <1>3 DEF HoldersMayGoOn
<1> QED BY <1>1, <1>2, <1>4, IInvHolds, PTL DEF Spec
=============================================================================
