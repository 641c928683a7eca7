---------------------------- MODULE SessionProofs ----------------------------
(***************************************************************************)
(* Agent sessions and the way of their events to a page, proved for any    *)
(* number of sessions, descriptors, subscriptions and faults.              *)
(*                                                                         *)
(* The parties of a session share its attributes without a lock: still, a  *)
(* session's record follows its status once nobody is between the two, and *)
(* no descriptor is left open that its session has forgotten.              *)
(*                                                                         *)
(* The transport hands every event from stage to stage, each with a cursor *)
(* of its own: still, the page shows every log in order, each event once,  *)
(* with notice of what is left out, as EventFeed promises.                 *)
(***************************************************************************)
EXTENDS AgentSession, EventRelay, TLAPS, SequenceTheorems

-----------------------------------------------------------------------------
(* Agent sessions (AgentSession).                                          *)

(* What the threads hold at each of their places.                          *)
ReaderFits(x) ==
    /\ x.at = "loop" => x.fd \in Fds
    /\ x.at \in {"blocked", "holding"} => x.from \in Sessions /\ x.fd \in Fds

CloserFits(x) == x.at = "closing" => x.fd \in Fds

SenderFits(x) ==
    /\ x.at # "idle" => x.to \in Sessions
    /\ x.at = "holding" => x.fd \in Fds /\ x.left > 0

(* The threads of a session run from its start on, and those that end it   *)
(* from its exit on; while the process runs its status says so, and a      *)
(* descriptor is being closed only by those who found it in the attribute. *)
Lifecycle(s) ==
    /\ proc[s] = "none" <=> starter[s] = "idle"
    /\ proc[s] = "none" => master[s] = NoFd
    /\ proc[s] = "running" /\ starter[s] # "spawned" => status[s] = "running"
    /\ proc[s] = "none" => waiter[s].at = "idle"
    /\ starter[s] \in {"idle", "spawned", "notify"} => waiter[s].at = "idle"
    /\ waiter[s].at \notin {"idle", "waiting"} => proc[s] = "exited"
    /\ stopper[s].at # "idle" => proc[s] = "exited"
    /\ waiter[s].at = "closing" => master[s] \in {waiter[s].fd, NoFd}
    /\ stopper[s].at = "closing" => master[s] \in {stopper[s].fd, NoFd}

SessionInv ==
    /\ TypeOK
    /\ SenderFits(sender)
    /\ \A s \in Sessions :
        /\ unread[s] <= written[s]
        /\ ReaderFits(reader[s]) /\ CloserFits(waiter[s]) /\ CloserFits(stopper[s])
        /\ Lifecycle(s)
    /\ RecordFollowsStatus
    /\ NoDescriptorLeak

-----------------------------------------------------------------------------
(* A thread that moves on keeps its shape.                                 *)
LEMMA CloserMoves ==
  ASSUME NEW w \in [Sessions -> Closers], NEW s \in Sessions,
         NEW p \in CloserPlaces, NEW f \in SomeFd
  PROVE  /\ [w EXCEPT ![s].at = p] \in [Sessions -> Closers]
         /\ [w EXCEPT ![s].at = p, ![s].fd = f] \in [Sessions -> Closers]
<1>1. [w[s] EXCEPT !.at = p] \in Closers /\ [w[s] EXCEPT !.at = p, !.fd = f] \in Closers
  BY DEF Closers
<1>2. [w EXCEPT ![s] = [w[s] EXCEPT !.at = p]] \in [Sessions -> Closers]
  BY <1>1
<1>3. [w EXCEPT ![s] = [w[s] EXCEPT !.at = p, !.fd = f]] \in [Sessions -> Closers]
  BY <1>1
<1> QED BY <1>1, <1>2, <1>3

LEMMA ReaderMoves ==
  ASSUME NEW w \in [Sessions -> Readers], NEW s \in Sessions,
         NEW p \in ReaderPlaces, NEW f \in SomeFd, NEW t \in SomeSession
  PROVE  /\ [w EXCEPT ![s].at = p] \in [Sessions -> Readers]
         /\ [w EXCEPT ![s].at = p, ![s].fd = f] \in [Sessions -> Readers]
         /\ [w EXCEPT ![s].at = p, ![s].from = t] \in [Sessions -> Readers]
<1>1. /\ [w[s] EXCEPT !.at = p] \in Readers
      /\ [w[s] EXCEPT !.at = p, !.fd = f] \in Readers
      /\ [w[s] EXCEPT !.at = p, !.from = t] \in Readers
  BY DEF Readers
<1>2. [w EXCEPT ![s] = [w[s] EXCEPT !.at = p]] \in [Sessions -> Readers]
  BY <1>1
<1>3. [w EXCEPT ![s] = [w[s] EXCEPT !.at = p, !.fd = f]] \in [Sessions -> Readers]
  BY <1>1
<1>4. [w EXCEPT ![s] = [w[s] EXCEPT !.at = p, !.from = t]] \in [Sessions -> Readers]
  BY <1>1
<1> QED BY <1>1, <1>2, <1>3, <1>4

-----------------------------------------------------------------------------
(* One lemma per action.                                                   *)
LEMMA WriteInv ==
  ASSUME SessionInv, NEW s \in Sessions, Write(s)
  PROVE  SessionInv'
<1>1. TypeOK'
  BY DescriptorAssumption, NobodyAssumption DEF Write, attributes, threads, Readers, Closers,
     Senders, SomeFd, SomeSession, StarterPlaces, ReaderPlaces, CloserPlaces, Statuses, Events,
     EventTypes, NoFd, ReaderFits, CloserFits, SenderFits, SessionInv, TypeOK
<1>2. SenderFits(sender)'
  BY DEF Write, attributes, threads, NoFd, TypeOK, SomeFd, Senders, SessionInv, SenderFits
<1>3. (\A t \in Sessions : unread[t] <= written[t])'
  BY DEF Write, attributes, threads, SessionInv, TypeOK
<1>4. (\A t \in Sessions : ReaderFits(reader[t]) /\ CloserFits(waiter[t]) /\ CloserFits(stopper[t]))'
  BY DEF Write, attributes, threads, SomeFd, NoFd, SomeSession, Readers, Closers, Lifecycle,
     SessionInv, TypeOK, ReaderFits, CloserFits
<1>5. (\A t \in Sessions : Lifecycle(t))'
  BY DescriptorAssumption DEF Write, attributes, threads, Closers, NoFd, SomeFd, SessionInv,
     TypeOK, Lifecycle
<1>6. RecordFollowsStatus'
  BY DEF Write, attributes, threads, Closers, Readers, SessionInv, TypeOK, Lifecycle,
     RecordFollowsStatus, Settled
<1>7. NoDescriptorLeak'
  BY DescriptorAssumption, NobodyAssumption, SMTT(30) DEF Write, attributes, threads, NoFd,
     Closers, CloserFits, SomeFd, SomeSession, SessionInv, TypeOK, Lifecycle, NoDescriptorLeak
<1> QED BY <1>1, <1>2, <1>3, <1>4, <1>5, <1>6, <1>7 DEF SessionInv

LEMMA ExitInv ==
  ASSUME SessionInv, NEW s \in Sessions, Exit(s)
  PROVE  SessionInv'
<1>1. TypeOK'
  BY DescriptorAssumption, NobodyAssumption DEF Exit, attributes, threads, Readers, Closers,
     Senders, SomeFd, SomeSession, StarterPlaces, ReaderPlaces, CloserPlaces, Statuses, Events,
     EventTypes, NoFd, ReaderFits, CloserFits, SenderFits, SessionInv, TypeOK
<1>2. SenderFits(sender)'
  BY DEF Exit, attributes, threads, NoFd, TypeOK, SomeFd, Senders, SessionInv, SenderFits
<1>3. (\A t \in Sessions : unread[t] <= written[t])'
  BY DEF Exit, attributes, threads, SessionInv, TypeOK
<1>4. (\A t \in Sessions : ReaderFits(reader[t]) /\ CloserFits(waiter[t]) /\ CloserFits(stopper[t]))'
  BY DEF Exit, attributes, threads, SomeFd, NoFd, SomeSession, Readers, Closers, Lifecycle,
     SessionInv, TypeOK, ReaderFits, CloserFits
<1>5. (\A t \in Sessions : Lifecycle(t))'
  BY DescriptorAssumption DEF Exit, attributes, threads, Closers, NoFd, SomeFd, SessionInv,
     TypeOK, Lifecycle
<1>6. RecordFollowsStatus'
  BY DEF Exit, attributes, threads, Closers, Readers, SessionInv, TypeOK, Lifecycle,
     RecordFollowsStatus, Settled
<1>7. NoDescriptorLeak'
  BY DescriptorAssumption, NobodyAssumption, SMTT(30) DEF Exit, attributes, threads, NoFd,
     Closers, CloserFits, SomeFd, SomeSession, SessionInv, TypeOK, Lifecycle, NoDescriptorLeak
<1> QED BY <1>1, <1>2, <1>3, <1>4, <1>5, <1>6, <1>7 DEF SessionInv

LEMMA SpawnInv ==
  ASSUME SessionInv, NEW s \in Sessions, Spawn(s)
  PROVE  SessionInv'
<1>1. TypeOK'
  BY DescriptorAssumption, NobodyAssumption DEF Spawn, Lowest, Readers, Closers, Senders,
     SomeFd, SomeSession, StarterPlaces, ReaderPlaces, CloserPlaces, Statuses, Events,
     EventTypes, NoFd, ReaderFits, CloserFits, SenderFits, SessionInv, TypeOK
<1>2. SenderFits(sender)'
  BY DEF Spawn, Lowest, NoFd, TypeOK, SomeFd, Senders, SessionInv, SenderFits
<1>3. (\A t \in Sessions : unread[t] <= written[t])'
  BY DEF Spawn, Lowest, SessionInv, TypeOK
<1>4. (\A t \in Sessions : ReaderFits(reader[t]) /\ CloserFits(waiter[t]) /\ CloserFits(stopper[t]))'
  BY DEF Spawn, Lowest, SomeFd, NoFd, SomeSession, Readers, Closers, Lifecycle, SessionInv,
     TypeOK, ReaderFits, CloserFits
<1>5. (\A t \in Sessions : Lifecycle(t))'
  BY DescriptorAssumption DEF Spawn, Lowest, Closers, NoFd, SomeFd, SessionInv, TypeOK,
     Lifecycle
<1>6. RecordFollowsStatus'
  BY DEF Spawn, Lowest, Closers, Readers, SessionInv, TypeOK, Lifecycle, RecordFollowsStatus,
     Settled
<1>7. NoDescriptorLeak'
  <2>1. PICK f \in Fds : /\ terminal' = [terminal EXCEPT ![f] = s]
                         /\ master' = [master EXCEPT ![s] = f]
    BY DEF Spawn
  <2>2. \A g \in Fds : terminal[g] # s
    BY DescriptorAssumption, NobodyAssumption
    DEF Spawn, SessionInv, Lifecycle, NoDescriptorLeak, NoFd
  <2> QED BY <2>1, <2>2 DEF SessionInv, TypeOK, NoDescriptorLeak
<1> QED BY <1>1, <1>2, <1>3, <1>4, <1>5, <1>6, <1>7 DEF SessionInv

LEMMA StopExitedInv ==
  ASSUME SessionInv, NEW s \in Sessions, StopExited(s)
  PROVE  SessionInv'
<1>1. TypeOK'
  <2>1. "close" \in CloserPlaces
    BY DEF StopExited, SessionInv, TypeOK, ReaderFits, CloserPlaces, SomeFd, SomeSession
  <2>2. stopper' \in [Sessions -> Closers]
    BY <2>1, CloserMoves DEF StopExited, SessionInv, TypeOK, SomeFd, SomeSession
  <2> QED BY <2>2, DescriptorAssumption, NobodyAssumption DEF StopExited, attributes, kernel,
     SomeFd, SomeSession, Statuses, StarterPlaces, Events, EventTypes, NoFd, ReaderFits,
     CloserFits, SessionInv, TypeOK
<1>2. SenderFits(sender)'
  BY DEF StopExited, attributes, kernel, NoFd, TypeOK, SomeFd, Senders, SessionInv, SenderFits
<1>3. (\A t \in Sessions : unread[t] <= written[t])'
  BY DEF StopExited, attributes, kernel, SessionInv, TypeOK
<1>4. (\A t \in Sessions : ReaderFits(reader[t]) /\ CloserFits(waiter[t]) /\ CloserFits(stopper[t]))'
  BY DEF StopExited, attributes, kernel, SomeFd, NoFd, SomeSession, Readers, Closers,
     Lifecycle, SessionInv, TypeOK, ReaderFits, CloserFits
<1>5. (\A t \in Sessions : Lifecycle(t))'
  BY DescriptorAssumption DEF StopExited, attributes, kernel, Closers, NoFd, SomeFd,
     SessionInv, TypeOK, Lifecycle
<1>6. RecordFollowsStatus'
  BY DEF StopExited, attributes, kernel, Closers, Readers, SessionInv, TypeOK, Lifecycle,
     RecordFollowsStatus, Settled
<1>7. NoDescriptorLeak'
  BY DescriptorAssumption, NobodyAssumption, SMTT(30) DEF StopExited, attributes, kernel, NoFd,
     Closers, CloserFits, SomeFd, SomeSession, SessionInv, TypeOK, Lifecycle, NoDescriptorLeak
<1> QED BY <1>1, <1>2, <1>3, <1>4, <1>5, <1>6, <1>7 DEF SessionInv

LEMMA KillInv ==
  ASSUME SessionInv, NEW s \in Sessions, Kill(s)
  PROVE  SessionInv'
<1>1. TypeOK'
  <2>1. "set" \in CloserPlaces
    BY DEF Kill, SessionInv, TypeOK, ReaderFits, CloserPlaces, SomeFd, SomeSession
  <2>2. stopper' \in [Sessions -> Closers]
    BY <2>1, CloserMoves DEF Kill, SessionInv, TypeOK, SomeFd, SomeSession
  <2> QED BY <2>2, DescriptorAssumption, NobodyAssumption DEF Kill, attributes, SomeFd,
     SomeSession, Statuses, StarterPlaces, Events, EventTypes, NoFd, ReaderFits, CloserFits,
     SessionInv, TypeOK
<1>2. SenderFits(sender)'
  BY DEF Kill, attributes, NoFd, TypeOK, SomeFd, Senders, SessionInv, SenderFits
<1>3. (\A t \in Sessions : unread[t] <= written[t])'
  BY DEF Kill, attributes, SessionInv, TypeOK
<1>4. (\A t \in Sessions : ReaderFits(reader[t]) /\ CloserFits(waiter[t]) /\ CloserFits(stopper[t]))'
  BY DEF Kill, attributes, SomeFd, NoFd, SomeSession, Readers, Closers, Lifecycle, SessionInv,
     TypeOK, ReaderFits, CloserFits
<1>5. (\A t \in Sessions : Lifecycle(t))'
  BY DescriptorAssumption DEF Kill, attributes, Closers, NoFd, SomeFd, SessionInv, TypeOK,
     Lifecycle
<1>6. RecordFollowsStatus'
  BY DEF Kill, attributes, Closers, Readers, SessionInv, TypeOK, Lifecycle,
     RecordFollowsStatus, Settled
<1>7. NoDescriptorLeak'
  BY DescriptorAssumption, NobodyAssumption, SMTT(30) DEF Kill, attributes, NoFd, Closers,
     CloserFits, SomeFd, SomeSession, SessionInv, TypeOK, Lifecycle, NoDescriptorLeak
<1> QED BY <1>1, <1>2, <1>3, <1>4, <1>5, <1>6, <1>7 DEF SessionInv

LEMMA SendBeginInv ==
  ASSUME SessionInv, NEW s \in Sessions, SendBegin(s)
  PROVE  SessionInv'
<1>1. TypeOK'
  BY DescriptorAssumption, NobodyAssumption DEF SendBegin, attributes, kernel, threads,
     Readers, Closers, Senders, SomeFd, SomeSession, StarterPlaces, ReaderPlaces, CloserPlaces,
     Statuses, Events, EventTypes, NoFd, ReaderFits, CloserFits, SenderFits, SessionInv, TypeOK
<1>2. SenderFits(sender)'
  BY DEF SendBegin, attributes, kernel, threads, NoFd, TypeOK, SomeFd, Senders, SessionInv,
     SenderFits
<1>3. (\A t \in Sessions : unread[t] <= written[t])'
  BY DEF SendBegin, attributes, kernel, threads, SessionInv, TypeOK
<1>4. (\A t \in Sessions : ReaderFits(reader[t]) /\ CloserFits(waiter[t]) /\ CloserFits(stopper[t]))'
  BY DEF SendBegin, attributes, kernel, threads, SomeFd, NoFd, SomeSession, Readers, Closers,
     Lifecycle, SessionInv, TypeOK, ReaderFits, CloserFits
<1>5. (\A t \in Sessions : Lifecycle(t))'
  BY DescriptorAssumption DEF SendBegin, attributes, kernel, threads, Closers, NoFd, SomeFd,
     SessionInv, TypeOK, Lifecycle
<1>6. RecordFollowsStatus'
  BY DEF SendBegin, attributes, kernel, threads, Closers, Readers, SessionInv, TypeOK,
     Lifecycle, RecordFollowsStatus, Settled
<1>7. NoDescriptorLeak'
  BY DescriptorAssumption, NobodyAssumption, SMTT(30) DEF SendBegin, attributes, kernel,
     threads, NoFd, Closers, CloserFits, SomeFd, SomeSession, SessionInv, TypeOK, Lifecycle,
     NoDescriptorLeak
<1> QED BY <1>1, <1>2, <1>3, <1>4, <1>5, <1>6, <1>7 DEF SessionInv

LEMMA RenameInv ==
  ASSUME SessionInv, NEW s \in Sessions, Rename(s)
  PROVE  SessionInv'
<1>1. TypeOK'
  BY DescriptorAssumption, NobodyAssumption DEF Rename, kernel, threads, Recorded, Readers,
     Closers, Senders, SomeFd, SomeSession, StarterPlaces, ReaderPlaces, CloserPlaces,
     Statuses, Events, EventTypes, NoFd, ReaderFits, CloserFits, SenderFits, SessionInv, TypeOK
<1>2. SenderFits(sender)'
  BY DEF Rename, kernel, threads, Recorded, NoFd, TypeOK, SomeFd, Senders, SessionInv,
     SenderFits
<1>3. (\A t \in Sessions : unread[t] <= written[t])'
  BY DEF Rename, kernel, threads, Recorded, SessionInv, TypeOK
<1>4. (\A t \in Sessions : ReaderFits(reader[t]) /\ CloserFits(waiter[t]) /\ CloserFits(stopper[t]))'
  BY DEF Rename, kernel, threads, Recorded, SomeFd, NoFd, SomeSession, Readers, Closers,
     Lifecycle, SessionInv, TypeOK, ReaderFits, CloserFits
<1>5. (\A t \in Sessions : Lifecycle(t))'
  BY DescriptorAssumption DEF Rename, kernel, threads, Recorded, Closers, NoFd, SomeFd,
     SessionInv, TypeOK, Lifecycle
<1>6. RecordFollowsStatus'
  BY DEF Rename, kernel, threads, Recorded, Closers, Readers, SessionInv, TypeOK, Lifecycle,
     RecordFollowsStatus, Settled
<1>7. NoDescriptorLeak'
  BY DescriptorAssumption, NobodyAssumption, SMTT(30) DEF Rename, kernel, threads, Recorded,
     NoFd, Closers, CloserFits, SomeFd, SomeSession, SessionInv, TypeOK, Lifecycle,
     NoDescriptorLeak
<1> QED BY <1>1, <1>2, <1>3, <1>4, <1>5, <1>6, <1>7 DEF SessionInv

LEMMA SetRunningInv ==
  ASSUME SessionInv, NEW s \in Sessions, SetRunning(s)
  PROVE  SessionInv'
<1>1. TypeOK'
  BY DescriptorAssumption, NobodyAssumption DEF SetRunning, kernel, Readers, Closers, Senders,
     SomeFd, SomeSession, StarterPlaces, ReaderPlaces, CloserPlaces, Statuses, Events,
     EventTypes, NoFd, ReaderFits, CloserFits, SenderFits, SessionInv, TypeOK
<1>2. SenderFits(sender)'
  BY DEF SetRunning, kernel, NoFd, TypeOK, SomeFd, Senders, SessionInv, SenderFits
<1>3. (\A t \in Sessions : unread[t] <= written[t])'
  BY DEF SetRunning, kernel, SessionInv, TypeOK
<1>4. (\A t \in Sessions : ReaderFits(reader[t]) /\ CloserFits(waiter[t]) /\ CloserFits(stopper[t]))'
  BY DEF SetRunning, kernel, SomeFd, NoFd, SomeSession, Readers, Closers, Lifecycle,
     SessionInv, TypeOK, ReaderFits, CloserFits
<1>5. (\A t \in Sessions : Lifecycle(t))'
  BY DescriptorAssumption DEF SetRunning, kernel, Closers, NoFd, SomeFd, SessionInv, TypeOK,
     Lifecycle
<1>6. RecordFollowsStatus'
  BY DEF SetRunning, kernel, Closers, Readers, SessionInv, TypeOK, Lifecycle,
     RecordFollowsStatus, Settled
<1>7. NoDescriptorLeak'
  BY DescriptorAssumption, NobodyAssumption, SMTT(30) DEF SetRunning, kernel, NoFd, Closers,
     CloserFits, SomeFd, SomeSession, SessionInv, TypeOK, Lifecycle, NoDescriptorLeak
<1> QED BY <1>1, <1>2, <1>3, <1>4, <1>5, <1>6, <1>7 DEF SessionInv

LEMMA AnnounceInv ==
  ASSUME SessionInv, NEW s \in Sessions, Announce(s)
  PROVE  SessionInv'
<1>1. TypeOK'
  <2>1. "new" \in ReaderPlaces
    BY DEF Announce, SessionInv, TypeOK, ReaderFits, ReaderPlaces, SomeFd, SomeSession
  <2>2. reader' \in [Sessions -> Readers]
    BY <2>1, ReaderMoves DEF Announce, SessionInv, TypeOK, SomeFd, SomeSession
  <2>3. "waiting" \in CloserPlaces
    BY DEF Announce, SessionInv, TypeOK, ReaderFits, CloserPlaces, SomeFd, SomeSession
  <2>4. waiter' \in [Sessions -> Closers]
    BY <2>3, CloserMoves DEF Announce, SessionInv, TypeOK, SomeFd, SomeSession
  <2> QED BY <2>2, <2>4, DescriptorAssumption, NobodyAssumption DEF Announce, kernel, Recorded,
     Logged, SomeFd, SomeSession, Statuses, StarterPlaces, Events, EventTypes, NoFd,
     ReaderFits, CloserFits, SessionInv, TypeOK
<1>2. SenderFits(sender)'
  BY DEF Announce, kernel, Recorded, Logged, NoFd, TypeOK, SomeFd, Senders, SessionInv,
     SenderFits
<1>3. (\A t \in Sessions : unread[t] <= written[t])'
  BY DEF Announce, kernel, Recorded, Logged, SessionInv, TypeOK
<1>4. (\A t \in Sessions : ReaderFits(reader[t]) /\ CloserFits(waiter[t]) /\ CloserFits(stopper[t]))'
  BY DEF Announce, kernel, Recorded, Logged, SomeFd, NoFd, SomeSession, Readers, Closers,
     Lifecycle, SessionInv, TypeOK, ReaderFits, CloserFits
<1>5. (\A t \in Sessions : Lifecycle(t))'
  BY DescriptorAssumption DEF Announce, kernel, Recorded, Logged, Closers, NoFd, SomeFd,
     SessionInv, TypeOK, Lifecycle
<1>6. RecordFollowsStatus'
  BY DEF Announce, kernel, Recorded, Logged, Closers, Readers, SessionInv, TypeOK, Lifecycle,
     RecordFollowsStatus, Settled
<1>7. NoDescriptorLeak'
  BY DescriptorAssumption, NobodyAssumption, SMTT(30) DEF Announce, kernel, Recorded, Logged,
     NoFd, Closers, CloserFits, SomeFd, SomeSession, SessionInv, TypeOK, Lifecycle,
     NoDescriptorLeak
<1> QED BY <1>1, <1>2, <1>3, <1>4, <1>5, <1>6, <1>7 DEF SessionInv

LEMMA ReaderStartsInv ==
  ASSUME SessionInv, NEW s \in Sessions, ReaderStarts(s)
  PROVE  SessionInv'
<1>1. TypeOK'
  <2>1. (IF master[s] = NoFd THEN "done" ELSE "loop") \in ReaderPlaces /\ master[s] \in SomeFd
    BY SMT, ZenonT(40) DEF ReaderStarts, SessionInv, TypeOK, ReaderFits, ReaderPlaces, SomeFd,
       SomeSession
  <2>2. reader' \in [Sessions -> Readers]
    <3> DEFINE p == IF master[s] = NoFd THEN "done" ELSE "loop"
    <3>1. reader \in [Sessions -> Readers]
      BY DEF SessionInv, TypeOK
    <3>2. reader' = [reader EXCEPT ![s].at = p, ![s].fd = master[s]]
      BY DEF ReaderStarts
    <3>3. p \in ReaderPlaces /\ master[s] \in SomeFd
      BY <2>1
    <3> HIDE DEF p
    <3>4. Nobody \in SomeSession
      BY DEF SomeSession
    <3> QED BY <3>1, <3>2, <3>3, <3>4, ReaderMoves
  <2> QED BY <2>2, DescriptorAssumption, NobodyAssumption DEF ReaderStarts, attributes, kernel,
     SomeFd, SomeSession, Statuses, StarterPlaces, Events, EventTypes, NoFd, ReaderFits,
     CloserFits, SessionInv, TypeOK
<1>2. SenderFits(sender)'
  BY DEF ReaderStarts, attributes, kernel, NoFd, TypeOK, SomeFd, Senders, SessionInv, SenderFits
<1>3. (\A t \in Sessions : unread[t] <= written[t])'
  BY DEF ReaderStarts, attributes, kernel, SessionInv, TypeOK
<1>4. (\A t \in Sessions : ReaderFits(reader[t]) /\ CloserFits(waiter[t]) /\ CloserFits(stopper[t]))'
  BY DEF ReaderStarts, attributes, kernel, SomeFd, NoFd, SomeSession, Readers, Closers,
     Lifecycle, SessionInv, TypeOK, ReaderFits, CloserFits
<1>5. (\A t \in Sessions : Lifecycle(t))'
  BY DescriptorAssumption DEF ReaderStarts, attributes, kernel, Closers, NoFd, SomeFd,
     SessionInv, TypeOK, Lifecycle
<1>6. RecordFollowsStatus'
  BY DEF ReaderStarts, attributes, kernel, Closers, Readers, SessionInv, TypeOK, Lifecycle,
     RecordFollowsStatus, Settled
<1>7. NoDescriptorLeak'
  BY DescriptorAssumption, NobodyAssumption, SMTT(30) DEF ReaderStarts, attributes, kernel,
     NoFd, Closers, CloserFits, SomeFd, SomeSession, SessionInv, TypeOK, Lifecycle,
     NoDescriptorLeak
<1> QED BY <1>1, <1>2, <1>3, <1>4, <1>5, <1>6, <1>7 DEF SessionInv

LEMMA EnterReadInv ==
  ASSUME SessionInv, NEW s \in Sessions, EnterRead(s)
  PROVE  SessionInv'
<1>1. TypeOK'
  <2>1. (IF terminal[reader[s].fd] = Nobody THEN "done" ELSE "blocked") \in ReaderPlaces /\ terminal[reader[s].fd] \in SomeSession
    BY DEF EnterRead, SessionInv, TypeOK, ReaderFits, ReaderPlaces, SomeFd, SomeSession
  <2>2. reader' = [reader EXCEPT ![s].at = (IF terminal[reader[s].fd] = Nobody THEN "done" ELSE "blocked"),
                                 ![s].from = terminal[reader[s].fd]]
    BY DEF EnterRead
  <2>3. reader \in [Sessions -> Readers] /\ NoFd \in SomeFd
    BY DEF SessionInv, TypeOK, SomeFd
  <2>4. reader' \in [Sessions -> Readers]
    BY <2>1, <2>2, <2>3, ReaderMoves
  <2> QED BY <2>4, DescriptorAssumption, NobodyAssumption DEF EnterRead, attributes, kernel,
     SomeFd, SomeSession, Statuses, StarterPlaces, Events, EventTypes, NoFd, ReaderFits,
     CloserFits, SessionInv, TypeOK
<1>2. SenderFits(sender)'
  BY DEF EnterRead, attributes, kernel, NoFd, TypeOK, SomeFd, Senders, SessionInv, SenderFits
<1>3. (\A t \in Sessions : unread[t] <= written[t])'
  BY DEF EnterRead, attributes, kernel, SessionInv, TypeOK
<1>4. (\A t \in Sessions : ReaderFits(reader[t]) /\ CloserFits(waiter[t]) /\ CloserFits(stopper[t]))'
  BY DEF EnterRead, attributes, kernel, SomeFd, NoFd, SomeSession, Readers, Closers, Lifecycle,
     SessionInv, TypeOK, ReaderFits, CloserFits
<1>5. (\A t \in Sessions : Lifecycle(t))'
  BY DescriptorAssumption DEF EnterRead, attributes, kernel, Closers, NoFd, SomeFd, SessionInv,
     TypeOK, Lifecycle
<1>6. RecordFollowsStatus'
  BY DEF EnterRead, attributes, kernel, Closers, Readers, SessionInv, TypeOK, Lifecycle,
     RecordFollowsStatus, Settled
<1>7. NoDescriptorLeak'
  BY DescriptorAssumption, NobodyAssumption, SMTT(30) DEF EnterRead, attributes, kernel, NoFd,
     Closers, CloserFits, SomeFd, SomeSession, SessionInv, TypeOK, Lifecycle, NoDescriptorLeak
<1> QED BY <1>1, <1>2, <1>3, <1>4, <1>5, <1>6, <1>7 DEF SessionInv

LEMMA ReadChunkInv ==
  ASSUME SessionInv, NEW s \in Sessions, ReadChunk(s)
  PROVE  SessionInv'
<1>1. TypeOK'
  <2>1. "holding" \in ReaderPlaces
    BY DEF ReadChunk, SessionInv, TypeOK, ReaderFits, ReaderPlaces, SomeFd, SomeSession
  <2>2. reader' \in [Sessions -> Readers]
    BY <2>1, ReaderMoves DEF ReadChunk, SessionInv, TypeOK, SomeFd, SomeSession
  <2> QED BY <2>2, DescriptorAssumption, NobodyAssumption DEF ReadChunk, attributes, SomeFd,
     SomeSession, Statuses, StarterPlaces, Events, EventTypes, NoFd, ReaderFits, CloserFits,
     SessionInv, TypeOK
<1>2. SenderFits(sender)'
  BY DEF ReadChunk, attributes, NoFd, TypeOK, SomeFd, Senders, SessionInv, SenderFits
<1>3. (\A t \in Sessions : unread[t] <= written[t])'
  BY DEF ReadChunk, attributes, SessionInv, TypeOK
<1>4. (\A t \in Sessions : ReaderFits(reader[t]) /\ CloserFits(waiter[t]) /\ CloserFits(stopper[t]))'
  BY DEF ReadChunk, attributes, SomeFd, NoFd, SomeSession, Readers, Closers, Lifecycle,
     SessionInv, TypeOK, ReaderFits, CloserFits
<1>5. (\A t \in Sessions : Lifecycle(t))'
  BY DescriptorAssumption DEF ReadChunk, attributes, Closers, NoFd, SomeFd, SessionInv, TypeOK,
     Lifecycle
<1>6. RecordFollowsStatus'
  BY DEF ReadChunk, attributes, Closers, Readers, SessionInv, TypeOK, Lifecycle,
     RecordFollowsStatus, Settled
<1>7. NoDescriptorLeak'
  BY DescriptorAssumption, NobodyAssumption, SMTT(30) DEF ReadChunk, attributes, NoFd, Closers,
     CloserFits, SomeFd, SomeSession, SessionInv, TypeOK, Lifecycle, NoDescriptorLeak
<1> QED BY <1>1, <1>2, <1>3, <1>4, <1>5, <1>6, <1>7 DEF SessionInv

LEMMA ReadHangupInv ==
  ASSUME SessionInv, NEW s \in Sessions, ReadHangup(s)
  PROVE  SessionInv'
<1>1. TypeOK'
  <2>1. "done" \in ReaderPlaces
    BY DEF ReadHangup, SessionInv, TypeOK, ReaderFits, ReaderPlaces, SomeFd, SomeSession
  <2>2. reader' \in [Sessions -> Readers]
    BY <2>1, ReaderMoves DEF ReadHangup, SessionInv, TypeOK, SomeFd, SomeSession
  <2> QED BY <2>2, DescriptorAssumption, NobodyAssumption DEF ReadHangup, attributes, kernel,
     SomeFd, SomeSession, Statuses, StarterPlaces, Events, EventTypes, NoFd, ReaderFits,
     CloserFits, SessionInv, TypeOK
<1>2. SenderFits(sender)'
  BY DEF ReadHangup, attributes, kernel, NoFd, TypeOK, SomeFd, Senders, SessionInv, SenderFits
<1>3. (\A t \in Sessions : unread[t] <= written[t])'
  BY DEF ReadHangup, attributes, kernel, SessionInv, TypeOK
<1>4. (\A t \in Sessions : ReaderFits(reader[t]) /\ CloserFits(waiter[t]) /\ CloserFits(stopper[t]))'
  BY DEF ReadHangup, attributes, kernel, SomeFd, NoFd, SomeSession, Readers, Closers,
     Lifecycle, SessionInv, TypeOK, ReaderFits, CloserFits
<1>5. (\A t \in Sessions : Lifecycle(t))'
  BY DescriptorAssumption DEF ReadHangup, attributes, kernel, Closers, NoFd, SomeFd,
     SessionInv, TypeOK, Lifecycle
<1>6. RecordFollowsStatus'
  BY DEF ReadHangup, attributes, kernel, Closers, Readers, SessionInv, TypeOK, Lifecycle,
     RecordFollowsStatus, Settled
<1>7. NoDescriptorLeak'
  BY DescriptorAssumption, NobodyAssumption, SMTT(30) DEF ReadHangup, attributes, kernel, NoFd,
     Closers, CloserFits, SomeFd, SomeSession, SessionInv, TypeOK, Lifecycle, NoDescriptorLeak
<1> QED BY <1>1, <1>2, <1>3, <1>4, <1>5, <1>6, <1>7 DEF SessionInv

LEMMA LogOutputInv ==
  ASSUME SessionInv, NEW s \in Sessions, LogOutput(s)
  PROVE  SessionInv'
<1>1. TypeOK'
  <2>1. "loop" \in ReaderPlaces /\ Nobody \in SomeSession
    BY DEF LogOutput, SessionInv, TypeOK, ReaderFits, ReaderPlaces, SomeFd, SomeSession
  <2>2. reader' \in [Sessions -> Readers]
    BY <2>1, ReaderMoves DEF LogOutput, SessionInv, TypeOK, SomeFd, SomeSession
  <2> QED BY <2>2, DescriptorAssumption, NobodyAssumption DEF LogOutput, kernel, Logged,
     SomeFd, SomeSession, Statuses, StarterPlaces, Events, EventTypes, NoFd, ReaderFits,
     CloserFits, SessionInv, TypeOK
<1>2. SenderFits(sender)'
  BY DEF LogOutput, kernel, Logged, NoFd, TypeOK, SomeFd, Senders, SessionInv, SenderFits
<1>3. (\A t \in Sessions : unread[t] <= written[t])'
  BY DEF LogOutput, kernel, Logged, SessionInv, TypeOK
<1>4. (\A t \in Sessions : ReaderFits(reader[t]) /\ CloserFits(waiter[t]) /\ CloserFits(stopper[t]))'
  BY DEF LogOutput, kernel, Logged, SomeFd, NoFd, SomeSession, Readers, Closers, Lifecycle,
     SessionInv, TypeOK, ReaderFits, CloserFits
<1>5. (\A t \in Sessions : Lifecycle(t))'
  BY DescriptorAssumption DEF LogOutput, kernel, Logged, Closers, NoFd, SomeFd, SessionInv,
     TypeOK, Lifecycle
<1>6. RecordFollowsStatus'
  BY DEF LogOutput, kernel, Logged, Closers, Readers, SessionInv, TypeOK, Lifecycle,
     RecordFollowsStatus, Settled
<1>7. NoDescriptorLeak'
  BY DescriptorAssumption, NobodyAssumption, SMTT(30) DEF LogOutput, kernel, Logged, NoFd,
     Closers, CloserFits, SomeFd, SomeSession, SessionInv, TypeOK, Lifecycle, NoDescriptorLeak
<1> QED BY <1>1, <1>2, <1>3, <1>4, <1>5, <1>6, <1>7 DEF SessionInv

LEMMA SeeExitInv ==
  ASSUME SessionInv, NEW s \in Sessions, SeeExit(s)
  PROVE  SessionInv'
<1>1. TypeOK'
  <2>1. "notify" \in CloserPlaces
    BY DEF SeeExit, SessionInv, TypeOK, ReaderFits, CloserPlaces, SomeFd, SomeSession
  <2>2. waiter' \in [Sessions -> Closers]
    BY <2>1, CloserMoves DEF SeeExit, SessionInv, TypeOK, SomeFd, SomeSession
  <2> QED BY <2>2, DescriptorAssumption, NobodyAssumption DEF SeeExit, kernel, SomeFd,
     SomeSession, Statuses, StarterPlaces, Events, EventTypes, NoFd, ReaderFits, CloserFits,
     SessionInv, TypeOK
<1>2. SenderFits(sender)'
  BY DEF SeeExit, kernel, NoFd, TypeOK, SomeFd, Senders, SessionInv, SenderFits
<1>3. (\A t \in Sessions : unread[t] <= written[t])'
  BY DEF SeeExit, kernel, SessionInv, TypeOK
<1>4. (\A t \in Sessions : ReaderFits(reader[t]) /\ CloserFits(waiter[t]) /\ CloserFits(stopper[t]))'
  BY DEF SeeExit, kernel, SomeFd, NoFd, SomeSession, Readers, Closers, Lifecycle, SessionInv,
     TypeOK, ReaderFits, CloserFits
<1>5. (\A t \in Sessions : Lifecycle(t))'
  BY DescriptorAssumption DEF SeeExit, kernel, Closers, NoFd, SomeFd, SessionInv, TypeOK,
     Lifecycle
<1>6. RecordFollowsStatus'
  BY DEF SeeExit, kernel, Closers, Readers, SessionInv, TypeOK, Lifecycle, RecordFollowsStatus,
     Settled
<1>7. NoDescriptorLeak'
  BY DescriptorAssumption, NobodyAssumption, SMTT(30) DEF SeeExit, kernel, NoFd, Closers,
     CloserFits, SomeFd, SomeSession, SessionInv, TypeOK, Lifecycle, NoDescriptorLeak
<1> QED BY <1>1, <1>2, <1>3, <1>4, <1>5, <1>6, <1>7 DEF SessionInv

LEMMA NotifyExitInv ==
  ASSUME SessionInv, NEW s \in Sessions, NotifyExit(s)
  PROVE  SessionInv'
<1>1. TypeOK'
  <2>1. "hook" \in CloserPlaces
    BY DEF NotifyExit, SessionInv, TypeOK, ReaderFits, CloserPlaces, SomeFd, SomeSession
  <2>2. waiter' \in [Sessions -> Closers]
    BY <2>1, CloserMoves DEF NotifyExit, SessionInv, TypeOK, SomeFd, SomeSession
  <2> QED BY <2>2, DescriptorAssumption, NobodyAssumption DEF NotifyExit, kernel, Recorded,
     SomeFd, SomeSession, Statuses, StarterPlaces, Events, EventTypes, NoFd, ReaderFits,
     CloserFits, SessionInv, TypeOK
<1>2. SenderFits(sender)'
  BY DEF NotifyExit, kernel, Recorded, NoFd, TypeOK, SomeFd, Senders, SessionInv, SenderFits
<1>3. (\A t \in Sessions : unread[t] <= written[t])'
  BY DEF NotifyExit, kernel, Recorded, SessionInv, TypeOK
<1>4. (\A t \in Sessions : ReaderFits(reader[t]) /\ CloserFits(waiter[t]) /\ CloserFits(stopper[t]))'
  BY DEF NotifyExit, kernel, Recorded, SomeFd, NoFd, SomeSession, Readers, Closers, Lifecycle,
     SessionInv, TypeOK, ReaderFits, CloserFits
<1>5. (\A t \in Sessions : Lifecycle(t))'
  BY DescriptorAssumption DEF NotifyExit, kernel, Recorded, Closers, NoFd, SomeFd, SessionInv,
     TypeOK, Lifecycle
<1>6. RecordFollowsStatus'
  BY DEF NotifyExit, kernel, Recorded, Closers, Readers, SessionInv, TypeOK, Lifecycle,
     RecordFollowsStatus, Settled
<1>7. NoDescriptorLeak'
  BY DescriptorAssumption, NobodyAssumption, SMTT(30) DEF NotifyExit, kernel, Recorded, NoFd,
     Closers, CloserFits, SomeFd, SomeSession, SessionInv, TypeOK, Lifecycle, NoDescriptorLeak
<1> QED BY <1>1, <1>2, <1>3, <1>4, <1>5, <1>6, <1>7 DEF SessionInv

LEMMA RunHookInv ==
  ASSUME SessionInv, NEW s \in Sessions, RunHook(s)
  PROVE  SessionInv'
<1>1. TypeOK'
  <2>1. "close" \in CloserPlaces
    BY DEF RunHook, SessionInv, TypeOK, ReaderFits, CloserPlaces, SomeFd, SomeSession
  <2>2. waiter' \in [Sessions -> Closers]
    BY <2>1, CloserMoves DEF RunHook, SessionInv, TypeOK, SomeFd, SomeSession
  <2> QED BY <2>2, DescriptorAssumption, NobodyAssumption DEF RunHook, kernel, SomeFd,
     SomeSession, Statuses, StarterPlaces, Events, EventTypes, NoFd, ReaderFits, CloserFits,
     SessionInv, TypeOK
<1>2. SenderFits(sender)'
  BY DEF RunHook, kernel, NoFd, TypeOK, SomeFd, Senders, SessionInv, SenderFits
<1>3. (\A t \in Sessions : unread[t] <= written[t])'
  BY DEF RunHook, kernel, SessionInv, TypeOK
<1>4. (\A t \in Sessions : ReaderFits(reader[t]) /\ CloserFits(waiter[t]) /\ CloserFits(stopper[t]))'
  BY DEF RunHook, kernel, SomeFd, NoFd, SomeSession, Readers, Closers, Lifecycle, SessionInv,
     TypeOK, ReaderFits, CloserFits
<1>5. (\A t \in Sessions : Lifecycle(t))'
  BY DescriptorAssumption DEF RunHook, kernel, Closers, NoFd, SomeFd, SessionInv, TypeOK,
     Lifecycle
<1>6. RecordFollowsStatus'
  BY DEF RunHook, kernel, Closers, Readers, SessionInv, TypeOK, Lifecycle, RecordFollowsStatus,
     Settled
<1>7. NoDescriptorLeak'
  BY DescriptorAssumption, NobodyAssumption, SMTT(30) DEF RunHook, kernel, NoFd, Closers,
     CloserFits, SomeFd, SomeSession, SessionInv, TypeOK, Lifecycle, NoDescriptorLeak
<1> QED BY <1>1, <1>2, <1>3, <1>4, <1>5, <1>6, <1>7 DEF SessionInv

LEMMA WaiterTakesInv ==
  ASSUME SessionInv, NEW s \in Sessions, WaiterTakes(s)
  PROVE  SessionInv'
<1>1. TypeOK'
  <2>1. (IF master[s] = NoFd THEN "done" ELSE "closing") \in CloserPlaces /\ master[s] \in SomeFd
    BY DEF WaiterTakes, SessionInv, TypeOK, ReaderFits, CloserPlaces, SomeFd, SomeSession
  <2>2. waiter' \in [Sessions -> Closers]
    BY <2>1, CloserMoves DEF WaiterTakes, SessionInv, TypeOK, SomeFd, SomeSession
  <2> QED BY <2>2, DescriptorAssumption, NobodyAssumption DEF WaiterTakes, attributes, kernel,
     SomeFd, SomeSession, Statuses, StarterPlaces, Events, EventTypes, NoFd, ReaderFits,
     CloserFits, SessionInv, TypeOK
<1>2. SenderFits(sender)'
  BY DEF WaiterTakes, attributes, kernel, NoFd, TypeOK, SomeFd, Senders, SessionInv, SenderFits
<1>3. (\A t \in Sessions : unread[t] <= written[t])'
  BY DEF WaiterTakes, attributes, kernel, SessionInv, TypeOK
<1>4. (\A t \in Sessions : ReaderFits(reader[t]) /\ CloserFits(waiter[t]) /\ CloserFits(stopper[t]))'
  BY DEF WaiterTakes, attributes, kernel, SomeFd, NoFd, SomeSession, Readers, Closers,
     Lifecycle, SessionInv, TypeOK, ReaderFits, CloserFits
<1>5. (\A t \in Sessions : Lifecycle(t))'
  BY DescriptorAssumption DEF WaiterTakes, attributes, kernel, Closers, NoFd, SomeFd,
     SessionInv, TypeOK, Lifecycle
<1>6. RecordFollowsStatus'
  BY DEF WaiterTakes, attributes, kernel, Closers, Readers, SessionInv, TypeOK, Lifecycle,
     RecordFollowsStatus, Settled
<1>7. NoDescriptorLeak'
  BY DescriptorAssumption, NobodyAssumption, SMTT(30) DEF WaiterTakes, attributes, kernel,
     NoFd, Closers, CloserFits, SomeFd, SomeSession, SessionInv, TypeOK, Lifecycle,
     NoDescriptorLeak
<1> QED BY <1>1, <1>2, <1>3, <1>4, <1>5, <1>6, <1>7 DEF SessionInv

LEMMA WaiterClosesInv ==
  ASSUME SessionInv, NEW s \in Sessions, WaiterCloses(s)
  PROVE  SessionInv'
<1>1. TypeOK'
  <2>1. "done" \in CloserPlaces /\ NoFd \in SomeFd
    BY DEF WaiterCloses, SessionInv, TypeOK, ReaderFits, CloserPlaces, SomeFd, SomeSession
  <2>2. waiter' \in [Sessions -> Closers]
    BY <2>1, CloserMoves DEF WaiterCloses, SessionInv, TypeOK, SomeFd, SomeSession
  <2> QED BY <2>2, DescriptorAssumption, NobodyAssumption DEF WaiterCloses, Closed, SomeFd,
     SomeSession, Statuses, StarterPlaces, Events, EventTypes, NoFd, ReaderFits, CloserFits,
     SessionInv, TypeOK
<1>2. SenderFits(sender)'
  BY DEF WaiterCloses, Closed, NoFd, TypeOK, SomeFd, Senders, SessionInv, SenderFits
<1>3. (\A t \in Sessions : unread[t] <= written[t])'
  BY DEF WaiterCloses, Closed, SessionInv, TypeOK
<1>4. (\A t \in Sessions : ReaderFits(reader[t]) /\ CloserFits(waiter[t]) /\ CloserFits(stopper[t]))'
  BY DEF WaiterCloses, Closed, SomeFd, NoFd, SomeSession, Readers, Closers, Lifecycle,
     SessionInv, TypeOK, ReaderFits, CloserFits
<1>5. (\A t \in Sessions : Lifecycle(t))'
  BY DescriptorAssumption DEF WaiterCloses, Closed, Closers, NoFd, SomeFd, SessionInv, TypeOK,
     Lifecycle
<1>6. RecordFollowsStatus'
  BY DEF WaiterCloses, Closed, Closers, Readers, SessionInv, TypeOK, Lifecycle,
     RecordFollowsStatus, Settled
<1>7. NoDescriptorLeak'
  BY DescriptorAssumption, NobodyAssumption, SMTT(30) DEF WaiterCloses, Closed, NoFd, Closers,
     CloserFits, SomeFd, SomeSession, SessionInv, TypeOK, Lifecycle, NoDescriptorLeak
<1> QED BY <1>1, <1>2, <1>3, <1>4, <1>5, <1>6, <1>7 DEF SessionInv

LEMMA SetTerminatedInv ==
  ASSUME SessionInv, NEW s \in Sessions, SetTerminated(s)
  PROVE  SessionInv'
<1>1. TypeOK'
  <2>1. "notify" \in CloserPlaces
    BY DEF SetTerminated, SessionInv, TypeOK, ReaderFits, CloserPlaces, SomeFd, SomeSession
  <2>2. stopper' \in [Sessions -> Closers]
    BY <2>1, CloserMoves DEF SetTerminated, SessionInv, TypeOK, SomeFd, SomeSession
  <2> QED BY <2>2, DescriptorAssumption, NobodyAssumption DEF SetTerminated, kernel, SomeFd,
     SomeSession, Statuses, StarterPlaces, Events, EventTypes, NoFd, ReaderFits, CloserFits,
     SessionInv, TypeOK
<1>2. SenderFits(sender)'
  BY DEF SetTerminated, kernel, NoFd, TypeOK, SomeFd, Senders, SessionInv, SenderFits
<1>3. (\A t \in Sessions : unread[t] <= written[t])'
  BY DEF SetTerminated, kernel, SessionInv, TypeOK
<1>4. (\A t \in Sessions : ReaderFits(reader[t]) /\ CloserFits(waiter[t]) /\ CloserFits(stopper[t]))'
  BY DEF SetTerminated, kernel, SomeFd, NoFd, SomeSession, Readers, Closers, Lifecycle,
     SessionInv, TypeOK, ReaderFits, CloserFits
<1>5. (\A t \in Sessions : Lifecycle(t))'
  BY DescriptorAssumption DEF SetTerminated, kernel, Closers, NoFd, SomeFd, SessionInv, TypeOK,
     Lifecycle
<1>6. RecordFollowsStatus'
  BY DEF SetTerminated, kernel, Closers, Readers, SessionInv, TypeOK, Lifecycle,
     RecordFollowsStatus, Settled
<1>7. NoDescriptorLeak'
  BY DescriptorAssumption, NobodyAssumption, SMTT(30) DEF SetTerminated, kernel, NoFd, Closers,
     CloserFits, SomeFd, SomeSession, SessionInv, TypeOK, Lifecycle, NoDescriptorLeak
<1> QED BY <1>1, <1>2, <1>3, <1>4, <1>5, <1>6, <1>7 DEF SessionInv

LEMMA NotifyTerminatedInv ==
  ASSUME SessionInv, NEW s \in Sessions, NotifyTerminated(s)
  PROVE  SessionInv'
<1>1. TypeOK'
  <2>1. "close" \in CloserPlaces
    BY DEF NotifyTerminated, SessionInv, TypeOK, ReaderFits, CloserPlaces, SomeFd, SomeSession
  <2>2. stopper' \in [Sessions -> Closers]
    BY <2>1, CloserMoves DEF NotifyTerminated, SessionInv, TypeOK, SomeFd, SomeSession
  <2> QED BY <2>2, DescriptorAssumption, NobodyAssumption DEF NotifyTerminated, kernel,
     Recorded, SomeFd, SomeSession, Statuses, StarterPlaces, Events, EventTypes, NoFd,
     ReaderFits, CloserFits, SessionInv, TypeOK
<1>2. SenderFits(sender)'
  BY DEF NotifyTerminated, kernel, Recorded, NoFd, TypeOK, SomeFd, Senders, SessionInv,
     SenderFits
<1>3. (\A t \in Sessions : unread[t] <= written[t])'
  BY DEF NotifyTerminated, kernel, Recorded, SessionInv, TypeOK
<1>4. (\A t \in Sessions : ReaderFits(reader[t]) /\ CloserFits(waiter[t]) /\ CloserFits(stopper[t]))'
  BY DEF NotifyTerminated, kernel, Recorded, SomeFd, NoFd, SomeSession, Readers, Closers,
     Lifecycle, SessionInv, TypeOK, ReaderFits, CloserFits
<1>5. (\A t \in Sessions : Lifecycle(t))'
  BY DescriptorAssumption DEF NotifyTerminated, kernel, Recorded, Closers, NoFd, SomeFd,
     SessionInv, TypeOK, Lifecycle
<1>6. RecordFollowsStatus'
  BY DEF NotifyTerminated, kernel, Recorded, Closers, Readers, SessionInv, TypeOK, Lifecycle,
     RecordFollowsStatus, Settled
<1>7. NoDescriptorLeak'
  BY DescriptorAssumption, NobodyAssumption, SMTT(30) DEF NotifyTerminated, kernel, Recorded,
     NoFd, Closers, CloserFits, SomeFd, SomeSession, SessionInv, TypeOK, Lifecycle,
     NoDescriptorLeak
<1> QED BY <1>1, <1>2, <1>3, <1>4, <1>5, <1>6, <1>7 DEF SessionInv

LEMMA StopperTakesInv ==
  ASSUME SessionInv, NEW s \in Sessions, StopperTakes(s)
  PROVE  SessionInv'
<1>1. TypeOK'
  <2>1. (IF master[s] = NoFd THEN "done" ELSE "closing") \in CloserPlaces /\ master[s] \in SomeFd
    BY DEF StopperTakes, SessionInv, TypeOK, ReaderFits, CloserPlaces, SomeFd, SomeSession
  <2>2. stopper' \in [Sessions -> Closers]
    BY <2>1, CloserMoves DEF StopperTakes, SessionInv, TypeOK, SomeFd, SomeSession
  <2> QED BY <2>2, DescriptorAssumption, NobodyAssumption DEF StopperTakes, attributes, kernel,
     SomeFd, SomeSession, Statuses, StarterPlaces, Events, EventTypes, NoFd, ReaderFits,
     CloserFits, SessionInv, TypeOK
<1>2. SenderFits(sender)'
  BY DEF StopperTakes, attributes, kernel, NoFd, TypeOK, SomeFd, Senders, SessionInv, SenderFits
<1>3. (\A t \in Sessions : unread[t] <= written[t])'
  BY DEF StopperTakes, attributes, kernel, SessionInv, TypeOK
<1>4. (\A t \in Sessions : ReaderFits(reader[t]) /\ CloserFits(waiter[t]) /\ CloserFits(stopper[t]))'
  BY DEF StopperTakes, attributes, kernel, SomeFd, NoFd, SomeSession, Readers, Closers,
     Lifecycle, SessionInv, TypeOK, ReaderFits, CloserFits
<1>5. (\A t \in Sessions : Lifecycle(t))'
  BY DescriptorAssumption DEF StopperTakes, attributes, kernel, Closers, NoFd, SomeFd,
     SessionInv, TypeOK, Lifecycle
<1>6. RecordFollowsStatus'
  BY DEF StopperTakes, attributes, kernel, Closers, Readers, SessionInv, TypeOK, Lifecycle,
     RecordFollowsStatus, Settled
<1>7. NoDescriptorLeak'
  BY DescriptorAssumption, NobodyAssumption, SMTT(30) DEF StopperTakes, attributes, kernel,
     NoFd, Closers, CloserFits, SomeFd, SomeSession, SessionInv, TypeOK, Lifecycle,
     NoDescriptorLeak
<1> QED BY <1>1, <1>2, <1>3, <1>4, <1>5, <1>6, <1>7 DEF SessionInv

LEMMA StopperClosesInv ==
  ASSUME SessionInv, NEW s \in Sessions, StopperCloses(s)
  PROVE  SessionInv'
<1>1. TypeOK'
  <2>1. "done" \in CloserPlaces /\ NoFd \in SomeFd
    BY DEF StopperCloses, SessionInv, TypeOK, ReaderFits, CloserPlaces, SomeFd, SomeSession
  <2>2. stopper' \in [Sessions -> Closers]
    BY <2>1, CloserMoves DEF StopperCloses, SessionInv, TypeOK, SomeFd, SomeSession
  <2> QED BY <2>2, DescriptorAssumption, NobodyAssumption DEF StopperCloses, Closed, SomeFd,
     SomeSession, Statuses, StarterPlaces, Events, EventTypes, NoFd, ReaderFits, CloserFits,
     SessionInv, TypeOK
<1>2. SenderFits(sender)'
  BY DEF StopperCloses, Closed, NoFd, TypeOK, SomeFd, Senders, SessionInv, SenderFits
<1>3. (\A t \in Sessions : unread[t] <= written[t])'
  BY DEF StopperCloses, Closed, SessionInv, TypeOK
<1>4. (\A t \in Sessions : ReaderFits(reader[t]) /\ CloserFits(waiter[t]) /\ CloserFits(stopper[t]))'
  BY DEF StopperCloses, Closed, SomeFd, NoFd, SomeSession, Readers, Closers, Lifecycle,
     SessionInv, TypeOK, ReaderFits, CloserFits
<1>5. (\A t \in Sessions : Lifecycle(t))'
  BY DescriptorAssumption DEF StopperCloses, Closed, Closers, NoFd, SomeFd, SessionInv, TypeOK,
     Lifecycle
<1>6. RecordFollowsStatus'
  BY DEF StopperCloses, Closed, Closers, Readers, SessionInv, TypeOK, Lifecycle,
     RecordFollowsStatus, Settled
<1>7. NoDescriptorLeak'
  BY DescriptorAssumption, NobodyAssumption, SMTT(30) DEF StopperCloses, Closed, NoFd, Closers,
     CloserFits, SomeFd, SomeSession, SessionInv, TypeOK, Lifecycle, NoDescriptorLeak
<1> QED BY <1>1, <1>2, <1>3, <1>4, <1>5, <1>6, <1>7 DEF SessionInv

LEMMA SendTakesInv ==
  ASSUME SessionInv, SendTakes
  PROVE  SessionInv'
<1>1. TypeOK'
  <2>1. sender' \in Senders
    <3>1. /\ sender.at \in {"idle", "checked", "holding"} /\ sender.fd \in SomeFd
          /\ sender.to \in SomeSession /\ sender.left \in 0 .. 2 /\ NoSender \in Senders
      BY DEF SessionInv, TypeOK, Senders, NoSender, SomeFd, SomeSession
    <3>2. sender.at = "checked" => master[sender.to] \in SomeFd
      BY <3>1 DEF SendTakes, SessionInv, TypeOK, SenderFits, SomeFd
    <3>3. sender \in Senders
      BY DEF SessionInv, TypeOK
    <3> QED BY <3>1, <3>2, <3>3 DEF SendTakes, Senders
  <2> QED BY <2>1 DEF SendTakes, SessionInv, TypeOK, SenderFits, attributes, kernel, threads,
     SomeSession
<1>2. SenderFits(sender)'
  BY DEF SendTakes, attributes, kernel, threads, NoSender, NoFd, TypeOK, SomeFd, Senders,
     SessionInv, SenderFits
<1>3. (\A t \in Sessions : unread[t] <= written[t])'
  BY DEF SendTakes, attributes, kernel, threads, SessionInv, TypeOK
<1>4. (\A t \in Sessions : ReaderFits(reader[t]) /\ CloserFits(waiter[t]) /\ CloserFits(stopper[t]))'
  BY DEF SendTakes, attributes, kernel, threads, SomeFd, NoFd, SomeSession, Readers, Closers,
     Lifecycle, SessionInv, TypeOK, ReaderFits, CloserFits
<1>5. (\A t \in Sessions : Lifecycle(t))'
  BY DescriptorAssumption DEF SendTakes, attributes, kernel, threads, Closers, NoFd, SomeFd,
     SessionInv, TypeOK, Lifecycle
<1>6. RecordFollowsStatus'
  BY DEF SendTakes, attributes, kernel, threads, Closers, Readers, SessionInv, TypeOK,
     Lifecycle, RecordFollowsStatus, Settled
<1>7. NoDescriptorLeak'
  BY DescriptorAssumption, NobodyAssumption, SMTT(30) DEF SendTakes, attributes, kernel,
     threads, NoFd, Closers, CloserFits, SomeFd, SomeSession, SessionInv, TypeOK, Lifecycle,
     NoDescriptorLeak
<1> QED BY <1>1, <1>2, <1>3, <1>4, <1>5, <1>6, <1>7 DEF SessionInv

LEMMA SendWritesInv ==
  ASSUME SessionInv, SendWrites
  PROVE  SessionInv'
<1>1. TypeOK'
  <2>1. sender' \in Senders
    <3>1. /\ sender.at \in {"idle", "checked", "holding"} /\ sender.fd \in SomeFd
          /\ sender.to \in SomeSession /\ sender.left \in 0 .. 2 /\ NoSender \in Senders
      BY DEF SessionInv, TypeOK, Senders, NoSender, SomeFd, SomeSession
    <3>2. sender.at = "holding" => sender.left - 1 \in 0 .. 2 /\ NoFd \in SomeFd
      BY <3>1 DEF SendWrites, SessionInv, TypeOK, SenderFits, SomeFd
    <3>3. sender \in Senders
      BY DEF SessionInv, TypeOK
    <3> QED BY <3>1, <3>2, <3>3 DEF SendWrites, Senders
  <2> QED BY <2>1 DEF SendWrites, SessionInv, TypeOK, SenderFits, attributes, kernel, threads,
     SomeSession
<1>2. SenderFits(sender)'
  <2>1. \/ sender' = NoSender
        \/ /\ sender' = [sender EXCEPT !.at = "checked", !.left = @ - 1, !.fd = NoFd]
           /\ sender.at = "holding"
    BY DEF SendWrites
  <2>2. sender \in Senders /\ (sender.at = "holding" => sender.to \in Sessions)
    BY DEF SessionInv, TypeOK, SenderFits
  <2>3. \/ sender'.at = "idle"
        \/ sender'.at = "checked" /\ sender'.to = sender.to /\ sender.at = "holding"
    <3>1. CASE sender' = NoSender
      BY <3>1 DEF NoSender
    <3>2. ASSUME sender' = [sender EXCEPT !.at = "checked", !.left = @ - 1, !.fd = NoFd]
          PROVE  sender'.at = "checked" /\ sender'.to = sender.to
      <4> DEFINE y == sender
      <4>1. y \in [at : {"idle", "checked", "holding"}, to : SomeSession, fd : SomeFd, left : 0 .. 2]
        BY <2>2 DEF Senders
      <4>2. /\ [y EXCEPT !.at = "checked", !.left = y.left - 1, !.fd = NoFd].at = "checked"
            /\ [y EXCEPT !.at = "checked", !.left = y.left - 1, !.fd = NoFd].to = y.to
        <5> HIDE DEF y
        <5> QED BY <4>1
      <4> QED BY <3>2, <4>2
    <3> QED BY <2>1, <3>1, <3>2
  <2> QED BY <2>2, <2>3 DEF SenderFits
<1>3. (\A t \in Sessions : unread[t] <= written[t])'
  BY DEF SendWrites, attributes, kernel, threads, SessionInv, TypeOK
<1>4. (\A t \in Sessions : ReaderFits(reader[t]) /\ CloserFits(waiter[t]) /\ CloserFits(stopper[t]))'
  BY DEF SendWrites, attributes, kernel, threads, SomeFd, NoFd, SomeSession, Readers, Closers,
     Lifecycle, SessionInv, TypeOK, ReaderFits, CloserFits
<1>5. (\A t \in Sessions : Lifecycle(t))'
  BY DescriptorAssumption DEF SendWrites, attributes, kernel, threads, Closers, NoFd, SomeFd,
     SessionInv, TypeOK, Lifecycle
<1>6. RecordFollowsStatus'
  BY DEF SendWrites, attributes, kernel, threads, Closers, Readers, SessionInv, TypeOK,
     Lifecycle, RecordFollowsStatus, Settled
<1>7. NoDescriptorLeak'
  BY DescriptorAssumption, NobodyAssumption, SMTT(30) DEF SendWrites, attributes, kernel,
     threads, NoFd, Closers, CloserFits, SomeFd, SomeSession, SessionInv, TypeOK, Lifecycle,
     NoDescriptorLeak
<1> QED BY <1>1, <1>2, <1>3, <1>4, <1>5, <1>6, <1>7 DEF SessionInv

LEMMA InitSessionInv ==
  ASSUME Init
  PROVE  SessionInv
<1>1. TypeOK
  BY DescriptorAssumption DEF Init, TypeOK, Readers, Closers, Senders, NoSender, SomeFd,
     SomeSession, StarterPlaces, ReaderPlaces, CloserPlaces, Statuses, NoFd
<1> QED BY <1>1 DEF Init, SessionInv, SenderFits, NoSender, ReaderFits, CloserFits, Lifecycle,
           RecordFollowsStatus, NoDescriptorLeak

LEMMA NextSessionInv ==
  ASSUME SessionInv, [Next]_vars
  PROVE  SessionInv'
<1>1. ASSUME NEW s \in Sessions,
             \/ Write(s) \/ Exit(s) \/ Spawn(s) \/ StopExited(s) \/ Kill(s)
             \/ SendBegin(s) \/ Rename(s) \/ StarterStep(s)
      PROVE  SessionInv'
  BY <1>1, WriteInv, ExitInv, SpawnInv, StopExitedInv, KillInv, SendBeginInv, RenameInv,
     SetRunningInv, AnnounceInv DEF StarterStep
<1>2. ASSUME NEW s \in Sessions, ReaderStep(s)
      PROVE  SessionInv'
  BY <1>2, ReaderStartsInv, EnterReadInv, ReadChunkInv, ReadHangupInv, LogOutputInv
  DEF ReaderStep
<1>3. ASSUME NEW s \in Sessions, WaiterStep(s) \/ StopperStep(s)
      PROVE  SessionInv'
  BY <1>3, SeeExitInv, NotifyExitInv, RunHookInv, WaiterTakesInv, WaiterClosesInv,
     SetTerminatedInv, NotifyTerminatedInv, StopperTakesInv, StopperClosesInv
  DEF WaiterStep, StopperStep
<1>4. CASE SendTakes \/ SendWrites
  BY <1>4, SendTakesInv, SendWritesInv
<1>5. CASE UNCHANGED vars
  <2>1. TypeOK' /\ RecordFollowsStatus' /\ NoDescriptorLeak'
    BY <1>5 DEF vars, SessionInv, TypeOK, RecordFollowsStatus, Settled, NoDescriptorLeak
  <2> QED BY <2>1, <1>5 DEF vars, SessionInv, SenderFits, ReaderFits, CloserFits, Lifecycle
<1> QED BY <1>1, <1>2, <1>3, <1>4, <1>5, Zenon DEF Next

LEMMA SessionInvHolds == Spec => []SessionInv
<1>1. Init => SessionInv
  BY InitSessionInv
<1>2. SessionInv /\ [Next]_vars => SessionInv'
  BY NextSessionInv
<1> QED BY <1>1, <1>2, PTL DEF Spec

-----------------------------------------------------------------------------
(* Descriptors and readers stay within their types: no thread reads from   *)
(* or closes something that is not a descriptor.                           *)
THEOREM SessionTypes == Spec => []TypeOK
<1>1. SessionInv => TypeOK
  BY DEF SessionInv
<1> QED BY <1>1, SessionInvHolds, PTL

(* Whatever the order in which the three threads set the status and save   *)
(* the record, the record is the status once they are through.             *)
THEOREM RecordFollows == Spec => []RecordFollowsStatus
<1>1. SessionInv => RecordFollowsStatus
  BY DEF SessionInv
<1> QED BY <1>1, SessionInvHolds, PTL

(* An open descriptor is known to the session whose terminal it is.        *)
THEOREM NoneLeaks == Spec => []NoDescriptorLeak
<1>1. SessionInv => NoDescriptorLeak
  BY DEF SessionInv
<1> QED BY <1>1, SessionInvHolds, PTL

-----------------------------------------------------------------------------
(* The transport (EventRelay).                                             *)

-----------------------------------------------------------------------------
(* Records, channels and cursors.                                          *)

Pieces == [of : Sessions, id : Ids, notice : BOOLEAN]

(* A relay, field by field; the first element of a sequence.               *)
LEMMA RelayIs ==
    ASSUME NEW m \in Relays
    PROVE  m = [at |-> m.at, last |-> m.last, entry |-> m.entry, pipe |-> m.pipe,
                sent |-> m.sent, round |-> m.round, batch |-> m.batch]
  BY DEF Relays

LEMMA HeadOf ==
    ASSUME NEW S, NEW q \in Seq(S), q # <<>>
    PROVE  Head(q) = q[1] /\ q[1] \in S /\ Len(q) \in Nat \ {0} /\ DOMAIN q = 1 .. Len(q)
  <1>1. Len(q) \in Nat \ {0} /\ DOMAIN q = 1 .. Len(q) /\ q \in [1 .. Len(q) -> S]
    BY EmptySeq, LenProperties
  <1> QED BY <1>1

(* Sequences and cursors that are built, and relays without a stream.      *)
LEMMA MadeSeq ==
    ASSUME NEW T, NEW n \in Nat, NEW f \in [1 .. n -> T]
    PROVE  f \in Seq(T) /\ Len(f) = n
  BY SeqDef

LEMMA CursorMoves ==
    ASSUME NEW c \in Cursors, NEW t \in Sessions, NEW id \in Ids
    PROVE  [c EXCEPT ![t] = id] \in Cursors
  BY DEF Cursors

LEMMA BlankRelays ==
    ASSUME NEW at \in {"gone", "waiting", "streaming"}, NEW last \in Cursors
    PROVE  Disconnected(at, last) \in Relays
  BY DEF Disconnected, Relays

LEMMA StartIsCursor == Start \in Cursors
  BY RelayAssumption DEF Start, Cursors, Ids

(* What one action on a relay leaves of it.                                *)
LEMMA WriteIs ==
    ASSUME RelayTypeOK, NEW r \in Subs, StreamWrite(r)
    PROVE  \E e \in Pieces :
             LET m == relay[r]
                 sent == [m.sent EXCEPT ![e.of] = e.id]
                 x == [of |-> e.of, id |-> e.id, notice |-> e.notice, cursor |-> sent]
             IN  /\ m.batch # <<>> /\ e = m.batch[1] /\ Len(m.pipe) < Room
                 /\ sent \in Cursors /\ x \in Entries
                 /\ relay' = [relay EXCEPT ![r] =
                      [at |-> m.at, last |-> m.last, entry |-> m.entry,
                       pipe |-> Append(m.pipe, x), sent |-> sent,
                       round |-> m.round, batch |-> Tail(m.batch)]]
  <1> DEFINE m == relay[r]
             e == Head(m.batch)
             sent == [m.sent EXCEPT ![e.of] = e.id]
             x == [of |-> e.of, id |-> e.id, notice |-> e.notice, cursor |-> sent]
             b == Tail(m.batch)
             p == Append(m.pipe, x)
  <1>1. m \in Relays /\ relay \in [Subs -> Relays]
    BY DEF RelayTypeOK
  <1>2. m.batch # <<>> /\ e = m.batch[1] /\ e \in Pieces
    <2>1. m.batch # <<>>
      BY DEF StreamWrite
    <2>2. m.batch \in Seq(Pieces)
      BY <1>1 DEF Relays, Pieces
    <2> QED BY ONLY <2>1, <2>2, HeadOf
  <1>3. sent \in Cursors /\ x \in Entries
    BY <1>1, <1>2, CursorMoves DEF Relays, Entries, Pieces
  <1>4. relay' = [relay EXCEPT ![r].batch = b, ![r].sent = sent, ![r].pipe = p]
    BY DEF StreamWrite, Advance
  <1> HIDE DEF b, sent, p
  <1>5. relay' = [relay EXCEPT ![r] =
                    [at |-> m.at, last |-> m.last, entry |-> m.entry, pipe |-> p,
                     sent |-> sent, round |-> m.round, batch |-> b]]
    <2>1. m = [at |-> m.at, last |-> m.last, entry |-> m.entry, pipe |-> m.pipe,
               sent |-> m.sent, round |-> m.round, batch |-> m.batch]
      BY <1>1, RelayIs
    <2> DEFINE m1 == [at |-> m.at, last |-> m.last, entry |-> m.entry, pipe |-> m.pipe,
                     sent |-> m.sent, round |-> m.round, batch |-> b]
    <2>2. [m EXCEPT !.batch = b] = m1
      BY ONLY <2>1
    <2> DEFINE m2 == [at |-> m.at, last |-> m.last, entry |-> m.entry, pipe |-> m.pipe,
                     sent |-> sent, round |-> m.round, batch |-> b]
    <2>3. [m1 EXCEPT !.sent = sent] = m2
      BY ONLY <2>1
    <2> DEFINE m3 == [at |-> m.at, last |-> m.last, entry |-> m.entry, pipe |-> p,
                     sent |-> sent, round |-> m.round, batch |-> b]
    <2>4. [m2 EXCEPT !.pipe = p] = m3
      BY ONLY <2>1
    <2> HIDE DEF m1, m2, m3
    <2> QED BY <1>1, <1>4, <2>2, <2>3, <2>4 DEF m3
  <1> QED BY <1>2, <1>3, <1>5 DEF StreamWrite, b, sent, p

LEMMA ReadIs ==
    ASSUME RelayTypeOK, NEW r \in Subs, ReadId(r)
    PROVE  LET m == relay[r]  e == m.pipe[1]
           IN  /\ m.entry = <<>> /\ m.pipe # <<>> /\ e \in Entries
               /\ relay' = [relay EXCEPT ![r] =
                    [at |-> m.at, last |-> e.cursor, entry |-> <<e>>,
                     pipe |-> Tail(m.pipe), sent |-> m.sent,
                     round |-> m.round, batch |-> m.batch]]
  <1> DEFINE m == relay[r]
             e == Head(m.pipe)
             p == Tail(m.pipe)
             one == <<e>>
             c == e.cursor
  <1>1. m \in Relays /\ relay \in [Subs -> Relays]
    BY DEF RelayTypeOK
  <1>2. m.pipe # <<>> /\ e = m.pipe[1] /\ e \in Entries /\ m.entry = <<>>
    <2>1. m.pipe # <<>> /\ m.entry = <<>>
      BY DEF ReadId
    <2>2. m.pipe \in Seq(Entries)
      BY <1>1 DEF Relays
    <2> QED BY ONLY <2>1, <2>2, HeadOf
  <1>3. relay' = [relay EXCEPT ![r].pipe = p, ![r].entry = one, ![r].last = c]
    BY DEF ReadId
  <1> HIDE DEF p, one, c
  <1>4. relay' = [relay EXCEPT ![r] =
                    [at |-> m.at, last |-> c, entry |-> one, pipe |-> p,
                     sent |-> m.sent, round |-> m.round, batch |-> m.batch]]
    <2>1. m = [at |-> m.at, last |-> m.last, entry |-> m.entry, pipe |-> m.pipe,
               sent |-> m.sent, round |-> m.round, batch |-> m.batch]
      BY <1>1, RelayIs
    <2> DEFINE m1 == [at |-> m.at, last |-> m.last, entry |-> m.entry, pipe |-> p,
                     sent |-> m.sent, round |-> m.round, batch |-> m.batch]
    <2>2. [m EXCEPT !.pipe = p] = m1
      BY ONLY <2>1
    <2> DEFINE m2 == [at |-> m.at, last |-> m.last, entry |-> one, pipe |-> p,
                     sent |-> m.sent, round |-> m.round, batch |-> m.batch]
    <2>3. [m1 EXCEPT !.entry = one] = m2
      BY ONLY <2>1
    <2> DEFINE m3 == [at |-> m.at, last |-> c, entry |-> one, pipe |-> p,
                     sent |-> m.sent, round |-> m.round, batch |-> m.batch]
    <2>4. [m2 EXCEPT !.last = c] = m3
      BY ONLY <2>1
    <2> HIDE DEF m1, m2, m3
    <2> QED BY <1>1, <1>3, <2>2, <2>3, <2>4 DEF m3
  <1> QED BY <1>2, <1>4 DEF p, one, c

LEMMA ForwardIs ==
    ASSUME RelayTypeOK, NEW r \in Subs, Forward(r)
    PROVE  LET m == relay[r]  e == m.entry[1]
           IN  /\ m.entry # <<>> /\ e \in Entries /\ Len(wire) < Room
               /\ wire' = Append(wire, [sub |-> r, entry |-> e])
               /\ relay' = [relay EXCEPT ![r] =
                    [at |-> m.at, last |-> m.last, entry |-> <<>>, pipe |-> m.pipe,
                     sent |-> m.sent, round |-> m.round, batch |-> m.batch]]
  <1> DEFINE m == relay[r]
  <1>1. m \in Relays /\ relay \in [Subs -> Relays]
    BY DEF RelayTypeOK
  <1>2. m.entry # <<>> /\ Head(m.entry) = m.entry[1] /\ m.entry[1] \in Entries
    <2>1. m.entry # <<>>
      BY DEF Forward
    <2>2. m.entry \in Seq(Entries)
      BY <1>1 DEF Relays
    <2> QED BY ONLY <2>1, <2>2, HeadOf
  <1>3. relay' = [relay EXCEPT ![r].entry = <<>>]
    BY DEF Forward
  <1>4. relay' = [relay EXCEPT ![r] =
                    [at |-> m.at, last |-> m.last, entry |-> <<>>, pipe |-> m.pipe,
                     sent |-> m.sent, round |-> m.round, batch |-> m.batch]]
    <2>1. m = [at |-> m.at, last |-> m.last, entry |-> m.entry, pipe |-> m.pipe,
               sent |-> m.sent, round |-> m.round, batch |-> m.batch]
      BY <1>1, RelayIs
    <2> DEFINE m1 == [at |-> m.at, last |-> m.last, entry |-> <<>>, pipe |-> m.pipe,
                     sent |-> m.sent, round |-> m.round, batch |-> m.batch]
    <2>2. [m EXCEPT !.entry = <<>>] = m1
      BY ONLY <2>1
    <2> HIDE DEF m1
    <2> QED BY <1>1, <1>3, <2>2 DEF m1
  <1> QED BY <1>2, <1>4 DEF Forward

(* What a new round and a session of it leave of the relay.                *)
LEMMA RoundIs ==
    ASSUME RelayTypeOK, NEW r \in Subs, StreamRound(r)
    PROVE  LET m == relay[r]
           IN  /\ m.at = "streaming"
               /\ \E round \in SUBSET Sessions :
                    relay' = [relay EXCEPT ![r] =
                      [at |-> m.at, last |-> m.last, entry |-> m.entry, pipe |-> m.pipe,
                       sent |-> m.sent, round |-> round, batch |-> m.batch]]
  <1> DEFINE m == relay[r]
             round == {s \in Sessions : active[s] \/ selected = s}
  <1>1. m \in Relays /\ relay \in [Subs -> Relays]
    BY DEF RelayTypeOK
  <1>2. relay' = [relay EXCEPT ![r].round = round] /\ m.at = "streaming"
    BY DEF StreamRound
  <1>3. round \in SUBSET Sessions
    OBVIOUS
  <1> HIDE DEF round
  <1>4. relay' = [relay EXCEPT ![r] =
                    [at |-> m.at, last |-> m.last, entry |-> m.entry, pipe |-> m.pipe,
                     sent |-> m.sent, round |-> round, batch |-> m.batch]]
    <2>1. m = [at |-> m.at, last |-> m.last, entry |-> m.entry, pipe |-> m.pipe,
               sent |-> m.sent, round |-> m.round, batch |-> m.batch]
      BY <1>1, RelayIs
    <2> DEFINE m1 == [at |-> m.at, last |-> m.last, entry |-> m.entry, pipe |-> m.pipe,
                     sent |-> m.sent, round |-> round, batch |-> m.batch]
    <2>2. [m EXCEPT !.round = round] = m1
      BY ONLY <2>1
    <2> HIDE DEF m1
    <2> QED BY <1>1, <1>2, <2>2 DEF m1
  <1> QED BY <1>2, <1>3, <1>4

(* What is replayed is what lies between the two positions, in order.      *)
LEMMA ReplayIs ==
    ASSUME NEW s \in Sessions, NEW from \in Ids, NEW to \in Ids
    PROVE  LET b == Replay(s, from, to)
           IN  /\ b \in Seq(Pieces)
               /\ \A i \in DOMAIN b :
                    /\ b[i].of = s
                    /\ b[i].id \in from + 1 .. to
                    /\ b[i].id = b[1].id + (i - 1)
                    /\ i > 1 => ~b[i].notice
                    /\ (i = 1 /\ ~b[i].notice) => b[i].id = from + 1
  <1> DEFINE first == IF to - from > Limit THEN to - Limit ELSE from
             head == IF first > from THEN <<[of |-> s, id |-> first, notice |-> TRUE]>>
                     ELSE <<>>
             rest == [i \in 1 .. to - first |-> [of |-> s, id |-> first + i, notice |-> FALSE]]
             b == head \o rest
  <1>1. first \in Nat /\ first \in Ids /\ from \in Nat /\ to \in Nat /\ Limit \in Nat
        /\ first >= from /\ to \in Ids
        /\ (first > from => first <= to) /\ (first > to => first = from)
    BY RelayAssumption DEF Ids
  <1>2. Replay(s, from, to) = b
    BY DEF Replay
  <1> HIDE DEF first
  <1>3. head \in Seq(Pieces)
    <2> DEFINE x == [of |-> s, id |-> first, notice |-> TRUE]
    <2>1. x \in Pieces
      BY <1>1 DEF Pieces
    <2> HIDE DEF x
    <2>2. <<x>> \in Seq(Pieces) /\ <<>> \in Seq(Pieces)
      BY <2>1
    <2> QED BY <2>2 DEF x
  <1>4. rest \in Seq(Pieces) /\ Len(rest) = (IF to >= first THEN to - first ELSE 0)
        /\ \A i \in 1 .. to - first :
             rest[i] = [of |-> s, id |-> first + i, notice |-> FALSE]
    <2> DEFINE n == IF to >= first THEN to - first ELSE 0
    <2>1. \A i \in 1 .. to - first : [of |-> s, id |-> first + i, notice |-> FALSE] \in Pieces
      BY <1>1, RelayAssumption DEF Ids, Pieces
    <2>2. n \in Nat /\ 1 .. to - first = 1 .. n
      BY <1>1
    <2>3. rest \in [1 .. n -> Pieces]
      BY <2>1, <2>2
    <2>4. rest \in Seq(Pieces) /\ Len(rest) = n
      <3> HIDE DEF rest, n
      <3> QED BY <2>2, <2>3, MadeSeq
    <2> QED BY <2>4
  <1>5. b \in Seq(Pieces) /\ Len(b) = Len(head) + Len(rest)
        /\ \A i \in 1 .. Len(head) + Len(rest) :
             b[i] = IF i <= Len(head) THEN head[i] ELSE rest[i - Len(head)]
    <2> HIDE DEF head, rest
    <2> QED BY <1>3, <1>4, ConcatProperties
  <1>6. CASE first > from
    <2>1. Len(head) = 1 /\ head[1] = [of |-> s, id |-> first, notice |-> TRUE]
      BY <1>6
    <2>2. /\ DOMAIN b = 1 .. 1 + Len(rest) /\ b[1] = head[1] /\ Len(rest) = to - first
          /\ \A i \in 2 .. 1 + Len(rest) : b[i] = [of |-> s, id |-> first + i - 1, notice |-> FALSE]
      <3> HIDE DEF b, head, rest
      <3>1. b \in Seq(Pieces) /\ Len(b) = 1 + Len(rest) /\ Len(rest) = to - first
        BY <1>1, <1>4, <1>5, <1>6, <2>1
      <3>2. \A i \in 2 .. 1 + Len(rest) : b[i] = rest[i - 1] /\ i - 1 \in 1 .. to - first
        BY <1>1, <1>5, <2>1, <3>1
      <3>3. \A i \in 2 .. 1 + Len(rest) : first + (i - 1) = first + i - 1
        BY <1>1, <1>4
      <3>4. b[1] = head[1] /\ DOMAIN b = 1 .. 1 + Len(rest)
        <4>1. Len(rest) \in Nat
          BY <1>4
        <4>2. 1 \in 1 .. Len(head) + Len(rest) /\ 1 <= Len(head)
          BY <2>1, <4>1
        <4>3. b[1] = head[1]
          BY <1>5, <4>2
        <4> QED BY <3>1, <4>3
      <3>5. ASSUME NEW i \in 2 .. 1 + Len(rest)
            PROVE  b[i] = [of |-> s, id |-> first + i - 1, notice |-> FALSE]
        <4>1. b[i] = [of |-> s, id |-> first + (i - 1), notice |-> FALSE]
          BY <1>4, <3>2
        <4> QED BY <3>3, <4>1
      <3> QED BY <3>1, <3>4, <3>5
    <2> HIDE DEF b, head, rest
    <2>3. ASSUME NEW i \in DOMAIN b
          PROVE  /\ b[i].of = s
                 /\ b[i].id \in from + 1 .. to
                 /\ b[i].id = b[1].id + (i - 1)
                 /\ i > 1 => ~b[i].notice
                 /\ (i = 1 /\ ~b[i].notice) => b[i].id = from + 1
      <3>1. CASE i = 1
        BY <1>1, <1>6, <2>1, <2>2, <3>1
      <3>2. CASE i > 1
        <4>1. i \in 2 .. 1 + Len(rest) /\ i \in Nat /\ first + i - 1 <= to
              /\ first + i - 1 >= from + 1
          BY <1>1, <1>4, <1>6, <2>2, <3>2
        <4>2. b[i].of = s /\ b[i].id = first + i - 1 /\ ~b[i].notice
          <5>1. b[i] = [of |-> s, id |-> first + i - 1, notice |-> FALSE]
            BY <2>2, <4>1
          <5> QED BY <5>1
        <4>3. b[1].id = first
          BY <2>1, <2>2
        <4> QED BY <1>1, <3>2, <4>1, <4>2, <4>3
      <3> QED BY <1>4, <2>2, <3>1, <3>2
    <2> QED BY <1>2, <1>5, <2>3
  <1>7. CASE ~(first > from)
    <2>1. head = <<>> /\ Len(head) = 0 /\ first = from
      BY <1>1, <1>7
    <2>2. /\ DOMAIN b = 1 .. Len(rest)
          /\ \A i \in 1 .. Len(rest) : i \in 1 .. to - from
                /\ b[i] = [of |-> s, id |-> from + i, notice |-> FALSE]
      <3> HIDE DEF b, head, rest
      <3>1. b \in Seq(Pieces) /\ Len(b) = Len(rest)
        BY <1>1, <1>4, <1>5, <2>1
      <3>2. \A i \in 1 .. Len(rest) : b[i] = rest[i]
        BY <1>4, <1>5, <2>1
      <3> QED BY <1>1, <1>4, <2>1, <3>1, <3>2
    <2> HIDE DEF b, head, rest
    <2>3. ASSUME NEW i \in 1 .. Len(rest)
          PROVE  /\ b[i].of = s /\ b[i].id = from + i /\ ~b[i].notice
                 /\ b[1].id = from + 1 /\ i \in 1 .. to - from
      <3>1. i \in Nat /\ 1 \in 1 .. Len(rest)
        BY <1>4
      <3>2. b[i] = [of |-> s, id |-> from + i, notice |-> FALSE]
        BY <2>2
      <3>3. b[1] = [of |-> s, id |-> from + 1, notice |-> FALSE]
        BY <2>2, <3>1
      <3> QED BY <2>2, <3>2, <3>3
    <2>4. ASSUME NEW i \in DOMAIN b
          PROVE  /\ b[i].of = s
                 /\ b[i].id \in from + 1 .. to
                 /\ b[i].id = b[1].id + (i - 1)
                 /\ i > 1 => ~b[i].notice
                 /\ (i = 1 /\ ~b[i].notice) => b[i].id = from + 1
      BY <1>1, <2>2, <2>3
    <2> QED BY <1>2, <1>5, <2>4
  <1> QED BY <1>6, <1>7

LEMMA TakeIs ==
    ASSUME RelayTypeOK, NEW r \in Subs, NEW s \in Sessions, StreamTake(r, s)
    PROVE  LET m == relay[r]
               b == Replay(s, m.sent[s], produced[s])
           IN  /\ m.batch = <<>> /\ m.round # {} /\ m.sent[s] \in Ids /\ produced[s] \in Ids
               /\ relay' = [relay EXCEPT ![r] =
                    [at |-> m.at, last |-> m.last, entry |-> m.entry, pipe |-> m.pipe,
                     sent |-> m.sent, round |-> m.round \ {s}, batch |-> b]]
  <1> DEFINE m == relay[r]
             b == Replay(s, m.sent[s], produced[s])
             some == m.round \ {s}
  <1>1. m \in Relays /\ relay \in [Subs -> Relays]
    BY DEF RelayTypeOK
  <1>2. relay' = [relay EXCEPT ![r].round = some, ![r].batch = b]
    BY DEF StreamTake
  <1> HIDE DEF b, some
  <1>3. relay' = [relay EXCEPT ![r] =
                    [at |-> m.at, last |-> m.last, entry |-> m.entry, pipe |-> m.pipe,
                     sent |-> m.sent, round |-> some, batch |-> b]]
    <2>1. m = [at |-> m.at, last |-> m.last, entry |-> m.entry, pipe |-> m.pipe,
               sent |-> m.sent, round |-> m.round, batch |-> m.batch]
      BY <1>1, RelayIs
    <2> DEFINE m1 == [at |-> m.at, last |-> m.last, entry |-> m.entry, pipe |-> m.pipe,
                     sent |-> m.sent, round |-> some, batch |-> m.batch]
    <2>2. [m EXCEPT !.round = some] = m1
      BY ONLY <2>1
    <2> DEFINE m2 == [at |-> m.at, last |-> m.last, entry |-> m.entry, pipe |-> m.pipe,
                     sent |-> m.sent, round |-> some, batch |-> b]
    <2>3. [m1 EXCEPT !.batch = b] = m2
      BY ONLY <2>1
    <2> HIDE DEF m1, m2
    <2> QED BY <1>1, <1>2, <2>2, <2>3 DEF m2
  <1> QED BY <1>1, <1>3 DEF b, some, StreamTake, Relays, RelayTypeOK, Cursors

-----------------------------------------------------------------------------
(* Types.                                                                  *)

(* A channel with one element more at its end, or one less at its head.    *)
LEMMA Appended ==
    ASSUME NEW T, NEW q \in Seq(T), NEW x \in T
    PROVE  /\ Append(q, x) \in Seq(T) /\ Len(Append(q, x)) = Len(q) + 1
           /\ DOMAIN q = 1 .. Len(q) /\ Len(q) \in Nat
           /\ DOMAIN Append(q, x) = 1 .. Len(q) + 1
           /\ \A i \in 1 .. Len(q) : Append(q, x)[i] = q[i]
           /\ Append(q, x)[Len(q) + 1] = x
  OBVIOUS

LEMMA Shortened ==
    ASSUME NEW T, NEW q \in Seq(T), q # <<>>
    PROVE  /\ Tail(q) \in Seq(T) /\ Len(Tail(q)) = Len(q) - 1
           /\ DOMAIN q = 1 .. Len(q) /\ Len(q) \in Nat \ {0}
           /\ DOMAIN Tail(q) = 1 .. Len(q) - 1
           /\ \A i \in 1 .. Len(q) - 1 : Tail(q)[i] = q[i + 1]
  BY HeadTailProperties, LenProperties, EmptySeq

(* A relay of which one action changes some fields is a relay still.       *)
LEMMA RelayStays ==
    ASSUME NEW m \in Relays, NEW last \in Cursors, NEW entry \in Seq(Entries),
           NEW pipe \in Seq(Entries), NEW sent \in Cursors,
           NEW round \in SUBSET Sessions, NEW batch \in Seq(Pieces)
    PROVE  [at |-> m.at, last |-> last, entry |-> entry, pipe |-> pipe, sent |-> sent,
            round |-> round, batch |-> batch] \in Relays
  BY DEF Relays, Pieces

LEMMA RelayFields ==
    ASSUME NEW m \in Relays
    PROVE  /\ m.at \in {"gone", "waiting", "streaming"} /\ m.last \in Cursors
           /\ m.entry \in Seq(Entries) /\ m.pipe \in Seq(Entries) /\ m.sent \in Cursors
           /\ m.round \in SUBSET Sessions /\ m.batch \in Seq(Pieces)
  BY DEF Relays, Pieces

LEMMA EntryFields ==
    ASSUME NEW e \in Entries
    PROVE  e.of \in Sessions /\ e.id \in Ids /\ e.notice \in BOOLEAN /\ e.cursor \in Cursors
  BY DEF Entries

(* Both kinds of channel have room.                                        *)
RelayTyped(f) == f \in [Subs -> Relays] /\ \A r \in Subs : Len(f[r].pipe) <= Room

LEMMA RelayTypedMoves ==
    ASSUME NEW f, RelayTyped(f), NEW r \in Subs, NEW m \in Relays, Len(m.pipe) <= Room
    PROVE  RelayTyped([f EXCEPT ![r] = m])
  BY DEF RelayTyped

(* Every action on a relay leaves a relay.                                 *)
LEMMA RelayTypeStep ==
    ASSUME RelayTypeOK, NEW r \in Subs,
           StreamStep(r) \/ RelayStep(r) \/ Break(r) \/ Unsubscribe(r)
    PROVE  RelayTyped(relay')
  <1> DEFINE m == relay[r]
  <1>1. RelayTyped(relay) /\ m \in Relays /\ m.last \in Cursors /\ Len(m.pipe) <= Room
    BY RelayFields DEF RelayTypeOK, RelayTyped
  <1>2. Room \in Nat \ {0} /\ Len(<<>>) = 0
    BY RelayAssumption
  <1>3. m \in Relays => m.pipe \in Seq(Entries) /\ m.entry \in Seq(Entries) /\ m.sent \in Cursors
                        /\ m.round \in SUBSET Sessions /\ m.batch \in Seq(Pieces)
    BY RelayFields
  <1>4. ASSUME NEW at \in {"gone", "waiting", "streaming"}, NEW last \in Cursors,
               relay' = [relay EXCEPT ![r] = Disconnected(at, last)]
        PROVE  RelayTyped(relay')
    <2> DEFINE x == Disconnected(at, last)
    <2>1. x \in Relays
      BY BlankRelays
    <2>2. x.pipe = <<>>
      BY DEF Disconnected
    <2>3. relay' = [relay EXCEPT ![r] = x]
      BY <1>4
    <2> HIDE DEF x
    <2>4. Len(x.pipe) <= Room
      BY <1>2, <2>2
    <2> QED BY ONLY <1>1, <2>1, <2>3, <2>4, RelayTypedMoves
  <1>5. ASSUME NEW x, x \in Relays, Len(x.pipe) <= Room, relay' = [relay EXCEPT ![r] = x]
        PROVE  RelayTyped(relay')
    BY <1>1, <1>5, RelayTypedMoves
  <1>6. CASE StreamRound(r)
    <2>1. PICK round \in SUBSET Sessions :
            relay' = [relay EXCEPT ![r] =
                      [at |-> m.at, last |-> m.last, entry |-> m.entry, pipe |-> m.pipe,
                       sent |-> m.sent, round |-> round, batch |-> m.batch]]
      BY <1>6, RoundIs
    <2> DEFINE x == [at |-> m.at, last |-> m.last, entry |-> m.entry, pipe |-> m.pipe,
                       sent |-> m.sent, round |-> round, batch |-> m.batch]
    <2>2. x \in Relays
      BY <1>1, <1>3, RelayStays
    <2>3. Len(x.pipe) <= Room
      BY <1>1
    <2> HIDE DEF x
    <2> QED BY <1>5, <2>1, <2>2, <2>3 DEF x
  <1>7. CASE StreamWrite(r)
    <2>1. PICK e \in Pieces :
             LET sent == [m.sent EXCEPT ![e.of] = e.id]
                 x == [of |-> e.of, id |-> e.id, notice |-> e.notice, cursor |-> sent]
             IN  /\ m.batch # <<>> /\ Len(m.pipe) < Room
                 /\ sent \in Cursors /\ x \in Entries
                 /\ relay' = [relay EXCEPT ![r] =
                      [at |-> m.at, last |-> m.last, entry |-> m.entry,
                       pipe |-> Append(m.pipe, x), sent |-> sent,
                       round |-> m.round, batch |-> Tail(m.batch)]]
      BY <1>7, WriteIs
    <2> DEFINE sent == [m.sent EXCEPT ![e.of] = e.id]
               y == [of |-> e.of, id |-> e.id, notice |-> e.notice, cursor |-> sent]
               p == Append(m.pipe, y)
               b == Tail(m.batch)
               x == [at |-> m.at, last |-> m.last, entry |-> m.entry, pipe |-> p,
                     sent |-> sent, round |-> m.round, batch |-> b]
    <2> HIDE DEF y, sent
    <2>2. relay' = [relay EXCEPT ![r] = x] /\ sent \in Cursors /\ y \in Entries
          /\ m.batch # <<>> /\ Len(m.pipe) < Room
      BY <2>1 DEF y, sent
    <2>3. p \in Seq(Entries) /\ Len(p) = Len(m.pipe) + 1 /\ Len(m.pipe) \in Nat
      BY <1>1, <1>3, <2>2, Appended
    <2>4. b \in Seq(Pieces)
      BY <1>1, <1>3, <2>2, Shortened
    <2> HIDE DEF p, b
    <2>5. x \in Relays
      BY <1>1, <1>3, <2>2, <2>3, <2>4, RelayStays
    <2>6. Len(x.pipe) <= Room
      BY <1>2, <2>2, <2>3
    <2> HIDE DEF x
    <2> QED BY <1>5, <2>2, <2>5, <2>6
  <1>8. ASSUME NEW s \in Sessions, StreamTake(r, s)
        PROVE  RelayTyped(relay')
    <2> DEFINE b == Replay(s, m.sent[s], produced[s])
               x == [at |-> m.at, last |-> m.last, entry |-> m.entry, pipe |-> m.pipe,
                     sent |-> m.sent, round |-> m.round \ {s}, batch |-> b]
    <2>1. relay' = [relay EXCEPT ![r] = x] /\ m.sent[s] \in Ids /\ produced[s] \in Ids
      BY <1>8, TakeIs
    <2>2. b \in Seq(Pieces)
      BY <2>1, ReplayIs
    <2> HIDE DEF b
    <2>3. x \in Relays
      BY <1>1, <1>3, <2>2, RelayStays
    <2>4. Len(x.pipe) <= Room
      BY <1>1
    <2> HIDE DEF x
    <2> QED BY <1>5, <2>1, <2>3, <2>4
  <1>9. CASE Connect(r)
    BY <1>1, <1>4, <1>9 DEF Connect
  <1>10. CASE ReadId(r)
    <2> DEFINE e == m.pipe[1]
               p == Tail(m.pipe)
               x == [at |-> m.at, last |-> e.cursor, entry |-> <<e>>, pipe |-> p,
                     sent |-> m.sent, round |-> m.round, batch |-> m.batch]
    <2>1. relay' = [relay EXCEPT ![r] = x] /\ e \in Entries /\ m.pipe # <<>>
      BY <1>10, ReadIs
    <2>2. p \in Seq(Entries) /\ Len(p) = Len(m.pipe) - 1 /\ Len(m.pipe) \in Nat \ {0}
      BY <1>1, <1>3, <2>1, Shortened
    <2> HIDE DEF p, e
    <2>3. e.cursor \in Cursors /\ <<e>> \in Seq(Entries)
      BY <2>1, EntryFields
    <2>4. x \in Relays
      BY <1>1, <1>3, <2>2, <2>3, RelayStays
    <2>5. Len(x.pipe) <= Room
      BY <1>1, <1>2, <2>2
    <2> HIDE DEF x
    <2> QED BY <1>5, <2>1, <2>4, <2>5
  <1>11. CASE Forward(r)
    <2> DEFINE x == [at |-> m.at, last |-> m.last, entry |-> <<>>, pipe |-> m.pipe,
                     sent |-> m.sent, round |-> m.round, batch |-> m.batch]
    <2>1. relay' = [relay EXCEPT ![r] = x]
      BY <1>11, ForwardIs
    <2>2. x \in Relays
      <3>1. <<>> \in Seq(Entries)
        OBVIOUS
      <3> QED BY <1>1, <1>3, <3>1, RelayStays
    <2>3. Len(x.pipe) <= Room
      BY <1>1
    <2> HIDE DEF x
    <2> QED BY <1>5, <2>1, <2>2, <2>3
  <1>12. CASE Break(r)
    BY <1>1, <1>4, <1>12 DEF Break
  <1>13. CASE Unsubscribe(r)
    BY <1>4, <1>13, StartIsCursor DEF Unsubscribe, Gone
  <1> QED BY <1>6, <1>7, <1>8, <1>9, <1>10, <1>11, <1>12, <1>13 DEF StreamStep, RelayStep

Messages == [sub : Subs, entry : Entries]

(* What is on the wire are messages of subscriptions.                      *)
LEMMA WireTypeStep ==
    ASSUME RelayTypeOK, [RelayNext]_relayVars
    PROVE  wire' \in Seq(Messages) /\ Len(wire') <= Room
  <1>1. wire \in Seq(Messages) /\ Len(wire) <= Room /\ Room \in Nat \ {0}
    BY RelayAssumption DEF RelayTypeOK, Messages
  <1>2. CASE wire' = wire
    BY <1>1, <1>2
  <1>3. CASE wire # <<>> /\ wire' = Tail(wire)
    BY <1>1, <1>3, Shortened
  <1>4. ASSUME NEW r \in Subs, Forward(r)
        PROVE  wire' \in Seq(Messages) /\ Len(wire') <= Room
    <2> DEFINE x == [sub |-> r, entry |-> relay[r].entry[1]]
    <2>1. wire' = Append(wire, x) /\ relay[r].entry[1] \in Entries /\ Len(wire) < Room
      BY <1>4, ForwardIs
    <2>2. x \in Messages
      BY <2>1 DEF Messages
    <2> HIDE DEF x
    <2> QED BY <1>1, <2>1, <2>2, Appended
  <1>5. CASE wire' = <<>>
    BY <1>1, <1>5
  <1> QED BY <1>2, <1>3, <1>4, <1>5
        DEF RelayNext, relayVars, Produce, EndProcess, Select, StreamStep, RelayStep, StreamRound,
            StreamTake, StreamWrite, Connect, ReadId, Break, Unsubscribe, Subscribe,
            Receive, Reopen, Drop

(* The types hold at first and after every step.                           *)
LEMMA TypeInit ==
    ASSUME RelayInit
    PROVE  RelayTypeOK
  <1>1. 1 \in Subs /\ 0 \in Ids /\ 0 \in 0 .. MaxBreaks /\ 0 \in 0 .. MaxDrops
    BY RelayAssumption DEF Subs, Ids
  <1>2. Gone \in Relays /\ Gone.pipe = <<>> /\ Room \in Nat /\ Len(<<>>) = 0
    BY BlankRelays, StartIsCursor, RelayAssumption DEF Gone, Disconnected
  <1>3. relay \in [Subs -> Relays] /\ \A r \in Subs : Len(relay[r].pipe) <= Room
    BY <1>2 DEF RelayInit
  <1>4. wire \in Seq([sub : Subs, entry : Entries]) /\ Len(wire) <= Room
    BY <1>2 DEF RelayInit
  <1>5. latest \in [Sessions -> [id : Ids, notice : BOOLEAN]]
    BY <1>1 DEF RelayInit, Blank
  <1>6. produced \in Cursors /\ cursor \in Cursors
    BY StartIsCursor DEF RelayInit
  <1> QED BY <1>1, <1>3, <1>4, <1>5, <1>6 DEF RelayInit, RelayTypeOK

LEMMA TypeStep ==
    ASSUME RelayTypeOK, [RelayNext]_relayVars
    PROVE  RelayTypeOK'
  <1>1. wire' \in Seq([sub : Subs, entry : Entries]) /\ Len(wire') <= Room
    BY WireTypeStep DEF Messages
  <1>2. RelayTyped(relay')
    <2>1. CASE relay' = relay
      BY <2>1 DEF RelayTypeOK, RelayTyped
    <2>2. CASE Subscribe
      <3> DEFINE x == Disconnected("waiting", cursor)
      <3>1. x \in Relays
        BY BlankRelays DEF RelayTypeOK
      <3>2. relay' = [relay EXCEPT ![sub] = x] /\ sub \in Subs
        BY <2>2 DEF Subscribe, RelayTypeOK
      <3>3. RelayTyped(relay)
        BY DEF RelayTypeOK, RelayTyped
      <3>4. x.pipe = <<>>
        BY DEF Disconnected
      <3> HIDE DEF x
      <3>5. Len(x.pipe) <= Room
        BY <3>4, RelayAssumption
      <3> QED BY ONLY <3>1, <3>2, <3>3, <3>5, RelayTypedMoves
    <2>3. CASE Drop
      <3>1. Gone \in Relays /\ Gone.pipe = <<>> /\ Room \in Nat /\ Len(<<>>) = 0
        BY BlankRelays, StartIsCursor, RelayAssumption DEF Gone, Disconnected
      <3>2. relay' = [r \in Subs |-> Gone]
        BY <2>3 DEF Drop
      <3> QED BY <3>1, <3>2 DEF RelayTyped
    <2> QED BY <2>1, <2>2, <2>3, RelayTypeStep
          DEF RelayNext, relayVars, Produce, EndProcess, Select, Receive, Reopen
  <1>3. sub' \in Subs
    <2>1. sub \in Subs /\ MaxSubs \in Nat \ {0}
      BY RelayAssumption DEF RelayTypeOK
    <2>2. CASE Reopen
      BY <2>1, <2>2 DEF Reopen, Subs
    <2>3. CASE sub' = sub
      BY <2>1, <2>3
    <2> QED BY <2>2, <2>3
          DEF RelayNext, relayVars, page, Produce, EndProcess, Select, StreamStep, RelayStep, StreamRound,
              StreamTake, StreamWrite, Connect, ReadId, Forward, Break, Unsubscribe,
              Subscribe, Receive, Drop
  <1>4. produced' \in Cursors
    <2>1. ASSUME NEW s \in Sessions, Produce(s)
          PROVE  produced' \in Cursors
      <3>1. produced \in Cursors /\ produced[s] \in Ids /\ produced[s] < MaxEvents
        BY <2>1 DEF Produce, RelayTypeOK, Cursors
      <3>2. produced[s] + 1 \in Ids
        BY <3>1, RelayAssumption DEF Ids
      <3> QED BY <2>1, <3>1, <3>2, CursorMoves DEF Produce
    <2>2. CASE produced' = produced
      BY <2>2 DEF RelayTypeOK
    <2> QED BY <2>1, <2>2
          DEF RelayNext, relayVars, logs, EndProcess, Select, StreamStep, RelayStep, StreamRound,
              StreamTake, StreamWrite, Connect, ReadId, Forward, Break, Unsubscribe,
              Subscribe, Receive, Reopen, Drop
  <1>5. active' \in [Sessions -> BOOLEAN] /\ selected' \in Sessions \cup {Nobody}
    BY DEF RelayTypeOK, RelayNext, relayVars, logs, Produce, EndProcess, Select, StreamStep, RelayStep,
        StreamRound, StreamTake, StreamWrite, Connect, ReadId, Forward, Break,
        Unsubscribe, Subscribe, Receive, Reopen, Drop
  <1>6. /\ cursor' \in Cursors /\ latest' \in [Sessions -> [id : Ids, notice : BOOLEAN]]
        /\ lost' \in [Sessions -> SUBSET Ids]
    <2>1. CASE Receive
      <3> DEFINE e == Head(wire).entry
      <3>1. wire \in Seq(Messages) /\ wire # <<>>
        BY <2>1 DEF RelayTypeOK, Messages, Receive
      <3>2. Head(wire) \in Messages
        BY ONLY <3>1, HeadOf
      <3>3. e \in Entries
        BY <3>2 DEF Messages
      <3>4. e.of \in Sessions /\ e.id \in Ids /\ e.notice \in BOOLEAN /\ e.cursor \in Cursors
        BY <3>3, EntryFields
      <3> HIDE DEF e
      <3>5. /\ cursor' \in {cursor, e.cursor} /\ lost' = lost
            /\ latest' \in {latest, [latest EXCEPT ![e.of] = [id |-> e.id, notice |-> e.notice]]}
        BY <2>1 DEF Receive, e
      <3>6. [id |-> e.id, notice |-> e.notice] \in [id : Ids, notice : BOOLEAN]
        BY <3>4
      <3> QED BY <3>4, <3>5, <3>6 DEF RelayTypeOK
    <2>2. CASE Reopen
      <3>1. Blank \in [id : Ids, notice : BOOLEAN]
        BY RelayAssumption DEF Blank, Ids
      <3> QED BY <2>2, <3>1, StartIsCursor DEF Reopen
    <2>3. ASSUME NEW r \in Subs, Break(r)
          PROVE  lost' \in [Sessions -> SUBSET Ids] /\ cursor' = cursor /\ latest' = latest
      <3>1. CASE lost' = lost
        BY <2>3, <3>1 DEF Break, RelayTypeOK, page
      <3>2. CASE relay[r].entry # <<>>
        <4> DEFINE e == Head(relay[r].entry)
        <4>1. relay[r].entry \in Seq(Entries)
          BY RelayFields DEF RelayTypeOK
        <4>2. e \in Entries
          BY ONLY <3>2, <4>1, HeadOf
        <4>3. e.of \in Sessions /\ e.id \in Ids
          BY <4>2, EntryFields
        <4>4. Stands(e) \subseteq Ids
          BY <4>3, RelayAssumption DEF Stands, Ids
        <4> HIDE DEF e
        <4>5. lost' \in {lost, [lost EXCEPT ![e.of] = @ \cup Stands(e)]}
          BY <2>3 DEF Break, e
        <4> QED BY <2>3, <4>3, <4>4, <4>5 DEF RelayTypeOK, Break, page
      <3> QED BY <2>3, <3>1, <3>2 DEF Break
    <2>4. CASE UNCHANGED <<cursor, latest, lost>>
      BY <2>4 DEF RelayTypeOK
    <2>5. ASSUME NEW r \in Subs, Break(r)
          PROVE  cursor \in Cursors /\ latest \in [Sessions -> [id : Ids, notice : BOOLEAN]]
      BY DEF RelayTypeOK
    <2> QED BY <2>1, <2>2, <2>3, <2>4, <2>5
          DEF RelayNext, relayVars, page, Produce, EndProcess, Select, StreamStep, RelayStep, StreamRound,
              StreamTake, StreamWrite, Connect, ReadId, Forward, Unsubscribe,
              Subscribe, Drop
  <1>7. breaks' \in 0 .. MaxBreaks /\ drops' \in 0 .. MaxDrops
    <2>1. /\ breaks \in 0 .. MaxBreaks /\ drops \in 0 .. MaxDrops
          /\ MaxBreaks \in Nat /\ MaxDrops \in Nat
      BY RelayAssumption DEF RelayTypeOK
    <2>2. ASSUME NEW r \in Subs, Break(r)
          PROVE  breaks' \in 0 .. MaxBreaks /\ drops' \in 0 .. MaxDrops
      BY <2>1, <2>2 DEF Break
    <2>3. CASE Drop
      BY <2>1, <2>3 DEF Drop
    <2>4. CASE UNCHANGED <<breaks, drops>>
      BY <2>1, <2>4
    <2> QED BY <2>2, <2>3, <2>4
          DEF RelayNext, relayVars, Produce, EndProcess, Select, StreamStep, RelayStep, StreamRound,
              StreamTake, StreamWrite, Connect, ReadId, Forward, Unsubscribe,
              Subscribe, Receive, Reopen
  <1> QED BY <1>1, <1>2, <1>3, <1>4, <1>5, <1>6, <1>7 DEF RelayTypeOK, RelayTyped

(* Logs, cursors, relays and channels keep their shapes, and the channels of *)
(* the transport their room, for any number of sessions, subscriptions and faults. *)
THEOREM RelayTypes == RelaySpec => []RelayTypeOK
  <1>1. RelayInit => RelayTypeOK
    BY TypeInit
  <1>2. RelayTypeOK /\ [RelayNext]_relayVars => RelayTypeOK'
    BY TypeStep
  <1> QED BY <1>1, <1>2, PTL DEF RelaySpec

-----------------------------------------------------------------------------
(* Cursors and what lies between them.                                     *)

Behind(c, d) == \A t \in Sessions : c[t] <= d[t]

(* An entry is of an event in the log, and its cursor says so.             *)
Fits(made, e) == e.id \in 1 .. made[e.of] /\ e.cursor[e.of] = e.id

(* Every event from one cursor to another is gone, or is one for which an   *)
(* entry of the set stands; and no entry of the set is beyond.             *)
Covers(gone, X, c, d) ==
    /\ Behind(c, d)
    /\ \A e \in X : Behind(e.cursor, d)
    /\ \A t \in Sessions : \A k \in c[t] + 1 .. d[t] :
          k \in gone[t] \/ \E e \in X : e.of = t /\ k \in Stands(e)

(* The entries at some positions, and those of them up to one.             *)
Those(q, I) == {q[i] : i \in I}

Taken(q, I, i) == {q[j] : j \in {x \in I : x <= i}}

(* Entries one after the other, at some positions of a sequence: each brings *)
(* the cursor of its receiver to its own, and with those before it leaves  *)
(* nothing out that is not gone.                                           *)
Chain(made, gone, q, I, c) ==
    \A i \in I : Fits(made, q[i]) /\ Covers(gone, Taken(q, I, i), c, q[i].cursor)

(* Cursors and entries hold numbers.                                       *)
LEMMA CursorNat ==
    ASSUME NEW c \in Cursors, NEW t \in Sessions
    PROVE  c[t] \in Nat /\ c[t] <= MaxEvents /\ MaxEvents \in Nat
  BY RelayAssumption DEF Cursors, Ids

LEMMA EntryNat ==
    ASSUME NEW e \in Entries
    PROVE  e.id \in Nat /\ e.cursor \in Cursors /\ e.of \in Sessions /\ e.notice \in BOOLEAN
  BY RelayAssumption DEF Entries, Ids

(* Nothing lies between a cursor and itself.                               *)
LEMMA CoversSame ==
    ASSUME NEW gone, NEW c \in Cursors
    PROVE  Covers(gone, {}, c, c)
  BY CursorNat DEF Covers, Behind

(* One step after another: what covers the way to a cursor and what covers *)
(* the way from there on cover the whole way.                              *)
LEMMA BehindOn ==
    ASSUME NEW c \in Cursors, NEW d \in Cursors, NEW e \in Cursors,
           Behind(c, d), Behind(d, e)
    PROVE  Behind(c, e)
  <1> SUFFICES ASSUME NEW t \in Sessions
               PROVE  c[t] <= e[t]
    BY DEF Behind
  <1>1. c[t] \in Nat /\ d[t] \in Nat /\ e[t] \in Nat
    BY CursorNat
  <1>2. c[t] <= d[t] /\ d[t] <= e[t]
    BY DEF Behind
  <1> QED BY <1>1, <1>2

LEMMA CoversOn ==
    ASSUME NEW gone, NEW X \in SUBSET Entries, NEW Y,
           NEW c \in Cursors, NEW d \in Cursors, NEW e \in Cursors,
           Covers(gone, X, c, d), Covers(gone, Y, d, e)
    PROVE  Covers(gone, X \cup Y, c, e)
  <1>1. Behind(c, d) /\ Behind(d, e)
    BY DEF Covers
  <1>2. Behind(c, e)
    BY <1>1, BehindOn
  <1>3. ASSUME NEW x \in X \cup Y
        PROVE  Behind(x.cursor, e)
    <2>1. CASE x \in X
      <3>1. Behind(x.cursor, d) /\ x.cursor \in Cursors
        BY <2>1, EntryNat DEF Covers
      <3> QED BY <1>1, <3>1, BehindOn
    <2>2. CASE x \in Y
      BY <2>2 DEF Covers
    <2> QED BY <2>1, <2>2
  <1>4. ASSUME NEW t \in Sessions, NEW k \in c[t] + 1 .. e[t]
        PROVE  k \in gone[t] \/ \E x \in X \cup Y : x.of = t /\ k \in Stands(x)
    <2>1. c[t] \in Nat /\ d[t] \in Nat /\ e[t] \in Nat
      BY CursorNat
    <2>2. k \in c[t] + 1 .. d[t] \/ k \in d[t] + 1 .. e[t]
      BY <2>1
    <2> QED BY <2>2 DEF Covers
  <1> QED BY <1>2, <1>3, <1>4 DEF Covers

(* The next entry of a session, or a notice for those up to it.            *)
LEMMA CoversNext ==
    ASSUME NEW gone, NEW c \in Cursors, NEW e \in Entries,
           e.cursor = [c EXCEPT ![e.of] = e.id], c[e.of] < e.id,
           ~e.notice => e.id = c[e.of] + 1
    PROVE  Covers(gone, {e}, c, e.cursor)
  <1>1. e.id \in Nat /\ e.of \in Sessions /\ e.notice \in BOOLEAN
    BY EntryNat
  <1>2. ASSUME NEW t \in Sessions
        PROVE  /\ c[t] \in Nat /\ e.cursor[t] = IF t = e.of THEN e.id ELSE c[t]
               /\ c[t] <= e.cursor[t] /\ e.cursor[t] <= e.cursor[t]
    <2>1. c[t] \in Nat /\ c[e.of] \in Nat
      BY <1>1, CursorNat
    <2>2. e.cursor[t] = IF t = e.of THEN e.id ELSE c[t]
      BY <1>1 DEF Cursors
    <2> QED BY <1>1, <2>1, <2>2
  <1>3. ASSUME NEW t \in Sessions, NEW k \in c[t] + 1 .. e.cursor[t]
        PROVE  e.of = t /\ k \in Stands(e)
    <2>1. t = e.of
      BY <1>1, <1>2
    <2>2. k \in Int /\ k >= c[t] + 1 /\ k <= e.id /\ c[t] \in Nat
      BY <1>1, <1>2, <2>1
    <2>3. CASE e.notice
      BY <1>1, <2>1, <2>2, <2>3 DEF Stands
    <2>4. CASE ~e.notice
      <3>1. k = e.id
        BY <1>1, <2>1, <2>2, <2>4
      <3> QED BY <2>1, <2>4, <3>1 DEF Stands
    <2> QED BY <2>3, <2>4
  <1> QED BY <1>2, <1>3 DEF Covers, Behind

(* From an entry on, it stands for nothing any more.                       *)
LEMMA CoversAfter ==
    ASSUME NEW gone, NEW made, NEW e \in Entries, NEW X, NEW Y, X \subseteq Y \cup {e},
           NEW c \in Cursors, NEW d \in Cursors,
           Fits(made, e), Behind(c, e.cursor), Covers(gone, X, c, d),
           Behind(e.cursor, d), \A y \in Y : Behind(y.cursor, d)
    PROVE  Covers(gone, Y, e.cursor, d)
  <1>1. ASSUME NEW t \in Sessions, NEW k \in e.cursor[t] + 1 .. d[t]
        PROVE  k \in gone[t] \/ \E y \in Y : y.of = t /\ k \in Stands(y)
    <2>1. /\ c[t] \in Nat /\ d[t] \in Nat /\ e.cursor[t] \in Nat /\ c[t] <= e.cursor[t]
          /\ e.id \in Nat
      BY CursorNat, EntryNat DEF Behind
    <2>2. k \in c[t] + 1 .. d[t] /\ k > e.cursor[t] /\ k \in Nat
      BY <2>1
    <2>3. CASE k \in gone[t]
      BY <2>3
    <2>4. ASSUME NEW x \in X, x.of = t, k \in Stands(x)
          PROVE  \E y \in Y : y.of = t /\ k \in Stands(y)
      <3>1. CASE x = e
        <4>1. e.cursor[t] = e.id
          BY <2>4, <3>1 DEF Fits
        <4>2. k <= e.id
          BY <2>1, <2>2, <2>4, <3>1 DEF Stands
        <4> QED BY <2>1, <2>2, <4>1, <4>2
      <3>2. CASE x \in Y
        BY <2>4, <3>2
      <3> QED BY <3>1, <3>2
    <2> QED BY <2>2, <2>3, <2>4 DEF Covers
  <1> QED BY <1>1 DEF Covers

(* An entry can be left out when what it stands for is gone; and what is   *)
(* gone stays gone.                                                        *)
LEMMA CoversGone ==
    ASSUME NEW gone, NEW now, \A t \in Sessions : gone[t] \subseteq now[t], NEW X, NEW e,
           Stands(e) \subseteq now[e.of], NEW c, NEW d, Covers(gone, X \cup {e}, c, d)
    PROVE  Covers(now, X, c, d)
  BY DEF Covers

LEMMA CoversGrows ==
    ASSUME NEW gone, NEW now, \A t \in Sessions : gone[t] \subseteq now[t], NEW X,
           NEW c, NEW d, Covers(gone, X, c, d)
    PROVE  Covers(now, X, c, d)
  BY DEF Covers

-----------------------------------------------------------------------------
(* Chains.                                                                 *)

(* No entry is a chain; and a chain stays one when events are added to the *)
(* logs or are gone.                                                       *)
LEMMA ChainEmpty ==
    \A made, gone, q, c : Chain(made, gone, q, {}, c)
  BY DEF Chain

LEMMA ChainGrows ==
    ASSUME NEW made \in Cursors, NEW more \in Cursors, Behind(made, more),
           NEW gone, NEW now, \A t \in Sessions : gone[t] \subseteq now[t],
           NEW q, NEW I, \A i \in I : q[i] \in Entries,
           NEW c, Chain(made, gone, q, I, c)
    PROVE  Chain(more, now, q, I, c)
  <1> SUFFICES ASSUME NEW i \in I
               PROVE  Fits(more, q[i]) /\ Covers(now, Taken(q, I, i), c, q[i].cursor)
    BY DEF Chain
  <1>1. Fits(made, q[i]) /\ Covers(gone, Taken(q, I, i), c, q[i].cursor)
    BY DEF Chain
  <1>2. q[i].of \in Sessions /\ q[i].id \in Nat
    BY EntryNat
  <1>3. made[q[i].of] \in Nat /\ more[q[i].of] \in Nat /\ made[q[i].of] <= more[q[i].of]
    BY <1>2, CursorNat DEF Behind
  <1>4. Fits(more, q[i])
    BY <1>1, <1>2, <1>3 DEF Fits
  <1> QED BY <1>1, <1>4, CoversGrows

(* One more at the end.                                                    *)
Longer(p, q, I, n) ==
    I \in SUBSET Nat /\ n \in Nat /\ \A i \in I : i < n /\ p[i] = q[i]

LEMMA ThoseLonger ==
    ASSUME NEW p, NEW q, NEW I, NEW n, Longer(p, q, I, n)
    PROVE  Those(p, I \cup {n}) = Those(q, I) \cup {p[n]}
  BY DEF Those, Longer

LEMMA ChainLonger ==
    ASSUME NEW made, NEW gone, NEW p, NEW q, NEW I, NEW n, Longer(p, q, I, n), NEW c,
           Chain(made, gone, q, I, c), Fits(made, p[n]),
           Covers(gone, Those(q, I) \cup {p[n]}, c, p[n].cursor)
    PROVE  Chain(made, gone, p, I \cup {n}, c)
  <1> USE DEF Longer
  <1>1. Those(p, I \cup {n}) = Those(q, I) \cup {p[n]}
    BY DEF Those
  <1>2. ASSUME NEW i \in I
        PROVE  Taken(p, I \cup {n}, i) = Taken(q, I, i)
    <2>1. ~(n <= i)
      OBVIOUS
    <2>2. {x \in I \cup {n} : x <= i} = {x \in I : x <= i}
      BY ONLY <2>1
    <2>3. \A x \in I : p[x] = q[x]
      OBVIOUS
    <2> QED BY ONLY <2>2, <2>3 DEF Taken
  <1>3. Taken(p, I \cup {n}, n) = Those(p, I \cup {n})
    <2>1. \A x \in I \cup {n} : x <= n
      OBVIOUS
    <2>2. {x \in I \cup {n} : x <= n} = I \cup {n}
      BY ONLY <2>1
    <2> QED BY <2>2 DEF Taken, Those
  <1>4. ASSUME NEW i \in I \cup {n}
        PROVE  Fits(made, p[i]) /\ Covers(gone, Taken(p, I \cup {n}, i), c, p[i].cursor)
    <2>1. CASE i \in I
      BY <1>2, <2>1 DEF Chain
    <2>2. CASE i = n
      BY <1>1, <1>3, <2>2
    <2> QED BY <2>1, <2>2
  <1> QED BY <1>1, <1>4 DEF Chain

(* The first one is taken away, and the positions move up; or the first    *)
(* position is of no concern.                                              *)
Shorter(p, q, I, J) ==
    /\ I \in SUBSET (Nat \ {0}) /\ \A i \in I : q[i] \in Entries
    /\ J = {i \in Nat \ {0} : i + 1 \in I} /\ \A j \in J : p[j] = q[j + 1]

LEMMA Shifted ==
    ASSUME NEW p, NEW q, NEW I, NEW J, Shorter(p, q, I, J)
    PROVE  /\ \A j \in J : j + 1 \in I /\ j \in Nat \ {0} /\ p[j] = q[j + 1]
           /\ \A i \in I : i # 1 => i - 1 \in J /\ p[i - 1] = q[i]
  <1> USE DEF Shorter
  <1>1. \A i \in I : i = 1 \/ i - 1 \in J
    OBVIOUS
  <1>2. \A j \in J : j + 1 \in I /\ j \in Nat \ {0} /\ p[j] = q[j + 1]
    OBVIOUS
  <1>3. \A i \in I : i # 1 => i - 1 \in J /\ p[i - 1] = q[i]
    <2>1. \A i \in I : (i - 1) + 1 = i
      OBVIOUS
    <2> QED BY <1>1, <2>1
  <1> QED BY <1>2, <1>3

LEMMA ThoseShorter ==
    ASSUME NEW p, NEW q, NEW I, NEW J, Shorter(p, q, I, J)
    PROVE  /\ 1 \in I => Those(q, I) = Those(p, J) \cup {q[1]}
           /\ 1 \notin I => Those(q, I) = Those(p, J)
  BY Shifted DEF Those

LEMMA ChainShorter ==
    ASSUME NEW made, NEW gone, NEW p, NEW q, NEW I, NEW J, Shorter(p, q, I, J),
           NEW c \in Cursors, Chain(made, gone, q, I, c)
    PROVE  /\ 1 \in I => /\ Chain(made, gone, p, J, q[1].cursor)
                         /\ Fits(made, q[1]) /\ Covers(gone, {q[1]}, c, q[1].cursor)
           /\ 1 \notin I => Chain(made, gone, p, J, c)
  <1> USE DEF Shorter
  <1>2. \A j \in J : j + 1 \in I /\ j \in Nat \ {0} /\ p[j] = q[j + 1]
    BY Shifted
  <1>3. \A i \in I : i # 1 => i - 1 \in J /\ p[i - 1] = q[i]
    BY Shifted
  <1>5. ASSUME NEW j \in J
        PROVE  /\ Taken(p, J, j) \subseteq Taken(q, I, j + 1)
               /\ 1 \in I => /\ Taken(q, I, j + 1) \subseteq Taken(p, J, j) \cup {q[1]}
                             /\ q[1] \in Taken(q, I, j + 1)
               /\ 1 \notin I => Taken(q, I, j + 1) = Taken(p, J, j)
    <2>1. j \in Nat \ {0} /\ j + 1 \in I
      BY <1>2
    <2>2. ASSUME NEW x \in Taken(p, J, j)
          PROVE  x \in Taken(q, I, j + 1)
      <3>1. PICK k \in J : k <= j /\ x = p[k]
        BY DEF Taken
      <3>2. k + 1 \in I /\ k + 1 <= j + 1 /\ x = q[k + 1]
        BY <1>2, <2>1, <3>1
      <3> QED BY <3>2 DEF Taken
    <2>3. ASSUME NEW x \in Taken(q, I, j + 1)
          PROVE  (1 \in I /\ x = q[1]) \/ x \in Taken(p, J, j)
      <3>1. PICK i \in I : i <= j + 1 /\ x = q[i]
        BY DEF Taken
      <3>2. CASE i = 1
        BY <3>1, <3>2
      <3>3. CASE i # 1
        <4>1. i - 1 \in J /\ i - 1 <= j /\ x = p[i - 1]
          BY <1>3, <2>1, <3>1, <3>3
        <4> QED BY <4>1 DEF Taken
      <3> QED BY <3>2, <3>3
    <2>4. 1 \in I => q[1] \in Taken(q, I, j + 1)
      BY <2>1 DEF Taken
    <2> QED BY <2>2, <2>3, <2>4
  <1>6. ASSUME 1 \in I
        PROVE  /\ Fits(made, q[1]) /\ Covers(gone, {q[1]}, c, q[1].cursor)
               /\ Chain(made, gone, p, J, q[1].cursor)
    <2>1. Taken(q, I, 1) = {q[1]}
      <3>1. \A x \in I : x <= 1 <=> x = 1
        OBVIOUS
      <3>2. {x \in I : x <= 1} = {1}
        BY ONLY <1>6, <3>1
      <3> QED BY <3>2 DEF Taken
    <2>2. Fits(made, q[1]) /\ Covers(gone, {q[1]}, c, q[1].cursor) /\ q[1] \in Entries
      BY <1>6, <2>1 DEF Chain
    <2>3. Behind(c, q[1].cursor)
      BY <2>2 DEF Covers
    <2>4. ASSUME NEW j \in J
          PROVE  Fits(made, p[j]) /\ Covers(gone, Taken(p, J, j), q[1].cursor, p[j].cursor)
      <3>1. /\ j + 1 \in I /\ p[j] = q[j + 1] /\ p[j] \in Entries
            /\ Fits(made, p[j]) /\ Covers(gone, Taken(q, I, j + 1), c, p[j].cursor)
        BY <1>2 DEF Chain
      <3>2. p[j].cursor \in Cursors
        BY <3>1, EntryNat
      <3>3. /\ Behind(q[1].cursor, p[j].cursor)
            /\ \A y \in Taken(p, J, j) : Behind(y.cursor, p[j].cursor)
        BY <1>5, <1>6, <3>1 DEF Covers
      <3>4. Taken(q, I, j + 1) \subseteq Taken(p, J, j) \cup {q[1]}
        BY <1>5, <1>6
      <3>5. Covers(gone, Taken(p, J, j), q[1].cursor, p[j].cursor)
        BY <2>2, <2>3, <3>1, <3>2, <3>3, <3>4, CoversAfter
      <3> QED BY <3>1, <3>5
    <2> QED BY <2>2, <2>4 DEF Chain
  <1>7. ASSUME 1 \notin I
        PROVE  Chain(made, gone, p, J, c)
    BY <1>2, <1>5, <1>7 DEF Chain
  <1> QED BY <1>6, <1>7

-----------------------------------------------------------------------------
(* What a relay has, from the pipe back to the log.                        *)

(* What is left of a replay: the events that follow the stream's cursor,   *)
(* all of them, or those after a notice.                                   *)
Replayed(made, batch, sent) ==
    \A i \in DOMAIN batch :
        /\ batch[i].of = batch[1].of
        /\ batch[i].id = batch[1].id + (i - 1)
        /\ batch[i].id <= made[batch[i].of]
        /\ sent[batch[i].of] < batch[i].id
        /\ i > 1 => ~batch[i].notice
        /\ (i = 1 /\ ~batch[i].notice) => batch[i].id = sent[batch[i].of] + 1

Row(q) == Those(q, DOMAIN q)

Streams(made, gone, last, pipe, sent, batch) ==
    /\ Chain(made, gone, pipe, DOMAIN pipe, last)
    /\ Covers(gone, Row(pipe), last, sent)
    /\ Replayed(made, batch, sent)

(* A replay is right for a longer log too.                                 *)
LEMMA ReplayedGrows ==
    ASSUME NEW made \in Cursors, NEW more \in Cursors, Behind(made, more),
           NEW batch \in Seq(Pieces), NEW sent, Replayed(made, batch, sent)
    PROVE  Replayed(more, batch, sent)
  <1> SUFFICES ASSUME NEW i \in DOMAIN batch
               PROVE  batch[i].id <= more[batch[i].of]
    BY DEF Replayed
  <1>1. batch[i] \in Pieces
    OBVIOUS
  <1>2. batch[i].of \in Sessions /\ batch[i].id \in Nat
    BY <1>1, RelayAssumption DEF Pieces, Ids
  <1>3. /\ made[batch[i].of] \in Nat /\ more[batch[i].of] \in Nat
        /\ made[batch[i].of] <= more[batch[i].of]
    BY <1>2, CursorNat DEF Behind
  <1>4. batch[i].id <= made[batch[i].of]
    BY DEF Replayed
  <1> QED BY <1>2, <1>3, <1>4

LEMMA RowTyped ==
    ASSUME NEW T, NEW q \in Seq(T)
    PROVE  Row(q) \in SUBSET T /\ DOMAIN q \in SUBSET (Nat \ {0}) /\ \A i \in DOMAIN q : q[i] \in T
  BY DEF Row, Those

(* A stream that is just connected, and one whose log grows.               *)
LEMMA StreamsBlank ==
    ASSUME NEW made, NEW gone, NEW last \in Cursors
    PROVE  Streams(made, gone, last, <<>>, last, <<>>)
  <1>1. DOMAIN <<>> = {} /\ Row(<<>>) = {}
    BY DEF Row, Those
  <1>2. Replayed(made, <<>>, last)
    BY <1>1 DEF Replayed
  <1> QED BY <1>1, <1>2, ChainEmpty, CoversSame DEF Streams

LEMMA StreamsGrow ==
    ASSUME NEW made \in Cursors, NEW more \in Cursors, Behind(made, more),
           NEW gone, NEW now, \A t \in Sessions : gone[t] \subseteq now[t],
           NEW last, NEW pipe \in Seq(Entries), NEW sent, NEW batch \in Seq(Pieces),
           Streams(made, gone, last, pipe, sent, batch)
    PROVE  Streams(more, now, last, pipe, sent, batch)
  <1>1. Chain(more, now, pipe, DOMAIN pipe, last)
    BY RowTyped, ChainGrows DEF Streams
  <1>2. Covers(now, Row(pipe), last, sent)
    BY CoversGrows DEF Streams
  <1>3. Replayed(more, batch, sent)
    BY ReplayedGrows DEF Streams
  <1> QED BY <1>1, <1>2, <1>3 DEF Streams

(* The replay of a session's log, taken from the cursor of the stream.     *)
LEMMA StreamsTake ==
    ASSUME NEW made \in Cursors, NEW gone, NEW last, NEW pipe, NEW sent \in Cursors, NEW old,
           Streams(made, gone, last, pipe, sent, old), NEW s \in Sessions
    PROVE  Streams(made, gone, last, pipe, sent, Replay(s, sent[s], made[s]))
  <1> DEFINE b == Replay(s, sent[s], made[s])
  <1>1. sent[s] \in Ids /\ made[s] \in Ids /\ sent[s] \in Nat /\ made[s] \in Nat
    BY CursorNat DEF Cursors
  <1> DEFINE from == sent[s]
             to == made[s]
  <1>2. /\ b \in Seq(Pieces)
        /\ \A i \in DOMAIN b :
              /\ b[i].of = s
              /\ b[i].id \in sent[s] + 1 .. made[s]
              /\ b[i].id = b[1].id + (i - 1)
              /\ i > 1 => ~b[i].notice
              /\ (i = 1 /\ ~b[i].notice) => b[i].id = sent[s] + 1
    <2> HIDE DEF from, to
    <2>1. s \in Sessions /\ from \in Ids /\ to \in Ids
      BY <1>1 DEF from, to
    <2>2. /\ Replay(s, from, to) \in Seq(Pieces)
          /\ \A i \in DOMAIN Replay(s, from, to) :
                /\ Replay(s, from, to)[i].of = s
                /\ Replay(s, from, to)[i].id \in from + 1 .. to
                /\ Replay(s, from, to)[i].id = Replay(s, from, to)[1].id + (i - 1)
                /\ i > 1 => ~Replay(s, from, to)[i].notice
                /\ (i = 1 /\ ~Replay(s, from, to)[i].notice)
                      => Replay(s, from, to)[i].id = from + 1
      BY ONLY <2>1, ReplayIs
    <2> QED BY ONLY <2>2 DEF b, from, to
  <1> HIDE DEF b
  <1>3. ASSUME NEW i \in DOMAIN b
        PROVE  /\ b[i].of = s /\ b[1].of = s
               /\ b[i].id <= made[s] /\ sent[s] < b[i].id
    <2>1. 1 \in DOMAIN b
      BY <1>2
    <2> QED BY <1>1, <1>2, <2>1
  <1>4. Replayed(made, b, sent)
    BY <1>2, <1>3 DEF Replayed
  <1> QED BY <1>4 DEF Streams, b

(* The next event is written: its entry's cursor is the stream's.          *)
LEMMA StreamsWrite ==
    ASSUME NEW made \in Cursors, NEW gone, NEW last \in Cursors, NEW pipe \in Seq(Entries),
           NEW sent \in Cursors, NEW batch \in Seq(Pieces), batch # <<>>,
           Streams(made, gone, last, pipe, sent, batch),
           NEW x \in Entries, x.of = batch[1].of, x.id = batch[1].id,
           x.notice = batch[1].notice, x.cursor = [sent EXCEPT ![x.of] = x.id]
    PROVE  Streams(made, gone, last, Append(pipe, x), x.cursor, Tail(batch))
  <1>1. /\ x.of \in Sessions /\ x.id \in Nat /\ x.cursor \in Cursors
        /\ sent[x.of] \in Nat /\ made[x.of] \in Nat /\ x.cursor[x.of] = x.id
    BY EntryNat, CursorNat DEF Cursors
  <1>2. 1 \in DOMAIN batch
    BY HeadOf
  <1>3. sent[x.of] < x.id /\ x.id <= made[x.of] /\ (~x.notice => x.id = sent[x.of] + 1)
    BY <1>2 DEF Streams, Replayed
  <1>4. Fits(made, x)
    BY <1>1, <1>3 DEF Fits
  <1>5. Covers(gone, {x}, sent, x.cursor)
    BY <1>3, CoversNext
  <1>6. Covers(gone, Row(pipe) \cup {x}, last, x.cursor)
    BY <1>1, <1>5, CoversOn, RowTyped DEF Streams
  <1> DEFINE p == Append(pipe, x)
             n == Len(pipe) + 1
  <1>7. /\ p \in Seq(Entries) /\ DOMAIN pipe = 1 .. Len(pipe) /\ Len(pipe) \in Nat
        /\ DOMAIN p = DOMAIN pipe \cup {n} /\ p[n] = x /\ n \in Nat
        /\ \A i \in DOMAIN pipe : i < n /\ p[i] = pipe[i]
    <2>1. /\ p \in Seq(Entries) /\ DOMAIN pipe = 1 .. Len(pipe) /\ Len(pipe) \in Nat
          /\ DOMAIN p = 1 .. Len(pipe) + 1 /\ p[n] = x
          /\ \A i \in 1 .. Len(pipe) : p[i] = pipe[i]
      BY Appended
    <2>2. 1 .. Len(pipe) + 1 = 1 .. Len(pipe) \cup {n} /\ \A i \in 1 .. Len(pipe) : i < n
      BY <2>1
    <2> QED BY <2>1, <2>2
  <1> HIDE DEF p, n
  <1>8. Chain(made, gone, p, DOMAIN p, last) /\ Row(p) = Row(pipe) \cup {x}
    <2>1. DOMAIN pipe \in SUBSET Nat
      BY RowTyped
    <2>2. /\ Chain(made, gone, pipe, DOMAIN pipe, last) /\ Fits(made, p[n])
          /\ Covers(gone, Those(pipe, DOMAIN pipe) \cup {p[n]}, last, p[n].cursor)
      BY <1>4, <1>6, <1>7 DEF Streams, Row
    <2>3. /\ Chain(made, gone, p, DOMAIN pipe \cup {n}, last)
          /\ Those(p, DOMAIN pipe \cup {n}) = Those(pipe, DOMAIN pipe) \cup {p[n]}
      <3> DEFINE I == DOMAIN pipe
      <3> HIDE DEF I
      <3>1. Longer(p, pipe, I, n)
        BY <1>7, <2>1 DEF I, Longer
      <3>2. Chain(made, gone, pipe, I, last)
        BY <2>2 DEF I
      <3>3. Fits(made, p[n])
        BY <2>2
      <3>4. Covers(gone, Those(pipe, I) \cup {p[n]}, last, p[n].cursor)
        BY <2>2 DEF I
      <3>5. /\ Chain(made, gone, p, I \cup {n}, last)
            /\ Those(p, I \cup {n}) = Those(pipe, I) \cup {p[n]}
        <4>1. Chain(made, gone, p, I \cup {n}, last)
          BY ONLY <3>1, <3>2, <3>3, <3>4, ChainLonger, Zenon
        <4>2. Those(p, I \cup {n}) = Those(pipe, I) \cup {p[n]}
          BY ONLY <3>1, ThoseLonger
        <4> QED BY ONLY <4>1, <4>2
      <3> QED BY ONLY <3>5 DEF I
    <2> QED BY <1>7, <2>3 DEF Row
  <1> DEFINE b == Tail(batch)
  <1>9. ASSUME NEW i \in DOMAIN b
        PROVE  /\ i \in Nat /\ i >= 1 /\ i + 1 \in DOMAIN batch /\ b[i] = batch[i + 1]
               /\ 2 \in DOMAIN batch /\ b[1] = batch[2] /\ b[i].id \in Nat /\ b[1].id \in Nat
               /\ batch[1].id = x.id
    <2>1. /\ DOMAIN batch = 1 .. Len(batch) /\ Len(batch) \in Nat \ {0}
          /\ DOMAIN b = 1 .. Len(batch) - 1
          /\ \A j \in 1 .. Len(batch) - 1 : b[j] = batch[j + 1]
      BY Shortened
    <2>2. i \in Nat /\ i >= 1 /\ i + 1 \in DOMAIN batch /\ 1 \in 1 .. Len(batch) - 1 /\ 1 + 1 = 2
      BY <2>1
    <2>3. b[i] = batch[i + 1] /\ b[1] = batch[2] /\ 2 \in DOMAIN batch
      BY <2>1, <2>2
    <2>4. batch[i + 1] \in Pieces /\ batch[2] \in Pieces
      BY <2>2, <2>3
    <2>5. \A y \in Pieces : y.id \in Nat
      BY RelayAssumption DEF Pieces, Ids
    <2> HIDE DEF b
    <2> QED BY <2>2, <2>3, <2>4, <2>5
  <1>10. Replayed(made, b, x.cursor)
    <2> SUFFICES ASSUME NEW i \in DOMAIN b
                 PROVE  /\ b[i].of = b[1].of
                        /\ b[i].id = b[1].id + (i - 1)
                        /\ b[i].id <= made[b[i].of]
                        /\ x.cursor[b[i].of] < b[i].id
                        /\ i > 1 => ~b[i].notice
                        /\ (i = 1 /\ ~b[i].notice) => b[i].id = x.cursor[b[i].of] + 1
      BY DEF Replayed
    <2> HIDE DEF b
    <2>1. /\ batch[i + 1].of = x.of /\ batch[i + 1].id = x.id + (i + 1 - 1)
          /\ batch[i + 1].id <= made[x.of] /\ (i + 1 > 1 => ~batch[i + 1].notice)
      <3>1. \A j \in DOMAIN batch :
              /\ batch[j].of = x.of /\ batch[j].id = x.id + (j - 1)
              /\ batch[j].id <= made[x.of] /\ (j > 1 => ~batch[j].notice)
        BY DEF Streams, Replayed
      <3> DEFINE j == i + 1
      <3>2. j \in DOMAIN batch
        BY <1>9
      <3> HIDE DEF j
      <3>3. /\ batch[j].of = x.of /\ batch[j].id = x.id + (j - 1)
            /\ batch[j].id <= made[x.of] /\ (j > 1 => ~batch[j].notice)
        BY ONLY <3>1, <3>2
      <3>4. i \in Nat /\ x.id \in Nat
        BY <1>1, <1>9
      <3> QED BY ONLY <3>3, <3>4 DEF j
    <2>2. batch[2].of = x.of /\ batch[2].id = x.id + (2 - 1)
      BY <1>9 DEF Streams, Replayed
    <2>3. /\ b[i].of = x.of /\ b[1].of = x.of /\ b[i].id = x.id + i /\ b[1].id = x.id + 1
          /\ b[i].id <= made[x.of] /\ ~b[i].notice /\ i \in Nat /\ i >= 1 /\ x.id \in Nat
      <3>1. /\ i \in Nat /\ i >= 1 /\ b[i] = batch[i + 1] /\ b[1] = batch[2]
            /\ x.id \in Nat
        BY <1>1, <1>9
      <3>2. x.id + (i + 1 - 1) = x.id + i /\ x.id + (2 - 1) = x.id + 1 /\ i + 1 > 1
        BY ONLY <3>1
      <3> QED BY ONLY <2>1, <2>2, <3>1, <3>2
    <2>4. b[i].id = b[1].id + (i - 1) /\ x.id < b[i].id /\ (i = 1 => b[i].id = x.id + 1)
      <3>1. \A u, v, d, k \in Int : u = d + k /\ v = d + 1 /\ k >= 1
              => u = v + (k - 1) /\ d < u /\ (k = 1 => u = d + 1)
        BY ONLY TRUE
      <3>2. b[i].id \in Int /\ b[1].id \in Int /\ x.id \in Int /\ i \in Int
        BY ONLY <2>3
      <3> QED BY ONLY <2>3, <3>1, <3>2
    <2> QED BY <1>1, <2>3, <2>4
  <1> QED BY <1>6, <1>8, <1>10 DEF Streams, p

(* An entry is read from the pipe: the relay's cursor is the entry's.      *)
LEMMA StreamsRead ==
    ASSUME NEW made, NEW gone, NEW last \in Cursors, NEW pipe \in Seq(Entries), pipe # <<>>,
           NEW sent \in Cursors, NEW batch, Streams(made, gone, last, pipe, sent, batch)
    PROVE  /\ Streams(made, gone, pipe[1].cursor, Tail(pipe), sent, batch)
           /\ pipe[1] \in Entries /\ Fits(made, pipe[1])
           /\ Covers(gone, {pipe[1]}, last, pipe[1].cursor)
  <1> DEFINE p == Tail(pipe)
             I == DOMAIN pipe
             J == DOMAIN p
  <1>1. /\ p \in Seq(Entries) /\ I = 1 .. Len(pipe) /\ Len(pipe) \in Nat \ {0}
        /\ J = 1 .. Len(pipe) - 1 /\ \A i \in 1 .. Len(pipe) - 1 : p[i] = pipe[i + 1]
    BY Shortened
  <1>2. I \in SUBSET (Nat \ {0}) /\ \A i \in I : pipe[i] \in Entries
    BY RowTyped
  <1>3. 1 \in I /\ J = {i \in Nat \ {0} : i + 1 \in I}
    BY <1>1
  <1>4. Chain(made, gone, pipe, I, last) /\ Covers(gone, Row(pipe), last, sent)
    BY DEF Streams
  <1>5. /\ Chain(made, gone, p, J, pipe[1].cursor) /\ Fits(made, pipe[1])
        /\ Covers(gone, {pipe[1]}, last, pipe[1].cursor)
        /\ Those(pipe, I) = Those(p, J) \cup {pipe[1]}
    <2> HIDE DEF p, I, J
    <2>1. \A j \in J : p[j] = pipe[j + 1]
      BY <1>1
    <2>2. Shorter(p, pipe, I, J)
      BY <1>2, <1>3, <2>1 DEF Shorter
    <2>3. last \in Cursors
      OBVIOUS
    <2>4. Chain(made, gone, pipe, I, last) /\ 1 \in I
      BY <1>3, <1>4
    <2>5. Chain(made, gone, pipe, I, last)
      BY <2>4
    <2>6. Chain(made, gone, p, J, pipe[1].cursor)
      BY <2>2, <2>3, <2>4, <2>5, ChainShorter, Zenon
    <2>7. Fits(made, pipe[1]) /\ Covers(gone, {pipe[1]}, last, pipe[1].cursor)
      BY <2>2, <2>3, <2>4, <2>5, ChainShorter, Zenon
    <2>8. Those(pipe, I) = Those(p, J) \cup {pipe[1]}
      BY <2>2, <2>4, ThoseShorter
    <2> QED BY <2>6, <2>7, <2>8
  <1>6. Row(pipe) = Row(p) \cup {pipe[1]}
    BY <1>5 DEF Row
  <1>7. pipe[1] \in Entries /\ pipe[1].cursor \in Cursors
    BY <1>2, <1>3, EntryNat
  <1>8. /\ Behind(last, pipe[1].cursor) /\ Behind(pipe[1].cursor, sent)
        /\ \A y \in Row(p) : Behind(y.cursor, sent)
    <2> HIDE DEF p
    <2>1. Behind(last, pipe[1].cursor)
      BY <1>5 DEF Covers
    <2>2. \A y \in Row(pipe) : Behind(y.cursor, sent)
      BY <1>4 DEF Covers
    <2> QED BY <1>6, <2>1, <2>2
  <1>9. Covers(gone, Row(p), pipe[1].cursor, sent)
    <2> HIDE DEF p
    <2> QED BY <1>4, <1>5, <1>6, <1>7, <1>8, CoversAfter
  <1> QED BY <1>5, <1>7, <1>9 DEF Streams

-----------------------------------------------------------------------------
(* From the relay to the page.                                             *)

(* What the relay has read is the entry it is about to forward.            *)
Reads(made, gone, X, c, last, entry) ==
    /\ entry # <<>> => /\ entry = <<entry[1]>> /\ Fits(made, entry[1])
                       /\ last = entry[1].cursor
    /\ Covers(gone, X \cup Row(entry), c, last)

Carries(made, gone, X, c, m) ==
    /\ Reads(made, gone, X, c, m.last, m.entry)
    /\ Streams(made, gone, m.last, m.pipe, m.sent, m.batch)

(* The messages on the socket for one subscription.                        *)
Mine(w, u) == {i \in DOMAIN w : w[i].sub = u}
On(w) == [i \in DOMAIN w |-> w[i].entry]
To(w, u) == Those(On(w), Mine(w, u))

(* The entry a relay has read, if any.                                     *)
LEMMA RowOfNone == Row(<<>>) = {}
  BY DEF Row, Those

LEMMA RowOfOne ==
    ASSUME NEW e
    PROVE  Row(<<e>>) = {e} /\ <<e>> # <<>> /\ <<e>>[1] = e
  BY DEF Row, Those

(* Nothing is spoilt by a longer log, or by more that is gone.             *)
LEMMA ReadsGrow ==
    ASSUME NEW made \in Cursors, NEW more \in Cursors, Behind(made, more),
           NEW gone, NEW now, \A t \in Sessions : gone[t] \subseteq now[t],
           NEW X, NEW c, NEW last, NEW entry \in Seq(Entries),
           Reads(made, gone, X, c, last, entry)
    PROVE  Reads(more, now, X, c, last, entry)
  <1>1. Covers(now, X \cup Row(entry), c, last)
    BY CoversGrows DEF Reads
  <1>2. ASSUME entry # <<>>
        PROVE  Fits(more, entry[1])
    <2>1. entry[1] \in Entries /\ Fits(made, entry[1])
      BY <1>2, HeadOf DEF Reads
    <2> DEFINE e == entry[1]
    <2> HIDE DEF e
    <2>2. e \in Entries /\ Fits(made, e)
      BY <2>1 DEF e
    <2>3. e.of \in Sessions /\ e.id \in Nat
      BY <2>2, EntryNat
    <2>4. made[e.of] \in Nat /\ more[e.of] \in Nat /\ made[e.of] <= more[e.of]
      BY <2>3, CursorNat DEF Behind
    <2>5. Fits(more, e)
      BY <2>2, <2>3, <2>4 DEF Fits
    <2> QED BY <2>5 DEF e
  <1> QED BY <1>1, <1>2 DEF Reads

LEMMA CarriesGrow ==
    ASSUME NEW made \in Cursors, NEW more \in Cursors, Behind(made, more),
           NEW gone, NEW now, \A t \in Sessions : gone[t] \subseteq now[t],
           NEW X, NEW c, NEW m \in Relays, Carries(made, gone, X, c, m)
    PROVE  Carries(more, now, X, c, m)
  <1>1. /\ m.last \in Cursors /\ m.entry \in Seq(Entries) /\ m.pipe \in Seq(Entries)
        /\ m.sent \in Cursors /\ m.batch \in Seq(Pieces)
    BY RelayFields
  <1>2. Reads(more, now, X, c, m.last, m.entry)
    <2>1. Reads(made, gone, X, c, m.last, m.entry)
      BY DEF Carries
    <2> QED BY <1>1, <2>1, ReadsGrow
  <1>3. Streams(more, now, m.last, m.pipe, m.sent, m.batch)
    <2>1. Streams(made, gone, m.last, m.pipe, m.sent, m.batch)
      BY DEF Carries
    <2> QED BY <1>1, <2>1, StreamsGrow
  <1> QED BY <1>2, <1>3 DEF Carries

(* A relay that has just been made or has just lost its stream.            *)
LEMMA CarriesBlank ==
    ASSUME NEW made, NEW gone, NEW X, NEW c, NEW at, NEW last \in Cursors,
           Covers(gone, X, c, last)
    PROVE  Carries(made, gone, X, c, Disconnected(at, last))
  <1> DEFINE m == Disconnected(at, last)
  <1>1. /\ m.last = last /\ m.entry = <<>> /\ m.pipe = <<>> /\ m.sent = last
        /\ m.batch = <<>>
    BY DEF Disconnected
  <1>2. Reads(made, gone, X, c, last, <<>>)
    <2>1. X \cup Row(<<>>) = X
      BY RowOfNone
    <2> QED BY <2>1 DEF Reads
  <1>3. Streams(made, gone, last, <<>>, last, <<>>)
    BY StreamsBlank
  <1> HIDE DEF m
  <1>4. Carries(made, gone, X, c, m)
    BY <1>1, <1>2, <1>3 DEF Carries
  <1> QED BY <1>4 DEF m

(* The stream's own steps do not touch what the relay has read.            *)
LEMMA CarriesStreams ==
    ASSUME NEW made, NEW gone, NEW X, NEW c, NEW m, Carries(made, gone, X, c, m),
           NEW at, NEW pipe, NEW sent, NEW round, NEW batch,
           Streams(made, gone, m.last, pipe, sent, batch)
    PROVE  Carries(made, gone, X, c,
                   [at |-> at, last |-> m.last, entry |-> m.entry, pipe |-> pipe,
                    sent |-> sent, round |-> round, batch |-> batch])
  BY DEF Carries

(* The id line of an entry is read.                                        *)
LEMMA CarriesRead ==
    ASSUME NEW made, NEW gone, NEW X \in SUBSET Entries, NEW c \in Cursors, NEW m \in Relays,
           Carries(made, gone, X, c, m), m.entry = <<>>, m.pipe # <<>>
    PROVE  Carries(made, gone, X, c,
                   [at |-> m.at, last |-> m.pipe[1].cursor, entry |-> <<m.pipe[1]>>,
                    pipe |-> Tail(m.pipe), sent |-> m.sent, round |-> m.round,
                    batch |-> m.batch])
  <1> DEFINE e == m.pipe[1]
             rest == Tail(m.pipe)
             one == <<e>>
  <1>1. m.last \in Cursors /\ m.pipe \in Seq(Entries) /\ m.sent \in Cursors
    BY RelayFields
  <1>2. Streams(made, gone, m.last, m.pipe, m.sent, m.batch)
    BY DEF Carries
  <1>3. /\ Streams(made, gone, e.cursor, rest, m.sent, m.batch)
        /\ e \in Entries /\ Fits(made, e) /\ Covers(gone, {e}, m.last, e.cursor)
    BY <1>1, <1>2, StreamsRead
  <1>4. e.cursor \in Cursors
    BY <1>3, EntryNat
  <1>5. Row(one) = {e} /\ one # <<>> /\ one[1] = e
    BY RowOfOne
  <1>6. Covers(gone, X, c, m.last)
    <2>1. X \cup Row(m.entry) = X
      BY RowOfNone
    <2> QED BY <2>1 DEF Carries, Reads
  <1> HIDE DEF e, rest
  <1>7. Covers(gone, X \cup {e}, c, e.cursor)
    BY <1>1, <1>3, <1>4, <1>6, CoversOn
  <1>8. Reads(made, gone, X, c, e.cursor, one)
    BY <1>3, <1>5, <1>7 DEF Reads
  <1> HIDE DEF one
  <1>9. Carries(made, gone, X, c,
                [at |-> m.at, last |-> e.cursor, entry |-> one, pipe |-> rest,
                 sent |-> m.sent, round |-> m.round, batch |-> m.batch])
    BY <1>3, <1>8 DEF Carries
  <1> QED BY <1>9 DEF e, rest, one

(* The entry goes from the relay to the wire.                              *)
LEMMA CarriesForward ==
    ASSUME NEW made, NEW gone, NEW X, NEW Y, NEW c, NEW m,
           Carries(made, gone, X, c, m), m.entry # <<>>, Y = X \cup {m.entry[1]}
    PROVE  /\ Carries(made, gone, Y, c,
                      [at |-> m.at, last |-> m.last, entry |-> <<>>, pipe |-> m.pipe,
                       sent |-> m.sent, round |-> m.round, batch |-> m.batch])
           /\ Fits(made, m.entry[1]) /\ Covers(gone, Y, c, m.entry[1].cursor)
  <1> DEFINE e == m.entry[1]
  <1>1. m.entry = <<e>> /\ Fits(made, e) /\ m.last = e.cursor
        /\ Covers(gone, X \cup Row(m.entry), c, m.last)
    BY DEF Carries, Reads
  <1>2. X \cup Row(m.entry) = Y
    BY <1>1, RowOfOne
  <1>3. Y \cup Row(<<>>) = Y
    BY RowOfNone
  <1>4. Reads(made, gone, Y, c, m.last, <<>>)
    BY <1>1, <1>2, <1>3 DEF Reads
  <1>5. Carries(made, gone, Y, c,
                [at |-> m.at, last |-> m.last, entry |-> <<>>, pipe |-> m.pipe,
                 sent |-> m.sent, round |-> m.round, batch |-> m.batch])
    BY <1>4 DEF Carries
  <1> QED BY <1>1, <1>2, <1>5

(* A break eats the entry that was being read, and nothing else.           *)
LEMMA CarriesBreak ==
    ASSUME NEW made, NEW gone, NEW now, \A t \in Sessions : gone[t] \subseteq now[t],
           NEW X, NEW c, NEW m \in Relays, Carries(made, gone, X, c, m),
           m.entry # <<>> => Stands(m.entry[1]) \subseteq now[m.entry[1].of],
           NEW at
    PROVE  Carries(made, now, X, c, Disconnected(at, m.last))
  <1>1. m.last \in Cursors
    BY RelayFields
  <1>2. Covers(gone, X \cup Row(m.entry), c, m.last)
    BY DEF Carries, Reads
  <1>3. Covers(now, X, c, m.last)
    <2>1. CASE m.entry = <<>>
      <3>1. X \cup Row(m.entry) = X
        BY <2>1, RowOfNone
      <3>2. Covers(gone, X, c, m.last)
        BY <1>2, <3>1
      <3> QED BY <3>2, CoversGrows
    <2>2. CASE m.entry # <<>>
      <3> DEFINE e == m.entry[1]
      <3>1. m.entry = <<e>>
        BY <2>2 DEF Carries, Reads
      <3>2. Row(m.entry) = {e}
        BY <3>1, RowOfOne
      <3>3. Stands(e) \subseteq now[e.of] /\ Covers(gone, X \cup {e}, c, m.last)
        BY <1>2, <2>2, <3>2
      <3> HIDE DEF e
      <3> QED BY <3>3, CoversGone
    <2> QED BY <2>1, <2>2
  <1> QED BY <1>1, <1>3, CarriesBlank

(* The page takes up an entry.                                             *)
LEMMA CarriesReceive ==
    ASSUME NEW made, NEW gone, NEW Y, NEW e \in Entries, NEW c \in Cursors,
           NEW m \in Relays, Carries(made, gone, Y \cup {e}, c, m), Fits(made, e),
           Behind(c, e.cursor)
    PROVE  Carries(made, gone, Y, e.cursor, m)
  <1>1. m.last \in Cursors
    BY RelayFields
  <1> DEFINE X == (Y \cup {e}) \cup Row(m.entry)
             Z == Y \cup Row(m.entry)
  <1>2. Covers(gone, X, c, m.last)
    BY DEF Carries, Reads
  <1>3. X \subseteq Z \cup {e} /\ e \in X /\ Z \subseteq X
    OBVIOUS
  <1> HIDE DEF X, Z
  <1>4. Behind(e.cursor, m.last) /\ \A y \in Z : Behind(y.cursor, m.last)
    BY <1>2, <1>3 DEF Covers
  <1>5. Covers(gone, Z, e.cursor, m.last)
    BY <1>1, <1>2, <1>3, <1>4, CoversAfter
  <1> QED BY <1>5 DEF Carries, Reads, Z

-----------------------------------------------------------------------------
(* The socket.                                                             *)

(* Positions and entries of one subscription's messages.                   *)
LEMMA WireTyped ==
    ASSUME NEW w \in Seq(Messages), NEW u
    PROVE  /\ Mine(w, u) \in SUBSET (Nat \ {0})
           /\ \A i \in Mine(w, u) : On(w)[i] \in Entries
           /\ \A i \in DOMAIN w : w[i].entry \in Entries /\ w[i].sub \in Subs
           /\ To(w, u) \in SUBSET Entries
  <1>1. DOMAIN w = 1 .. Len(w) /\ \A i \in DOMAIN w : w[i] \in Messages
    OBVIOUS
  <1>2. \A i \in DOMAIN w : w[i].entry \in Entries /\ w[i].sub \in Subs
    BY <1>1 DEF Messages
  <1>3. \A i \in Mine(w, u) : On(w)[i] \in Entries
    BY <1>2 DEF Mine, On
  <1> QED BY <1>1, <1>2, <1>3 DEF Mine, To, Those

LEMMA NoneMine ==
    ASSUME NEW u
    PROVE  Mine(<<>>, u) = {} /\ To(<<>>, u) = {}
  BY DEF Mine, To, Those

LEMMA ToNone ==
    ASSUME NEW w, NEW u, Mine(w, u) = {}
    PROVE  To(w, u) = {}
  BY DEF To, Those

(* Only the entries at the positions matter to a chain.                    *)
LEMMA ChainSame ==
    ASSUME NEW made, NEW gone, NEW p, NEW q, NEW I, \A i \in I : p[i] = q[i], NEW c,
           Chain(made, gone, q, I, c)
    PROVE  Chain(made, gone, p, I, c)
  <1>1. ASSUME NEW i \in I
        PROVE  Taken(p, I, i) = Taken(q, I, i)
    BY DEF Taken
  <1> QED BY <1>1 DEF Chain

(* A message more, for this subscription or for another.                   *)
LEMMA WireMore ==
    ASSUME NEW w \in Seq(Messages), NEW r \in Subs, NEW e \in Entries, NEW u
    PROVE  LET v == Append(w, [sub |-> r, entry |-> e])
               n == Len(w) + 1
           IN  /\ On(v)[n] = e
               /\ Longer(On(v), On(w), Mine(w, u), n)
               /\ r = u => Mine(v, u) = Mine(w, u) \cup {n}
               /\ r # u => Mine(v, u) = Mine(w, u)
  <1> DEFINE x == [sub |-> r, entry |-> e]
             v == Append(w, x)
             n == Len(w) + 1
  <1>1. x \in Messages /\ x.sub = r /\ x.entry = e
    BY DEF Messages
  <1> HIDE DEF x
  <1>2. /\ DOMAIN w = 1 .. Len(w) /\ Len(w) \in Nat /\ DOMAIN v = 1 .. Len(w) + 1
        /\ \A i \in 1 .. Len(w) : v[i] = w[i]
        /\ v[n] = x
    BY <1>1, Appended
  <1> HIDE DEF v
  <1>3. /\ n \in Nat /\ n \in DOMAIN v /\ DOMAIN v = DOMAIN w \cup {n} /\ v[n] = x
        /\ \A i \in DOMAIN w : i < n /\ v[i] = w[i] /\ i \in DOMAIN v /\ i \in Nat
    BY <1>2
  <1> HIDE DEF n
  <1>4. On(v)[n] = e /\ \A i \in DOMAIN w : On(v)[i] = On(w)[i]
    BY <1>1, <1>3 DEF On
  <1>5. Longer(On(v), On(w), Mine(w, u), n)
    BY <1>3, <1>4 DEF Longer, Mine
  <1>6. r = u => Mine(v, u) = Mine(w, u) \cup {n}
    BY <1>1, <1>3 DEF Mine
  <1>7. r # u => Mine(v, u) = Mine(w, u)
    BY <1>1, <1>3 DEF Mine
  <1> QED BY <1>4, <1>5, <1>6, <1>7 DEF v, x, n

(* The first message is taken.                                             *)
LEMMA WireLess ==
    ASSUME NEW w \in Seq(Messages), w # <<>>, NEW u
    PROVE  /\ Shorter(On(Tail(w)), On(w), Mine(w, u), Mine(Tail(w), u))
           /\ 1 \in Mine(w, u) <=> Head(w).sub = u
           /\ On(w)[1] = Head(w).entry /\ Head(w) \in Messages
           /\ \A i \in DOMAIN Tail(w) : \E j \in DOMAIN w : Tail(w)[i] = w[j]
  <1> DEFINE v == Tail(w)
  <1>1. /\ v \in Seq(Messages) /\ Len(v) = Len(w) - 1
        /\ DOMAIN w = 1 .. Len(w) /\ Len(w) \in Nat \ {0} /\ DOMAIN v = 1 .. Len(w) - 1
        /\ \A i \in 1 .. Len(w) - 1 : v[i] = w[i + 1]
    BY Shortened
  <1>2. Head(w) = w[1] /\ Head(w) \in Messages
    BY HeadOf
  <1> HIDE DEF v
  <1>3. 1 \in DOMAIN w
    BY <1>1
  <1>4. /\ \A i \in DOMAIN v : i \in Nat \ {0} /\ i + 1 \in DOMAIN w /\ v[i] = w[i + 1]
        /\ \A i \in Nat \ {0} : i + 1 \in DOMAIN w => i \in DOMAIN v
    BY <1>1
  <1>5. \A i \in DOMAIN v : On(v)[i] = On(w)[i + 1]
    BY <1>4 DEF On
  <1>6. Mine(v, u) = {i \in Nat \ {0} : i + 1 \in Mine(w, u)}
    BY <1>4 DEF Mine
  <1>7. \A i \in Mine(v, u) : On(v)[i] = On(w)[i + 1]
    BY <1>5 DEF Mine
  <1>8. Mine(w, u) \in SUBSET (Nat \ {0}) /\ \A i \in Mine(w, u) : On(w)[i] \in Entries
    BY WireTyped
  <1>9. Shorter(On(v), On(w), Mine(w, u), Mine(v, u))
    BY <1>6, <1>7, <1>8 DEF Shorter
  <1>10. (1 \in Mine(w, u) <=> w[1].sub = u) /\ On(w)[1] = w[1].entry
    BY <1>3 DEF Mine, On
  <1>11. \A i \in DOMAIN v : \E j \in DOMAIN w : v[i] = w[j]
    BY <1>4
  <1> QED BY <1>2, <1>9, <1>10, <1>11 DEF v

-----------------------------------------------------------------------------
(* The whole journey: the messages of the page's subscription follow from  *)
(* its cursor, and what its relay has read and holds follows from them; a  *)
(* subscription without a relay has no message on the wire.                *)

Journey(made, gone, w, u, c, m) ==
    /\ Chain(made, gone, On(w), Mine(w, u), c)
    /\ m.at = "gone" => Mine(w, u) = {}
    /\ m.at # "gone" => Carries(made, gone, To(w, u), c, m)

(* Another event in a log.                                                 *)
LEMMA JourneyGrows ==
    ASSUME NEW made \in Cursors, NEW more \in Cursors, Behind(made, more),
           NEW gone, NEW w \in Seq(Messages), NEW u, NEW c, NEW m \in Relays,
           Journey(made, gone, w, u, c, m)
    PROVE  Journey(more, gone, w, u, c, m)
  <1>1. \A t \in Sessions : gone[t] \subseteq gone[t]
    OBVIOUS
  <1>2. Chain(made, gone, On(w), Mine(w, u), c) /\ \A i \in Mine(w, u) : On(w)[i] \in Entries
    BY WireTyped DEF Journey
  <1>3. Chain(more, gone, On(w), Mine(w, u), c)
    <2> DEFINE q == On(w)
               I == Mine(w, u)
    <2> HIDE DEF q, I
    <2>1. Chain(made, gone, q, I, c) /\ \A i \in I : q[i] \in Entries
      BY <1>2 DEF q, I
    <2>2. Chain(more, gone, q, I, c)
      BY <1>1, <2>1, ChainGrows
    <2> QED BY <2>2 DEF q, I
  <1>4. m.at # "gone" => Carries(more, gone, To(w, u), c, m)
    <2>1. ASSUME m.at # "gone"
          PROVE  Carries(more, gone, To(w, u), c, m)
      <3>1. Carries(made, gone, To(w, u), c, m)
        BY <2>1 DEF Journey
      <3> QED BY <1>1, <3>1, CarriesGrow
    <2> QED BY <2>1
  <1> QED BY <1>3, <1>4 DEF Journey

(* An entry is forwarded.                                                  *)
LEMMA JourneyForward ==
    ASSUME NEW made \in Cursors, NEW gone, NEW w \in Seq(Messages), NEW u \in Subs,
           NEW c \in Cursors, NEW m \in Relays, Journey(made, gone, w, u, c, m),
           m.at # "gone", m.entry # <<>>
    PROVE  Journey(made, gone, Append(w, [sub |-> u, entry |-> m.entry[1]]), u, c,
                   [at |-> m.at, last |-> m.last, entry |-> <<>>, pipe |-> m.pipe,
                    sent |-> m.sent, round |-> m.round, batch |-> m.batch])
  <1> DEFINE e == m.entry[1]
             v == Append(w, [sub |-> u, entry |-> e])
             n == Len(w) + 1
             m2 == [at |-> m.at, last |-> m.last, entry |-> <<>>, pipe |-> m.pipe,
                    sent |-> m.sent, round |-> m.round, batch |-> m.batch]
             p == On(v)
             q == On(w)
             I == Mine(w, u)
             Y == To(v, u)
             X == To(w, u)
  <1>1. m.entry \in Seq(Entries) /\ e \in Entries
    BY RelayFields, HeadOf
  <1>2. p[n] = e /\ Longer(p, q, I, n) /\ Mine(v, u) = I \cup {n}
    <2> HIDE DEF e
    <2> QED BY <1>1, WireMore
  <1>3. Y = X \cup {e}
    <2>1. Y = Those(p, I \cup {n})
      BY <1>2 DEF To
    <2>2. Those(p, I \cup {n}) = Those(q, I) \cup {p[n]}
      <3> HIDE DEF p, q, I, n
      <3> QED BY ONLY <1>2, ThoseLonger
    <2>3. X = Those(q, I)
      BY DEF To
    <2> HIDE DEF p, q, I, n, X, Y, e
    <2> QED BY <1>2, <2>1, <2>2, <2>3
  <1>4. Carries(made, gone, X, c, m)
    BY DEF Journey
  <1>5. Carries(made, gone, Y, c, m2) /\ Fits(made, e) /\ Covers(gone, Y, c, e.cursor)
    <2> HIDE DEF X, Y
    <2> QED BY <1>3, <1>4, CarriesForward
  <1>6. Chain(made, gone, p, Mine(v, u), c)
    <2>1. Chain(made, gone, q, I, c)
      BY DEF Journey
    <2>2. Covers(gone, Those(q, I) \cup {p[n]}, c, p[n].cursor) /\ Fits(made, p[n])
      <3>1. Those(q, I) \cup {e} = Y
        BY <1>3 DEF To
      <3> HIDE DEF p, q, I, n, X, Y, e
      <3> QED BY <1>2, <1>5, <3>1
    <2>3. Covers(gone, Those(q, I) \cup {p[n]}, c, p[n].cursor)
      BY <2>2
    <2>4. Fits(made, p[n])
      BY <2>2
    <2>5. Longer(p, q, I, n)
      BY <1>2
    <2> HIDE DEF p, q, I, n
    <2>6. Chain(made, gone, p, I \cup {n}, c)
      BY ONLY <2>1, <2>3, <2>4, <2>5, ChainLonger, Zenon
    <2> QED BY <1>2, <2>6
  <1>7. m2.at = m.at
    OBVIOUS
  <1> QED BY <1>5, <1>6, <1>7 DEF Journey

(* A relay of another subscription sends.                                  *)
LEMMA JourneyOther ==
    ASSUME NEW made, NEW gone, NEW w \in Seq(Messages), NEW u, NEW c, NEW m,
           Journey(made, gone, w, u, c, m), NEW r \in Subs, r # u, NEW e \in Entries
    PROVE  Journey(made, gone, Append(w, [sub |-> r, entry |-> e]), u, c, m)
  <1> DEFINE v == Append(w, [sub |-> r, entry |-> e])
             p == On(v)
             q == On(w)
             I == Mine(w, u)
  <1>1. Mine(v, u) = I /\ Longer(p, q, I, Len(w) + 1)
    BY WireMore
  <1>2. \A i \in I : p[i] = q[i]
    BY <1>1 DEF Longer
  <1>3. Chain(made, gone, p, I, c)
    <2>1. Chain(made, gone, q, I, c)
      BY DEF Journey
    <2> HIDE DEF p, q, I
    <2> QED BY <1>2, <2>1, ChainSame
  <1>4. To(v, u) = To(w, u)
    <2>1. Those(p, I) = Those(q, I)
      <3> HIDE DEF p, q, I
      <3> QED BY <1>2 DEF Those
    <2> QED BY <1>1, <2>1 DEF To
  <1> HIDE DEF v
  <1>5. Journey(made, gone, v, u, c, m)
    BY <1>1, <1>3, <1>4 DEF Journey
  <1> QED BY <1>5 DEF v

(* The page receives a message: one of its own subscription, or one of     *)
(* another.                                                                *)
LEMMA JourneyReceive ==
    ASSUME NEW made \in Cursors, NEW gone, NEW w \in Seq(Messages), w # <<>>, NEW u,
           NEW c \in Cursors, NEW m \in Relays, Journey(made, gone, w, u, c, m)
    PROVE  /\ Head(w).sub = u =>
                LET e == Head(w).entry
                IN  /\ Journey(made, gone, Tail(w), u, e.cursor, m)
                    /\ Fits(made, e) /\ Covers(gone, {e}, c, e.cursor)
           /\ Head(w).sub # u => Journey(made, gone, Tail(w), u, c, m)
  <1> DEFINE e == Head(w).entry
             v == Tail(w)
             p == On(v)
             q == On(w)
             I == Mine(w, u)
             J == Mine(v, u)
  <1>1. /\ Shorter(p, q, I, J) /\ (1 \in I <=> Head(w).sub = u)
        /\ q[1] = e /\ e \in Entries
    BY WireLess DEF Messages
  <1>2. Chain(made, gone, q, I, c)
    BY DEF Journey
  <1>3. ASSUME Head(w).sub = u
        PROVE  /\ Journey(made, gone, v, u, e.cursor, m)
               /\ Fits(made, e) /\ Covers(gone, {e}, c, e.cursor)
    <2>0. 1 \in I
      BY <1>1, <1>3
    <2>1. Chain(made, gone, p, J, e.cursor) /\ Fits(made, e) /\ Covers(gone, {e}, c, e.cursor)
      <3>1. Shorter(p, q, I, J)
        BY <1>1
      <3> HIDE DEF p, q, I, J, e
      <3>2. Chain(made, gone, p, J, q[1].cursor)
        BY <1>2, <2>0, <3>1, ChainShorter, Zenon
      <3>3. Fits(made, q[1]) /\ Covers(gone, {q[1]}, c, q[1].cursor)
        BY <1>2, <2>0, <3>1, ChainShorter, Zenon
      <3> QED BY <1>1, <3>2, <3>3
    <2>2. To(w, u) = To(v, u) \cup {e}
      <3>1. Those(q, I) = Those(p, J) \cup {q[1]}
        <4> HIDE DEF p, q, I, J
        <4> QED BY <1>1, <2>0, ThoseShorter
      <3>2. Those(q, I) = Those(p, J) \cup {e}
        <4> HIDE DEF p, q, I, J, e
        <4> QED BY <1>1, <3>1
      <3> QED BY <3>2 DEF To
    <2>3. m.at # "gone" /\ Carries(made, gone, To(w, u), c, m)
      <3> HIDE DEF I
      <3> QED BY <2>0 DEF Journey, I
    <2>4. Behind(c, e.cursor)
      BY <2>1 DEF Covers
    <2> DEFINE Y == To(v, u)
    <2>5. Carries(made, gone, Y, e.cursor, m)
      <3>1. Carries(made, gone, Y \cup {e}, c, m)
        BY <2>2, <2>3
      <3>2. e \in Entries /\ Fits(made, e)
        BY <1>1, <2>1
      <3> HIDE DEF Y, e
      <3> QED BY <2>4, <3>1, <3>2, CarriesReceive
    <2> HIDE DEF v, e
    <2> QED BY <2>1, <2>3, <2>5 DEF Journey
  <1>4. ASSUME Head(w).sub # u
        PROVE  Journey(made, gone, v, u, c, m)
    <2>0. 1 \notin I
      BY <1>1, <1>4
    <2>1. Chain(made, gone, p, J, c) /\ Those(q, I) = Those(p, J)
      <3>1. Shorter(p, q, I, J)
        BY <1>1
      <3> HIDE DEF p, q, I, J
      <3>2. Chain(made, gone, p, J, c)
        BY <1>2, <2>0, <3>1, ChainShorter, Zenon
      <3>3. Those(q, I) = Those(p, J)
        BY <2>0, <3>1, ThoseShorter
      <3> QED BY <3>2, <3>3
    <2>2. To(v, u) = To(w, u)
      BY <2>1 DEF To
    <2>3. I = {} => J = {}
      <3>1. Shorter(p, q, I, J)
        BY <1>1
      <3> HIDE DEF p, q, I, J
      <3> QED BY <3>1 DEF Shorter
    <2> HIDE DEF v
    <2> QED BY <2>1, <2>2, <2>3 DEF Journey
  <1> QED BY <1>3, <1>4

-----------------------------------------------------------------------------
(* The invariant.                                                          *)

(* A relay without a stream holds nothing, and none is made for a          *)
(* subscription to come, nor anything sent for one.                        *)
Resting(f) ==
    \A r \in Subs : f[r].at # "streaming" => f[r] = Disconnected(f[r].at, f[r].last)

Later(f, u) == \A r \in Subs : r > u => f[r] = Gone

Past(w, u) == \A i \in DOMAIN w : w[i].sub <= u

(* What lies between the entries shown and the page's cursor is gone.      *)
Shown(seen, c, gone) == \A t \in Sessions : seen[t].id + 1 .. c[t] \subseteq gone[t]

OnTheWay ==
    /\ Resting(relay)
    /\ Later(relay, sub)
    /\ Past(wire, sub)
    /\ Journey(produced, lost, wire, sub, cursor, relay[sub])
    /\ Shown(latest, cursor, lost)

RelayInv == RelayTypeOK /\ OnTheWay

(* What the type invariant says of the transport.                          *)
LEMMA Shapes ==
    ASSUME RelayTypeOK
    PROVE  /\ produced \in Cursors /\ cursor \in Cursors /\ wire \in Seq(Messages)
           /\ sub \in Subs /\ sub \in Nat /\ relay \in [Subs -> Relays]
           /\ relay[sub] \in Relays /\ \A r \in Subs : r \in Nat /\ relay[r] \in Relays
           /\ To(wire, sub) \in SUBSET Entries
  <1>1. wire \in Seq(Messages)
    BY DEF RelayTypeOK, Messages
  <1>2. To(wire, sub) \in SUBSET Entries
    BY <1>1, WireTyped
  <1> QED BY <1>1, <1>2, RelayAssumption DEF RelayTypeOK, Subs

(* A relay without a stream holds nothing.                                 *)
LEMMA BlankFields ==
    ASSUME NEW at, NEW last
    PROVE  LET m == Disconnected(at, last)
           IN  /\ m.at = at /\ m.last = last /\ m.entry = <<>> /\ m.pipe = <<>>
               /\ m.sent = last /\ m.round = {} /\ m.batch = <<>>
  BY DEF Disconnected

(* Only a relay with its stream has anything in hand, and only one that is *)
(* not gone does anything.                                                 *)
LEMMA Streaming ==
    ASSUME Resting(relay), NEW r \in Subs,
           \/ relay[r].entry # <<>> \/ relay[r].pipe # <<>>
           \/ relay[r].round # {} \/ relay[r].batch # <<>>
    PROVE  relay[r].at = "streaming"
  BY BlankFields DEF Resting

LEMMA Present ==
    ASSUME RelayTypeOK, Later(relay, sub), NEW r \in Subs, relay[r].at # "gone"
    PROVE  r <= sub
  <1>1. Gone.at = "gone"
    BY BlankFields DEF Gone
  <1>2. ~(r > sub)
    BY <1>1 DEF Later
  <1> QED BY <1>2, Shapes

(* A relay that is not gone moves: the others stay as they are.            *)
LEMMA RelayMoved ==
    ASSUME RelayTypeOK, Resting(relay), Later(relay, sub), NEW r \in Subs, r <= sub, NEW m,
           m.at = "streaming" \/ \E at, last : m = Disconnected(at, last),
           relay' = [relay EXCEPT ![r] = m], sub' = sub
    PROVE  /\ Resting(relay') /\ Later(relay', sub')
           /\ r = sub => relay'[sub'] = m
           /\ r # sub => relay'[sub'] = relay[sub]
  <1>1. /\ relay'[r] = m /\ sub \in Subs
        /\ \A q \in Subs : q # r => relay'[q] = relay[q]
    BY Shapes
  <1>2. m.at # "streaming" => m = Disconnected(m.at, m.last)
    BY BlankFields
  <1>3. Resting(relay')
    BY <1>1, <1>2 DEF Resting
  <1>4. Later(relay', sub)
    <2> SUFFICES ASSUME NEW q \in Subs, q > sub
                 PROVE  relay'[q] = Gone
      BY DEF Later
    <2>1. q # r
      BY Shapes
    <2> QED BY <1>1, <2>1 DEF Later
  <1> QED BY <1>1, <1>3, <1>4

(* Steps on a relay that touch nothing else.                               *)
LEMMA OtherRelay ==
    ASSUME RelayInv, NEW r \in Subs, r # sub, relay[r].at # "gone", NEW m,
           m.at = "streaming" \/ \E at, last : m = Disconnected(at, last),
           relay' = [relay EXCEPT ![r] = m],
           UNCHANGED <<logs, page, wire, lost>>
    PROVE  OnTheWay'
  <1>1. r <= sub
    BY Present DEF RelayInv, OnTheWay
  <1>2. /\ produced' = produced /\ lost' = lost /\ wire' = wire /\ sub' = sub
        /\ cursor' = cursor /\ latest' = latest
    BY DEF logs, page
  <1>3. Resting(relay') /\ Later(relay', sub') /\ relay'[sub'] = relay[sub]
    BY <1>1, <1>2, RelayMoved DEF RelayInv, OnTheWay
  <1> QED BY <1>2, <1>3 DEF RelayInv, OnTheWay

(* A step on the page's own relay that touches nothing else.               *)
LEMMA OwnRelay ==
    ASSUME RelayInv, NEW m, m.at # "gone",
           m.at = "streaming" \/ \E at, last : m = Disconnected(at, last),
           relay[sub].at # "gone" \/ Mine(wire, sub) = {},
           Carries(produced, lost, To(wire, sub), cursor, m),
           relay' = [relay EXCEPT ![sub] = m],
           UNCHANGED <<logs, page, wire, lost>>
    PROVE  OnTheWay'
  <1>1. /\ produced' = produced /\ lost' = lost /\ wire' = wire /\ sub' = sub
        /\ cursor' = cursor /\ latest' = latest
    BY DEF logs, page
  <1>2. sub \in Subs /\ sub <= sub
    BY Shapes DEF RelayInv
  <1>3. Resting(relay') /\ Later(relay', sub') /\ relay'[sub'] = m
    BY <1>1, <1>2, RelayMoved DEF RelayInv, OnTheWay
  <1>4. Journey(produced, lost, wire, sub, cursor, m)
    BY DEF RelayInv, OnTheWay, Journey
  <1> QED BY <1>1, <1>3, <1>4 DEF RelayInv, OnTheWay

(* The stream's own steps.                                                 *)
LEMMA StreamKeeps ==
    ASSUME RelayInv, NEW r \in Subs, StreamStep(r)
    PROVE  OnTheWay'
  <1> DEFINE n == relay[r]
  <1>1. RelayTypeOK /\ Resting(relay) /\ n \in Relays /\ produced \in Cursors
    BY Shapes DEF RelayInv, OnTheWay
  <1> DEFINE Goes ==
        \E pipe, sent, round, batch :
          LET m == [at |-> n.at, last |-> n.last, entry |-> n.entry, pipe |-> pipe,
                    sent |-> sent, round |-> round, batch |-> batch]
          IN  /\ n.at = "streaming"
              /\ relay' = [relay EXCEPT ![r] = m]
              /\ Streams(produced, lost, n.last, n.pipe, n.sent, n.batch)
                   => Streams(produced, lost, n.last, pipe, sent, batch)
  <1>2. Goes
    <2>1. CASE StreamRound(r)
      BY <1>1, <2>1, RoundIs
    <2>2. CASE StreamWrite(r)
      <3>1. PICK e \in Pieces :
              LET sent == [n.sent EXCEPT ![e.of] = e.id]
                  x == [of |-> e.of, id |-> e.id, notice |-> e.notice, cursor |-> sent]
              IN  /\ n.batch # <<>> /\ e = n.batch[1] /\ Len(n.pipe) < Room
                  /\ sent \in Cursors /\ x \in Entries
                  /\ relay' = [relay EXCEPT ![r] =
                       [at |-> n.at, last |-> n.last, entry |-> n.entry,
                        pipe |-> Append(n.pipe, x), sent |-> sent,
                        round |-> n.round, batch |-> Tail(n.batch)]]
        BY <1>1, <2>2, WriteIs
      <3> DEFINE sent == [n.sent EXCEPT ![e.of] = e.id]
                 x == [of |-> e.of, id |-> e.id, notice |-> e.notice, cursor |-> sent]
      <3>2. /\ x.of = n.batch[1].of /\ x.id = n.batch[1].id /\ x.notice = n.batch[1].notice
            /\ x.cursor = [n.sent EXCEPT ![x.of] = x.id] /\ x.cursor = sent /\ x \in Entries
        BY <3>1
      <3>3. n.at = "streaming"
        BY <1>1, <3>1, Streaming
      <3>4. /\ n.last \in Cursors /\ n.pipe \in Seq(Entries) /\ n.sent \in Cursors
            /\ n.batch \in Seq(Pieces) /\ n.batch # <<>>
        BY <1>1, <3>1, RelayFields
      <3>5. ASSUME Streams(produced, lost, n.last, n.pipe, n.sent, n.batch)
            PROVE  Streams(produced, lost, n.last, Append(n.pipe, x), sent, Tail(n.batch))
        <4> HIDE DEF x
        <4>1. Streams(produced, lost, n.last, Append(n.pipe, x), x.cursor, Tail(n.batch))
          BY <1>1, <3>2, <3>4, <3>5, StreamsWrite
        <4> QED BY <3>2, <4>1
      <3> QED BY <3>1, <3>3, <3>5
    <2>3. ASSUME NEW s \in Sessions, StreamTake(r, s)
          PROVE  Goes
      <3> DEFINE b == Replay(s, n.sent[s], produced[s])
      <3>1. /\ n.round # {}
            /\ relay' = [relay EXCEPT ![r] =
                 [at |-> n.at, last |-> n.last, entry |-> n.entry, pipe |-> n.pipe,
                  sent |-> n.sent, round |-> n.round \ {s}, batch |-> b]]
        BY <1>1, <2>3, TakeIs
      <3>2. n.at = "streaming"
        BY <1>1, <3>1, Streaming
      <3>3. n.sent \in Cursors
        BY <1>1, RelayFields
      <3>4. Streams(produced, lost, n.last, n.pipe, n.sent, n.batch)
              => Streams(produced, lost, n.last, n.pipe, n.sent, b)
        BY <1>1, <3>3, StreamsTake
      <3> HIDE DEF b
      <3> QED BY <3>1, <3>2, <3>4
    <2> QED BY <2>1, <2>2, <2>3 DEF StreamStep
  <1>3. PICK pipe, sent, round, batch :
          LET m == [at |-> n.at, last |-> n.last, entry |-> n.entry, pipe |-> pipe,
                    sent |-> sent, round |-> round, batch |-> batch]
          IN  /\ n.at = "streaming"
              /\ relay' = [relay EXCEPT ![r] = m]
              /\ Streams(produced, lost, n.last, n.pipe, n.sent, n.batch)
                   => Streams(produced, lost, n.last, pipe, sent, batch)
    BY <1>2
  <1> DEFINE m == [at |-> n.at, last |-> n.last, entry |-> n.entry, pipe |-> pipe,
                   sent |-> sent, round |-> round, batch |-> batch]
  <1>4. m.at = "streaming" /\ relay' = [relay EXCEPT ![r] = m] /\ n.at # "gone"
    BY <1>3
  <1>5. UNCHANGED <<logs, page, wire, lost>>
    BY DEF StreamStep, StreamRound, StreamTake, StreamWrite
  <1>6. CASE r # sub
    <2> HIDE DEF m
    <2> QED BY <1>4, <1>5, <1>6, OtherRelay
  <1>7. CASE r = sub
    <2>1. Carries(produced, lost, To(wire, sub), cursor, n)
      BY <1>3, <1>7 DEF RelayInv, OnTheWay, Journey
    <2>2. Streams(produced, lost, n.last, pipe, sent, batch)
      BY <1>3, <2>1 DEF Carries
    <2>3. Carries(produced, lost, To(wire, sub), cursor, m)
      <3> DEFINE X == To(wire, sub)
      <3> HIDE DEF X, n
      <3> QED BY <2>1, <2>2, CarriesStreams DEF X
    <2>4. m.at # "gone" /\ relay[sub].at # "gone"
      BY <1>4, <1>7
    <2> HIDE DEF m
    <2> QED BY <1>4, <1>5, <1>7, <2>3, <2>4, OwnRelay
  <1> QED BY <1>6, <1>7

-----------------------------------------------------------------------------
(* Each action keeps the invariant.                                        *)

(* The relay's steps.                                                      *)
LEMMA ReadKeeps ==
    ASSUME RelayInv, NEW r \in Subs, ReadId(r)
    PROVE  OnTheWay'
  <1> DEFINE n == relay[r]
             m == [at |-> n.at, last |-> n.pipe[1].cursor, entry |-> <<n.pipe[1]>>,
                   pipe |-> Tail(n.pipe), sent |-> n.sent, round |-> n.round,
                   batch |-> n.batch]
  <1>1. RelayTypeOK /\ Resting(relay) /\ n \in Relays
    BY Shapes DEF RelayInv, OnTheWay
  <1>2. n.entry = <<>> /\ n.pipe # <<>> /\ relay' = [relay EXCEPT ![r] = m]
    BY <1>1, ReadIs DEF ReadId
  <1>3. n.at = "streaming" /\ m.at = "streaming"
    BY <1>1, <1>2, Streaming
  <1>4. UNCHANGED <<logs, page, wire, lost>>
    BY DEF ReadId
  <1>5. CASE r # sub
    <2>1. n.at # "gone"
      BY <1>3
    <2> HIDE DEF m
    <2> QED BY <1>2, <1>3, <1>4, <1>5, <2>1, OtherRelay
  <1>6. CASE r = sub
    <2>1. Carries(produced, lost, To(wire, sub), cursor, n)
      BY <1>3, <1>6 DEF RelayInv, OnTheWay, Journey
    <2>2. To(wire, sub) \in SUBSET Entries /\ cursor \in Cursors
      BY <1>1, Shapes
    <2>3. Carries(produced, lost, To(wire, sub), cursor, m)
      <3> DEFINE X == To(wire, sub)
      <3> HIDE DEF X, n
      <3> QED BY <1>1, <1>2, <2>1, <2>2, CarriesRead DEF X
    <2>4. m.at # "gone" /\ relay[sub].at # "gone"
      BY <1>3, <1>6
    <2> HIDE DEF m
    <2> QED BY <1>2, <1>3, <1>4, <1>6, <2>3, <2>4, OwnRelay
  <1> QED BY <1>5, <1>6

LEMMA ForwardKeeps ==
    ASSUME RelayInv, NEW r \in Subs, Forward(r)
    PROVE  OnTheWay'
  <1> DEFINE n == relay[r]
             e == n.entry[1]
             m == [at |-> n.at, last |-> n.last, entry |-> <<>>, pipe |-> n.pipe,
                   sent |-> n.sent, round |-> n.round, batch |-> n.batch]
             x == [sub |-> r, entry |-> e]
  <1>1. RelayTypeOK /\ Resting(relay) /\ Later(relay, sub) /\ n \in Relays
    BY Shapes DEF RelayInv, OnTheWay
  <1>2. /\ n.entry # <<>> /\ e \in Entries /\ wire' = Append(wire, x)
        /\ relay' = [relay EXCEPT ![r] = m]
    BY <1>1, ForwardIs
  <1>3. n.at = "streaming" /\ m.at = "streaming" /\ r <= sub
    <2>1. n.at = "streaming"
      BY <1>1, <1>2, Streaming
    <2>2. n.at # "gone"
      BY <2>1
    <2> QED BY <1>1, <2>1, <2>2, Present
  <1>4. /\ produced' = produced /\ lost' = lost /\ sub' = sub
        /\ cursor' = cursor /\ latest' = latest
    BY DEF Forward, logs, page
  <1>5. /\ Resting(relay') /\ Later(relay', sub')
        /\ r = sub => relay'[sub'] = m
        /\ r # sub => relay'[sub'] = relay[sub]
    <2> HIDE DEF m
    <2> QED BY <1>1, <1>2, <1>3, <1>4, RelayMoved
  <1>6. Past(wire', sub)
    <2>1. x \in Messages /\ x.sub = r /\ wire \in Seq(Messages)
      BY <1>1, <1>2, Shapes DEF Messages
    <2> HIDE DEF x
    <2>2. /\ DOMAIN wire = 1 .. Len(wire) /\ Len(wire) \in Nat
          /\ DOMAIN wire' = 1 .. Len(wire) + 1
          /\ \A i \in 1 .. Len(wire) : wire'[i] = wire[i]
          /\ wire'[Len(wire) + 1] = x
      BY <1>2, <2>1, Appended
    <2>3. ASSUME NEW i \in DOMAIN wire'
          PROVE  wire'[i].sub <= sub
      <3>1. i \in DOMAIN wire \/ i = Len(wire) + 1
        BY <2>2
      <3>2. CASE i \in DOMAIN wire
        BY <2>2, <3>2 DEF RelayInv, OnTheWay, Past
      <3>3. CASE i = Len(wire) + 1
        BY <1>3, <2>1, <2>2, <3>3
      <3> QED BY <3>1, <3>2, <3>3
    <2> QED BY <2>3 DEF Past
  <1>7. Journey(produced, lost, wire', sub, cursor, relay'[sub'])
    <2>1. /\ produced \in Cursors /\ wire \in Seq(Messages) /\ sub \in Subs
          /\ cursor \in Cursors /\ relay[sub] \in Relays
          /\ Journey(produced, lost, wire, sub, cursor, relay[sub])
      BY <1>1, Shapes DEF RelayInv, OnTheWay
    <2>2. CASE r = sub
      <3>1. relay[sub].at # "gone" /\ relay[sub].entry # <<>>
        BY <1>2, <1>3, <2>2
      <3>2. Journey(produced, lost,
                   Append(wire, [sub |-> sub, entry |-> relay[sub].entry[1]]), sub, cursor,
                   [at |-> relay[sub].at, last |-> relay[sub].last, entry |-> <<>>,
                    pipe |-> relay[sub].pipe, sent |-> relay[sub].sent,
                    round |-> relay[sub].round, batch |-> relay[sub].batch])
        <4> DEFINE k == relay[sub]
        <4> HIDE DEF k
        <4>1. k \in Relays /\ Journey(produced, lost, wire, sub, cursor, k)
              /\ k.at # "gone" /\ k.entry # <<>>
          BY <2>1, <3>1 DEF k
        <4>2. Journey(produced, lost,
                   Append(wire, [sub |-> sub, entry |-> k.entry[1]]), sub, cursor,
                   [at |-> k.at, last |-> k.last, entry |-> <<>>,
                    pipe |-> k.pipe, sent |-> k.sent,
                    round |-> k.round, batch |-> k.batch])
          BY <2>1, <4>1, JourneyForward
        <4> QED BY <4>2 DEF k
      <3>3. relay'[sub'] = m
        BY <1>5, <2>2
      <3> QED BY <1>2, <2>2, <3>2, <3>3
    <2>3. CASE r # sub
      <3>1. Journey(produced, lost, Append(wire, x), sub, cursor, relay[sub])
        <4> HIDE DEF e
        <4> QED BY <1>2, <2>1, <2>3, JourneyOther
      <3> HIDE DEF x
      <3> QED BY <1>2, <1>5, <2>3, <3>1
    <2> QED BY <2>2, <2>3
  <1> HIDE DEF m, x, e
  <1> QED BY <1>4, <1>5, <1>6, <1>7 DEF RelayInv, OnTheWay

LEMMA ConnectKeeps ==
    ASSUME RelayInv, NEW r \in Subs, Connect(r)
    PROVE  OnTheWay'
  <1> DEFINE n == relay[r]
             m == Disconnected("streaming", n.last)
  <1>1. RelayTypeOK /\ Resting(relay) /\ n \in Relays /\ n.last \in Cursors
    BY Shapes, RelayFields DEF RelayInv, OnTheWay
  <1>2. n.at = "waiting" /\ relay' = [relay EXCEPT ![r] = m]
        /\ UNCHANGED <<logs, page, wire, lost>>
    BY DEF Connect
  <1>3. m.at = "streaming" /\ n.at # "gone"
    BY <1>2, BlankFields
  <1>4. n.entry = <<>>
    BY <1>1, <1>2, BlankFields DEF Resting
  <1>5. CASE r # sub
    <2> HIDE DEF m
    <2> QED BY <1>2, <1>3, <1>5, OtherRelay
  <1>6. CASE r = sub
    <2>1. Carries(produced, lost, To(wire, sub), cursor, n)
      BY <1>3, <1>6 DEF RelayInv, OnTheWay, Journey
    <2>2. Covers(lost, To(wire, sub), cursor, n.last)
      <3>1. To(wire, sub) \cup Row(n.entry) = To(wire, sub)
        BY <1>4, RowOfNone
      <3> QED BY <2>1, <3>1 DEF Carries, Reads
    <2>3. Carries(produced, lost, To(wire, sub), cursor, m)
      BY <1>1, <2>2, CarriesBlank
    <2>4. m.at # "gone" /\ relay[sub].at # "gone"
      BY <1>3, <1>6
    <2> HIDE DEF m
    <2> QED BY <1>2, <1>3, <1>6, <2>3, <2>4, OwnRelay
  <1> QED BY <1>5, <1>6

(* Subscriptions come and go.                                              *)
LEMMA SubscribeKeeps ==
    ASSUME RelayInv, Subscribe
    PROVE  OnTheWay'
  <1> DEFINE m == Disconnected("waiting", cursor)
  <1>1. /\ cursor \in Cursors /\ relay' = [relay EXCEPT ![sub] = m]
        /\ UNCHANGED <<logs, page, wire, lost>>
    BY Shapes DEF RelayInv, Subscribe
  <1>2. Mine(wire, sub) = {}
    BY DEF Subscribe, RelayInv, OnTheWay, Journey
  <1>3. Covers(lost, To(wire, sub), cursor, cursor)
    BY <1>1, <1>2, ToNone, CoversSame
  <1>4. Carries(produced, lost, To(wire, sub), cursor, m)
    BY <1>1, <1>3, CarriesBlank
  <1>5. m.at # "gone" /\ \E at, last : m = Disconnected(at, last)
    BY BlankFields
  <1> HIDE DEF m
  <1> QED BY <1>1, <1>2, <1>4, <1>5, OwnRelay

LEMMA UnsubscribeKeeps ==
    ASSUME RelayInv, NEW r \in Subs, Unsubscribe(r)
    PROVE  OnTheWay'
  <1>1. /\ r # sub /\ relay[r].at # "gone" /\ relay' = [relay EXCEPT ![r] = Gone]
        /\ UNCHANGED <<logs, page, wire, lost>>
    BY DEF Unsubscribe
  <1>2. \E at, last : Gone = Disconnected(at, last)
    BY DEF Gone
  <1> QED BY <1>1, <1>2, OtherRelay

LEMMA DropKeeps ==
    ASSUME RelayInv, Drop
    PROVE  OnTheWay'
  <1>1. /\ produced' = produced /\ lost' = lost /\ sub' = sub
        /\ cursor' = cursor /\ latest' = latest /\ wire' = <<>>
        /\ relay' = [r \in Subs |-> Gone] /\ sub \in Subs
    BY Shapes DEF Drop, logs, page, RelayInv
  <1>2. Gone.at = "gone" /\ Gone = Disconnected("gone", Gone.last)
    BY BlankFields DEF Gone
  <1>3. relay'[sub] = Gone /\ \A r \in Subs : relay'[r] = Gone
    BY <1>1
  <1>4. Resting(relay') /\ Later(relay', sub)
    BY <1>2, <1>3 DEF Resting, Later
  <1>5. Mine(<<>>, sub) = {} /\ DOMAIN <<>> = {}
    BY NoneMine
  <1>6. Journey(produced, lost, <<>>, sub, cursor, Gone)
    BY <1>2, <1>5, ChainEmpty DEF Journey
  <1>7. Past(<<>>, sub)
    BY <1>5 DEF Past
  <1> QED BY <1>1, <1>3, <1>4, <1>6, <1>7 DEF RelayInv, OnTheWay

(* A session's log grows.                                                  *)
LEMMA ProduceKeeps ==
    ASSUME RelayInv, NEW s \in Sessions, Produce(s)
    PROVE  OnTheWay' /\ produced' \in Cursors
  <1>1. /\ produced' = [produced EXCEPT ![s] = @ + 1] /\ produced[s] < MaxEvents
        /\ lost' = lost /\ sub' = sub /\ cursor' = cursor /\ latest' = latest
        /\ wire' = wire /\ relay' = relay
    BY DEF Produce, page
  <1>2. /\ produced \in Cursors /\ wire \in Seq(Messages) /\ relay[sub] \in Relays
    BY Shapes DEF RelayInv
  <1>3. produced[s] \in Nat /\ MaxEvents \in Nat
    BY <1>2, CursorNat
  <1>4. produced' \in Cursors /\ Behind(produced, produced')
    <2>1. produced[s] + 1 \in Ids
      BY <1>1, <1>3 DEF Ids
    <2>2. produced' \in Cursors
      BY <1>1, <1>2, <2>1 DEF Cursors
    <2>3. ASSUME NEW t \in Sessions
          PROVE  produced[t] <= produced'[t]
      <3>1. produced'[t] = IF t = s THEN produced[s] + 1 ELSE produced[t]
        BY <1>1, <1>2 DEF Cursors
      <3> QED BY <1>2, <1>3, <3>1, CursorNat
    <2> QED BY <2>2, <2>3 DEF Behind
  <1>5. Journey(produced, lost, wire, sub, cursor, relay[sub])
    BY DEF RelayInv, OnTheWay
  <1> DEFINE more == produced'
  <1>6. Journey(more, lost, wire, sub, cursor, relay[sub])
    <2>1. more \in Cursors /\ Behind(produced, more)
      BY <1>4
    <2> HIDE DEF more
    <2> QED BY <1>2, <1>5, <2>1, JourneyGrows
  <1> QED BY <1>1, <1>4, <1>6 DEF RelayInv, OnTheWay

(* What a break eats.                                                      *)
LEMMA Eaten ==
    ASSUME RelayInv, NEW r \in Subs, Break(r)
    PROVE  \/ lost' = lost /\ (r # sub \/ relay[sub].entry = <<>>)
           \/ /\ r = sub /\ relay[sub].entry # <<>>
              /\ LET e == relay[sub].entry[1]
                 IN  /\ e \in Entries /\ Fits(produced, e)
                     /\ lost' = [lost EXCEPT ![e.of] = @ \cup Stands(e)]
  <1>1. CASE ~(r = sub /\ relay[r].entry # <<>>)
    BY <1>1 DEF Break
  <1>2. CASE r = sub /\ relay[r].entry # <<>>
    <2>1. relay[sub] \in Relays /\ sub \in Subs /\ relay[sub].entry # <<>>
      BY <1>2, Shapes DEF RelayInv
    <2>2. relay[sub].entry \in Seq(Entries)
      BY <2>1, RelayFields
    <2>3. Head(relay[sub].entry) = relay[sub].entry[1] /\ relay[sub].entry[1] \in Entries
      BY <2>1, <2>2, HeadOf
    <2>4. relay[sub].at # "gone"
      BY <1>2 DEF Break
    <2>5. Fits(produced, relay[sub].entry[1])
      BY <2>1, <2>4 DEF RelayInv, OnTheWay, Journey, Carries, Reads
    <2>6. lost' = LET e == Head(relay[sub].entry) IN [lost EXCEPT ![e.of] = @ \cup Stands(e)]
      BY <1>2 DEF Break
    <2> QED BY <1>2, <2>1, <2>3, <2>5, <2>6
  <1> QED BY <1>1, <1>2

(* A break takes the pipe and the stream with it; what they held is asked  *)
(* for again, but for the entry of which the id line had been read.        *)
LEMMA BreakKeeps ==
    ASSUME RelayInv, NEW r \in Subs, Break(r)
    PROVE  OnTheWay'
  <1> DEFINE n == relay[r]
             m == Disconnected("waiting", n.last)
             now == lost'
  <1>1. /\ RelayTypeOK /\ Resting(relay) /\ Later(relay, sub) /\ n \in Relays
        /\ lost \in [Sessions -> SUBSET Ids] /\ produced \in Cursors
    BY Shapes DEF RelayInv, OnTheWay, RelayTypeOK
  <1>2. /\ n.at = "streaming" /\ n.at # "gone" /\ relay' = [relay EXCEPT ![r] = m]
        /\ produced' = produced /\ sub' = sub /\ cursor' = cursor /\ latest' = latest
        /\ wire' = wire
    BY DEF Break, logs, page
  <1>3. /\ \A t \in Sessions : lost[t] \subseteq now[t]
        /\ (r = sub /\ n.entry # <<>>) => Stands(n.entry[1]) \subseteq now[n.entry[1].of]
    <2>1. CASE lost' = lost /\ (r # sub \/ relay[sub].entry = <<>>)
      BY <2>1
    <2>2. CASE /\ r = sub /\ relay[sub].entry # <<>>
               /\ LET e == relay[sub].entry[1]
                  IN  /\ e \in Entries /\ Fits(produced, e)
                      /\ lost' = [lost EXCEPT ![e.of] = @ \cup Stands(e)]
      <3> DEFINE e == relay[sub].entry[1]
      <3>1. e.of \in Sessions /\ lost' = [lost EXCEPT ![e.of] = @ \cup Stands(e)]
        BY <2>2, EntryNat
      <3> HIDE DEF e
      <3>2. Stands(e) \subseteq now[e.of] /\ \A t \in Sessions : lost[t] \subseteq now[t]
        BY <1>1, <3>1
      <3> QED BY <2>2, <3>2 DEF e
    <2> QED BY <2>1, <2>2, Eaten
  <1>4. r <= sub
    BY <1>1, <1>2, Present
  <1>5. /\ Resting(relay') /\ Later(relay', sub')
        /\ r = sub => relay'[sub'] = m
        /\ r # sub => relay'[sub'] = relay[sub]
    <2>1. \E at, last : m = Disconnected(at, last)
      OBVIOUS
    <2> HIDE DEF m
    <2> QED BY <1>1, <1>2, <1>4, <2>1, RelayMoved
  <1>6. Shown(latest, cursor, now)
    <2> HIDE DEF now
    <2> QED BY <1>3 DEF RelayInv, OnTheWay, Shown
  <1>7. Chain(produced, now, On(wire), Mine(wire, sub), cursor)
    <2> DEFINE q == On(wire)
               I == Mine(wire, sub)
    <2>1. /\ Chain(produced, lost, q, I, cursor) /\ \A i \in I : q[i] \in Entries
      BY <1>1, Shapes, WireTyped DEF RelayInv, OnTheWay, Journey
    <2>2. Behind(produced, produced)
      BY <1>1, CursorNat DEF Behind
    <2> HIDE DEF q, I, now
    <2>3. Chain(produced, now, q, I, cursor)
      BY <1>1, <1>3, <2>1, <2>2, ChainGrows
    <2> QED BY <2>3 DEF q, I
  <1>8. Journey(produced, now, wire, sub, cursor, relay'[sub'])
    <2>1. CASE r = sub
      <3>1. Carries(produced, lost, To(wire, sub), cursor, n)
        BY <1>2, <2>1 DEF RelayInv, OnTheWay, Journey
      <3>2. n.entry # <<>> => Stands(n.entry[1]) \subseteq now[n.entry[1].of]
        BY <1>3, <2>1
      <3>3. Carries(produced, now, To(wire, sub), cursor, m)
        <4> DEFINE X == To(wire, sub)
        <4> HIDE DEF now, n, X
        <4> QED BY <1>1, <1>3, <3>1, <3>2, CarriesBreak DEF X
      <3>4. m.at # "gone"
        BY BlankFields
      <3>5. relay'[sub'] = m
        BY <1>5, <2>1
      <3> HIDE DEF m, now
      <3> QED BY <1>7, <3>3, <3>4, <3>5 DEF Journey
    <2>2. CASE r # sub
      <3>1. Journey(produced, lost, wire, sub, cursor, relay[sub]) /\ relay[sub] \in Relays
        BY <1>1, Shapes DEF RelayInv, OnTheWay
      <3>2. relay[sub].at # "gone" => Carries(produced, now, To(wire, sub), cursor, relay[sub])
        <4>1. ASSUME relay[sub].at # "gone"
              PROVE  Carries(produced, now, To(wire, sub), cursor, relay[sub])
          <5>1. Carries(produced, lost, To(wire, sub), cursor, relay[sub])
            BY <3>1, <4>1 DEF Journey
          <5>2. Behind(produced, produced)
            BY <1>1, CursorNat DEF Behind
          <5> DEFINE X == To(wire, sub)
                     k == relay[sub]
          <5> HIDE DEF now, X, k
          <5>3. Carries(produced, lost, X, cursor, k) /\ k \in Relays
            BY <3>1, <5>1 DEF X, k
          <5>4. Carries(produced, now, X, cursor, k)
            BY <1>1, <1>3, <5>2, <5>3, CarriesGrow
          <5> QED BY <5>4 DEF X, k
        <4> QED BY <4>1
      <3> HIDE DEF now
      <3> QED BY <1>5, <1>7, <2>2, <3>1, <3>2 DEF Journey
    <2> QED BY <2>1, <2>2
  <1>9. relay'[sub] = relay'[sub']
    BY <1>2
  <1> QED BY <1>2, <1>5, <1>6, <1>8, <1>9 DEF RelayInv, OnTheWay

(* What the page takes up.                                                 *)
LEMMA Received ==
    ASSUME RelayInv, Receive, Head(wire).sub = sub
    PROVE  LET e == Head(wire).entry
           IN  /\ e \in Entries /\ e.cursor \in Cursors
               /\ Journey(produced, lost, Tail(wire), sub, e.cursor, relay[sub])
               /\ Fits(produced, e) /\ Covers(lost, {e}, cursor, e.cursor)
               /\ cursor' = e.cursor
               /\ latest' = IF latest[e.of].id < e.id
                            THEN [latest EXCEPT ![e.of] = [id |-> e.id, notice |-> e.notice]]
                            ELSE latest
  <1> DEFINE e == Head(wire).entry
  <1>1. /\ produced \in Cursors /\ wire \in Seq(Messages) /\ wire # <<>>
        /\ cursor \in Cursors /\ relay[sub] \in Relays
        /\ Journey(produced, lost, wire, sub, cursor, relay[sub])
    BY Shapes DEF RelayInv, OnTheWay, Receive
  <1>2. /\ Journey(produced, lost, Tail(wire), sub, e.cursor, relay[sub])
        /\ Fits(produced, e) /\ Covers(lost, {e}, cursor, e.cursor)
    BY <1>1, JourneyReceive
  <1>3. Head(wire) \in Messages
    BY <1>1, HeadOf
  <1>4. e \in Entries
    BY <1>3 DEF Messages
  <1>5. e.cursor \in Cursors
    BY <1>4, EntryNat
  <1>6. /\ cursor' = e.cursor
        /\ latest' = IF e.id > latest[e.of].id
                     THEN [latest EXCEPT ![e.of] = [id |-> e.id, notice |-> e.notice]]
                     ELSE latest
    BY DEF Receive, New
  <1>7. e.id > latest[e.of].id <=> latest[e.of].id < e.id
    <2>1. e.id \in Nat /\ latest[e.of].id \in Nat
      BY <1>4, EntryNat, RelayAssumption DEF RelayInv, RelayTypeOK, Ids
    <2> HIDE DEF e
    <2> QED BY <2>1
  <1> HIDE DEF e
  <1> QED BY <1>2, <1>4, <1>5, <1>6, <1>7 DEF e

(* The page's cursor moves to the entry's; what it has not shown until there *)
(* is gone.                                                                *)
LEMMA ReceiveKeeps ==
    ASSUME RelayInv, Receive
    PROVE  OnTheWay'
  <1>1. /\ wire \in Seq(Messages) /\ wire # <<>> /\ wire' = Tail(wire)
        /\ produced' = produced /\ sub' = sub /\ relay' = relay /\ lost' = lost
    BY Shapes DEF RelayInv, Receive, logs
  <1>2. Past(wire', sub)
    <2>1. \A i \in DOMAIN Tail(wire) : \E j \in DOMAIN wire : Tail(wire)[i] = wire[j]
      BY <1>1, WireLess
    <2> DEFINE v == Tail(wire)
    <2> HIDE DEF v
    <2>2. Past(v, sub)
      BY <2>1 DEF RelayInv, OnTheWay, Past, v
    <2> QED BY <1>1, <2>2 DEF v
  <1>3. CASE Head(wire).sub = sub
    <2> DEFINE e == Head(wire).entry
    <2>1. /\ e \in Entries /\ e.cursor \in Cursors
          /\ Journey(produced, lost, Tail(wire), sub, e.cursor, relay[sub])
          /\ Fits(produced, e) /\ Covers(lost, {e}, cursor, e.cursor)
          /\ cursor' = e.cursor
          /\ latest' = IF latest[e.of].id < e.id
                       THEN [latest EXCEPT ![e.of] = [id |-> e.id, notice |-> e.notice]]
                       ELSE latest
      BY <1>3, Received
    <2> HIDE DEF e
    <2>2. ASSUME NEW t \in Sessions, NEW k \in latest'[t].id + 1 .. e.cursor[t]
          PROVE  k \in lost[t]
      <3>1. /\ latest[t].id \in Nat /\ e.id \in Nat /\ e.cursor[t] \in Nat
            /\ cursor[t] \in Nat /\ e.of \in Sessions
            /\ latest \in [Sessions -> [id : Ids, notice : BOOLEAN]]
        BY <2>1, EntryNat, CursorNat, Shapes, RelayAssumption DEF RelayInv, RelayTypeOK, Ids
      <3>2. \/ latest'[t] = latest[t] /\ (t = e.of => ~(latest[t].id < e.id))
            \/ t = e.of /\ latest'[t].id = e.id /\ latest[t].id < e.id
        BY <2>1, <3>1
      <3>3. latest'[t].id \in Nat /\ latest[t].id <= latest'[t].id
        BY <3>1, <3>2
      <3>4. k \in Nat /\ k > latest'[t].id /\ k <= e.cursor[t] /\ k > latest[t].id
        BY <3>1, <3>3
      <3>5. CASE k <= cursor[t]
        <4>1. k \in latest[t].id + 1 .. cursor[t]
          BY <3>1, <3>4, <3>5
        <4> QED BY <4>1 DEF RelayInv, OnTheWay, Shown
      <3>6. CASE ~(k <= cursor[t])
        <4>1. k \in cursor[t] + 1 .. e.cursor[t]
          BY <3>1, <3>4, <3>6
        <4>2. t # e.of
          <5>1. t = e.of => e.cursor[t] = e.id /\ e.id <= latest'[t].id
            BY <2>1, <3>1, <3>2 DEF Fits
          <5> QED BY <3>1, <3>3, <3>4, <5>1
        <4> QED BY <2>1, <4>1, <4>2 DEF Covers
      <3> QED BY <3>5, <3>6
    <2>3. Shown(latest', e.cursor, lost)
      BY <2>2 DEF Shown
    <2> QED BY <1>1, <1>2, <2>1, <2>3 DEF RelayInv, OnTheWay
  <1>4. CASE Head(wire).sub # sub
    <2>1. cursor' = cursor /\ latest' = latest
      BY <1>4 DEF Receive
    <2>2. /\ produced \in Cursors /\ cursor \in Cursors /\ relay[sub] \in Relays
          /\ Journey(produced, lost, wire, sub, cursor, relay[sub])
      BY Shapes DEF RelayInv, OnTheWay
    <2>3. Journey(produced, lost, Tail(wire), sub, cursor, relay[sub])
      BY <1>1, <1>4, <2>2, JourneyReceive
    <2> QED BY <1>1, <1>2, <2>1, <2>3 DEF RelayInv, OnTheWay
  <1> QED BY <1>3, <1>4

(* A fresh subscription: nothing on the wire is for it yet.                *)
LEMMA ReopenKeeps ==
    ASSUME RelayInv, Reopen
    PROVE  OnTheWay'
  <1>1. /\ sub' = sub + 1 /\ cursor' = Start /\ latest' = [s \in Sessions |-> Blank]
        /\ lost' = [s \in Sessions |-> {}] /\ produced' = produced
        /\ relay' = relay /\ wire' = wire
    BY DEF Reopen, logs
  <1>2. sub \in Nat /\ sub \in Subs /\ sub + 1 \in Subs /\ wire \in Seq(Messages)
    BY Shapes, RelayAssumption DEF RelayInv, Reopen, Subs
  <1>3. relay[sub + 1] = Gone
    <2>1. sub + 1 > sub
      BY <1>2
    <2> QED BY <1>2, <2>1 DEF RelayInv, OnTheWay, Later
  <1>4. Later(relay, sub + 1)
    <2>1. \A r \in Subs : r > sub + 1 => r > sub
      BY <1>2 DEF Subs
    <2> QED BY <2>1 DEF RelayInv, OnTheWay, Later
  <1>5. \A i \in DOMAIN wire : wire[i].sub \in Nat /\ wire[i].sub <= sub
    BY <1>2, WireTyped, RelayAssumption DEF RelayInv, OnTheWay, Past, Subs
  <1>6. Past(wire, sub + 1) /\ Mine(wire, sub + 1) = {}
    <2>1. \A i \in DOMAIN wire : wire[i].sub <= sub + 1 /\ wire[i].sub # sub + 1
      BY <1>2, <1>5
    <2> QED BY <2>1 DEF Past, Mine
  <1>7. Gone.at = "gone"
    BY BlankFields DEF Gone
  <1> DEFINE none == [s \in Sessions |-> {}]
             u == sub + 1
  <1>8. Journey(produced, none, wire, u, Start, Gone)
    <2> HIDE DEF none
    <2> QED BY <1>6, <1>7, ChainEmpty DEF Journey
  <1>9. Shown([s \in Sessions |-> Blank], Start, none)
    BY DEF Shown, Start, Blank
  <1> QED BY <1>1, <1>3, <1>4, <1>6, <1>8, <1>9 DEF RelayInv, OnTheWay

-----------------------------------------------------------------------------
(* So the invariant holds.                                                 *)

(* The invariant holds at first and after every step.                      *)
LEMMA InitKeeps ==
    ASSUME RelayInit
    PROVE  RelayInv
  <1>1. RelayTypeOK
    BY TypeInit
  <1>2. sub = 1 /\ 1 \in Subs /\ wire = <<>> /\ \A r \in Subs : relay[r] = Gone
    BY RelayAssumption DEF RelayInit, Subs
  <1>3. Gone.at = "gone" /\ Gone = Disconnected("gone", Gone.last)
    BY BlankFields DEF Gone
  <1>4. Resting(relay) /\ Later(relay, sub)
    BY <1>2, <1>3 DEF Resting, Later
  <1>5. Mine(<<>>, sub) = {} /\ DOMAIN <<>> = {}
    BY NoneMine
  <1>6. Journey(produced, lost, wire, sub, cursor, relay[sub])
    BY <1>2, <1>3, <1>5, ChainEmpty DEF Journey
  <1>7. Past(wire, sub)
    BY <1>2, <1>5 DEF Past
  <1>8. Shown(latest, cursor, lost)
    BY DEF RelayInit, Shown, Start, Blank
  <1> QED BY <1>1, <1>4, <1>6, <1>7, <1>8 DEF RelayInv, OnTheWay

LEMMA IdleKeeps ==
    ASSUME RelayInv, UNCHANGED <<produced, page, relay, wire, lost>>
    PROVE  OnTheWay'
  BY DEF RelayInv, OnTheWay, page

LEMMA RelayInvStep ==
    ASSUME RelayInv, [RelayNext]_relayVars
    PROVE  RelayInv'
  <1>1. RelayTypeOK'
    BY TypeStep DEF RelayInv
  <1>2. CASE \E s \in Sessions : Produce(s)
    BY <1>1, <1>2, ProduceKeeps DEF RelayInv
  <1>3. CASE \E s \in Sessions : EndProcess(s)
    BY <1>1, <1>3, IdleKeeps DEF RelayInv, EndProcess
  <1>4. CASE \E s \in Sessions \cup {Nobody} : Select(s)
    BY <1>1, <1>4, IdleKeeps DEF RelayInv, Select
  <1>5. ASSUME NEW r \in Subs, StreamStep(r) \/ RelayStep(r) \/ Break(r) \/ Unsubscribe(r)
        PROVE  OnTheWay'
    BY <1>5, StreamKeeps, ConnectKeeps, ReadKeeps, ForwardKeeps, BreakKeeps, UnsubscribeKeeps
       DEF RelayStep
  <1>6. CASE Subscribe \/ Receive \/ Reopen \/ Drop
    BY <1>1, <1>6, SubscribeKeeps, ReceiveKeeps, ReopenKeeps, DropKeeps DEF RelayInv
  <1>7. CASE UNCHANGED relayVars
    BY <1>1, <1>7, IdleKeeps DEF RelayInv, relayVars, page
  <1> QED BY <1>1, <1>2, <1>3, <1>4, <1>5, <1>6, <1>7 DEF RelayNext, RelayInv

(* No stage knows of more than the next one has, is about to have, or will *)
(* never have: from the page's cursor to the relay's, and from there to the *)
(* stream's, every event is on the way, is announced by a notice on the way, *)
(* or was eaten by a break.                                                *)
THEOREM RelayInvariant == RelaySpec => []RelayInv
  <1>1. RelayInit => RelayInv
    BY InitKeeps
  <1>2. RelayInv /\ [RelayNext]_relayVars => RelayInv'
    BY RelayInvStep
  <1> QED BY <1>1, <1>2, PTL DEF RelaySpec

-----------------------------------------------------------------------------
(* What the page is promised.                                              *)

(* Nothing is shown at first.                                              *)
LEMMA FeedInit ==
    ASSUME RelayInit
    PROVE  Feed!Init
  BY DEF RelayInit, Feed!Init, Start, Blank, Feed!Blank

(* A message that the page takes up is the next event, one after events that *)
(* are gone, or a notice.                                                  *)
LEMMA ReceiveFeed ==
    ASSUME RelayInv, Receive
    PROVE  [Feed!Next]_(Feed!feedVars)
  <1>1. produced' = produced /\ lost' = lost /\ breaks' = breaks
    BY DEF Receive, logs
  <1>2. CASE Head(wire).sub # sub
    <2>1. latest' = latest
      BY <1>2 DEF Receive
    <2> QED BY <1>1, <2>1 DEF Feed!feedVars
  <1>3. CASE Head(wire).sub = sub
    <2> DEFINE e == Head(wire).entry
    <2>1. /\ e \in Entries /\ e.cursor \in Cursors
          /\ Fits(produced, e) /\ Covers(lost, {e}, cursor, e.cursor)
          /\ latest' = IF latest[e.of].id < e.id
                       THEN [latest EXCEPT ![e.of] = [id |-> e.id, notice |-> e.notice]]
                       ELSE latest
      BY <1>3, Received
    <2> HIDE DEF e
    <2> DEFINE s == e.of
               id == e.id
    <2>2. /\ s \in Sessions /\ id \in Nat /\ e.notice \in BOOLEAN /\ e.cursor[s] \in Nat
          /\ latest[s].id \in Nat /\ cursor[s] \in Nat /\ produced[s] \in Nat
          /\ e.cursor[s] = id /\ id <= produced[s]
      BY <2>1, EntryNat, CursorNat, Shapes, RelayAssumption DEF RelayInv, RelayTypeOK, Ids, Fits
    <2>3. CASE ~(latest[s].id < id)
      BY <1>1, <2>1, <2>3 DEF Feed!feedVars
    <2>4. CASE latest[s].id < id
      <3>1. id \in latest[s].id + 1 .. produced[s]
        BY <2>2, <2>4
      <3>2. latest' = [latest EXCEPT ![s] = [id |-> id, notice |-> e.notice]]
        BY <2>1, <2>4
      <3>3. CASE e.notice
        <4>1. latest' = [latest EXCEPT ![s] = [id |-> id, notice |-> TRUE]]
          BY <2>2, <3>2, <3>3
        <4>2. Feed!Announce(s)
          <5> HIDE DEF s, id
          <5> QED BY <1>1, <3>1, <4>1 DEF Feed!Announce
        <4> QED BY <2>2, <4>2 DEF Feed!Next
      <3>4. CASE ~e.notice
        <4>1. latest' = [latest EXCEPT ![s] = [id |-> id, notice |-> FALSE]]
          BY <2>2, <3>2, <3>4
        <4>2. ASSUME NEW k \in latest[s].id + 1 .. id - 1
              PROVE  k \in lost[s]
          <5>1. k \in Nat /\ k # id /\ k > latest[s].id /\ k < id
            BY <2>2
          <5>2. CASE k <= cursor[s]
            <6>1. k \in latest[s].id + 1 .. cursor[s]
              BY <2>2, <5>1, <5>2
            <6> QED BY <2>2, <6>1 DEF RelayInv, OnTheWay, Shown
          <5>3. CASE ~(k <= cursor[s])
            <6>1. k \in cursor[s] + 1 .. e.cursor[s]
              BY <2>2, <5>1, <5>3
            <6>2. k \in lost[s] \/ k \in Stands(e)
              <7> HIDE DEF s
              <7> QED BY <2>1, <2>2, <6>1 DEF Covers
            <6> QED BY <3>4, <5>1, <6>2 DEF Stands
          <5> QED BY <5>2, <5>3
        <4>3. Feed!Show(s)
          <5>1. latest[s].id + 1 .. id - 1 \subseteq lost[s]
            BY <4>2
          <5> HIDE DEF s, id
          <5> QED BY <1>1, <3>1, <4>1, <5>1 DEF Feed!Show
        <4> QED BY <2>2, <4>3 DEF Feed!Next
      <3> QED BY <3>3, <3>4
    <2> QED BY <2>3, <2>4
  <1> QED BY <1>2, <1>3

(* A break eats what one entry stands for, or nothing.                     *)
LEMMA BreakFeed ==
    ASSUME RelayInv, NEW r \in Subs, Break(r)
    PROVE  [Feed!Next]_(Feed!feedVars)
  <1>1. /\ produced' = produced /\ latest' = latest /\ breaks' = breaks + 1
        /\ breaks < MaxBreaks
    BY DEF Break, logs, page
  <1>2. \/ lost' = lost
        \/ \E s \in Sessions : \E from, to \in 0 .. produced[s] :
             lost' = [lost EXCEPT ![s] = @ \cup from + 1 .. to]
    <2>1. CASE lost' = lost
      BY <2>1
    <2>2. CASE LET e == relay[sub].entry[1]
               IN  /\ e \in Entries /\ Fits(produced, e)
                   /\ lost' = [lost EXCEPT ![e.of] = @ \cup Stands(e)]
      <3> DEFINE e == relay[sub].entry[1]
      <3>1. /\ e \in Entries /\ Fits(produced, e)
            /\ lost' = [lost EXCEPT ![e.of] = @ \cup Stands(e)]
        BY <2>2
      <3> HIDE DEF e
      <3>2. /\ e.of \in Sessions /\ e.id \in Nat /\ e.notice \in BOOLEAN
            /\ produced[e.of] \in Nat /\ e.id >= 1 /\ e.id <= produced[e.of]
        BY <3>1, EntryNat, CursorNat, Shapes DEF RelayInv, Fits
      <3>3. PICK from \in 0 .. produced[e.of], to \in 0 .. produced[e.of] :
              Stands(e) = from + 1 .. to
        <4>1. CASE e.notice
          <5>1. 0 \in 0 .. produced[e.of] /\ e.id \in 0 .. produced[e.of] /\ 0 + 1 = 1
            BY <3>2
          <5>2. Stands(e) = 0 + 1 .. e.id
            BY <4>1, <5>1 DEF Stands
          <5> QED BY <5>1, <5>2
        <4>2. CASE ~e.notice
          <5> DEFINE i == e.id
          <5>1. i - 1 \in 0 .. produced[e.of] /\ i \in 0 .. produced[e.of]
            BY <3>2
          <5>2. {i} = (i - 1) + 1 .. i
            <6>1. i \in Nat
              BY <3>2
            <6> HIDE DEF i
            <6> QED BY <6>1
          <5>3. Stands(e) = (i - 1) + 1 .. i
            BY <4>2, <5>2 DEF Stands
          <5> HIDE DEF i
          <5> QED BY <5>1, <5>3
        <4> QED BY <4>1, <4>2
      <3>4. lost' = [lost EXCEPT ![e.of] = @ \cup from + 1 .. to]
        BY <3>1, <3>3
      <3> QED BY <3>2, <3>4
    <2> QED BY <2>1, <2>2, Eaten
  <1>3. Feed!Lose
    BY <1>1, <1>2 DEF Feed!Lose
  <1> QED BY <1>3 DEF Feed!Next

(* Every other step is one of the promise's own, or shows the page nothing. *)
LEMMA FeedStep ==
    ASSUME RelayInv, [RelayNext]_relayVars
    PROVE  [Feed!Next]_(Feed!feedVars)
  <1>1. ASSUME NEW s \in Sessions, Produce(s)
        PROVE  Feed!Next
    <2>1. Feed!Produce(s)
      BY <1>1 DEF Produce, page, Feed!Produce
    <2> QED BY <2>1 DEF Feed!Next
  <1>2. ASSUME NEW s, EndProcess(s) \/ Select(s)
        PROVE  UNCHANGED Feed!feedVars
    BY <1>2 DEF EndProcess, Select, page, Feed!feedVars
  <1>3. ASSUME NEW r \in Subs, StreamStep(r) \/ RelayStep(r) \/ Unsubscribe(r)
        PROVE  UNCHANGED Feed!feedVars
    BY <1>3 DEF StreamStep, StreamRound, StreamTake, StreamWrite, RelayStep, Connect, ReadId,
       Forward, Unsubscribe, logs, page, Feed!feedVars
  <1>4. CASE Subscribe \/ Drop
    BY <1>4 DEF Subscribe, Drop, logs, page, Feed!feedVars
  <1>5. CASE Reopen
    <2>1. Feed!Clear
      BY <1>5 DEF Reopen, logs, Feed!Clear, Blank, Feed!Blank
    <2> QED BY <2>1 DEF Feed!Next
  <1>6. CASE UNCHANGED relayVars
    BY <1>6 DEF relayVars, page, Feed!feedVars
  <1> QED BY <1>1, <1>2, <1>3, <1>4, <1>5, <1>6, ReceiveFeed, BreakFeed DEF RelayNext

(* The transport keeps the promise of EventFeed, step by step: the page shows *)
(* every log in order, each event once and with notice of what is left out, *)
(* whatever breaks, sockets lost and relays of closed sources lie in between. *)
THEOREM FeedIsKept == RelaySpec => FeedKept
  <1>1. RelayInit => Feed!Init
    BY FeedInit
  <1>2. RelayInv /\ [RelayNext]_relayVars => [Feed!Next]_(Feed!feedVars)
    BY FeedStep
  <1> QED BY <1>1, <1>2, RelayInvariant, PTL DEF RelaySpec, FeedKept, Feed!Spec

=============================================================================
