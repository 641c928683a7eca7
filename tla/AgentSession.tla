---------------------------- MODULE AgentSession ----------------------------
(***************************************************************************)
(* Agent sessions on pseudo-terminals (service/sessions.py, AgentSession). *)
(*                                                                         *)
(* A session is a process on the slave side of a pseudo-terminal. Five     *)
(* parties of the service work on it without a common lock: the request    *)
(* that starts it, the thread that reads its output, the thread that waits *)
(* for its exit, a request that stops it and a request that writes to it.  *)
(* They share the attributes of the session object and, through the        *)
(* operating system, the table of file descriptors: a descriptor that one  *)
(* session closed is the number the next one is given.                     *)
(***************************************************************************)
EXTENDS SessionNames, FiniteSets

CONSTANTS
    Fds,         \* the descriptor numbers a terminal can be given
    MaxOutput,   \* bound: the chunks one process writes
    MaxSends     \* bound: the messages sent

ASSUME DescriptorAssumption ==
    /\ Fds \subseteq Nat \ {0}
    /\ IsFiniteSet(Fds)
    /\ MaxOutput \in Nat
    /\ MaxSends \in Nat

\* A session without a descriptor (_master_fd is None).
NoFd == 0

Statuses == {"created", "running", "completed", "terminated"}

\* An event of the log: its type and, for output, whose output it is.
EventTypes == {"system", "output", "error", "completed"}

Events == [type : EventTypes, from : Sessions]

VARIABLES
    proc,        \* the process: none, running or exited
    written,     \* chunks the process has written so far
    unread,      \* chunks in its terminal that nobody has read yet
    terminal,    \* the kernel's table: whose terminal a descriptor is
    master,      \* self._master_fd
    status,      \* self.status
    log,         \* the kinds of event self._events and the transcript hold
    record,      \* the status in the service's session records
    starter,     \* where the request that starts the session is
    reader,      \* the output thread: where it is, its descriptor, its terminal
    waiter,      \* the exit thread: where it is, the descriptor it closes
    stopper,     \* a request that stops the session, likewise
    sender,      \* a request that writes: to whom, where it is
    typed,       \* whose input the process of a session has been given
    sends        \* messages sent so far (a bound)

attributes == <<master, status, log, record>>
kernel == <<proc, written, unread, terminal>>
threads == <<starter, reader, waiter, stopper>>
vars == <<proc, written, unread, terminal, master, status, log, record,
          starter, reader, waiter, stopper, sender, typed, sends>>

StarterPlaces == {"idle", "spawned", "notify", "done"}
ReaderPlaces  == {"idle", "new", "loop", "blocked", "holding", "done"}
CloserPlaces  == {"idle", "waiting", "set", "notify", "hook",
                  "close", "closing", "done"}

SomeFd == Fds \cup {NoFd}
SomeSession == Sessions \cup {Nobody}

Readers == [at : ReaderPlaces, fd : SomeFd, from : SomeSession]
Closers == [at : CloserPlaces, fd : SomeFd]
Senders == [at : {"idle", "checked", "holding"}, to : SomeSession, fd : SomeFd,
            left : 0 .. 2]

NoSender == [at |-> "idle", to |-> Nobody, fd |-> NoFd, left |-> 0]

Init ==
    /\ proc = [s \in Sessions |-> "none"]
    /\ written = [s \in Sessions |-> 0]
    /\ unread = [s \in Sessions |-> 0]
    /\ terminal = [f \in Fds |-> Nobody]
    /\ master = [s \in Sessions |-> NoFd]
    /\ status = [s \in Sessions |-> "created"]
    /\ log = [s \in Sessions |-> {}]
    /\ record = [s \in Sessions |-> "created"]
    /\ starter = [s \in Sessions |-> "idle"]
    /\ reader = [s \in Sessions |-> [at |-> "idle", fd |-> NoFd, from |-> Nobody]]
    /\ waiter = [s \in Sessions |-> [at |-> "idle", fd |-> NoFd]]
    /\ stopper = [s \in Sessions |-> [at |-> "idle", fd |-> NoFd]]
    /\ sender = NoSender
    /\ typed = [s \in Sessions |-> {}]
    /\ sends = 0

-----------------------------------------------------------------------------
(* Shared helpers.                                                         *)

\* The descriptor the kernel hands out: the lowest number not in use.
Lowest(f) ==
    /\ terminal[f] = Nobody
    /\ \A g \in Fds : terminal[g] = Nobody => f <= g

\* Append an event under the condition, in memory and to the transcript. The
\* order of events is the order of these steps and is not kept.
Logged(s, type, from) ==
    log' = [log EXCEPT ![s] = @ \cup {[type |-> type, from |-> from]}]

RecordedWhileActive(s) ==
    record' = [record EXCEPT ![s] = IF proc[s] = "running" THEN "running" ELSE @]

\* Save the record of a session as it is at that moment, under the service's
\* lock: a live process is running, else the status attribute counts.
Recorded(s) ==
    record' = [record EXCEPT ![s] = IF proc[s] = "running" THEN "running" ELSE status[s]]

Forgotten(s, f) ==
    /\ master' = [master EXCEPT ![s] = NoFd]
    /\ terminal' = terminal

\* Forget the descriptor and close that number, whosever terminal it now is;
\* an error of close is ignored.
Closed(s, f) ==
    /\ master' = [master EXCEPT ![s] = NoFd]
    /\ terminal' = [terminal EXCEPT ![f] = Nobody]

-----------------------------------------------------------------------------
(* The process.                                                            *)

\* The agent writes to its terminal.
Write(s) ==
    /\ proc[s] = "running"
    /\ written[s] < MaxOutput
    /\ written' = [written EXCEPT ![s] = @ + 1]
    /\ unread' = [unread EXCEPT ![s] = @ + 1]
    /\ UNCHANGED <<proc, terminal, attributes, threads, sender, typed, sends>>

\* The agent ends by itself.
Exit(s) ==
    /\ proc[s] = "running"
    /\ proc' = [proc EXCEPT ![s] = "exited"]
    /\ UNCHANGED <<written, unread, terminal, attributes, threads, sender, typed,
                   sends>>

-----------------------------------------------------------------------------
(* Starting: open a terminal, run the process, set the attributes, notify, *)
(* log, and start the two threads. The session is in its context's table   *)
(* before it is started, so that a stop can come at any of these steps.    *)

Spawn(s) ==
    /\ starter[s] = "idle"
    /\ proc[s] = "none"
    /\ \E f \in Fds :
        /\ Lowest(f)
        /\ terminal' = [terminal EXCEPT ![f] = s]
        /\ master' = [master EXCEPT ![s] = f]
    /\ proc' = [proc EXCEPT ![s] = "running"]
    /\ starter' = [starter EXCEPT ![s] = "spawned"]
    /\ UNCHANGED <<written, unread, status, log, record, reader, waiter, stopper,
                   sender, typed, sends>>

SetRunning(s) ==
    /\ starter[s] = "spawned"
    /\ status' = [status EXCEPT ![s] = "running"]
    /\ starter' = [starter EXCEPT ![s] = "notify"]
    /\ UNCHANGED <<kernel, master, log, record, reader, waiter, stopper, sender,
                   typed, sends>>

Announce(s) ==
    /\ starter[s] = "notify"
    /\ Recorded(s)
    /\ Logged(s, "system", s)
    /\ starter' = [starter EXCEPT ![s] = "done"]
    /\ reader' = [reader EXCEPT ![s].at = "new"]
    /\ waiter' = [waiter EXCEPT ![s].at = "waiting"]
    /\ UNCHANGED <<kernel, master, status, stopper, sender, typed, sends>>

-----------------------------------------------------------------------------
(* The output thread. It keeps the descriptor it found at its start and    *)
(* reads from whatever terminal has that number.                           *)

ReaderStarts(s) ==
    /\ reader[s].at = "new"
    /\ reader' = [reader EXCEPT
        ![s].at = IF master[s] = NoFd THEN "done" ELSE "loop",
        ![s].fd = master[s]]
    /\ UNCHANGED <<kernel, attributes, starter, waiter, stopper, sender, typed, sends>>

\* The call of read finds its terminal, or a closed descriptor (EBADF).
EnterRead(s) ==
    /\ reader[s].at = "loop"
    /\ LET t == terminal[reader[s].fd] IN
       reader' = [reader EXCEPT
        ![s].at = IF t = Nobody THEN "done" ELSE "blocked",
        ![s].from = t]
    /\ UNCHANGED <<kernel, attributes, starter, waiter, stopper, sender, typed, sends>>

ReadChunk(s) ==
    /\ reader[s].at = "blocked"
    /\ unread[reader[s].from] > 0
    /\ unread' = [unread EXCEPT ![reader[s].from] = @ - 1]
    /\ reader' = [reader EXCEPT ![s].at = "holding"]
    /\ UNCHANGED <<proc, written, terminal, attributes, starter, waiter, stopper,
                   sender, typed, sends>>

\* Nothing is left and the other side is gone (EIO).
ReadHangup(s) ==
    /\ reader[s].at = "blocked"
    /\ unread[reader[s].from] = 0
    /\ proc[reader[s].from] = "exited"
    /\ reader' = [reader EXCEPT ![s].at = "done"]
    /\ UNCHANGED <<kernel, attributes, starter, waiter, stopper, sender, typed, sends>>

LogOutput(s) ==
    /\ reader[s].at = "holding"
    /\ Logged(s, "output", reader[s].from)
    /\ reader' = [reader EXCEPT ![s].at = "loop", ![s].from = Nobody]
    /\ UNCHANGED <<kernel, master, status, record, starter, waiter, stopper, sender,
                   typed, sends>>

-----------------------------------------------------------------------------
(* The exit thread: after the exit it waits a moment, sets the status,     *)
(* notifies, runs the completion hook, logs the end and closes the         *)
(* terminal, whether or not the output has been read.                      *)

SeeExit(s) ==
    /\ waiter[s].at = "waiting"
    /\ proc[s] = "exited"
    /\ status' = [status EXCEPT ![s] = "completed"]
    /\ waiter' = [waiter EXCEPT ![s].at = "notify"]
    /\ UNCHANGED <<kernel, master, log, record, starter, reader, stopper, sender,
                   typed, sends>>

NotifyExit(s) ==
    /\ waiter[s].at = "notify"
    /\ Recorded(s)
    /\ waiter' = [waiter EXCEPT ![s].at = "hook"]
    /\ UNCHANGED <<kernel, master, status, log, starter, reader, stopper, sender,
                   typed, sends>>

HookEndsThread(s) ==
    /\ waiter[s].at = "hook"
    /\ \/ /\ Logged(s, "completed", s)
          /\ waiter' = [waiter EXCEPT ![s].at = "close"]
       \/ /\ log' = log
          /\ waiter' = [waiter EXCEPT ![s].at = "done"]
    /\ UNCHANGED <<kernel, master, status, record, starter, reader, stopper, sender,
                   typed, sends>>

\* The completion hook succeeds, or raises and the error is logged; then the
\* end is logged.
RunHook(s) ==
    /\ waiter[s].at = "hook"
    /\ \E raised \in SUBSET {[type |-> "error", from |-> s]} :
        log' = [log EXCEPT ![s] = @ \cup raised \cup {[type |-> "completed", from |-> s]}]
    /\ waiter' = [waiter EXCEPT ![s].at = "close"]
    /\ UNCHANGED <<kernel, master, status, record, starter, reader, stopper, sender,
                   typed, sends>>

\* _close_master, first half: read the attribute; there may be nothing to close.
WaiterTakes(s) ==
    /\ waiter[s].at = "close"
    /\ waiter' = [waiter EXCEPT
        ![s].at = IF master[s] = NoFd THEN "done" ELSE "closing",
        ![s].fd = master[s]]
    /\ UNCHANGED <<kernel, attributes, starter, reader, stopper, sender, typed, sends>>

\* _close_master, second half.
WaiterCloses(s) ==
    /\ waiter[s].at = "closing"
    /\ Closed(s, waiter[s].fd)
    /\ waiter' = [waiter EXCEPT ![s].at = "done", ![s].fd = NoFd]
    /\ UNCHANGED <<proc, written, unread, status, log, record, starter, reader,
                   stopper, sender, typed, sends>>

-----------------------------------------------------------------------------
(* Stopping a session.                                                     *)

\* terminate: an exited process only has its terminal closed.
StopExited(s) ==
    /\ stopper[s].at = "idle"
    /\ proc[s] = "exited"
    /\ stopper' = [stopper EXCEPT ![s].at = "close"]
    /\ UNCHANGED <<kernel, attributes, starter, reader, waiter, sender, typed, sends>>

\* A running one is killed with its descendants; the exit thread sees it too.
Kill(s) ==
    /\ stopper[s].at = "idle"
    /\ proc[s] = "running"
    /\ proc' = [proc EXCEPT ![s] = "exited"]
    /\ stopper' = [stopper EXCEPT ![s].at = "set"]
    /\ UNCHANGED <<written, unread, terminal, attributes, starter, reader, waiter,
                   sender, typed, sends>>

SetTerminated(s) ==
    /\ stopper[s].at = "set"
    /\ status' = [status EXCEPT ![s] = "terminated"]
    /\ stopper' = [stopper EXCEPT ![s].at = "notify"]
    /\ UNCHANGED <<kernel, master, log, record, starter, reader, waiter, sender,
                   typed, sends>>

NotifyTerminated(s) ==
    /\ stopper[s].at = "notify"
    /\ Recorded(s)
    /\ stopper' = [stopper EXCEPT ![s].at = "close"]
    /\ UNCHANGED <<kernel, master, status, log, starter, reader, waiter, sender,
                   typed, sends>>

StopperTakes(s) ==
    /\ stopper[s].at = "close"
    /\ stopper' = [stopper EXCEPT
        ![s].at = IF master[s] = NoFd THEN "done" ELSE "closing",
        ![s].fd = master[s]]
    /\ UNCHANGED <<kernel, attributes, starter, reader, waiter, sender, typed, sends>>

StopperCloses(s) ==
    /\ stopper[s].at = "closing"
    /\ Closed(s, stopper[s].fd)
    /\ stopper' = [stopper EXCEPT ![s].at = "done", ![s].fd = NoFd]
    /\ UNCHANGED <<proc, written, unread, status, log, record, starter, reader,
                   waiter, sender, typed, sends>>

-----------------------------------------------------------------------------
(* Writing to a session: a message is its text and, after a delay, Enter.  *)

SendBegin(s) ==
    /\ sender.at = "idle"
    /\ sends < MaxSends
    /\ proc[s] = "running"
    /\ master[s] # NoFd
    /\ sender' = [at |-> "checked", to |-> s, fd |-> NoFd, left |-> 2]
    /\ sends' = sends + 1
    /\ UNCHANGED <<kernel, attributes, threads, typed>>

TakesAlways ==
    /\ sender.at = "checked"
    /\ sender' = IF master[sender.to] = NoFd
                 THEN NoSender
                 ELSE [sender EXCEPT !.at = "holding", !.fd = master[sender.to]]
    /\ UNCHANGED <<kernel, attributes, threads, typed, sends>>

\* The next part reads the attribute anew; when it is None by now, os.write
\* raises a TypeError and the request fails.
SendTakes ==
    /\ sender.at = "checked"
    /\ sender' = IF sender.left = 0 \/ master[sender.to] = NoFd
                 THEN NoSender
                 ELSE [sender EXCEPT !.at = "holding", !.fd = master[sender.to]]
    /\ UNCHANGED <<kernel, attributes, threads, typed, sends>>

\* The number is written to, whosever terminal it is; none is an error.
SendWrites ==
    /\ sender.at = "holding"
    /\ LET t == terminal[sender.fd] IN
       IF t = Nobody
       THEN sender' = NoSender /\ typed' = typed
       ELSE /\ sender' = [sender EXCEPT !.at = "checked", !.left = @ - 1, !.fd = NoFd]
            /\ typed' = [typed EXCEPT ![t] = @ \cup {sender.to}]
    /\ UNCHANGED <<kernel, attributes, threads, sends>>

\* Selecting or renaming a session saves its record too, at any moment.
Rename(s) ==
    /\ Recorded(s)
    /\ UNCHANGED <<kernel, master, status, log, threads, sender, typed, sends>>

-----------------------------------------------------------------------------

StarterStep(s) == SetRunning(s) \/ Announce(s)

ReaderStep(s) ==
    ReaderStarts(s) \/ EnterRead(s) \/ ReadChunk(s) \/ ReadHangup(s) \/ LogOutput(s)

WaiterStep(s) ==
    \/ SeeExit(s) \/ NotifyExit(s) \/ RunHook(s)
    \/ WaiterTakes(s) \/ WaiterCloses(s)

StopperStep(s) ==
    SetTerminated(s) \/ NotifyTerminated(s) \/ StopperTakes(s) \/ StopperCloses(s)

Next ==
    \/ \E s \in Sessions :
        \/ Write(s) \/ Exit(s) \/ Spawn(s) \/ StopExited(s) \/ Kill(s)
        \/ SendBegin(s) \/ Rename(s)
        \/ StarterStep(s) \/ ReaderStep(s) \/ WaiterStep(s) \/ StopperStep(s)
    \/ SendTakes
    \/ SendWrites

Spec == Init /\ [][Next]_vars

\* Threads that can run do run; nothing makes an agent write or exit, or
\* anybody stop one. The output thread is not assumed to get on: a descendant
\* of the agent may keep the terminal open without writing to it.
FairSpec ==
    /\ Spec
    /\ \A s \in Sessions :
        /\ WF_vars(StarterStep(s))
        /\ WF_vars(WaiterStep(s))
        /\ WF_vars(StopperStep(s))

-----------------------------------------------------------------------------
(* Properties.                                                             *)

\* The attributes, the threads and the kernel's table keep their shapes.
TypeOK ==
    /\ proc \in [Sessions -> {"none", "running", "exited"}]
    /\ written \in [Sessions -> 0 .. MaxOutput]
    /\ unread \in [Sessions -> 0 .. MaxOutput]
    /\ terminal \in [Fds -> SomeSession]
    /\ master \in [Sessions -> SomeFd]
    /\ status \in [Sessions -> Statuses]
    /\ log \in [Sessions -> SUBSET Events]
    /\ record \in [Sessions -> Statuses]
    /\ starter \in [Sessions -> StarterPlaces]
    /\ reader \in [Sessions -> Readers]
    /\ waiter \in [Sessions -> Closers]
    /\ stopper \in [Sessions -> Closers]
    /\ sender \in Senders
    /\ typed \in [Sessions -> SUBSET Sessions]
    /\ sends \in 0 .. MaxSends

\* Nobody is between setting the status of a session and saving its record.
Settled(s) ==
    /\ starter[s] \notin {"spawned", "notify"}
    /\ waiter[s].at # "notify"
    /\ stopper[s].at # "notify"

\* Three threads set the status and save the record, in any order, and the last
\* one to save is not the last one to set: still, once none of them is in
\* between, the record on disk, which the session list and a restarted service
\* show, is the status of the session.
RecordFollowsStatus == \A s \in Sessions : Settled(s) => record[s] = status[s]

\* A descriptor that is open belongs to a session that still knows it, and so
\* will close it: two closers of a session, or a closer that meets a
\* descriptor's next owner, leave none behind.
NoDescriptorLeak ==
    \A f \in Fds : terminal[f] # Nobody => master[terminal[f]] = f

\* A session only ever logs the output of its own process, and only the input
\* meant for it reaches its process: terminals of different workspaces do not
\* leak into one another.
OwnTerminalOnly ==
    \A s \in Sessions :
        /\ \A e \in log[s] : e.from = s
        /\ typed[s] \subseteq {s}

LogSays(s, type) == \E e \in log[s] : e.type = type

\* However a session ends (by itself, stopped, stopped while it starts, with a
\* failing hook), its end reaches its log, and its descriptor is closed.
EndsClean ==
    \A s \in Sessions :
        proc[s] = "exited" ~> (LogSays(s, "completed") /\ master[s] = NoFd)

=============================================================================
