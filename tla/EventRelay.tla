----------------------------- MODULE EventRelay -----------------------------
(***************************************************************************)
(* How the events of agent sessions reach a page (service/app.py,          *)
(* _stream_agent_events; service/live_transport.py; the shared worker and  *)
(* the agent-sessions module in the browser).                              *)
(*                                                                         *)
(*   log -> stream handler -> pipe -> relay -> web socket -> worker, page  *)
(*                                                                         *)
(* A page subscribes over one web socket. For each subscription the        *)
(* service runs a relay, a client of its own event stream, that forwards   *)
(* the events and reconnects when the stream breaks. Every stage keeps a   *)
(* cursor, the last event of each session it knows of, and each resumes    *)
(* from the cursor of the next: the relay after a break, the worker after  *)
(* the loss of the socket. A page that is opened anew starts from nothing. *)
(***************************************************************************)
EXTENDS SessionNames, Sequences, FiniteSets

CONSTANTS
    Limit,       \* SESSION_EVENT_REPLAY_LIMIT: events replayed at once
    Room,        \* bound: what a channel holds
    MaxEvents,   \* bound: events per session
    MaxSubs,     \* bound: subscriptions made
    MaxBreaks,   \* bound: streams broken
    MaxDrops     \* bound: sockets lost

ASSUME RelayAssumption ==
    /\ Limit \in Nat \ {0}
    /\ Room \in Nat \ {0}
    /\ MaxEvents \in Nat
    /\ MaxSubs \in Nat \ {0}
    /\ MaxBreaks \in Nat
    /\ MaxDrops \in Nat

VARIABLES
    produced,    \* events in the log of a session
    active,      \* whether the session's process runs
    selected,    \* the session selected in the workspace
    sub,         \* the page's current subscription
    cursor,      \* the last event id of that subscription, kept by the worker
    latest,      \* the entry of each session the page showed last
    relay,       \* the relay of a subscription, with its stream
    wire,        \* messages on the web socket, to the page
    lost,        \* history: events a break has eaten
    breaks, drops    \* faults so far (bounds)

page == <<sub, cursor, latest>>
logs == <<produced, active, selected>>
relayVars == <<produced, active, selected, sub, cursor, latest, relay, wire, lost,
               breaks, drops>>

Subs == 1 .. MaxSubs
Ids == 0 .. MaxEvents
Cursors == [Sessions -> Ids]
Start == [s \in Sessions |-> 0]

\* An entry of the stream, with the cursor its id line carries.
Entries == [of : Sessions, id : Ids, notice : BOOLEAN, cursor : Cursors]

\* A relay: where it is, the last id line it has read, the entry that line
\* belongs to until the entry is complete, what is in the pipe from its stream,
\* and the stream: its cursor, the sessions of this round and a batch of one.
Relays == [at : {"gone", "waiting", "streaming"},
           last : Cursors,
           entry : Seq(Entries),
           pipe : Seq(Entries),
           sent : Cursors,
           round : SUBSET Sessions,
           batch : Seq([of : Sessions, id : Ids, notice : BOOLEAN])]

Disconnected(at, last) ==
    [at |-> at, last |-> last, entry |-> <<>>, pipe |-> <<>>, sent |-> last,
     round |-> {}, batch |-> <<>>]

Gone == Disconnected("gone", Start)

Blank == [id |-> 0, notice |-> FALSE]

RelayInit ==
    /\ produced = Start
    /\ active = [s \in Sessions |-> TRUE]
    /\ selected \in Sessions \cup {Nobody}
    /\ sub = 1
    /\ cursor = Start
    /\ latest = [s \in Sessions |-> Blank]
    /\ relay = [r \in Subs |-> Gone]
    /\ wire = <<>>
    /\ lost = [s \in Sessions |-> {}]
    /\ breaks = 0
    /\ drops = 0

-----------------------------------------------------------------------------
(* The sessions and what the user selects.                                 *)

\* Output while the process runs; the last output and the completed event are
\* appended after it has ended.
Produce(s) ==
    /\ produced[s] < MaxEvents
    /\ produced' = [produced EXCEPT ![s] = @ + 1]
    /\ UNCHANGED <<active, selected, page, relay, wire, lost, breaks, drops>>

EndProcess(s) ==
    /\ active[s]
    /\ active' = [active EXCEPT ![s] = FALSE]
    /\ UNCHANGED <<produced, selected, page, relay, wire, lost, breaks, drops>>

Select(s) ==
    /\ selected # s
    /\ selected' = s
    /\ UNCHANGED <<produced, active, page, relay, wire, lost, breaks, drops>>

-----------------------------------------------------------------------------
(* The stream handler: round after round, for each session that runs or is *)
(* selected, what its log holds beyond the cursor.                         *)

\* What is replayed between two positions of a log: at most Limit events, after
\* a notice that stands for the ones left out and has the id of the last of them.
Replay(s, from, to) ==
    LET first == IF to - from > Limit THEN to - Limit ELSE from
        Event(id) == [of |-> s, id |-> id, notice |-> FALSE]
    IN  (IF first > from THEN <<[of |-> s, id |-> first, notice |-> TRUE]>> ELSE <<>>)
        \o [i \in 1 .. to - first |-> Event(first + i)]

\* Variant: only the sessions that run.
RoundOfActive(r) ==
    /\ relay[r].at = "streaming"
    /\ relay[r].round = {}
    /\ relay[r].batch = <<>>
    /\ relay' = [relay EXCEPT ![r].round = {s \in Sessions : active[s]}]
    /\ UNCHANGED <<logs, page, wire, lost, breaks, drops>>

\* A new round, when the last one is done.
StreamRound(r) ==
    /\ relay[r].at = "streaming"
    /\ relay[r].round = {}
    /\ relay[r].batch = <<>>
    /\ relay' = [relay EXCEPT ![r].round =
                    {s \in Sessions : active[s] \/ selected = s}]
    /\ UNCHANGED <<logs, page, wire, lost, breaks, drops>>

StreamTake(r, s) ==
    /\ s \in relay[r].round
    /\ relay[r].batch = <<>>
    /\ relay' = [relay EXCEPT
        ![r].round = @ \ {s},
        ![r].batch = Replay(s, relay[r].sent[s], produced[s])]
    /\ UNCHANGED <<logs, page, wire, lost, breaks, drops>>

\* The handler's cursor after an entry.
Advance(sent, e) == [sent EXCEPT ![e.of] = e.id]

\* The next entry is written, with the cursor as its id.
StreamWrite(r) ==
    /\ relay[r].batch # <<>>
    /\ Len(relay[r].pipe) < Room
    /\ LET e == Head(relay[r].batch)
           sent == Advance(relay[r].sent, e)
       IN  relay' = [relay EXCEPT
            ![r].batch = Tail(@),
            ![r].sent = sent,
            ![r].pipe = Append(@, [of |-> e.of, id |-> e.id, notice |-> e.notice,
                                   cursor |-> sent])]
    /\ UNCHANGED <<logs, page, wire, lost, breaks, drops>>

-----------------------------------------------------------------------------
(* The relay: connect with the last event id, read the stream line by line *)
(* (the id line counts as soon as it is read), forward each entry when it  *)
(* is complete, and reconnect after a break.                               *)

Connect(r) ==
    /\ relay[r].at = "waiting"
    /\ relay' = [relay EXCEPT ![r] = Disconnected("streaming", relay[r].last)]
    /\ UNCHANGED <<logs, page, wire, lost, breaks, drops>>

ReadId(r) ==
    /\ relay[r].entry = <<>>
    /\ relay[r].pipe # <<>>
    /\ LET e == Head(relay[r].pipe) IN
       relay' = [relay EXCEPT
        ![r].pipe = Tail(@),
        ![r].entry = <<e>>,
        ![r].last = e.cursor]
    /\ UNCHANGED <<logs, page, wire, lost, breaks, drops>>

Forward(r) ==
    /\ relay[r].entry # <<>>
    /\ Len(wire) < Room
    /\ wire' = Append(wire, [sub |-> r, entry |-> Head(relay[r].entry)])
    /\ relay' = [relay EXCEPT ![r].entry = <<>>]
    /\ UNCHANGED <<logs, page, lost, breaks, drops>>

\* The events an entry stands for: itself and, for a notice, those before it.
Stands(e) == IF e.notice THEN 1 .. e.id ELSE {e.id}

\* The connection breaks anywhere; an entry of the page's subscription whose id
\* line had been read but which was not complete is not asked for again.
Break(r) ==
    /\ relay[r].at = "streaming"
    /\ breaks < MaxBreaks
    /\ breaks' = breaks + 1
    /\ lost' = IF r = sub /\ relay[r].entry # <<>>
               THEN LET e == Head(relay[r].entry) IN
                    [lost EXCEPT ![e.of] = @ \cup Stands(e)]
               ELSE lost
    /\ relay' = [relay EXCEPT ![r] = Disconnected("waiting", relay[r].last)]
    /\ UNCHANGED <<logs, page, wire, drops>>

-----------------------------------------------------------------------------
(* The browser: the worker keeps the socket and the cursor of the          *)
(* subscription, the page its last entry per session.                      *)

\* The worker subscribes, over a fresh socket or for a fresh source.
Subscribe ==
    /\ relay[sub].at = "gone"
    /\ relay' = [relay EXCEPT ![sub] = Disconnected("waiting", cursor)]
    /\ UNCHANGED <<logs, page, wire, lost, breaks, drops>>

\* The page ignores what it has shown already.
New(e) == e.id > latest[e.of].id

\* Variant: whatever subscription it is for.
ReceiveAll ==
    /\ wire # <<>>
    /\ wire' = Tail(wire)
    /\ LET e == Head(wire).entry IN
        /\ cursor' = e.cursor
        /\ latest' = IF New(e)
                     THEN [latest EXCEPT ![e.of] = [id |-> e.id, notice |-> e.notice]]
                     ELSE latest
    /\ UNCHANGED <<logs, sub, relay, lost, breaks, drops>>

\* A message of the current subscription is taken up, another is dropped.
Receive ==
    /\ wire # <<>>
    /\ wire' = Tail(wire)
    /\ LET e == Head(wire).entry IN
       IF Head(wire).sub = sub
       THEN /\ cursor' = e.cursor
            /\ latest' = IF New(e)
                         THEN [latest EXCEPT ![e.of] = [id |-> e.id, notice |-> e.notice]]
                         ELSE latest
       ELSE UNCHANGED <<cursor, latest>>
    /\ UNCHANGED <<logs, sub, relay, lost, breaks, drops>>

\* The page closes its source, forgets what it has shown and opens a new one.
Reopen ==
    /\ sub < MaxSubs
    /\ sub' = sub + 1
    /\ cursor' = Start
    /\ latest' = [s \in Sessions |-> Blank]
    /\ lost' = [s \in Sessions |-> {}]
    /\ UNCHANGED <<logs, relay, wire, breaks, drops>>

\* The service hears of it; until then the relay of the closed source runs on.
Unsubscribe(r) ==
    /\ r # sub
    /\ relay[r].at # "gone"
    /\ relay' = [relay EXCEPT ![r] = Gone]
    /\ UNCHANGED <<logs, page, wire, lost, breaks, drops>>

\* The socket is lost with what is on it; its relays are stopped, and what they
\* still send reaches nobody. The worker opens another.
Drop ==
    /\ drops < MaxDrops
    /\ drops' = drops + 1
    /\ wire' = <<>>
    /\ relay' = [r \in Subs |-> Gone]
    /\ UNCHANGED <<logs, page, lost, breaks>>

-----------------------------------------------------------------------------

StreamStep(r) == StreamRound(r) \/ StreamWrite(r) \/ \E s \in Sessions : StreamTake(r, s)

RelayStep(r) == Connect(r) \/ ReadId(r) \/ Forward(r)

RelayNext ==
    \/ \E s \in Sessions : Produce(s) \/ EndProcess(s)
    \/ \E s \in Sessions \cup {Nobody} : Select(s)
    \/ \E r \in Subs : StreamStep(r) \/ RelayStep(r) \/ Break(r) \/ Unsubscribe(r)
    \/ Subscribe \/ Receive \/ Reopen \/ Drop

RelaySpec == RelayInit /\ [][RelayNext]_relayVars

\* The threads of the service and the browser's event loop run.
RelayFairSpec ==
    /\ RelaySpec
    /\ WF_relayVars(Subscribe)
    /\ WF_relayVars(Receive)
    /\ \A r \in Subs :
        WF_relayVars(StreamStep(r)) /\ WF_relayVars(RelayStep(r)) /\ WF_relayVars(Unsubscribe(r))

-----------------------------------------------------------------------------
(* Properties.                                                             *)

\* Logs, cursors, relays and channels keep their shapes, and channels their room.
RelayTypeOK ==
    /\ produced \in Cursors
    /\ active \in [Sessions -> BOOLEAN]
    /\ selected \in Sessions \cup {Nobody}
    /\ sub \in Subs
    /\ cursor \in Cursors
    /\ latest \in [Sessions -> [id : Ids, notice : BOOLEAN]]
    /\ relay \in [Subs -> Relays]
    /\ wire \in Seq([sub : Subs, entry : Entries])
    /\ Len(wire) <= Room
    /\ \A r \in Subs : Len(relay[r].pipe) <= Room
    /\ lost \in [Sessions -> SUBSET Ids]
    /\ breaks \in 0 .. MaxBreaks
    /\ drops \in 0 .. MaxDrops

\* The page shows every log in order, each event once, and gives notice of what
\* it leaves out, across reconnections of the relay, losses of the socket and
\* relays of closed sources that still send; only an entry that a break cut in
\* two is missing without notice.
Feed == INSTANCE EventFeed WITH faults <- breaks, MaxFaults <- MaxBreaks
FeedKept == Feed!Spec

\* The page is up to date with a session, but for what breaks have eaten.
CaughtUp(s) == latest[s].id + 1 .. produced[s] \subseteq lost[s]

\* A page catches up with every session that keeps running or stays selected:
\* no cursor of any stage ever runs ahead of what the page was shown for good.
CatchesUp ==
    \A s \in Sessions : <>[](active[s] \/ selected = s) => []<>CaughtUp(s)

=============================================================================
