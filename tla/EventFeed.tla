----------------------------- MODULE EventFeed ------------------------------
(***************************************************************************)
(* What a page is promised about the events of its agent sessions,         *)
(* whatever lies between them: it shows the log of each session in order,  *)
(* each event at most once, and where it leaves some out it says so, or a  *)
(* fault has eaten them.                                                   *)
(***************************************************************************)
EXTENDS Naturals

CONSTANTS
    Sessions,    \* the sessions of the workspace
    MaxFaults    \* bound: faults that may eat events

VARIABLES
    produced,    \* events in the log of a session; they are numbered from 1
    latest,      \* the entry of a session the page showed last
    lost,        \* events that a fault has eaten
    faults       \* faults so far

feedVars == <<produced, latest, lost, faults>>

\* Nothing shown yet.
Blank == [id |-> 0, notice |-> FALSE]

Init ==
    /\ produced = [s \in Sessions |-> 0]
    /\ latest = [s \in Sessions |-> Blank]
    /\ lost = [s \in Sessions |-> {}]
    /\ faults = 0

Produce(s) ==
    /\ produced' = [produced EXCEPT ![s] = @ + 1]
    /\ UNCHANGED <<latest, lost, faults>>

\* The next event, or one after events that were eaten.
Show(s) ==
    /\ \E id \in latest[s].id + 1 .. produced[s] :
        /\ latest[s].id + 1 .. id - 1 \subseteq lost[s]
        /\ latest' = [latest EXCEPT ![s] = [id |-> id, notice |-> FALSE]]
    /\ UNCHANGED <<produced, lost, faults>>

\* A notice that the events up to this one are left out.
Announce(s) ==
    /\ \E id \in latest[s].id + 1 .. produced[s] :
        latest' = [latest EXCEPT ![s] = [id |-> id, notice |-> TRUE]]
    /\ UNCHANGED <<produced, lost, faults>>

\* The page starts afresh, and is owed everything again.
Clear ==
    /\ latest' = [s \in Sessions |-> Blank]
    /\ lost' = [s \in Sessions |-> {}]
    /\ UNCHANGED <<produced, faults>>

\* A fault eats the events of one session between two points, or none.
Lose ==
    /\ faults < MaxFaults
    /\ faults' = faults + 1
    /\ \/ lost' = lost
       \/ \E s \in Sessions : \E from, to \in 0 .. produced[s] :
            lost' = [lost EXCEPT ![s] = @ \cup from + 1 .. to]
    /\ UNCHANGED <<produced, latest>>

Next ==
    \/ \E s \in Sessions : Produce(s) \/ Show(s) \/ Announce(s)
    \/ Lose \/ Clear

Spec == Init /\ [][Next]_feedVars

=============================================================================
