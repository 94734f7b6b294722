---------------------------- MODULE RequestGate ----------------------------
(* What the HTTP runtime promises its callers and the engagement policy,    *)
(* without locks, semaphores, events or sleeps: who may have an exchange at *)
(* the target, and when.  HttpRuntime implements it.                        *)
EXTENDS Integers, FiniteSets

CONSTANTS
    Threads,      \* callers
    Limit,        \* maximum_concurrent_requests
    Interval,     \* ticks between two request starts
    RetryAfters,  \* what a rejection can carry
    None

VARIABLES
    phase,    \* "out", "admitted", "slotted", "started" or "owing" a back-off
    solo,     \* the caller admitted alone, or None
    stopped,  \* None, or the rejection that ended all starts
    quiet     \* ticks before the next start slot

vars == <<phase, solo, stopped, quiet>>

Inside == {t \in Threads : phase[t] # "out"}

Move(t, to) == phase' = [phase EXCEPT ![t] = to]

Init ==
    /\ phase = [t \in Threads |-> "out"]
    /\ solo = None
    /\ stopped = None
    /\ quiet = 0

\* Callers share up to the limit; one admitted alone finds nobody inside.
Admit(t) ==
    /\ phase[t] = "out" /\ solo = None /\ Cardinality(Inside) < Limit
    /\ solo' \in {None} \cup {u \in {t} : Inside = {}}
    /\ Move(t, "admitted")
    /\ UNCHANGED <<stopped, quiet>>

\* A start slot: none for an interval after the last slot or back-off.
Slot(t) ==
    /\ phase[t] = "admitted" /\ quiet = 0
    /\ quiet' = Interval
    /\ Move(t, "slotted")
    /\ UNCHANGED <<solo, stopped>>

Start(t) ==
    /\ phase[t] = "slotted" /\ stopped = None
    /\ Move(t, "started")
    /\ UNCHANGED <<solo, stopped, quiet>>

\* An exchange ends; only the first rejection is kept.
Reply(t) ==
    /\ phase[t] = "started"
    /\ stopped' \in IF stopped = None THEN {None} \cup RetryAfters ELSE {stopped}
    /\ Move(t, "owing")
    /\ UNCHANGED <<solo, quiet>>

\* Refused or interrupted before it started: a caller admitted alone owes a
\* back-off all the same.
Refuse(t) ==
    /\ phase[t] \in {"admitted", "slotted"}
    /\ Move(t, IF solo = t THEN "owing" ELSE "out")
    /\ UNCHANGED <<solo, stopped, quiet>>

BackOff(t) ==
    /\ phase[t] = "owing"
    /\ quiet' = Interval
    /\ solo' = IF solo = t THEN None ELSE solo
    /\ Move(t, "out")
    /\ UNCHANGED stopped

Tick ==
    /\ quiet > 0 /\ quiet' = quiet - 1
    /\ UNCHANGED <<phase, solo, stopped>>

Next ==
    \/ \E t \in Threads :
         Admit(t) \/ Slot(t) \/ Start(t) \/ Reply(t) \/ Refuse(t) \/ BackOff(t)
    \/ Tick

Spec == Init /\ [][Next]_vars
=============================================================================
