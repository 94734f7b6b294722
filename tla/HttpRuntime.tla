---------------------------- MODULE HttpRuntime ----------------------------
(* The policy-enforcing HTTP runtime that every request of a project       *)
(* shares: bugslyce/recon/http_enforcement.py, InternalHTTPExecutor over    *)
(* _SharedHTTPEnforcementState and SteadyRequestStartLimiter, with the two  *)
(* external users of bugslyce/recon/external_enforcement.py.                *)
(*                                                                          *)
(* A thread runs one exchange at a time: an internal exchange or a strict   *)
(* curl process (kind "exchange"), or a Gobuster run that takes the whole   *)
(* runtime (kind "tool").  A step is one critical section of the code, or   *)
(* one wait.  Time is relative to now: a timer counts what is left of an    *)
(* interval, an age what has passed of it.                                  *)
EXTENDS Integers, FiniteSets

CONSTANTS
    Threads,      \* threads that call the runtime
    Handles,      \* executor handles (views) over one enforcement state
    Root,         \* the handle the state was created for
    Permits,      \* the permits of the concurrency semaphore
    Interval,     \* 1 / maximum_request_starts_per_second, in ticks
    SleepChunk,   \* longest single sleep of the limiter, in ticks
    RetryAfters,  \* values of a Retry-After header
    Budget,       \* bound: requests each thread makes
    None

ASSUME RootAssumption     == Root \in Handles
ASSUME PermitsAssumption  == Permits # {} /\ IsFiniteSet(Permits)
ASSUME IntervalAssumption == Interval \in Nat \ {0} /\ SleepChunk \in Nat \ {0}
ASSUME BudgetAssumption   == Budget \in Nat
ASSUME NoneAssumption     == None \notin Threads \cup Handles \cup RetryAfters
ASSUME OutcomeAssumption  ==
    RetryAfters \cap {"completed", "failed", "closed", "interrupted"} = {}

VARIABLES
    pc,             \* where each thread is
    kind,           \* what it runs: "exchange" or "tool"
    handleOf,       \* the handle it runs on
    outcome,        \* how its last request ended; a Retry-After: HTTPRateRejected
    left,           \* requests it may still make
    owner,          \* concurrency: who holds each permit
    gate,           \* concurrency_gate: its holder
    exclusiveLock,  \* exclusive_tool_lock: its holder
    slotIn,         \* limiter: ticks until _next_start, 0 when it has passed
    sleepLeft,      \* ticks left of the sleep of each thread
    rejection,      \* rate_rejection: None, or its retry_after
    wakes,          \* wake events a thread recording a rejection has yet to set
    life,           \* each handle: construction, registration, closing
    event,          \* the _terminal_event of each handle
    sinceStart,     \* age of the last reserved start slot   (history)
    sinceReply,     \* age of the last end of an exchange     (history)
    late            \* threads that sent after a rejection    (history)

request == <<kind, handleOf, left>>
locks   == <<owner, gate, exclusiveLock>>
clocks  == <<slotIn, sleepLeft, sinceStart, sinceReply>>
stop    == <<rejection, wakes>>
handles == <<life, event>>
vars    == <<pc, outcome, request, locks, clocks, stop, handles, late>>

Outcomes == {None, "completed", "failed", "closed", "interrupted"} \cup RetryAfters

\* A thread at one of these has been through the concurrency semaphore.
Granted == {"paced", "slot", "asleep", "commit", "started", "flying", "waking", "defer"}
PC      == {"idle", "exclusive", "gate", "permit", "release"} \cup Granted

\* A handle: not built, built, registered after a rejection with its event
\* still to be set, in use; then flagged closed, signalled, unregistered.
Lives      == {"absent", "built", "late", "open", "closed", "signalled", "retired"}
Closed(h)  == life[h] \in {"closed", "signalled", "retired"}
Registered == {h \in Handles : life[h] \in {"late", "open", "closed", "signalled"}}
Usable     == {h \in Handles : life[h] \notin {"absent", "built", "late"}}

OwnedBy(t) == {p \in Permits : owner[p] = t}

\* What _check_available can raise: it reads the closed flag and the
\* rejection under two locks, so either can be seen when both are there.
Refusals(h) == {why \in {"closed"} : Closed(h)} \cup {ra \in {rejection} : ra # None}

Older(age)   == IF age < Interval THEN age + 1 ELSE age
Sooner(time) == IF time > 0 THEN time - 1 ELSE time
Smaller(a, b) == IF a < b THEN a ELSE b

Init ==
    /\ pc = [t \in Threads |-> "idle"]
    /\ kind = [t \in Threads |-> "exchange"]
    /\ handleOf = [t \in Threads |-> Root]
    /\ outcome = [t \in Threads |-> None]
    /\ left = [t \in Threads |-> Budget]
    /\ owner = [p \in Permits |-> None]
    /\ gate = None
    /\ exclusiveLock = None
    /\ slotIn = 0
    /\ sleepLeft = [t \in Threads |-> 0]
    /\ rejection = None
    /\ wakes = [t \in Threads |-> {}]
    /\ life = [h \in Handles |-> IF h = Root THEN "open" ELSE "absent"]
    /\ event = [h \in Handles |-> FALSE]
    /\ sinceStart = Interval
    /\ sinceReply = Interval
    /\ late = {}

----------------------------------------------------------------------------
(* Permits. *)

Goto(t, place) == pc' = [pc EXCEPT ![t] = place]

\* An exception leaves pacing: the tool's finally defers the next start even
\* though nothing was sent, the exchange only gives its permit back.
Unwind(t, why) ==
    /\ outcome' = [outcome EXCEPT ![t] = why]
    /\ Goto(t, IF kind[t] = "tool" THEN "defer" ELSE "release")

(* Faulty variants of the operations below, one plausible slip each: no      *)
(* action uses them, they are what the properties must be able to refute.    *)

\* The tool takes a single permit, like an exchange.
TakePermit_Single(t) ==
    /\ pc[t] = "permit"
    /\ \E p \in Permits : owner[p] = None /\ owner' = [owner EXCEPT ![p] = t]
    /\ gate' = None /\ Goto(t, "paced")
    /\ UNCHANGED <<outcome, request, exclusiveLock, clocks, stop, handles, late>>

\* A failed acquire is taken for a success.
TakePermit_Barge(t) ==
    /\ pc[t] = "permit"
    /\ \E p \in Permits : owner' = [owner EXCEPT ![p] = t]
    /\ gate' = None /\ Goto(t, "paced")
    /\ UNCHANGED <<outcome, request, exclusiveLock, clocks, stop, handles, late>>

\* The exclusive lock is not given back.
Leave_KeepsLock(t) ==
    /\ pc[t] = "release" /\ OwnedBy(t) = {}
    /\ gate' = IF gate = t THEN None ELSE gate
    /\ Goto(t, "idle")
    /\ UNCHANGED <<outcome, request, owner, exclusiveLock, clocks, stop, handles, late>>

\* The attempt is committed on the check made before the wait.
CommitAttempt_Stale(t) ==
    /\ pc[t] = "commit"
    /\ Goto(t, "started")
    /\ UNCHANGED <<outcome, request, locks, clocks, stop, handles, late>>

\* A slot already reserved is kept although the exchange ends later.
DeferNextStart_KeepsSlot(t) ==
    /\ pc[t] = "defer"
    /\ Goto(t, "release")
    /\ UNCHANGED <<outcome, request, locks, clocks, stop, handles, late>>

\* The last rejection overwrites the first.
AnswerRejected_LastWins(t, ra) ==
    /\ pc[t] = "flying" /\ kind[t] = "exchange"
    /\ rejection' = ra
    /\ outcome' = [outcome EXCEPT ![t] = ra]
    /\ wakes' = [wakes EXCEPT ![t] = Registered]
    /\ sinceReply' = 0
    /\ Goto(t, "waking")
    /\ UNCHANGED <<request, locks, slotIn, sleepLeft, sinceStart, handles, late>>

\* The finally of an interrupted exchange skips the back-off.
Interrupt_NoBackOff(t) ==
    /\ pc[t] \in {"asleep", "flying"}
    /\ outcome' = [outcome EXCEPT ![t] = "interrupted"]
    /\ sleepLeft' = [sleepLeft EXCEPT ![t] = 0]
    /\ sinceReply' = IF pc[t] = "flying" THEN 0 ELSE sinceReply
    /\ Goto(t, "release")
    /\ UNCHANGED <<request, locks, slotIn, sinceStart, stop, handles, late>>

\* Interrupted draining forgets what it had acquired.
Interrupt_Forgets(t) ==
    /\ pc[t] = "permit"
    /\ outcome' = [outcome EXCEPT ![t] = "interrupted"]
    /\ gate' = None /\ Goto(t, "idle")
    /\ exclusiveLock' = IF exclusiveLock = t THEN None ELSE exclusiveLock
    /\ UNCHANGED <<request, owner, clocks, stop, handles, late>>

\* Registration does not look for a rejection already recorded.
RegisterHandle_Blind(h) ==
    /\ life[h] = "built"
    /\ life' = [life EXCEPT ![h] = "open"]
    /\ UNCHANGED <<pc, outcome, request, locks, clocks, stop, event, late>>

----------------------------------------------------------------------------
(* Requests and the locks they wait for. *)

\* A request or tool run begins.  Only _request_permit checks the handle
\* before it waits for anything.
Begin(t, h, k) ==
    /\ pc[t] = "idle" /\ left[t] > 0
    /\ left' = [left EXCEPT ![t] = @ - 1]
    /\ IF k = "exchange" /\ Refusals(h) # {}
       THEN /\ \E why \in Refusals(h) : outcome' = [outcome EXCEPT ![t] = why]
            /\ UNCHANGED <<pc, kind, handleOf>>
       ELSE /\ outcome' = [outcome EXCEPT ![t] = None]
            /\ kind' = [kind EXCEPT ![t] = k]
            /\ handleOf' = [handleOf EXCEPT ![t] = h]
            /\ Goto(t, IF k = "tool" THEN "exclusive" ELSE "gate")
    /\ UNCHANGED <<locks, clocks, stop, handles, late>>

TakeExclusiveLock(t) ==
    /\ pc[t] = "exclusive" /\ exclusiveLock = None
    /\ exclusiveLock' = t
    /\ Goto(t, "gate")
    /\ UNCHANGED <<outcome, request, owner, gate, clocks, stop, handles, late>>

TakeGate(t) ==
    /\ pc[t] = "gate" /\ gate = None
    /\ gate' = t
    /\ Goto(t, "permit")
    /\ UNCHANGED <<outcome, request, owner, exclusiveLock, clocks, stop, handles, late>>

\* Acquire one permit of the semaphore; behind the gate, an exchange needs
\* one and a tool all of them.
TakePermit(t) ==
    /\ pc[t] = "permit"
    /\ \E p \in Permits :
         /\ owner[p] = None
         /\ owner' = [owner EXCEPT ![p] = t]
    /\ IF kind[t] = "exchange" \/ \A p \in Permits : owner'[p] = t
       THEN gate' = None /\ Goto(t, "paced")
       ELSE UNCHANGED <<gate, pc>>
    /\ UNCHANGED <<outcome, request, exclusiveLock, clocks, stop, handles, late>>

\* One permit goes back to the semaphore.
ReleasePermit(t) ==
    /\ pc[t] = "release"
    /\ \E p \in OwnedBy(t) : owner' = [owner EXCEPT ![p] = None]
    /\ UNCHANGED <<pc, outcome, request, gate, exclusiveLock, clocks, stop, handles, late>>

\* With no permit left the with-statements exit, the gate (held only when
\* draining was interrupted) before the exclusive lock.
Leave(t) ==
    /\ pc[t] = "release" /\ OwnedBy(t) = {}
    /\ gate' = IF gate = t THEN None ELSE gate
    /\ exclusiveLock' = IF exclusiveLock = t THEN None ELSE exclusiveLock
    /\ Goto(t, "idle")
    /\ UNCHANGED <<outcome, request, owner, clocks, stop, handles, late>>

----------------------------------------------------------------------------
(* Pacing: SteadyRequestStartLimiter between two availability checks.  *)

\* _check_available before the slot is looked at, again after every sleep.
CheckAvailable(t) ==
    /\ pc[t] = "paced"
    /\ IF Refusals(handleOf[t]) = {}
       THEN Goto(t, "slot") /\ UNCHANGED outcome
       ELSE \E why \in Refusals(handleOf[t]) : Unwind(t, why)
    /\ UNCHANGED <<request, locks, clocks, stop, handles, late>>

\* The slot is due: reserve it and push the next one a full interval away.
ReserveSlot(t) ==
    /\ pc[t] = "slot" /\ slotIn = 0
    /\ slotIn' = Interval
    /\ sinceStart' = 0
    /\ Goto(t, "commit")
    /\ UNCHANGED <<outcome, request, locks, sleepLeft, sinceReply, stop, handles, late>>

\* The slot is not due: sleep until it is, at most one chunk.
Sleep(t) ==
    /\ pc[t] = "slot" /\ slotIn > 0
    /\ sleepLeft' = [sleepLeft EXCEPT ![t] = Smaller(slotIn, SleepChunk)]
    /\ Goto(t, "asleep")
    /\ UNCHANGED <<outcome, request, locks, slotIn, sinceStart, sinceReply, stop, handles, late>>

\* The sleep is over, or the terminal event of the handle cut it short.
Wake(t) ==
    /\ pc[t] = "asleep"
    /\ sleepLeft[t] = 0 \/ event[handleOf[t]]
    /\ sleepLeft' = [sleepLeft EXCEPT ![t] = 0]
    /\ Goto(t, "paced")
    /\ UNCHANGED <<outcome, request, locks, slotIn, sinceStart, sinceReply, stop, handles, late>>

\* The slot has been reserved; commit the attempt unless the handle was
\* closed or a rejection recorded meanwhile.  Both locks are held.
CommitAttempt(t) ==
    /\ pc[t] = "commit"
    /\ IF Closed(handleOf[t]) THEN Unwind(t, "closed")
       ELSE IF rejection # None THEN Unwind(t, rejection)
       ELSE Goto(t, "started") /\ UNCHANGED outcome
    /\ UNCHANGED <<request, locks, clocks, stop, handles, late>>

\* At the end of an exchange, or of a tool run whatever came of it, the next
\* start moves to a full interval from now.
DeferNextStart(t) ==
    /\ pc[t] = "defer"
    /\ slotIn' = Interval
    /\ Goto(t, "release")
    /\ UNCHANGED <<outcome, request, locks, sleepLeft, sinceStart, sinceReply, stop, handles, late>>

----------------------------------------------------------------------------
(* Exchanges and the shared rejection. *)

\* The transport, or the external process, is started.
Send(t) ==
    /\ pc[t] = "started"
    /\ late' = IF rejection # None THEN late \cup {t} ELSE late
    /\ Goto(t, "flying")
    /\ UNCHANGED <<outcome, request, locks, clocks, stop, handles>>

\* It returns or fails, without a 429.
Answer(t) ==
    /\ pc[t] = "flying"
    /\ \E how \in {"completed", "failed"} : outcome' = [outcome EXCEPT ![t] = how]
    /\ sinceReply' = 0
    /\ Goto(t, "defer")
    /\ UNCHANGED <<request, locks, slotIn, sleepLeft, sinceStart, stop, handles, late>>

\* An exchange is answered 429.  Under state_lock the first Retry-After is
\* kept and the events to set are snapshotted.  Gobuster reports no 429.
AnswerRejected(t, ra) ==
    /\ pc[t] = "flying" /\ kind[t] = "exchange"
    /\ rejection' = IF rejection = None THEN ra ELSE rejection
    /\ outcome' = [outcome EXCEPT ![t] = rejection']
    /\ wakes' = [wakes EXCEPT ![t] = Registered]
    /\ sinceReply' = 0
    /\ Goto(t, "waking")
    /\ UNCHANGED <<request, locks, slotIn, sleepLeft, sinceStart, handles, late>>

\* The recorder sets the snapshotted events one by one, then unwinds.
SetWakeEvent(t, h) ==
    /\ pc[t] = "waking" /\ h \in wakes[t]
    /\ event' = [event EXCEPT ![h] = TRUE]
    /\ wakes' = [wakes EXCEPT ![t] = @ \ {h}]
    /\ UNCHANGED <<pc, outcome, request, locks, clocks, rejection, life, late>>

FinishWaking(t) ==
    /\ pc[t] = "waking" /\ wakes[t] = {}
    /\ Goto(t, "defer")
    /\ UNCHANGED <<outcome, request, locks, clocks, stop, handles, late>>

\* KeyboardInterrupt, or another exception, raised by a blocking call.
Interrupt(t) ==
    /\ \/ pc[t] \in {"exclusive", "gate", "permit"} /\ Goto(t, "release")
          /\ outcome' = [outcome EXCEPT ![t] = "interrupted"]
       \/ pc[t] = "asleep" /\ Unwind(t, "interrupted")
       \/ pc[t] = "flying" /\ Goto(t, "defer")
          /\ outcome' = [outcome EXCEPT ![t] = "interrupted"]
    /\ sleepLeft' = [sleepLeft EXCEPT ![t] = 0]
    /\ sinceReply' = IF pc[t] = "flying" THEN 0 ELSE sinceReply
    /\ UNCHANGED <<request, locks, slotIn, sinceStart, stop, handles, late>>

----------------------------------------------------------------------------
(* Handles. *)

\* build_internal_http_executor_view derives a handle from one not closed.
BuildHandle(h) ==
    /\ life[h] = "absent"
    /\ \E source \in Usable : ~Closed(source)
    /\ life' = [life EXCEPT ![h] = "built"]
    /\ UNCHANGED <<pc, outcome, request, locks, clocks, stop, event, late>>

RegisterHandle(h) ==
    /\ life[h] = "built"
    /\ life' = [life EXCEPT ![h] = IF rejection # None THEN "late" ELSE "open"]
    /\ UNCHANGED <<pc, outcome, request, locks, clocks, stop, event, late>>

SetLateEvent(h) ==
    /\ life[h] = "late"
    /\ life' = [life EXCEPT ![h] = "open"]
    /\ event' = [event EXCEPT ![h] = TRUE]
    /\ UNCHANGED <<pc, outcome, request, locks, clocks, stop, late>>

\* close(): flag the handle, set its event, unregister it.
Close(h) ==
    /\ life[h] = "open"
    /\ life' = [life EXCEPT ![h] = "closed"]
    /\ UNCHANGED <<pc, outcome, request, locks, clocks, stop, event, late>>

SignalClosed(h) ==
    /\ life[h] = "closed"
    /\ life' = [life EXCEPT ![h] = "signalled"]
    /\ event' = [event EXCEPT ![h] = TRUE]
    /\ UNCHANGED <<pc, outcome, request, locks, clocks, stop, late>>

UnregisterHandle(h) ==
    /\ life[h] = "signalled"
    /\ life' = [life EXCEPT ![h] = "retired"]
    /\ UNCHANGED <<pc, outcome, request, locks, clocks, stop, event, late>>

----------------------------------------------------------------------------
Tick ==
    /\ \/ slotIn > 0 \/ sinceStart < Interval \/ sinceReply < Interval
       \/ \E t \in Threads : sleepLeft[t] > 0
    /\ slotIn' = Sooner(slotIn)
    /\ sleepLeft' = [t \in Threads |-> Sooner(sleepLeft[t])]
    /\ sinceStart' = Older(sinceStart)
    /\ sinceReply' = Older(sinceReply)
    /\ UNCHANGED <<pc, outcome, request, locks, stop, handles, late>>

\* Every request of the bound has been made.
Done ==
    /\ \A t \in Threads : pc[t] = "idle" /\ left[t] = 0
    /\ UNCHANGED vars

ThreadStep(t) ==
    \/ TakeExclusiveLock(t) \/ TakeGate(t) \/ TakePermit(t)
    \/ ReleasePermit(t) \/ Leave(t)
    \/ CheckAvailable(t) \/ ReserveSlot(t) \/ Sleep(t) \/ Wake(t)
    \/ CommitAttempt(t) \/ DeferNextStart(t)
    \/ Send(t) \/ Answer(t) \/ (\E ra \in RetryAfters : AnswerRejected(t, ra))
    \/ (\E h \in Handles : SetWakeEvent(t, h)) \/ FinishWaking(t)

HandleStep(h) == SetLateEvent(h) \/ SignalClosed(h) \/ UnregisterHandle(h)

Next ==
    \/ \E t \in Threads : ThreadStep(t) \/ Interrupt(t)
    \/ \E t \in Threads, h \in Usable, k \in {"exchange", "tool"} : Begin(t, h, k)
    \/ \E h \in Handles : HandleStep(h) \/ BuildHandle(h) \/ RegisterHandle(h) \/ Close(h)
    \/ Tick
    \/ Done

Spec == Init /\ [][Next]_vars

\* A started call keeps running, a transport or process ends by its own
\* timeout, close() and __init__ run to their end, and the clock moves.  No
\* thread has to call, to close, or to be interrupted.
Fairness ==
    /\ \A t \in Threads : WF_vars(ThreadStep(t))
    /\ \A h \in Handles : WF_vars(HandleStep(h))
    /\ WF_vars(Tick)

FairSpec == Spec /\ Fairness

----------------------------------------------------------------------------
(* Properties. *)

InFlight == {t \in Threads : pc[t] \in {"started", "flying"}}

TypeOK ==
    /\ pc \in [Threads -> PC]
    /\ kind \in [Threads -> {"exchange", "tool"}]
    /\ handleOf \in [Threads -> Handles]
    /\ outcome \in [Threads -> Outcomes]
    /\ left \in [Threads -> 0..Budget]
    /\ owner \in [Permits -> Threads \cup {None}]
    /\ gate \in Threads \cup {None}
    /\ exclusiveLock \in Threads \cup {None}
    /\ slotIn \in 0..Interval
    /\ sleepLeft \in [Threads -> 0..Interval]
    /\ rejection \in RetryAfters \cup {None}
    /\ wakes \in [Threads -> SUBSET Handles]
    /\ life \in [Handles -> Lives]
    /\ event \in [Handles -> BOOLEAN]
    /\ sinceStart \in 0..Interval
    /\ sinceReply \in 0..Interval
    /\ late \subseteq Threads

\* A tool run shares the runtime with nobody: once it has drained the
\* semaphore, no other thread is pacing, sending or backing off, whatever
\* was in flight when it asked.
ToolRunsAlone ==
    \A t, u \in Threads :
        t # u /\ kind[t] = "tool" /\ pc[t] \in Granted => pc[u] \notin Granted

\* No path out of a request, interrupted draining included, leaks a permit,
\* the gate or the exclusive lock, or gives back one it does not hold.
NothingLeaks ==
    /\ \A p \in Permits : owner[p] # None => pc[owner[p]] \in Granted \cup {"permit", "release"}
    /\ gate # None => pc[gate] \in {"permit", "release"}
    /\ exclusiveLock # None => kind[exclusiveLock] = "tool" /\ pc[exclusiveLock] # "idle"

\* Never more exchanges at the target than the policy's concurrency.
ConcurrencyLimit == Cardinality(InFlight) <= Cardinality(Permits)

\* Every caller refused because of a 429 is told the same Retry-After, the
\* first one recorded, although several 429s can be recorded in a race.
AgreedRetryAfter == \A t \in Threads : outcome[t] \in RetryAfters => outcome[t] = rejection

\* A recorded rejection reaches the event of every live handle: it is set, or
\* some thread is still on its way to set it, even when the handle registers
\* while the rejection is being recorded.
NoLostWake ==
    rejection # None =>
        \A h \in Handles : life[h] = "open" /\ ~event[h] => \E t \in Threads : h \in wakes[t]

\* An event is set only for good: a handle woken is closed or rejected, so
\* that the limiter's loop never spins on a set event with nothing to raise.
NoSpuriousWake == \A h \in Handles : event[h] => Closed(h) \/ rejection # None

\* After a rejection only exchanges already committed still go out, and
\* there are fewer of them than permits: with one permit, none.
FewLateSends == Cardinality(late) < Cardinality(Permits)

\* Reserved start slots are a full interval apart, and every slot is a full
\* interval after the end of each exchange that has backed off.
StartSpacing ==
    [][\A t \in Threads : pc[t] = "slot" /\ pc'[t] = "commit" =>
         /\ sinceStart = Interval
         /\ sinceReply = Interval \/ \E u \in Threads : pc[u] \in {"waking", "defer"}]_vars

\* A caller that holds every permit (any caller when the policy allows one
\* request at a time, a tool always) shows the spacing to the target too:
\* from the end of an exchange to its send at least an interval passes,
\* however long threads are held up between a slot, its commit and the send.
SendSpacing ==
    [][\A t \in Threads :
         pc[t] = "started" /\ pc'[t] = "flying" /\ OwnedBy(t) = Permits
            => sinceReply = Interval]_vars

\* Every request ends, and a rejection or a close cuts short the wait for a
\* slot: nobody waits for ever behind the gate, the semaphore or the limiter.
RequestsEnd == \A t \in Threads : pc[t] # "idle" ~> pc[t] = "idle"

(* The refinement: what each place in the code means to RequestGate. *)

phase == [t \in Threads |->
    CASE pc[t] \in {"paced", "slot", "asleep"} -> "admitted"
      [] pc[t] = "commit"                      -> "slotted"
      [] pc[t] \in {"started", "flying"}       -> "started"
      [] pc[t] \in {"waking", "defer"}         -> "owing"
      [] OTHER                                 -> "out"]

SoloTools == {t \in Threads : kind[t] = "tool" /\ pc[t] \in Granted}

solo == IF SoloTools = {} THEN None ELSE CHOOSE t \in SoloTools : TRUE

Gate == INSTANCE RequestGate WITH
            Limit <- Cardinality(Permits), stopped <- rejection, quiet <- slotIn

\* The runtime keeps the promise of RequestGate: locks, events and sleeps
\* neither let a start through early, twice, or after a rejection.
GateSpec == Gate!Spec
=============================================================================
