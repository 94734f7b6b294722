------------------------- MODULE HttpRuntimeProofs -------------------------
(* Theorems about HttpRuntime for every number of threads, handles and      *)
(* permits, every interval and every bound on requests.                     *)
EXTENDS HttpRuntime, FiniteSetTheorems, TLAPS

\* An ASSUME of HttpRuntime as one fact, for the leaves.
Assumptions ==
    /\ Root \in Handles
    /\ Permits # {} /\ IsFiniteSet(Permits)
    /\ Interval \in Nat \ {0} /\ SleepChunk \in Nat \ {0}
    /\ Budget \in Nat
    /\ None \notin Threads \cup Handles \cup RetryAfters
    /\ RetryAfters \cap {"completed", "failed", "closed", "interrupted"} = {}

LEMMA AssumptionsHold == Assumptions
BY RootAssumption, PermitsAssumption, IntervalAssumption, BudgetAssumption,
   NoneAssumption, OutcomeAssumption DEF Assumptions

----------------------------------------------------------------------------
(* Types. *)

LEMMA TypeInit == Init => TypeOK
BY AssumptionsHold DEF Assumptions, Init, TypeOK, Outcomes, PC, Granted, Lives

\* The steps of one thread keep the types.
LEMMA TypeThread ==
    ASSUME TypeOK, NEW t \in Threads, ThreadStep(t) \/ Interrupt(t)
    PROVE  TypeOK'
<1> USE AssumptionsHold DEF Assumptions, TypeOK, Goto, Unwind, Outcomes, PC, Granted,
        request, locks, clocks, stop, handles
<1>1. CASE TakeExclusiveLock(t)
  BY <1>1 DEF TakeExclusiveLock
<1>2. CASE TakeGate(t)
  BY <1>2 DEF TakeGate
<1>3. CASE TakePermit(t)
  BY <1>3 DEF TakePermit
<1>4. CASE ReleasePermit(t)
  BY <1>4 DEF ReleasePermit, OwnedBy
<1>5. CASE Leave(t)
  BY <1>5 DEF Leave
<1>6. CASE CheckAvailable(t)
  BY <1>6 DEF CheckAvailable, Refusals
<1>7. CASE ReserveSlot(t)
  BY <1>7 DEF ReserveSlot
<1>8. CASE Sleep(t)
  <2>1. Smaller(slotIn, SleepChunk) \in 0..Interval
    BY DEF Smaller
  <2> QED BY <1>8, <2>1 DEF Sleep
<1>9. CASE Wake(t)
  BY <1>9 DEF Wake
<1>10. CASE CommitAttempt(t)
  BY <1>10 DEF CommitAttempt
<1>11. CASE DeferNextStart(t)
  BY <1>11 DEF DeferNextStart
<1>12. CASE Send(t)
  BY <1>12 DEF Send
<1>13. CASE Answer(t)
  BY <1>13 DEF Answer
<1>14. CASE \E ra \in RetryAfters : AnswerRejected(t, ra)
  <2>1. PICK ra \in RetryAfters : AnswerRejected(t, ra)
    BY <1>14
  <2>2. Registered \in SUBSET Handles
    BY DEF Registered
  <2>3. rejection' \in RetryAfters
    BY <2>1 DEF AnswerRejected
  <2> QED BY <2>1, <2>2, <2>3 DEF AnswerRejected
<1>15. CASE \E h \in Handles : SetWakeEvent(t, h)
  BY <1>15 DEF SetWakeEvent
<1>16. CASE FinishWaking(t)
  BY <1>16 DEF FinishWaking
<1>17. CASE Interrupt(t)
  BY <1>17 DEF Interrupt
<1> QED BY <1>1, <1>2, <1>3, <1>4, <1>5, <1>6, <1>7, <1>8, <1>9, <1>10, <1>11, <1>12,
           <1>13, <1>14, <1>15, <1>16, <1>17 DEF ThreadStep

\* The steps of a handle keep the types.
LEMMA TypeHandle ==
    ASSUME TypeOK, NEW h \in Handles,
           HandleStep(h) \/ BuildHandle(h) \/ RegisterHandle(h) \/ Close(h)
    PROVE  TypeOK'
<1> USE DEF TypeOK, Lives, request, locks, clocks, stop, handles
<1>1. CASE BuildHandle(h)
  BY <1>1 DEF BuildHandle
<1>2. CASE RegisterHandle(h)
  BY <1>2 DEF RegisterHandle
<1>3. CASE SetLateEvent(h)
  BY <1>3 DEF SetLateEvent
<1>4. CASE Close(h)
  BY <1>4 DEF Close
<1>5. CASE SignalClosed(h)
  BY <1>5 DEF SignalClosed
<1>6. CASE UnregisterHandle(h)
  BY <1>6 DEF UnregisterHandle
<1> QED BY <1>1, <1>2, <1>3, <1>4, <1>5, <1>6 DEF HandleStep

LEMMA TypeBegin ==
    ASSUME TypeOK, NEW t \in Threads, NEW h \in Usable, NEW k \in {"exchange", "tool"},
           Begin(t, h, k)
    PROVE  TypeOK'
BY AssumptionsHold DEF Assumptions, TypeOK, Begin, Refusals, Usable, Goto, Outcomes, PC,
   Granted, request, locks, clocks, stop, handles

LEMMA TypeTick == TypeOK /\ Tick => TypeOK'
<1> SUFFICES ASSUME TypeOK, Tick PROVE TypeOK'
  OBVIOUS
<1>1. \A n \in 0..Interval : Sooner(n) \in 0..Interval /\ Older(n) \in 0..Interval
  BY AssumptionsHold DEF Assumptions, Sooner, Older
<1> QED BY <1>1 DEF TypeOK, Tick, request, locks, stop, handles

\* Every variable keeps its type.
THEOREM TypeCorrect == Spec => []TypeOK
<1>1. TypeOK /\ [Next]_vars => TypeOK'
  <2> SUFFICES ASSUME TypeOK, [Next]_vars PROVE TypeOK'
    OBVIOUS
  <2>1. CASE UNCHANGED vars
    BY <2>1 DEF TypeOK, vars, request, locks, clocks, stop, handles
  <2>2. CASE Done
    BY <2>2 DEF Done, TypeOK, vars, request, locks, clocks, stop, handles
  <2> QED BY <2>1, <2>2, TypeThread, TypeHandle, TypeBegin, TypeTick DEF Next
<1> QED BY <1>1, TypeInit, PTL DEF Spec

----------------------------------------------------------------------------
(* Ownership of the permits, the gate and the exclusive lock. *)

\* Who has been granted the runtime holds what it was granted for: one permit
\* for an exchange, every permit for a tool.  A thread acquiring permits
\* holds the gate.  This is what makes NothingLeaks inductive.
GrantsHeld ==
    \A t \in Threads : pc[t] \in Granted =>
        /\ OwnedBy(t) # {}
        /\ kind[t] = "tool" => OwnedBy(t) = Permits

GateHeld == \A t \in Threads : pc[t] = "permit" => gate = t

\* Only a tool run asks for the exclusive lock.
LockAsked == \A t \in Threads : pc[t] = "exclusive" => kind[t] = "tool"

Held == GrantsHeld /\ GateHeld /\ LockAsked /\ NothingLeaks

Ownership == TypeOK /\ Held

\* Steps that leave the locks alone and move one thread from a granted place
\* to another, or to giving its permits back.
LEMMA OwnershipMove ==
    ASSUME Ownership, NEW t \in Threads, pc[t] \in Granted, NEW to \in Granted \cup {"release"},
           pc' = [pc EXCEPT ![t] = to], UNCHANGED <<kind, locks>>
    PROVE  Held'
<1> USE AssumptionsHold DEF Assumptions, Ownership, Held, TypeOK, locks
<1>1. \A u \in Threads : pc'[u] = IF u = t THEN to ELSE pc[u]
  OBVIOUS
<1>2. GrantsHeld'
  BY <1>1 DEF GrantsHeld, OwnedBy, Granted
<1>3. GateHeld' /\ LockAsked'
  BY <1>1 DEF GateHeld, LockAsked, Granted
<1>4. NothingLeaks'
  <2>1. ASSUME NEW p \in Permits, owner'[p] # None
        PROVE  pc'[owner'[p]] \in Granted \cup {"permit", "release"}
    BY <1>1, <2>1 DEF NothingLeaks
  <2>2. ASSUME gate' # None PROVE pc'[gate'] \in {"permit", "release"}
    BY <1>1, <2>2 DEF NothingLeaks, Granted
  <2>3. ASSUME exclusiveLock' # None
        PROVE  kind'[exclusiveLock'] = "tool" /\ pc'[exclusiveLock'] # "idle"
    BY <1>1, <2>3 DEF NothingLeaks, Granted
  <2> QED BY <2>1, <2>2, <2>3 DEF NothingLeaks
<1> QED BY <1>2, <1>3, <1>4

\* Steps that change neither a place, a kind nor a lock.
LEMMA OwnershipStutter ==
    ASSUME Ownership, UNCHANGED <<pc, kind, locks>>
    PROVE  Held'
BY DEF Ownership, Held, GrantsHeld, GateHeld, LockAsked, NothingLeaks, OwnedBy, locks

\* The steps that take or give back a lock, one by one.
LEMMA OwnershipLocks ==
    ASSUME Ownership, NEW t \in Threads,
           \/ TakeExclusiveLock(t) \/ TakeGate(t) \/ TakePermit(t)
           \/ ReleasePermit(t) \/ Leave(t)
    PROVE  Held'
<1> USE AssumptionsHold DEF Assumptions, Ownership, Held, TypeOK, locks, request, Goto, Granted
<1>1. CASE TakeExclusiveLock(t)
  <2>1. GrantsHeld' /\ GateHeld' /\ LockAsked'
    BY <1>1 DEF TakeExclusiveLock, GrantsHeld, GateHeld, LockAsked, OwnedBy
  <2>2. NothingLeaks'
    BY <1>1 DEF TakeExclusiveLock, LockAsked, NothingLeaks
  <2> QED BY <2>1, <2>2
<1>2. CASE TakeGate(t)
  <2>1. GrantsHeld' /\ GateHeld' /\ LockAsked'
    BY <1>2 DEF TakeGate, GrantsHeld, GateHeld, LockAsked, OwnedBy
  <2>2. NothingLeaks'
    BY <1>2 DEF TakeGate, NothingLeaks
  <2> QED BY <2>1, <2>2
<1>3. CASE TakePermit(t)
  <2>1. PICK p \in Permits : owner[p] = None /\ owner' = [owner EXCEPT ![p] = t]
    BY <1>3 DEF TakePermit
  <2>2. gate = t
    BY <1>3 DEF TakePermit, GateHeld
  <2>3. CASE kind[t] = "exchange" \/ \A q \in Permits : owner'[q] = t
    <3>1. gate' = None /\ pc' = [pc EXCEPT ![t] = "paced"] /\ UNCHANGED <<kind, exclusiveLock>>
      BY <1>3, <2>3 DEF TakePermit
    <3>2. GrantsHeld'
      BY <2>1, <2>3, <3>1 DEF GrantsHeld, OwnedBy
    <3>3. GateHeld' /\ LockAsked'
      BY <2>2, <3>1 DEF GateHeld, LockAsked
    <3>4. NothingLeaks'
      BY <2>1, <3>1 DEF NothingLeaks
    <3> QED BY <3>2, <3>3, <3>4
  <2>4. CASE ~(kind[t] = "exchange" \/ \A q \in Permits : owner'[q] = t)
    <3>1. UNCHANGED <<pc, kind, gate, exclusiveLock>> /\ pc[t] = "permit"
      BY <1>3, <2>4 DEF TakePermit
    <3>2. GrantsHeld' /\ GateHeld' /\ LockAsked'
      BY <2>1, <3>1 DEF GrantsHeld, GateHeld, LockAsked, OwnedBy
    <3>3. NothingLeaks'
      BY <2>1, <3>1 DEF NothingLeaks
    <3> QED BY <3>2, <3>3
  <2> QED BY <2>3, <2>4
<1>4. CASE ReleasePermit(t)
  <2>1. PICK p \in OwnedBy(t) : owner' = [owner EXCEPT ![p] = None]
    BY <1>4 DEF ReleasePermit
  <2>2. UNCHANGED <<pc, kind, gate, exclusiveLock>> /\ pc[t] = "release"
    BY <1>4 DEF ReleasePermit
  <2>3. GrantsHeld'
    BY <2>1, <2>2 DEF GrantsHeld, OwnedBy
  <2>4. GateHeld' /\ LockAsked' /\ NothingLeaks'
    BY <2>1, <2>2 DEF GateHeld, LockAsked, NothingLeaks, OwnedBy
  <2> QED BY <2>3, <2>4
<1>5. CASE Leave(t)
  <2>1. GrantsHeld' /\ GateHeld' /\ LockAsked'
    BY <1>5 DEF Leave, GrantsHeld, GateHeld, LockAsked, OwnedBy
  <2>2. NothingLeaks'
    BY <1>5 DEF Leave, NothingLeaks, OwnedBy
  <2> QED BY <2>1, <2>2
<1> QED BY <1>1, <1>2, <1>3, <1>4, <1>5

LEMMA OwnershipThread ==
    ASSUME Ownership, NEW t \in Threads, ThreadStep(t)
    PROVE  Held'
<1> USE DEF locks, request, Goto, Granted
<1>1. CASE \/ TakeExclusiveLock(t) \/ TakeGate(t) \/ TakePermit(t)
           \/ ReleasePermit(t) \/ Leave(t)
  BY <1>1, OwnershipLocks
<1>2. CASE CheckAvailable(t) \/ CommitAttempt(t)
  <2>1. PICK to \in Granted \cup {"release"} : pc' = [pc EXCEPT ![t] = to]
    BY <1>2 DEF CheckAvailable, CommitAttempt, Unwind
  <2> QED BY <1>2, <2>1, OwnershipMove DEF CheckAvailable, CommitAttempt
<1>3. CASE ReserveSlot(t)
  BY <1>3, OwnershipMove DEF ReserveSlot
<1>4. CASE Sleep(t)
  BY <1>4, OwnershipMove DEF Sleep
<1>5. CASE Wake(t)
  BY <1>5, OwnershipMove DEF Wake
<1>6. CASE DeferNextStart(t)
  BY <1>6, OwnershipMove DEF DeferNextStart
<1>7. CASE Send(t)
  BY <1>7, OwnershipMove DEF Send
<1>8. CASE Answer(t)
  BY <1>8, OwnershipMove DEF Answer
<1>9. CASE \E ra \in RetryAfters : AnswerRejected(t, ra)
  BY <1>9, OwnershipMove DEF AnswerRejected
<1>10. CASE \E h \in Handles : SetWakeEvent(t, h)
  BY <1>10, OwnershipStutter DEF SetWakeEvent
<1>11. CASE FinishWaking(t)
  BY <1>11, OwnershipMove DEF FinishWaking
<1> QED BY <1>1, <1>2, <1>3, <1>4, <1>5, <1>6, <1>7, <1>8, <1>9, <1>10, <1>11 DEF ThreadStep

\* An exception keeps what is held until the finally clauses give it back.
LEMMA OwnershipInterrupt ==
    ASSUME Ownership, NEW t \in Threads, Interrupt(t)
    PROVE  Held'
<1> USE AssumptionsHold DEF Assumptions, Ownership, TypeOK, locks, request, Goto, Granted
<1>1. CASE pc[t] \in {"asleep", "flying"}
  <2>1. PICK to \in Granted \cup {"release"} : pc' = [pc EXCEPT ![t] = to]
    BY <1>1 DEF Interrupt, Unwind
  <2> QED BY <1>1, <2>1, OwnershipMove DEF Interrupt
<1>2. CASE pc[t] \notin {"asleep", "flying"}
  <2>1. /\ pc[t] \in {"exclusive", "gate", "permit"}
        /\ pc' = [pc EXCEPT ![t] = "release"]
        /\ UNCHANGED <<kind, owner, gate, exclusiveLock>>
    BY <1>2 DEF Interrupt
  <2>2. GrantsHeld' /\ GateHeld' /\ LockAsked'
    BY <2>1 DEF Held, GrantsHeld, GateHeld, LockAsked, OwnedBy
  <2>3. NothingLeaks'
    BY <2>1 DEF Held, NothingLeaks
  <2> QED BY <2>2, <2>3 DEF Held
<1> QED BY <1>1, <1>2

LEMMA OwnershipBegin ==
    ASSUME Ownership, NEW t \in Threads, NEW h \in Usable, NEW k \in {"exchange", "tool"},
           Begin(t, h, k)
    PROVE  Held'
<1> USE AssumptionsHold DEF Assumptions, Ownership, TypeOK, locks, request, Goto, Granted
<1>1. CASE k = "exchange" /\ Refusals(h) # {}
  BY <1>1, OwnershipStutter DEF Begin
<1>2. CASE ~(k = "exchange" /\ Refusals(h) # {})
  <2>1. /\ pc[t] = "idle"
        /\ pc' = [pc EXCEPT ![t] = IF k = "tool" THEN "exclusive" ELSE "gate"]
        /\ kind' = [kind EXCEPT ![t] = k]
        /\ UNCHANGED <<owner, gate, exclusiveLock>>
    BY <1>2 DEF Begin
  <2>2. GrantsHeld' /\ GateHeld' /\ LockAsked'
    BY <2>1 DEF Held, GrantsHeld, GateHeld, LockAsked, OwnedBy
  <2>3. NothingLeaks'
    BY <2>1 DEF Held, NothingLeaks
  <2> QED BY <2>2, <2>3 DEF Held
<1> QED BY <1>1, <1>2

LEMMA OwnershipInvariant == Spec => []Ownership
<1>1. Init => Ownership
  <2>1. Init => Held
    BY AssumptionsHold DEF Assumptions, Init, Held, GrantsHeld, GateHeld, LockAsked,
       NothingLeaks, Granted
  <2> QED BY <2>1, TypeInit DEF Ownership
<1>2. Ownership /\ [Next]_vars /\ TypeOK' => Ownership'
  <2> SUFFICES ASSUME Ownership, [Next]_vars PROVE Held'
    BY DEF Ownership
  <2>1. CASE UNCHANGED vars
    BY <2>1, OwnershipStutter DEF vars, request
  <2>2. CASE \E h \in Handles : HandleStep(h) \/ BuildHandle(h) \/ RegisterHandle(h) \/ Close(h)
    BY <2>2, OwnershipStutter DEF HandleStep, BuildHandle, RegisterHandle, Close,
       SetLateEvent, SignalClosed, UnregisterHandle, request
  <2>3. CASE Tick
    BY <2>3, OwnershipStutter DEF Tick, request
  <2>4. CASE Done
    BY <2>4, OwnershipStutter DEF Done, vars, request
  <2> QED BY <2>1, <2>2, <2>3, <2>4, OwnershipThread, OwnershipInterrupt, OwnershipBegin DEF Next
<1> QED BY <1>1, <1>2, TypeCorrect, PTL DEF Spec

\* No path out of a request, interrupted draining included, leaks a permit,
\* the gate or the exclusive lock: what is held is held by a thread that has
\* it to use or to give back.
THEOREM LocksGivenBack == Spec => []NothingLeaks
<1>1. Ownership => NothingLeaks
  BY DEF Ownership, Held
<1> QED BY <1>1, OwnershipInvariant, PTL

\* A Gobuster run that has drained the semaphore shares the runtime with no
\* other thread.
THEOREM ToolsExcludeAll == Spec => []ToolRunsAlone
<1>1. Ownership => ToolRunsAlone
  <2> SUFFICES ASSUME Ownership, NEW t \in Threads, NEW u \in Threads,
                      t # u, kind[t] = "tool", pc[t] \in Granted, pc[u] \in Granted
               PROVE  FALSE
    BY DEF ToolRunsAlone
  <2>1. PICK p \in Permits : owner[p] = u
    BY DEF Ownership, Held, GrantsHeld, OwnedBy
  <2>2. owner[p] = t
    BY DEF Ownership, Held, GrantsHeld, OwnedBy
  <2> QED BY <2>1, <2>2
<1> QED BY <1>1, OwnershipInvariant, PTL
\* Never more exchanges at the target than there are permits.
THEOREM ExchangesLimited == Spec => []ConcurrencyLimit
<1>1. Ownership => ConcurrencyLimit
  <2> SUFFICES ASSUME Ownership PROVE ConcurrencyLimit
    OBVIOUS
  <2> DEFINE held == [t \in InFlight |-> CHOOSE p \in Permits : owner[p] = t]
  <2>1. \A t \in InFlight : held[t] \in Permits /\ owner[held[t]] = t
    <3> SUFFICES ASSUME NEW t \in InFlight PROVE \E p \in Permits : owner[p] = t
      OBVIOUS
    <3> QED BY DEF Ownership, Held, GrantsHeld, OwnedBy, InFlight, Granted
  <2>2. held \in Injection(InFlight, Permits)
    <3> HIDE DEF held
    <3>1. held \in [InFlight -> Permits]
      BY <2>1 DEF held
    <3>2. \A a, b \in InFlight : held[a] = held[b] => a = b
      BY <2>1
    <3> QED BY <3>1, <3>2 DEF Injection, IsInjective
  <2> QED BY <2>2, FS_Injection, PermitsAssumption DEF ConcurrencyLimit
<1> QED BY <1>1, OwnershipInvariant, PTL

----------------------------------------------------------------------------
(* The shared rejection and the terminal events. *)

\* Events still to be set are those of a rejection being recorded: a thread
\* enters "waking" with nothing left over from an earlier one.
WakesPending == \A t \in Threads : wakes[t] # {} => rejection # None /\ pc[t] = "waking"

\* A handle registers late only because a rejection is there.
LateRegistered == \A h \in Handles : life[h] = "late" => rejection # None

Told == AgreedRetryAfter /\ NoLostWake /\ NoSpuriousWake /\ WakesPending /\ LateRegistered

Stopping == TypeOK /\ Told

\* Steps that neither record a rejection, nor set an event, nor touch a
\* handle, and tell the thread at most the rejection recorded.
LEMMA StoppingMove ==
    ASSUME Stopping, NEW t \in Threads, NEW to \in PC,
           pc[t] # "waking" \/ wakes[t] = {},
           NEW why \in {None, "completed", "failed", "closed", "interrupted", outcome[t], rejection},
           pc' = [pc EXCEPT ![t] = to], outcome' = [outcome EXCEPT ![t] = why],
           UNCHANGED <<stop, handles>>
    PROVE  Told'
<1> USE AssumptionsHold DEF Assumptions, Stopping, TypeOK, stop, handles
<1>1. AgreedRetryAfter'
  BY DEF Told, AgreedRetryAfter
<1>2. NoLostWake' /\ NoSpuriousWake' /\ LateRegistered'
  BY DEF Told, NoLostWake, NoSpuriousWake, LateRegistered, Closed
<1>3. WakesPending'
  BY DEF Told, WakesPending
<1> QED BY <1>1, <1>2, <1>3 DEF Told

LEMMA StoppingStutter ==
    ASSUME Stopping, UNCHANGED <<pc, outcome, stop, handles>>
    PROVE  Told'
BY DEF Stopping, Told, AgreedRetryAfter, NoLostWake, NoSpuriousWake, WakesPending,
   LateRegistered, Closed, stop, handles

\* Recording a 429: the first Retry-After stays, and every handle in use has
\* its event among those to be set.
LEMMA StoppingRejected ==
    ASSUME Stopping, NEW t \in Threads, NEW ra \in RetryAfters, AnswerRejected(t, ra)
    PROVE  Told'
<1> USE AssumptionsHold DEF Assumptions, Stopping, TypeOK, handles, request, Goto
<1>1. /\ rejection' \in RetryAfters /\ (rejection # None => rejection' = rejection)
      /\ wakes' = [wakes EXCEPT ![t] = Registered]
      /\ pc' = [pc EXCEPT ![t] = "waking"]
      /\ outcome' = [outcome EXCEPT ![t] = rejection']
      /\ UNCHANGED <<life, event>>
      /\ pc[t] = "flying"
  BY DEF AnswerRejected
<1>2. AgreedRetryAfter'
  BY <1>1 DEF Told, AgreedRetryAfter
<1>3. NoLostWake'
  BY <1>1 DEF NoLostWake, Registered
<1>4. NoSpuriousWake' /\ LateRegistered' /\ WakesPending'
  BY <1>1 DEF Told, NoSpuriousWake, LateRegistered, WakesPending, Closed
<1> QED BY <1>2, <1>3, <1>4 DEF Told

LEMMA StoppingSetWakeEvent ==
    ASSUME Stopping, NEW t \in Threads, NEW h \in Handles, SetWakeEvent(t, h)
    PROVE  Told'
<1> USE DEF Stopping, TypeOK, SetWakeEvent, request
<1>1. AgreedRetryAfter' /\ WakesPending' /\ LateRegistered'
  BY DEF Told, AgreedRetryAfter, WakesPending, LateRegistered
<1>2. NoSpuriousWake'
  BY DEF Told, NoSpuriousWake, WakesPending, Closed
<1>3. NoLostWake'
  BY DEF Told, NoLostWake
<1> QED BY <1>1, <1>2, <1>3 DEF Told

LEMMA StoppingHandle ==
    ASSUME Stopping, NEW h \in Handles,
           HandleStep(h) \/ BuildHandle(h) \/ RegisterHandle(h) \/ Close(h)
    PROVE  Told'
<1> USE DEF Stopping, TypeOK, stop, Told, AgreedRetryAfter, WakesPending, LateRegistered,
        NoLostWake, NoSpuriousWake, Closed
<1>1. CASE BuildHandle(h)
  BY <1>1 DEF BuildHandle
<1>2. CASE RegisterHandle(h)
  BY <1>2 DEF RegisterHandle
<1>3. CASE SetLateEvent(h)
  BY <1>3 DEF SetLateEvent
<1>4. CASE Close(h)
  BY <1>4 DEF Close
<1>5. CASE SignalClosed(h)
  BY <1>5 DEF SignalClosed
<1>6. CASE UnregisterHandle(h)
  BY <1>6 DEF UnregisterHandle
<1> QED BY <1>1, <1>2, <1>3, <1>4, <1>5, <1>6 DEF HandleStep

\* Steps that only move a thread.
LEMMA StoppingQuiet ==
    ASSUME Stopping, NEW t \in Threads, NEW to \in PC, pc[t] # "waking" \/ wakes[t] = {},
           pc' = [pc EXCEPT ![t] = to], UNCHANGED <<outcome, stop, handles>>
    PROVE  Told'
<1>1. outcome' = [outcome EXCEPT ![t] = outcome[t]]
  BY DEF Stopping, TypeOK
<1> QED BY <1>1, StoppingMove

LEMMA StoppingThread ==
    ASSUME Stopping, NEW t \in Threads, ThreadStep(t) \/ Interrupt(t)
    PROVE  Told'
<1> USE DEF Goto, PC, Granted
<1>1. CASE TakeExclusiveLock(t)
  BY <1>1, StoppingQuiet DEF TakeExclusiveLock
<1>2. CASE TakeGate(t)
  BY <1>2, StoppingQuiet DEF TakeGate
<1>3. CASE TakePermit(t)
  <2>1. pc' = [pc EXCEPT ![t] = "paced"] \/ UNCHANGED pc
    BY <1>3 DEF TakePermit
  <2> QED BY <1>3, <2>1, StoppingQuiet, StoppingStutter DEF TakePermit
<1>4. CASE ReleasePermit(t)
  BY <1>4, StoppingStutter DEF ReleasePermit
<1>5. CASE Leave(t)
  BY <1>5, StoppingQuiet DEF Leave
<1>6. CASE CheckAvailable(t) \/ CommitAttempt(t)
  <2>1. pc[t] \in {"paced", "commit"} /\ UNCHANGED <<stop, handles>>
    BY <1>6 DEF CheckAvailable, CommitAttempt
  <2>2. CASE UNCHANGED outcome /\ \E to \in PC : pc' = [pc EXCEPT ![t] = to]
    BY <2>1, <2>2, StoppingQuiet
  <2>3. CASE \E why \in {"closed", rejection} : Unwind(t, why)
    <3>1. PICK why \in {"closed", rejection} : Unwind(t, why)
      BY <2>3
    <3>2. \E to \in PC : pc' = [pc EXCEPT ![t] = to]
      BY <3>1 DEF Unwind
    <3> QED BY <2>1, <3>1, <3>2, StoppingMove DEF Unwind
  <2> QED BY <1>6, <2>2, <2>3 DEF CheckAvailable, CommitAttempt, Refusals
<1>7. CASE ReserveSlot(t)
  BY <1>7, StoppingQuiet DEF ReserveSlot
<1>8. CASE Sleep(t)
  BY <1>8, StoppingQuiet DEF Sleep
<1>9. CASE Wake(t)
  BY <1>9, StoppingQuiet DEF Wake
<1>10. CASE DeferNextStart(t)
  BY <1>10, StoppingQuiet DEF DeferNextStart
<1>11. CASE Send(t)
  BY <1>11, StoppingQuiet DEF Send
<1>12. CASE Answer(t)
  BY <1>12, StoppingMove DEF Answer
<1>13. CASE \E ra \in RetryAfters : AnswerRejected(t, ra)
  BY <1>13, StoppingRejected
<1>14. CASE \E h \in Handles : SetWakeEvent(t, h)
  BY <1>14, StoppingSetWakeEvent
<1>15. CASE FinishWaking(t)
  BY <1>15, StoppingQuiet DEF FinishWaking
<1>16. CASE Interrupt(t)
  <2>1. \E to \in PC : pc' = [pc EXCEPT ![t] = to]
    BY <1>16 DEF Interrupt, Unwind
  <2>2. outcome' = [outcome EXCEPT ![t] = "interrupted"] /\ pc[t] # "waking"
    BY <1>16 DEF Interrupt, Unwind
  <2> QED BY <1>16, <2>1, <2>2, StoppingMove DEF Interrupt
<1> QED BY <1>1, <1>2, <1>3, <1>4, <1>5, <1>6, <1>7, <1>8, <1>9, <1>10, <1>11, <1>12,
           <1>13, <1>14, <1>15, <1>16 DEF ThreadStep

LEMMA StoppingBegin ==
    ASSUME Stopping, NEW t \in Threads, NEW h \in Usable, NEW k \in {"exchange", "tool"},
           Begin(t, h, k)
    PROVE  Told'
<1>1. pc[t] = "idle" /\ UNCHANGED <<stop, handles>>
  BY DEF Begin
<1>2. CASE k = "exchange" /\ Refusals(h) # {}
  <2>1. PICK why \in {"closed", rejection} : outcome' = [outcome EXCEPT ![t] = why]
    BY <1>2 DEF Begin, Refusals
  <2>2. pc' = [pc EXCEPT ![t] = pc[t]] /\ pc[t] \in PC
    BY <1>2 DEF Begin, Stopping, TypeOK
  <2> QED BY <1>1, <2>1, <2>2, StoppingMove
<1>3. CASE ~(k = "exchange" /\ Refusals(h) # {})
  <2>1. outcome' = [outcome EXCEPT ![t] = None] /\ \E to \in PC : pc' = [pc EXCEPT ![t] = to]
    BY <1>3 DEF Begin, Goto, PC
  <2> QED BY <1>1, <2>1, StoppingMove
<1> QED BY <1>2, <1>3

LEMMA StoppingInvariant == Spec => []Stopping
<1>1. Init => Stopping
  <2>1. Init => Told
    BY AssumptionsHold DEF Assumptions, Init, Told, AgreedRetryAfter, NoLostWake,
       NoSpuriousWake, WakesPending, LateRegistered
  <2> QED BY <2>1, TypeInit DEF Stopping
<1>2. Stopping /\ [Next]_vars /\ TypeOK' => Stopping'
  <2> SUFFICES ASSUME Stopping, [Next]_vars PROVE Told'
    BY DEF Stopping
  <2>1. CASE UNCHANGED vars
    BY <2>1, StoppingStutter DEF vars
  <2>2. CASE Tick
    BY <2>2, StoppingStutter DEF Tick
  <2>3. CASE Done
    BY <2>3, StoppingStutter DEF Done, vars
  <2> QED BY <2>1, <2>2, <2>3, StoppingThread, StoppingHandle, StoppingBegin DEF Next
<1> QED BY <1>1, <1>2, TypeCorrect, PTL DEF Spec

\* However many 429s are recorded in a race, every caller refused because of
\* one is told the first Retry-After.
THEOREM OneRetryAfter == Spec => []AgreedRetryAfter
<1>1. Stopping => AgreedRetryAfter
  BY DEF Stopping, Told
<1> QED BY <1>1, StoppingInvariant, PTL

\* A recorded rejection reaches the event of every handle in use, a handle
\* registered while it is being recorded included.
THEOREM WakeReachesAll == Spec => []NoLostWake
<1>1. Stopping => NoLostWake
  BY DEF Stopping, Told
<1> QED BY <1>1, StoppingInvariant, PTL

\* A terminal event is set only on a handle closed or rejected, so that the
\* limiter woken by it always finds something to raise.
THEOREM WakeHasReason == Spec => []NoSpuriousWake
<1>1. Stopping => NoSpuriousWake
  BY DEF Stopping, Told
<1> QED BY <1>1, StoppingInvariant, PTL
=============================================================================
