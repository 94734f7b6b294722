------------------------- MODULE HttpTimingProofs -------------------------
(* When requests reach the target, for every number of threads, handles and *)
(* permits and every interval: the spacing of starts, what still goes out   *)
(* after a rejection, and the refinement of RequestGate.                    *)
EXTENDS HttpRuntimeProofs

----------------------------------------------------------------------------
(* Spacing. *)

\* The threads that have ended an exchange and not yet backed off.
Backing == {t \in Threads : pc[t] \in {"waking", "defer"}}

\* The next slot is a full interval after the last one, and after the last
\* reply unless its back-off is still to come.
SlotAhead ==
    /\ sinceStart + slotIn >= Interval
    /\ sinceReply + slotIn >= Interval \/ Backing # {}

\* Between its slot and its send, who holds every permit has seen no reply
\* for an interval: nobody else can get one, and its own have been backed off.
QuietBefore ==
    \A t \in Threads :
        pc[t] \in {"commit", "started"} /\ OwnedBy(t) = Permits => sinceReply = Interval

Spaced == SlotAhead /\ QuietBefore

Timing == Ownership /\ Spaced

\* Who holds every permit is the only thread granted the runtime.
LEMMA AllPermitsAlone ==
    ASSUME Ownership, NEW t \in Threads, OwnedBy(t) = Permits,
           NEW u \in Threads, pc[u] \in Granted
    PROVE  u = t
<1>1. PICK p \in Permits : owner[p] = u
  BY DEF Ownership, Held, GrantsHeld, OwnedBy
<1>2. owner[p] = t
  BY DEF OwnedBy
<1> QED BY <1>1, <1>2

\* Steps that move one thread while the limiter stands still, and give no
\* other thread a permit: only a commit comes nearer to the send.
LEMMA SpacedMove ==
    ASSUME Timing, NEW t \in Threads, NEW to \in PC,
           pc[t] \in {"waking", "defer"} => to \in {"waking", "defer"},
           to = "started" => pc[t] = "commit" /\ UNCHANGED owner,
           to # "commit",
           pc' = [pc EXCEPT ![t] = to],
           \A u \in Threads : u # t => OwnedBy(u)' \subseteq OwnedBy(u),
           UNCHANGED <<slotIn, sinceStart, sinceReply>>
    PROVE  Spaced'
<1> USE DEF Timing, Spaced, Ownership, TypeOK
<1>1. \A u \in Threads : pc'[u] = IF u = t THEN to ELSE pc[u]
  OBVIOUS
<1>2. SlotAhead'
  BY <1>1 DEF SlotAhead, Backing
<1>3. QuietBefore'
  <2> SUFFICES ASSUME NEW u \in Threads, pc'[u] \in {"commit", "started"},
                      OwnedBy(u)' = Permits
               PROVE  sinceReply = Interval
    BY DEF QuietBefore
  <2>1. pc[u] \in {"commit", "started"}
    BY <1>1
  <2>2. OwnedBy(u) = Permits
    BY <1>1 DEF OwnedBy
  <2> QED BY <2>1, <2>2 DEF QuietBefore
<1> QED BY <1>2, <1>3

\* Steps that change neither a place, a permit nor the limiter.
LEMMA SpacedStutter ==
    ASSUME Timing, UNCHANGED <<pc, owner, slotIn, sinceStart, sinceReply>>
    PROVE  Spaced'
BY DEF Timing, Spaced, SlotAhead, Backing, QuietBefore, OwnedBy

\* A reserved slot is an interval ahead of the next; whoever reserves it
\* holding every permit finds nobody in flight or backing off.
LEMMA SpacedReserve ==
    ASSUME Timing, NEW t \in Threads, ReserveSlot(t)
    PROVE  Spaced'
<1> USE AssumptionsHold DEF Assumptions, Timing, Ownership, TypeOK
<1>1. /\ pc[t] = "slot" /\ slotIn = 0 /\ pc' = [pc EXCEPT ![t] = "commit"]
      /\ slotIn' = Interval /\ sinceStart' = 0 /\ UNCHANGED <<owner, sinceReply>>
  BY DEF ReserveSlot, Goto, locks
<1>2. SlotAhead'
  BY <1>1 DEF SlotAhead
<1>3. QuietBefore'
  <2> SUFFICES ASSUME NEW u \in Threads, pc'[u] \in {"commit", "started"}, OwnedBy(u) = Permits
               PROVE  sinceReply = Interval
    BY <1>1 DEF QuietBefore, OwnedBy
  <2>1. CASE u = t
    <3>1. Backing = {}
      BY <1>1, <2>1, AllPermitsAlone DEF Backing, Granted
    <3> QED BY <1>1, <3>1 DEF Spaced, SlotAhead
  <2>2. CASE u # t
    BY <1>1, <2>2 DEF Spaced, QuietBefore
  <2> QED BY <2>1, <2>2
<1> QED BY <1>2, <1>3 DEF Spaced

\* Moving the next start pays what the thread owed, and every earlier debt.
LEMMA SpacedDefer ==
    ASSUME Timing, NEW t \in Threads, DeferNextStart(t)
    PROVE  Spaced'
<1> USE AssumptionsHold DEF Assumptions, Timing, Ownership, TypeOK
<1>1. /\ pc[t] = "defer" /\ pc' = [pc EXCEPT ![t] = "release"] /\ slotIn' = Interval
      /\ UNCHANGED <<owner, sinceStart, sinceReply>>
  BY DEF DeferNextStart, Goto, locks
<1>2. SlotAhead'
  BY <1>1 DEF SlotAhead
<1>3. QuietBefore'
  BY <1>1 DEF Spaced, QuietBefore, OwnedBy
<1> QED BY <1>2, <1>3 DEF Spaced

\* The end of an exchange is a debt to back off, and disturbs nobody who
\* holds every permit.
LEMMA SpacedReply ==
    ASSUME Timing, NEW t \in Threads, pc[t] = "flying", NEW to \in {"waking", "defer"},
           pc' = [pc EXCEPT ![t] = to], sinceReply' = 0,
           UNCHANGED <<owner, slotIn, sinceStart>>
    PROVE  Spaced'
<1> USE DEF Timing, Ownership, TypeOK
<1>1. SlotAhead'
  BY DEF Spaced, SlotAhead, Backing
<1>2. QuietBefore'
  <2> SUFFICES ASSUME NEW u \in Threads, pc'[u] \in {"commit", "started"}, OwnedBy(u) = Permits
               PROVE  FALSE
    BY DEF QuietBefore, OwnedBy
  <2>1. u # t /\ pc[u] \in {"commit", "started"}
    OBVIOUS
  <2> QED BY <2>1, AllPermitsAlone DEF Granted
<1> QED BY <1>1, <1>2 DEF Spaced

LEMMA SpacedThread ==
    ASSUME Timing, NEW t \in Threads, ThreadStep(t) \/ Interrupt(t)
    PROVE  Spaced'
<1> USE AssumptionsHold
    DEF Assumptions, request, locks, clocks, Goto, PC, Granted, OwnedBy
<1>1. CASE TakeExclusiveLock(t)
  BY <1>1, SpacedMove DEF TakeExclusiveLock
<1>2. CASE TakeGate(t)
  BY <1>2, SpacedMove DEF TakeGate
<1>3. CASE TakePermit(t)
  <2>1. PICK p \in Permits : owner[p] = None /\ owner' = [owner EXCEPT ![p] = t]
    BY <1>3 DEF TakePermit
  <2>2. \A u \in Threads : u # t => OwnedBy(u)' \subseteq OwnedBy(u)
    BY <2>1 DEF Timing, Ownership, TypeOK
  <2>3. pc[t] = "permit" /\ UNCHANGED <<slotIn, sinceStart, sinceReply>>
    BY <1>3 DEF TakePermit
  <2>4. pc' = [pc EXCEPT ![t] = "paced"] \/ pc' = pc
    BY <1>3 DEF TakePermit
  <2>5. pc = [pc EXCEPT ![t] = "permit"]
    BY <2>3 DEF Timing, Ownership, TypeOK
  <2> QED BY <2>2, <2>3, <2>4, <2>5, SpacedMove
<1>4. CASE ReleasePermit(t)
  <2>1. PICK p \in OwnedBy(t) : owner' = [owner EXCEPT ![p] = None]
    BY <1>4 DEF ReleasePermit
  <2>2. \A u \in Threads : u # t => OwnedBy(u)' \subseteq OwnedBy(u)
    BY <2>1 DEF Timing, Ownership, TypeOK
  <2>3. pc[t] = "release" /\ pc' = [pc EXCEPT ![t] = "release"]
    BY <1>4 DEF ReleasePermit, Timing, Ownership, TypeOK
  <2>4. UNCHANGED <<slotIn, sinceStart, sinceReply>>
    BY <1>4 DEF ReleasePermit
  <2> QED BY <2>2, <2>3, <2>4, SpacedMove
<1>5. CASE Leave(t)
  BY <1>5, SpacedMove DEF Leave
<1>6. CASE CheckAvailable(t) \/ CommitAttempt(t)
  <2>1. PICK to \in PC : pc' = [pc EXCEPT ![t] = to]
    BY <1>6 DEF CheckAvailable, CommitAttempt, Unwind
  <2>2. /\ pc[t] \in {"paced", "commit"} /\ UNCHANGED <<owner, slotIn, sinceStart, sinceReply>>
        /\ pc'[t] # "commit" /\ (pc'[t] = "started" => pc[t] = "commit")
    BY <1>6 DEF CheckAvailable, CommitAttempt, Unwind, Timing, Ownership, TypeOK
  <2>3. pc'[t] = to
    BY <2>1 DEF Timing, Ownership, TypeOK
  <2> QED BY <2>1, <2>2, <2>3, SpacedMove
<1>7. CASE Sleep(t) \/ Wake(t)
  BY <1>7, SpacedMove DEF Sleep, Wake
<1>8. CASE Send(t)
  BY <1>8, SpacedMove DEF Send
<1>9. CASE Answer(t) \/ \E ra \in RetryAfters : AnswerRejected(t, ra)
  BY <1>9, SpacedReply DEF Answer, AnswerRejected
<1>10. CASE \E h \in Handles : SetWakeEvent(t, h)
  BY <1>10, SpacedStutter DEF SetWakeEvent
<1>11. CASE FinishWaking(t)
  BY <1>11, SpacedMove DEF FinishWaking
<1>12. CASE Interrupt(t)
  <2>1. CASE pc[t] = "flying"
    BY <1>12, <2>1, SpacedReply DEF Interrupt
  <2>2. CASE pc[t] # "flying"
    <3>1. \E to \in {"release", "defer"} : pc' = [pc EXCEPT ![t] = to]
      BY <1>12, <2>2 DEF Interrupt, Unwind
    <3>2. /\ pc[t] \notin {"waking", "defer"}
          /\ UNCHANGED <<owner, slotIn, sinceStart, sinceReply>>
      BY <1>12, <2>2 DEF Interrupt
    <3> QED BY <3>1, <3>2, SpacedMove
  <2> QED BY <2>1, <2>2
<1> QED BY <1>1, <1>2, <1>3, <1>4, <1>5, <1>6, <1>7, <1>8, <1>9, <1>10, <1>11, <1>12,
           SpacedReserve, SpacedDefer DEF ThreadStep

LEMMA SpacedBegin ==
    ASSUME Timing, NEW t \in Threads, NEW h \in Usable, NEW k \in {"exchange", "tool"},
           Begin(t, h, k)
    PROVE  Spaced'
<1>1. /\ pc[t] = "idle" /\ UNCHANGED <<owner, slotIn, sinceStart, sinceReply>>
      /\ \E to \in {"idle", "exclusive", "gate"} : pc' = [pc EXCEPT ![t] = to]
  BY DEF Begin, Goto, locks, clocks, Timing, Ownership, TypeOK
<1> QED BY <1>1, SpacedMove DEF PC, OwnedBy

\* A tick takes from the wait for the next slot what it adds to the ages.
LEMMA SpacedTick == Timing /\ Tick => Spaced'
<1> SUFFICES ASSUME Timing, Tick PROVE Spaced'
  OBVIOUS
<1>1. /\ UNCHANGED <<pc, owner>> /\ slotIn' = Sooner(slotIn)
      /\ sinceStart' = Older(sinceStart) /\ sinceReply' = Older(sinceReply)
  BY DEF Tick, locks
<1>2. /\ slotIn \in Nat /\ sinceStart \in 0..Interval /\ sinceReply \in 0..Interval
      /\ Interval \in Nat
  BY AssumptionsHold DEF Assumptions, Timing, Ownership, TypeOK
<1>3. SlotAhead'
  BY <1>1, <1>2 DEF Timing, Spaced, SlotAhead, Backing, Sooner, Older
<1>4. QuietBefore'
  BY <1>1, <1>2 DEF Timing, Spaced, QuietBefore, OwnedBy, Older
<1> QED BY <1>3, <1>4 DEF Spaced

LEMMA TimingInvariant == Spec => []Timing
<1>1. Init => Spaced
  BY AssumptionsHold DEF Assumptions, Init, Spaced, SlotAhead, QuietBefore
<1>2. Timing /\ [Next]_vars => Spaced'
  <2> SUFFICES ASSUME Timing, [Next]_vars PROVE Spaced'
    OBVIOUS
  <2>1. CASE UNCHANGED vars
    BY <2>1, SpacedStutter DEF vars, locks, clocks
  <2>2. CASE \E h \in Handles : HandleStep(h) \/ BuildHandle(h) \/ RegisterHandle(h) \/ Close(h)
    BY <2>2, SpacedStutter DEF HandleStep, BuildHandle, RegisterHandle, Close,
       SetLateEvent, SignalClosed, UnregisterHandle, locks, clocks
  <2>3. CASE Done
    BY <2>3, SpacedStutter DEF Done, vars, locks, clocks
  <2> QED BY <2>1, <2>2, <2>3, SpacedThread, SpacedBegin, SpacedTick DEF Next
<1> QED BY <1>1, <1>2, OwnershipInvariant, PTL DEF Spec, Timing

\* A thread changes place only by a step of its own.
LEMMA OwnSteps ==
    ASSUME TypeOK, [Next]_vars, NEW t \in Threads, pc'[t] # pc[t]
    PROVE  \/ ThreadStep(t)
           \/ Interrupt(t)
           \/ \E h \in Usable, k \in {"exchange", "tool"} : Begin(t, h, k)
<1> USE DEF TypeOK, Goto, Unwind
<1>1. ~(UNCHANGED vars \/ Done \/ Tick)
  BY DEF vars, Done, Tick
<1>2. ~\E h \in Handles : HandleStep(h) \/ BuildHandle(h) \/ RegisterHandle(h) \/ Close(h)
  BY DEF HandleStep, BuildHandle, RegisterHandle, Close, SetLateEvent, SignalClosed,
     UnregisterHandle
<1>3. ASSUME NEW u \in Threads, ThreadStep(u) \/ Interrupt(u) PROVE u = t
  <2>1. (\E to : pc' = [pc EXCEPT ![u] = to]) \/ pc' = pc
    BY <1>3 DEF ThreadStep, Interrupt, TakeExclusiveLock, TakeGate, TakePermit, ReleasePermit,
       Leave, CheckAvailable, ReserveSlot, Sleep, Wake, CommitAttempt, DeferNextStart, Send,
       Answer, AnswerRejected, SetWakeEvent, FinishWaking
  <2> QED BY <2>1
<1>4. ASSUME NEW u \in Threads, NEW h \in Usable, NEW k \in {"exchange", "tool"}, Begin(u, h, k)
      PROVE  u = t
  BY <1>4 DEF Begin
<1> QED BY <1>1, <1>2, <1>3, <1>4 DEF Next

\* Only ReserveSlot takes a thread from its slot to its commit.
LEMMA SlotsAreReserved ==
    ASSUME TypeOK, [Next]_vars, NEW t \in Threads, pc[t] = "slot", pc'[t] = "commit"
    PROVE  ReserveSlot(t)
<1>1. \A h, k : ~Begin(t, h, k)
  BY DEF Begin
<1>2. ~Interrupt(t)
  BY DEF Interrupt
<1>3. ThreadStep(t)
  BY <1>1, <1>2, OwnSteps
<1>4. ~Sleep(t)
  BY DEF Sleep, Goto, TypeOK
<1> QED
  BY <1>3, <1>4 DEF ThreadStep, TakeExclusiveLock, TakeGate, TakePermit, ReleasePermit, Leave,
     CheckAvailable, Wake, CommitAttempt, DeferNextStart, Send, Answer, AnswerRejected,
     SetWakeEvent, FinishWaking

\* Reserved start slots are a full interval apart, and every slot is a full
\* interval after the end of each exchange that has backed off.
THEOREM SlotsAreSpaced == Spec => StartSpacing
<1>1. Timing /\ [Next]_vars =>
        \A t \in Threads : pc[t] = "slot" /\ pc'[t] = "commit" =>
            /\ sinceStart = Interval
            /\ sinceReply = Interval \/ \E u \in Threads : pc[u] \in {"waking", "defer"}
  <2> SUFFICES ASSUME Timing, [Next]_vars, NEW t \in Threads, pc[t] = "slot", pc'[t] = "commit"
               PROVE  /\ sinceStart = Interval
                      /\ sinceReply = Interval \/ \E u \in Threads : pc[u] \in {"waking", "defer"}
    OBVIOUS
  <2>1. slotIn = 0
    BY SlotsAreReserved DEF ReserveSlot, Timing, Ownership
  <2>2. sinceStart \in 0..Interval /\ sinceReply \in 0..Interval /\ Interval \in Nat
    BY AssumptionsHold DEF Assumptions, Timing, Ownership, TypeOK
  <2> QED BY <2>1, <2>2 DEF Timing, Spaced, SlotAhead, Backing
<1> QED BY <1>1, TimingInvariant, PTL DEF Spec, StartSpacing

\* From the end of an exchange to the send of a caller that holds every
\* permit at least an interval passes, however long threads are held up
\* between a slot, its commit and the send.
THEOREM SendsAreSpaced == Spec => SendSpacing
<1>1. Timing =>
        \A t \in Threads :
            pc[t] = "started" /\ pc'[t] = "flying" /\ OwnedBy(t) = Permits
              => sinceReply = Interval
  BY DEF Timing, Spaced, QuietBefore
<1> QED BY <1>1, TimingInvariant, PTL DEF Spec, SendSpacing

----------------------------------------------------------------------------
(* After a rejection. *)

\* Granted threads that leave one permit to somebody else are fewer than the
\* permits: each of them holds another.
LEMMA FewerGranted ==
    ASSUME Ownership, NEW p \in Permits, NEW S \in SUBSET Threads,
           \A u \in S : pc[u] \in Granted /\ owner[p] # u
    PROVE  IsFiniteSet(S) /\ Cardinality(S) < Cardinality(Permits)
<1> DEFINE others == Permits \ {p}
           held == [u \in S |-> CHOOSE q \in others : owner[q] = u]
<1>1. \A u \in S : held[u] \in others /\ owner[held[u]] = u
  <2> SUFFICES ASSUME NEW u \in S PROVE \E q \in others : owner[q] = u
    OBVIOUS
  <2>1. PICK q \in Permits : owner[q] = u
    BY DEF Ownership, Held, GrantsHeld, OwnedBy
  <2> QED BY <2>1
<1>2. held \in Injection(S, others)
  <2> HIDE DEF held, others
  <2>1. held \in [S -> others]
    BY <1>1 DEF held
  <2>2. \A a, b \in S : held[a] = held[b] => a = b
    BY <1>1
  <2> QED BY <2>1, <2>2 DEF Injection, IsInjective
<1>3. IsFiniteSet(others) /\ Cardinality(others) = Cardinality(Permits) - 1
  BY PermitsAssumption, FS_RemoveElement
<1>4. IsFiniteSet(S) /\ Cardinality(S) <= Cardinality(others)
  <2> HIDE DEF held, others
  <2> QED BY <1>2, <1>3, FS_Injection
<1>5. Cardinality(Permits) \in Nat /\ Cardinality(S) \in Nat
  BY <1>4, PermitsAssumption, FS_CardinalityType
<1> QED BY <1>3, <1>4, <1>5

\* The threads committed to an exchange they have not started.
Starting == {t \in Threads : pc[t] = "started"}

\* Who may still send after the rejection is fixed when it is recorded.
Counted ==
    /\ rejection = None => late = {}
    /\ rejection # None =>
         /\ IsFiniteSet(late \cup Starting)
         /\ Cardinality(late \cup Starting) < Cardinality(Permits)

\* Once there is a rejection no thread is committed any more, and a thread
\* that sends was committed.
LEMMA CountedKept ==
    ASSUME Counted, UNCHANGED rejection,
           rejection = None => late' = late,
           rejection # None => late' \cup Starting' \subseteq late \cup Starting
    PROVE  Counted'
<1>1. CASE rejection = None
  BY <1>1 DEF Counted
<1>2. CASE rejection # None
  <2> DEFINE before == late \cup Starting
             after == late' \cup Starting'
  <2> HIDE DEF before, after
  <2>1. IsFiniteSet(before) /\ after \in SUBSET before
    BY <1>2 DEF Counted, before, after
  <2>2. IsFiniteSet(after) /\ Cardinality(after) <= Cardinality(before)
    BY <2>1, FS_Subset
  <2>3. /\ Cardinality(before) \in Nat /\ Cardinality(after) \in Nat
        /\ Cardinality(Permits) \in Nat
    BY <2>1, <2>2, FS_CardinalityType, PermitsAssumption
  <2>4. Cardinality(before) < Cardinality(Permits)
    BY <1>2 DEF Counted, before
  <2>5. IsFiniteSet(after) /\ Cardinality(after) < Cardinality(Permits)
    BY <2>2, <2>3, <2>4
  <2> QED BY <1>2, <2>5 DEF Counted, after
<1> QED BY <1>1, <1>2

\* The thread that records the rejection holds a permit and is not committed:
\* those that are committed are fewer than the permits.
LEMMA CountedRejected ==
    ASSUME Ownership, Counted, NEW t \in Threads, NEW ra \in RetryAfters, AnswerRejected(t, ra)
    PROVE  Counted'
<1> USE AssumptionsHold DEF Assumptions
<1>1. pc[t] = "flying" /\ pc' = [pc EXCEPT ![t] = "waking"] /\ late' = late
  BY DEF AnswerRejected, Goto
<1>2. Starting' = Starting
  BY <1>1 DEF Starting, Ownership, TypeOK
<1>3. CASE rejection # None
  <2>1. rejection' = rejection
    BY <1>3 DEF AnswerRejected
  <2> QED BY <1>1, <1>2, <1>3, <2>1, CountedKept
<1>4. CASE rejection = None
  <2>1. PICK p \in Permits : owner[p] = t
    BY <1>1 DEF Ownership, Held, GrantsHeld, OwnedBy, Granted
  <2>2. \A u \in Starting : pc[u] \in Granted /\ owner[p] # u
    BY <1>1, <2>1 DEF Starting, Granted
  <2>3. IsFiniteSet(Starting) /\ Cardinality(Starting) < Cardinality(Permits)
    BY <2>2, FewerGranted DEF Starting
  <2>4. rejection' = ra /\ rejection' # None
    BY <1>4 DEF AnswerRejected
  <2>5. late' \cup Starting' = Starting
    BY <1>1, <1>2, <1>4 DEF Counted
  <2> QED BY <2>3, <2>4, <2>5 DEF Counted
<1> QED BY <1>3, <1>4

LEMMA CountedThread ==
    ASSUME Ownership, Counted, NEW t \in Threads, ThreadStep(t) \/ Interrupt(t)
    PROVE  Counted'
<1> USE DEF Starting, stop, Ownership, TypeOK, Goto, Unwind
<1>1. CASE TakeExclusiveLock(t) \/ TakeGate(t) \/ TakePermit(t)
  BY <1>1, CountedKept DEF TakeExclusiveLock, TakeGate, TakePermit
<1>2. CASE ReleasePermit(t) \/ Leave(t)
  BY <1>2, CountedKept DEF ReleasePermit, Leave
<1>3. CASE CheckAvailable(t) \/ ReserveSlot(t)
  BY <1>3, CountedKept DEF CheckAvailable, ReserveSlot
<1>4. CASE Sleep(t) \/ Wake(t)
  BY <1>4, CountedKept DEF Sleep, Wake
<1>5. CASE CommitAttempt(t)
  BY <1>5, CountedKept DEF CommitAttempt
<1>6. CASE DeferNextStart(t)
  BY <1>6, CountedKept DEF DeferNextStart
<1>7. CASE Send(t)
  BY <1>7, CountedKept DEF Send
<1>8. CASE Answer(t)
  BY <1>8, CountedKept DEF Answer
<1>9. CASE \E h \in Handles : SetWakeEvent(t, h)
  BY <1>9, CountedKept DEF SetWakeEvent
<1>10. CASE FinishWaking(t)
  BY <1>10, CountedKept DEF FinishWaking
<1>11. CASE Interrupt(t)
  BY <1>11, CountedKept DEF Interrupt
<1> QED BY <1>1, <1>2, <1>3, <1>4, <1>5, <1>6, <1>7, <1>8, <1>9, <1>10, <1>11,
           CountedRejected DEF ThreadStep

LEMMA CountedInvariant == Spec => []Counted
<1>1. Init => Counted
  BY DEF Init, Counted
<1>2. Ownership /\ Counted /\ [Next]_vars => Counted'
  <2> SUFFICES ASSUME Ownership, Counted, [Next]_vars PROVE Counted'
    OBVIOUS
  <2>1. CASE UNCHANGED vars \/ Done \/ Tick
    BY <2>1, CountedKept DEF vars, Done, Tick, stop, Starting
  <2>2. CASE \E h \in Handles : HandleStep(h) \/ BuildHandle(h) \/ RegisterHandle(h) \/ Close(h)
    BY <2>2, CountedKept DEF HandleStep, BuildHandle, RegisterHandle, Close, SetLateEvent,
       SignalClosed, UnregisterHandle, stop, Starting
  <2>3. CASE \E t \in Threads, h \in Usable, k \in {"exchange", "tool"} : Begin(t, h, k)
    BY <2>3, CountedKept DEF Begin, stop, Starting, Goto, Ownership, TypeOK
  <2> QED BY <2>1, <2>2, <2>3, CountedThread DEF Next
<1> QED BY <1>1, <1>2, OwnershipInvariant, PTL DEF Spec

\* After a rejection only exchanges already committed still go out, and
\* there are fewer of them than permits: with one permit, none.
THEOREM LateSendsAreFew == Spec => []FewLateSends
<1>1. Counted => FewLateSends
  <2> SUFFICES ASSUME Counted PROVE FewLateSends
    OBVIOUS
  <2>1. CASE rejection = None
    <3>1. Cardinality(late) = 0
      BY <2>1, FS_EmptySet DEF Counted
    <3>2. Cardinality(Permits) \in Nat /\ Cardinality(Permits) # 0
      BY PermitsAssumption, FS_EmptySet, FS_CardinalityType
    <3> QED BY <3>1, <3>2 DEF FewLateSends
  <2>2. CASE rejection # None
    <3> DEFINE all == late \cup Starting
    <3> HIDE DEF all
    <3>1. IsFiniteSet(all) /\ Cardinality(all) < Cardinality(Permits) /\ late \in SUBSET all
      BY <2>2 DEF Counted, all
    <3>2. IsFiniteSet(late) /\ Cardinality(late) <= Cardinality(all)
      BY <3>1, FS_Subset
    <3>3. /\ Cardinality(late) \in Nat /\ Cardinality(all) \in Nat
          /\ Cardinality(Permits) \in Nat
      BY <3>1, <3>2, FS_CardinalityType, PermitsAssumption
    <3> QED BY <3>1, <3>2, <3>3 DEF FewLateSends
  <2> QED BY <2>1, <2>2
<1> QED BY <1>1, CountedInvariant, PTL

----------------------------------------------------------------------------
(* The refinement of RequestGate: what each place, and each step, means.    *)

PhaseOf(place) ==
    IF place \in {"paced", "slot", "asleep"} THEN "admitted"
    ELSE IF place = "commit" THEN "slotted"
    ELSE IF place \in {"started", "flying"} THEN "started"
    ELSE IF place \in {"waking", "defer"} THEN "owing"
    ELSE "out"

LEMMA PhaseIs == phase = [t \in Threads |-> PhaseOf(pc[t])]
BY DEF phase, PhaseOf

\* Inside the gate is whoever has been granted the runtime.
LEMMA PhaseGranted ==
    ASSUME NEW place \in PC
    PROVE  PhaseOf(place) # "out" <=> place \in Granted
BY DEF PC, Granted, PhaseOf

LEMMA InsideGranted == TypeOK => Gate!Inside = {t \in Threads : pc[t] \in Granted}
BY PhaseIs, PhaseGranted DEF Gate!Inside, TypeOK

\* The instance brings a cardinality of its own: it is the same one.
LEMMA GateCardinality == \A S : Gate!Cardinality(S) = Cardinality(S)
BY DEF Gate!Cardinality, Cardinality, Gate!IsFiniteSet, IsFiniteSet

LEMMA PhaseMove ==
    ASSUME TypeOK, NEW t \in Threads, NEW to, pc' = [pc EXCEPT ![t] = to]
    PROVE  phase' = [phase EXCEPT ![t] = PhaseOf(to)]
<1>1. phase' = [u \in Threads |-> PhaseOf(pc'[u])]
  BY DEF phase, PhaseOf
<1>2. \A u \in Threads : pc'[u] = IF u = t THEN to ELSE pc[u]
  BY DEF TypeOK
<1> HIDE DEF PhaseOf
<1> QED BY <1>1, <1>2, PhaseIs

\* The caller alone inside is the tool that has been granted the runtime.
LEMMA SoloIs ==
    ASSUME Ownership
    PROVE  /\ SoloTools = {} => solo = None
           /\ \A t \in Threads : solo = t <=> t \in SoloTools
           /\ \A t \in SoloTools : \A u \in Threads : pc[u] \in Granted => u = t
<1>1. ASSUME NEW t \in SoloTools, NEW u \in Threads, pc[u] \in Granted PROVE u = t
  BY <1>1, AllPermitsAlone DEF SoloTools, Ownership, Held, GrantsHeld
<1>2. \A t \in SoloTools : SoloTools = {t}
  BY <1>1 DEF SoloTools
<1>3. SoloTools = {} => solo = None
  BY DEF solo
<1>4. \A t \in SoloTools : solo = t
  BY <1>2 DEF solo
<1>5. \A t \in Threads : t # None
  BY AssumptionsHold DEF Assumptions
<1> QED BY <1>1, <1>2, <1>3, <1>4, <1>5

LEMMA SoloKept ==
    ASSUME SoloTools' = SoloTools
    PROVE  solo' = solo
BY DEF solo

\* The promise has nothing to say of a thread that stays inside or outside in
\* the same phase.
LEMMA GateStutter ==
    ASSUME Ownership, NEW t \in Threads, NEW to \in PC, PhaseOf(to) = PhaseOf(pc[t]),
           pc' = [pc EXCEPT ![t] = to], kind' = kind \/ pc[t] \notin Granted,
           \A u \in Threads : u # t => kind'[u] = kind[u],
           UNCHANGED <<rejection, slotIn>>
    PROVE  UNCHANGED Gate!vars
<1> USE DEF Ownership, TypeOK
<1>1. phase' = phase
  <2>1. phase' = [phase EXCEPT ![t] = PhaseOf(to)]
    BY PhaseMove
  <2>2. phase = [u \in Threads |-> phase[u]] /\ phase[t] = PhaseOf(to)
    BY PhaseIs
  <2> QED BY <2>1, <2>2
<1>2. to \in Granted <=> pc[t] \in Granted
  BY PhaseGranted
<1>3. SoloTools' = SoloTools
  BY <1>2 DEF SoloTools
<1> QED BY <1>1, <1>3, SoloKept DEF Gate!vars

\* A thread already inside goes to another phase inside.
LEMMA GateMove ==
    ASSUME Ownership, NEW t \in Threads, NEW to \in Granted, pc[t] \in Granted,
           pc' = [pc EXCEPT ![t] = to], kind' = kind
    PROVE  Gate!Move(t, PhaseOf(to)) /\ solo' = solo
<1>1. SoloTools' = SoloTools
  BY DEF SoloTools, Ownership, TypeOK
<1> QED BY <1>1, SoloKept, PhaseMove DEF Gate!Move, Ownership

\* A thread leaves; if it was alone inside, nobody is any more.
LEMMA GateLeave ==
    ASSUME Ownership, NEW t \in Threads, pc[t] \in Granted,
           pc' = [pc EXCEPT ![t] = "release"], kind' = kind
    PROVE  Gate!Move(t, "out") /\ solo' = IF solo = t THEN None ELSE solo
<1> USE DEF Ownership, TypeOK
<1>1. Gate!Move(t, "out")
  <2>1. PhaseOf("release") = "out"
    BY DEF PhaseOf
  <2> QED BY <2>1, PhaseMove DEF Gate!Move
<1>2. SoloTools' = SoloTools \ {t}
  BY DEF SoloTools, Granted
<1>3. CASE t \in SoloTools
  <2>1. SoloTools' = {}
    BY <1>2, <1>3, SoloIs DEF SoloTools
  <2>2. solo' = None
    BY <2>1 DEF solo
  <2> QED BY <1>1, <1>3, <2>2, SoloIs
<1>4. CASE t \notin SoloTools
  <2>1. solo' = solo
    BY <1>2, <1>4, SoloKept
  <2> QED BY <1>1, <1>4, <2>1, SoloIs
<1> QED BY <1>3, <1>4

\* A thread that has its permits is admitted: with room under the limit if it
\* is an exchange, with nobody inside if it is a tool.
LEMMA GateAdmit ==
    ASSUME Ownership, NEW t \in Threads, TakePermit(t)
    PROVE  Gate!Admit(t) \/ UNCHANGED Gate!vars
<1> USE AssumptionsHold DEF Assumptions, Ownership, TypeOK
<1>1. PICK p \in Permits : owner[p] = None /\ owner' = [owner EXCEPT ![p] = t]
  BY DEF TakePermit
<1>2. pc[t] = "permit" /\ UNCHANGED <<kind, rejection, slotIn>>
  BY DEF TakePermit, request, clocks, stop
<1>3. CASE kind[t] = "exchange" \/ \A q \in Permits : owner'[q] = t
  <2>1. pc' = [pc EXCEPT ![t] = "paced"]
    BY <1>3 DEF TakePermit, Goto
  <2>2. phase[t] = "out" /\ Gate!Move(t, "admitted")
    BY <1>2, <2>1, PhaseMove, PhaseIs DEF PhaseOf, Gate!Move
  <2>3. Cardinality(Gate!Inside) < Cardinality(Permits)
    <3>1. \A u \in Gate!Inside : pc[u] \in Granted /\ owner[p] # u
      BY <1>1, InsideGranted
    <3>2. Gate!Inside \in SUBSET Threads
      BY InsideGranted
    <3> QED BY <3>1, <3>2, FewerGranted
  <2>4. SoloTools = {}
    BY <1>1 DEF SoloTools, Held, GrantsHeld, OwnedBy
  <2>5. solo = None
    BY <2>4, SoloIs
  <2>6. SoloTools' = {u \in {t} : kind[t] = "tool"}
    BY <1>2, <2>1, <2>4 DEF SoloTools, Granted
  <2>7. CASE kind[t] = "exchange"
    <3>1. SoloTools' = {}
      BY <2>6, <2>7
    <3>2. solo' = None
      BY <3>1 DEF solo
    <3> QED BY <1>2, <2>2, <2>3, <2>5, <3>2, GateCardinality DEF Gate!Admit
  <2>8. CASE kind[t] = "tool"
    <3>1. SoloTools' = {t}
      BY <2>6, <2>8
    <3>2. solo' = t
      BY <3>1 DEF solo
    <3>3. \A u \in Threads : pc[u] \notin Granted
      <4> SUFFICES ASSUME NEW u \in Threads, pc[u] \in Granted PROVE FALSE
        OBVIOUS
      <4>1. PICK q \in Permits : owner[q] = u
        BY DEF Held, GrantsHeld, OwnedBy
      <4>2. owner'[q] = u /\ owner'[q] = t
        BY <1>1, <1>3, <2>8, <4>1
      <4> QED BY <1>2, <4>2 DEF Granted
    <3>4. Gate!Inside = {}
      BY <3>3, InsideGranted
    <3> QED BY <1>2, <2>2, <2>3, <2>5, <3>2, GateCardinality, <3>4 DEF Gate!Admit
  <2> QED BY <2>7, <2>8
<1>4. CASE ~(kind[t] = "exchange" \/ \A q \in Permits : owner'[q] = t)
  <2>1. pc' = pc
    BY <1>4 DEF TakePermit
  <2>2. pc' = [pc EXCEPT ![t] = "permit"] /\ PhaseOf("permit") = PhaseOf(pc[t])
    BY <1>2, <2>1
  <2> QED BY <1>2, <2>2, GateStutter DEF PC
<1> QED BY <1>3, <1>4

\* An exception in pacing: an exchange leaves, a tool owes a back-off.
LEMMA GateUnwind ==
    ASSUME Ownership, NEW t \in Threads, pc[t] \in {"paced", "asleep", "commit"}, NEW why,
           Unwind(t, why), UNCHANGED <<kind, rejection, slotIn>>
    PROVE  Gate!Refuse(t)
<1> USE DEF Ownership, TypeOK
<1>1. phase[t] \in {"admitted", "slotted"} /\ pc[t] \in Granted
  BY PhaseIs DEF PhaseOf, Granted
<1>2. CASE kind[t] = "tool"
  <2>1. pc' = [pc EXCEPT ![t] = "defer"]
    BY <1>2 DEF Unwind, Goto
  <2>2. Gate!Move(t, "owing") /\ solo' = solo
    BY <1>1, <2>1, GateMove DEF Granted, PhaseOf
  <2>3. solo = t
    BY <1>1, <1>2, SoloIs DEF SoloTools
  <2> QED BY <1>1, <2>2, <2>3 DEF Gate!Refuse
<1>3. CASE kind[t] = "exchange"
  <2>1. pc' = [pc EXCEPT ![t] = "release"]
    BY <1>3 DEF Unwind, Goto
  <2>2. solo # t
    BY <1>3, SoloIs DEF SoloTools
  <2>3. Gate!Move(t, "out") /\ solo' = solo
    BY <1>1, <2>1, <2>2, GateLeave
  <2> QED BY <1>1, <2>2, <2>3 DEF Gate!Refuse
<1> QED BY <1>2, <1>3

\* An exchange ends with a debt; a rejection already there stays.
LEMMA GateReply ==
    ASSUME Ownership, NEW t \in Threads, pc[t] = "flying", NEW to \in {"waking", "defer"},
           pc' = [pc EXCEPT ![t] = to], UNCHANGED <<kind, slotIn>>,
           rejection' \in IF rejection = None THEN {None} \cup RetryAfters ELSE {rejection}
    PROVE  Gate!Reply(t)
<1>1. phase[t] = "started"
  BY PhaseIs DEF PhaseOf
<1>2. Gate!Move(t, "owing") /\ solo' = solo
  BY GateMove DEF Granted, PhaseOf
<1> QED BY <1>1, <1>2 DEF Gate!Reply

LEMMA GateThread ==
    ASSUME Ownership, NEW t \in Threads, ThreadStep(t) \/ Interrupt(t)
    PROVE  Gate!Next \/ UNCHANGED Gate!vars
<1> SUFFICES \/ Gate!Admit(t) \/ Gate!Slot(t) \/ Gate!Start(t)
             \/ Gate!Reply(t) \/ Gate!Refuse(t) \/ Gate!BackOff(t)
             \/ UNCHANGED Gate!vars
  BY DEF Gate!Next
<1> USE DEF request, clocks, stop, Goto
<1>1. CASE TakeExclusiveLock(t) \/ TakeGate(t)
  BY <1>1, GateStutter DEF TakeExclusiveLock, TakeGate, PhaseOf, PC
<1>2. CASE TakePermit(t)
  BY <1>2, GateAdmit
<1>3. CASE ReleasePermit(t)
  <2>1. pc[t] = "release" /\ UNCHANGED <<pc, kind, rejection, slotIn>>
    BY <1>3 DEF ReleasePermit
  <2>2. pc' = [pc EXCEPT ![t] = "release"]
    BY <2>1 DEF Ownership, TypeOK
  <2> QED BY <2>1, <2>2, GateStutter DEF PC
<1>4. CASE Leave(t)
  BY <1>4, GateStutter DEF Leave, PhaseOf, PC
<1>5. CASE CheckAvailable(t)
  <2>1. pc[t] = "paced" /\ UNCHANGED <<kind, rejection, slotIn>>
    BY <1>5 DEF CheckAvailable
  <2>2. CASE Refusals(handleOf[t]) = {}
    <3>1. pc' = [pc EXCEPT ![t] = "slot"]
      BY <1>5, <2>2 DEF CheckAvailable
    <3> QED BY <2>1, <3>1, GateStutter DEF PC, Granted, PhaseOf
  <2>3. CASE Refusals(handleOf[t]) # {}
    <3>1. PICK why \in Refusals(handleOf[t]) : Unwind(t, why)
      BY <1>5, <2>3 DEF CheckAvailable
    <3> QED BY <2>1, <3>1, GateUnwind
  <2> QED BY <2>2, <2>3
<1>6. CASE ReserveSlot(t)
  <2>1. /\ pc[t] = "slot" /\ slotIn = 0 /\ pc' = [pc EXCEPT ![t] = "commit"]
        /\ slotIn' = Interval /\ UNCHANGED <<kind, rejection>>
    BY <1>6 DEF ReserveSlot
  <2>2. phase[t] = "admitted"
    BY <2>1, PhaseIs DEF PhaseOf
  <2>3. Gate!Move(t, "slotted") /\ solo' = solo
    BY <2>1, GateMove DEF Granted, PhaseOf
  <2> QED BY <2>1, <2>2, <2>3 DEF Gate!Slot
<1>7. CASE Sleep(t)
  BY <1>7, GateStutter DEF Sleep, PhaseOf, PC, Granted
<1>8. CASE Wake(t)
  BY <1>8, GateStutter DEF Wake, PhaseOf, PC, Granted
<1>9. CASE CommitAttempt(t)
  <2>1. pc[t] = "commit" /\ UNCHANGED <<kind, rejection, slotIn>>
    BY <1>9 DEF CommitAttempt
  <2>2. CASE \E why : Unwind(t, why)
    BY <2>1, <2>2, GateUnwind
  <2>3. CASE ~\E why : Unwind(t, why)
    <3>1. rejection = None /\ pc' = [pc EXCEPT ![t] = "started"]
      BY <1>9, <2>3 DEF CommitAttempt
    <3>2. phase[t] = "slotted"
      BY <2>1, PhaseIs DEF PhaseOf
    <3>3. Gate!Move(t, "started") /\ solo' = solo
      BY <2>1, <3>1, GateMove DEF Granted, PhaseOf
    <3> QED BY <2>1, <3>1, <3>2, <3>3 DEF Gate!Start
  <2> QED BY <2>2, <2>3
<1>10. CASE DeferNextStart(t)
  <2>1. /\ pc[t] = "defer" /\ pc' = [pc EXCEPT ![t] = "release"]
        /\ slotIn' = Interval /\ UNCHANGED <<kind, rejection>>
    BY <1>10 DEF DeferNextStart
  <2>2. phase[t] = "owing"
    BY <2>1, PhaseIs DEF PhaseOf
  <2>3. Gate!Move(t, "out") /\ solo' = IF solo = t THEN None ELSE solo
    BY <2>1, GateLeave DEF Granted
  <2> QED BY <2>1, <2>2, <2>3 DEF Gate!BackOff
<1>11. CASE Send(t)
  BY <1>11, GateStutter DEF Send, PhaseOf, PC, Granted
<1>12. CASE Answer(t)
  BY <1>12, GateReply DEF Answer, Ownership, TypeOK
<1>13. CASE \E ra \in RetryAfters : AnswerRejected(t, ra)
  BY <1>13, GateReply DEF AnswerRejected, Ownership, TypeOK
<1>14. CASE \E h \in Handles : SetWakeEvent(t, h)
  <2>1. pc[t] = "waking" /\ UNCHANGED <<pc, kind, rejection, slotIn>>
    BY <1>14 DEF SetWakeEvent
  <2>2. pc' = [pc EXCEPT ![t] = "waking"]
    BY <2>1 DEF Ownership, TypeOK
  <2> QED BY <2>1, <2>2, GateStutter DEF PC, Granted
<1>15. CASE FinishWaking(t)
  BY <1>15, GateStutter DEF FinishWaking, PhaseOf, PC, Granted
<1>16. CASE Interrupt(t)
  <2>1. UNCHANGED <<kind, rejection, slotIn>>
    BY <1>16 DEF Interrupt
  <2>2. CASE pc[t] \in {"exclusive", "gate", "permit"}
    <3>1. pc' = [pc EXCEPT ![t] = "release"]
      BY <1>16, <2>2 DEF Interrupt
    <3> QED BY <2>1, <2>2, <3>1, GateStutter DEF PhaseOf, PC
  <2>3. CASE pc[t] = "asleep"
    BY <1>16, <2>1, <2>3, GateUnwind DEF Interrupt
  <2>4. CASE pc[t] = "flying"
    <3>1. pc' = [pc EXCEPT ![t] = "defer"]
      BY <1>16, <2>4 DEF Interrupt
    <3> QED BY <2>1, <2>4, <3>1, GateReply DEF Ownership, TypeOK
  <2> QED BY <1>16, <2>2, <2>3, <2>4 DEF Interrupt
<1> QED BY <1>1, <1>2, <1>3, <1>4, <1>5, <1>6, <1>7, <1>8, <1>9, <1>10, <1>11, <1>12,
           <1>13, <1>14, <1>15, <1>16 DEF ThreadStep

\* A request begins outside the gate, whatever kind it becomes.
LEMMA GateBegin ==
    ASSUME Ownership, NEW t \in Threads, NEW h \in Usable, NEW k \in {"exchange", "tool"},
           Begin(t, h, k)
    PROVE  UNCHANGED Gate!vars
<1>1. /\ pc[t] = "idle" /\ UNCHANGED <<rejection, slotIn>>
      /\ \E to \in {"idle", "exclusive", "gate"} : pc' = [pc EXCEPT ![t] = to]
      /\ \A u \in Threads : u # t => kind'[u] = kind[u]
  BY DEF Begin, Goto, clocks, stop, Ownership, TypeOK
<1> QED BY <1>1, GateStutter DEF PhaseOf, PC, Granted

\* Steps that change neither a place, a kind, the rejection nor the limiter.
LEMMA GateStill ==
    ASSUME UNCHANGED <<pc, kind, rejection, slotIn>>
    PROVE  UNCHANGED Gate!vars
<1>1. phase' = phase
  BY DEF phase
<1>2. SoloTools' = SoloTools
  BY DEF SoloTools
<1> QED BY <1>1, <1>2, SoloKept DEF Gate!vars

\* The runtime keeps the promise of RequestGate: locks, events and sleeps
\* neither let a start through early, twice, or after a rejection.
THEOREM KeepsTheGate == Spec => GateSpec
<1>1. Init => Gate!Init
  <2> SUFFICES ASSUME Init PROVE Gate!Init
    OBVIOUS
  <2>1. phase = [t \in Threads |-> "out"]
    BY PhaseIs DEF Init, PhaseOf
  <2>2. solo = None
    BY DEF Init, SoloTools, solo
  <2> QED BY <2>1, <2>2 DEF Init, Gate!Init
<1>2. Ownership /\ [Next]_vars => [Gate!Next]_(Gate!vars)
  <2> SUFFICES ASSUME Ownership, [Next]_vars PROVE Gate!Next \/ UNCHANGED Gate!vars
    OBVIOUS
  <2>1. CASE UNCHANGED vars \/ Done
    BY <2>1, GateStill DEF vars, Done, request, clocks, stop
  <2>2. CASE \E h \in Handles : HandleStep(h) \/ BuildHandle(h) \/ RegisterHandle(h) \/ Close(h)
    BY <2>2, GateStill DEF HandleStep, BuildHandle, RegisterHandle, Close, SetLateEvent,
       SignalClosed, UnregisterHandle, request, clocks, stop
  <2>3. CASE Tick
    <3>1. UNCHANGED <<pc, kind, rejection>> /\ slotIn' = Sooner(slotIn) /\ slotIn \in Nat
      BY <2>3, AssumptionsHold DEF Tick, request, stop, Ownership, TypeOK, Assumptions
    <3>2. CASE slotIn = 0
      BY <3>1, <3>2, GateStill DEF Sooner
    <3>3. CASE slotIn > 0
      <4>1. phase' = phase
        BY <3>1 DEF phase
      <4>2. SoloTools' = SoloTools
        BY <3>1 DEF SoloTools
      <4>3. solo' = solo
        BY <4>2, SoloKept
      <4> QED BY <3>1, <3>3, <4>1, <4>3 DEF Sooner, Gate!Tick, Gate!Next
    <3> QED BY <3>1, <3>2, <3>3
  <2> QED BY <2>1, <2>2, <2>3, GateThread, GateBegin DEF Next
<1> QED BY <1>1, <1>2, OwnershipInvariant, PTL DEF Spec, GateSpec, Gate!Spec
=============================================================================
