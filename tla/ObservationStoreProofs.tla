----------------------- MODULE ObservationStoreProofs -----------------------
(* Theorems about ObservationStore for every plan, bodies, allowances,      *)
(* number of hops and artefacts, and any number of failing calls and        *)
(* crashes: what is on disk, what an index lists and how a run ends, and,   *)
(* by sums over finite sets, that both allowances are kept.                 *)
EXTENDS ObservationStore, FiniteSetTheorems, WellFoundedInduction, TLAPS

\* The ASSUMEs of ObservationStore as one fact, for the leaves.
Assumptions ==
    /\ BodyMaximum \in Nat /\ BodySize \in [Bodies -> 0..BodyMaximum]
    /\ Hops \in Nat /\ RecordMaximum \in Nat /\ IndexMaximum \in Nat
    /\ Artefacts \in Nat \ {0, 1}
    /\ None \notin Bodies \cup Candidates /\ None \notin States
    /\ None \notin RecordFiles /\ None \notin IndexFiles /\ None \notin StagedFiles

\* The assumptions are those of ObservationStore.
LEMMA AssumptionsHold == Assumptions
BY SizeAssumption, NoneAssumption DEF Assumptions

Files == {None} \cup RecordFiles

\* What is left of a sequence once its head is taken.
LEMMA HeadAndTail ==
    ASSUME NEW X, NEW s \in Seq(X), s # <<>>
    PROVE  /\ Head(s) \in X /\ Tail(s) \in Seq(X)
           /\ Len(s) \in Nat \ {0} /\ Len(Tail(s)) = Len(s) - 1
OBVIOUS

\* The exchanges of a request are a short sequence.
LEMMA ExchangesAreShort ==
    ASSUME NEW exchanges \in Exchanges
    PROVE  exchanges \in Seq(Bodies \cup {None}) /\ Len(exchanges) <= Hops + 1
<1>1. PICK n \in 0..(Hops + 1) : exchanges \in [1..n -> Bodies \cup {None}]
  BY DEF Exchanges
<1> QED BY <1>1, AssumptionsHold DEF Assumptions

----------------------------------------------------------------------------
(* The recorder and its reservations.                                         *)

StagedAs(what) == staged # None /\ staged.what = what

\* Where the recorder is says what it holds and what it is publishing: there
\* are always reservations for the exchanges still to be committed.
Flow ==
    /\ pc \in {"requesting", "committing", "recording"} => candidate \in Candidates
    /\ pc \notin {"requesting", "committing", "recording"} =>
          held = 0 /\ received = <<>> /\ refs = {} /\ candidate = None
    /\ pc = "requesting" => held = Hops + 1 /\ received = <<>> /\ refs = {}
    /\ pc = "committing" => Len(received) <= held + (IF staged = None THEN 0 ELSE 1)
    /\ pc = "recording" => held = 0
    /\ held + (IF StagedAs("body") THEN 1 ELSE 0) <= reserved
    /\ StagedAs("body") =>
          pc = "committing" /\ received # <<>> /\ Head(received) \in Bodies
    /\ StagedAs("record") => pc = "recording" /\ staged.size \in 1..RecordMaximum
    /\ StagedAs("index") => pc = "sealing" /\ staged.state \in States
    /\ pc = "sealing" => StagedAs("index")
    /\ pc \in Collecting \cup {"closing"} => outputs = 0
    /\ pc = "publishing" => outputs < Artefacts

TypeFlow == TypeOK /\ Flow

\* Both hold at the start.
LEMMA TypeFlowInit == Init => TypeFlow
<1> SUFFICES ASSUME Init PROVE TypeFlow
  OBVIOUS
<1> USE AssumptionsHold DEF Assumptions, Init
<1>1. TypeOK
  <2>1. <<>> \in Seq(Bodies \cup {None})
    OBVIOUS
  <2>2. [c \in Candidates |-> None] \in [Candidates -> {None} \cup RecordFiles]
    OBVIOUS
  <2>3. 0 \in 0..(Hops + 1) /\ 0 \in 0..Artefacts
    OBVIOUS
  <2>4. pc \in Places
    BY DEF Places, Collecting
  <2>5. bodies \subseteq Bodies /\ knownBodies \subseteq Bodies /\ refs \subseteq Bodies
    OBVIOUS
  <2>6. records \in [Candidates -> {None} \cup RecordFiles]
    BY <2>2
  <2>7. knownRecords \in [Candidates -> {None} \cup RecordFiles]
    BY <2>2
  <2>8. received \in Seq(Bodies \cup {None})
    BY <2>1
  <2>9. held \in 0..(Hops + 1) /\ reserved \in Nat /\ held <= reserved
        /\ outputs \in 0..Artefacts
    OBVIOUS
  <2>10. index \in {None} \cup IndexFiles /\ staged \in {None} \cup StagedFiles
            /\ candidate \in Candidates \cup {None} /\ metadata \subseteq Candidates
    OBVIOUS
  <2>11. litter \in BOOLEAN /\ needsPartial \in BOOLEAN /\ failed \in BOOLEAN
    OBVIOUS
  <2>12. faults \in Nat /\ crashes \in Nat
    OBVIOUS
  <2> HIDE DEF Init, Assumptions
  <2> QED BY <2>4, <2>5, <2>6, <2>7, <2>8, <2>9, <2>10, <2>11, <2>12 DEF TypeOK
<1>2. Flow
  BY DEF Flow, StagedAs, Collecting
<1> QED BY <1>1, <1>2 DEF TypeFlow

\* While an exchange is to be committed, a reservation for it is in the list.
LEMMA Spare ==
    ASSUME TypeFlow, pc = "committing", received # <<>>
    PROVE  /\ Head(received) \in Bodies \cup {None}
           /\ Tail(received) \in Seq(Bodies \cup {None})
           /\ Len(received) \in Nat \ {0} /\ Len(Tail(received)) = Len(received) - 1
           /\ staged = None =>
                 held - 1 \in 0..(Hops + 1) /\ held - 1 <= reserved - 1 /\ reserved - 1 \in Nat
           /\ StagedAs("body") => reserved - 1 \in Nat /\ held <= reserved - 1
<1>1. received \in Seq(Bodies \cup {None}) /\ held \in 0..(Hops + 1) /\ reserved \in Nat
      /\ Hops \in Nat
  BY AssumptionsHold DEF Assumptions, TypeFlow, TypeOK
<1>2. /\ Head(received) \in Bodies \cup {None}
      /\ Tail(received) \in Seq(Bodies \cup {None})
      /\ Len(received) \in Nat \ {0} /\ Len(Tail(received)) = Len(received) - 1
  BY <1>1, HeadAndTail
<1>3. /\ Len(received) <= held + (IF staged = None THEN 0 ELSE 1)
      /\ held + (IF StagedAs("body") THEN 1 ELSE 0) <= reserved
      /\ held <= reserved
  BY DEF TypeFlow, Flow, TypeOK
<1>4. ASSUME staged = None
      PROVE  held - 1 \in 0..(Hops + 1) /\ held - 1 <= reserved - 1 /\ reserved - 1 \in Nat
  BY <1>1, <1>2, <1>3, <1>4
<1>5. ASSUME StagedAs("body") PROVE reserved - 1 \in Nat /\ held <= reserved - 1
  BY <1>1, <1>3, <1>5
<1> QED BY <1>2, <1>4, <1>5

\* TypeOK in parts that are small enough for a leaf.
FileTypes ==
    /\ bodies \subseteq Bodies /\ knownBodies \subseteq Bodies
    /\ records \in [Candidates -> Files] /\ knownRecords \in [Candidates -> Files]
    /\ index \in {None} \cup IndexFiles
    /\ outputs \in 0..Artefacts
WorkTypes ==
    /\ refs \subseteq Bodies
    /\ candidate \in Candidates \cup {None}
    /\ received \in Seq(Bodies \cup {None})
    /\ held \in 0..(Hops + 1) /\ reserved \in Nat /\ held <= reserved
    /\ metadata \subseteq Candidates
    /\ staged \in {None} \cup StagedFiles
FlagTypes ==
    /\ pc \in Places
    /\ litter \in BOOLEAN /\ needsPartial \in BOOLEAN /\ failed \in BOOLEAN
    /\ faults \in Nat /\ crashes \in Nat

\* The parts are the whole.
LEMMA TypeParts == TypeOK <=> FileTypes /\ WorkTypes /\ FlagTypes
BY DEF TypeOK, FileTypes, WorkTypes, FlagTypes, Files

\* What StageBody and Link make of the file on its way.
LEMMA BodyStaged ==
    ASSUME TypeFlow, StageBody
    PROVE  /\ Head(received) \in Bodies /\ Head(received) \notin bodies
           /\ staged' \in StagedFiles /\ staged' # None
           /\ staged'.what = "body" /\ staged'.linked = FALSE
<1>1. Head(received) \in Bodies /\ Head(received) \notin bodies
  BY Spare DEF StageBody
<1>2. BodySize[Head(received)] \in Nat
  BY <1>1, AssumptionsHold DEF Assumptions
<1>3. staged' = [what |-> "body", linked |-> FALSE, size |-> BodySize[Head(received)],
    state |-> None]
  BY DEF StageBody
<1>4. staged' \in StagedFiles
  BY <1>2, <1>3 DEF StagedFiles
<1> QED BY <1>1, <1>3, <1>4, AssumptionsHold DEF Assumptions

\* A link changes nothing of the file but that it is linked.
LEMMA FileLinked ==
    ASSUME TypeFlow, Link
    PROVE  /\ staged \in StagedFiles /\ staged # None /\ staged.linked = FALSE
           /\ staged' \in StagedFiles /\ staged' # None /\ staged'.linked = TRUE
           /\ staged'.what = staged.what /\ staged'.size = staged.size
           /\ staged'.state = staged.state
<1>1. staged \in StagedFiles /\ staged # None
  BY DEF Link, TypeFlow, TypeOK
<1> QED BY <1>1, AssumptionsHold DEF Link, Assumptions, StagedFiles

\* A disjunction is a Boolean, whatever its parts.
LEMMA OrIsBoolean == \A a, b : (a \/ b) \in BOOLEAN
OBVIOUS

\* A publication that is given up keeps the types and the flow.
LEMMA GiveKeeps ==
    ASSUME WorkTypes, FlagTypes, Flow, staged # None, staged' = None, outputs' = outputs,
           NEW up \in BOOLEAN, Give(up)
    PROVE  /\ WorkTypes' /\ Flow'
           /\ pc' \in Places /\ needsPartial' \in BOOLEAN /\ failed' \in BOOLEAN
<1> USE AssumptionsHold DEF Assumptions
<1>1. CASE staged.what = "index"
  <2>1. /\ pc' \in {"ready", "closing"} /\ failed' = TRUE
        /\ UNCHANGED <<reserved, metadata, candidate, held, received, refs, needsPartial>>
    BY <1>1 DEF Give, ledger, work
  <2>2. pc = "sealing"
    BY <1>1 DEF Flow, StagedAs
  <2>3. WorkTypes'
    BY <2>1 DEF WorkTypes
  <2>4. Flow'
    BY <2>1, <2>2 DEF Flow, StagedAs, WorkTypes, Collecting
  <2> QED BY <2>1, <2>3, <2>4 DEF FlagTypes, Places, Collecting
<1>2. CASE staged.what # "index"
  <2>1. /\ pc' = "ready" /\ failed' = TRUE
        /\ reserved' = reserved - held /\ held' = 0 /\ metadata' = metadata \ {candidate}
        /\ candidate' = None /\ received' = <<>> /\ refs' = {}
        /\ needsPartial' = (needsPartial \/ up)
    BY <1>2 DEF Give, Abort, ReleaseAll
  <2>2. needsPartial' \in BOOLEAN
    BY <2>1, OrIsBoolean, Zenon
  <2>3. pc \in {"committing", "recording"}
    BY <1>2 DEF Flow, StagedAs, WorkTypes, StagedFiles
  <2>4. WorkTypes'
    BY <2>1 DEF WorkTypes
  <2>5. Flow'
    BY <2>1, <2>3 DEF Flow, StagedAs, WorkTypes, Collecting
  <2> QED BY <2>1, <2>2, <2>4, <2>5 DEF Places, Collecting
<1> QED BY <1>1, <1>2

\* Every step keeps the types and the flow.
LEMMA TypeFlowNext ==
    ASSUME TypeFlow, [Next]_vars
    PROVE  TypeFlow'
<1>0. FileTypes /\ WorkTypes /\ FlagTypes /\ Flow
  BY TypeParts DEF TypeFlow
<1>p. ASSUME FileTypes', WorkTypes', FlagTypes', Flow' PROVE TypeFlow'
  BY <1>p, TypeParts, PTL DEF TypeFlow
<1> USE <1>0, AssumptionsHold DEF Assumptions, vars, disk, known, ledger, work, bounds
<1>1. CASE \E c \in Candidates : Reserve(c)
  <2>6. FileTypes'
    BY <1>1 DEF Reserve, FileTypes, Files
  <2>7. WorkTypes'
    BY <1>1 DEF Reserve, WorkTypes
  <2>8. FlagTypes'
    BY <1>1 DEF Reserve, FlagTypes, Places, Collecting
  <2>9. Flow'
    BY <1>1 DEF Reserve, Flow, StagedAs, WorkTypes, FileTypes, Collecting
  <2> QED BY <2>6, <2>7, <2>8, <2>9, <1>p
<1>2. CASE \E c \in Candidates : Exhausted(c)
  <2>6. FileTypes'
    BY <1>2 DEF Exhausted, FileTypes, Files
  <2>7. WorkTypes'
    BY <1>2 DEF Exhausted, WorkTypes
  <2>8. FlagTypes'
    BY <1>2 DEF Exhausted, FlagTypes, Places, Collecting
  <2>9. Flow'
    BY <1>2 DEF Exhausted, Flow, StagedAs, WorkTypes, FileTypes, Collecting
  <2> QED BY <2>6, <2>7, <2>8, <2>9, <1>p
<1>3. CASE RequestUnrecordable
  <2>6. FileTypes'
    BY <1>3 DEF RequestUnrecordable, ReleaseAll, FileTypes, Files
  <2>7. WorkTypes'
    BY <1>3 DEF RequestUnrecordable, ReleaseAll, WorkTypes
  <2>8. FlagTypes'
    BY <1>3 DEF RequestUnrecordable, ReleaseAll, FlagTypes, Places, Collecting
  <2>9. Flow'
    BY <1>3 DEF RequestUnrecordable, ReleaseAll, Flow, StagedAs, WorkTypes, FileTypes,
       Collecting
  <2> QED BY <2>6, <2>7, <2>8, <2>9, <1>p
<1>4. CASE \E exchanges \in Exchanges, stop \in BOOLEAN : RequestRecordable(exchanges, stop)
  <2>6. FileTypes'
    BY <1>4, ExchangesAreShort DEF RequestRecordable, FileTypes, Files
  <2>7. WorkTypes'
    BY <1>4, ExchangesAreShort DEF RequestRecordable, WorkTypes
  <2>8. FlagTypes'
    BY <1>4, ExchangesAreShort DEF RequestRecordable, FlagTypes, Places, Collecting
  <2>9. Flow'
    BY <1>4, ExchangesAreShort DEF RequestRecordable, Flow, StagedAs, WorkTypes, FileTypes,
       Collecting
  <2> QED BY <2>6, <2>7, <2>8, <2>9, <1>p
<1>5. CASE SkipBody
  <2>1. /\ Head(received) \in Bodies \cup {None}
        /\ Tail(received) \in Seq(Bodies \cup {None})
        /\ Len(received) \in Nat \ {0} /\ Len(Tail(received)) = Len(received) - 1
        /\ held - 1 \in 0..(Hops + 1) /\ held - 1 <= reserved - 1 /\ reserved - 1 \in Nat
    BY <1>5, Spare DEF SkipBody
  <2>2. pc = "committing" /\ staged = None /\ Len(Tail(received)) <= held - 1
        /\ candidate \in Candidates
    <3>1. pc = "committing" /\ staged = None
      BY <1>5 DEF SkipBody
    <3> QED BY <3>1, <2>1 DEF Flow, WorkTypes
  <2>6. FileTypes'
    BY <1>5, <2>1, <2>2 DEF SkipBody, FileTypes, Files
  <2>7. WorkTypes'
    BY <1>5, <2>1, <2>2 DEF SkipBody, WorkTypes
  <2>8. FlagTypes'
    BY <1>5, <2>1, <2>2 DEF SkipBody, FlagTypes, Places, Collecting
  <2>9. Flow'
    <3>1. /\ pc' = pc /\ staged' = staged /\ held' = held - 1 /\ reserved' = reserved - 1
          /\ received' = Tail(received) /\ candidate' = candidate /\ outputs' = outputs
      BY <1>5 DEF SkipBody
    <3>2. ~StagedAs("body")' /\ ~StagedAs("record")' /\ ~StagedAs("index")' /\ staged' = None
      BY <3>1, <2>2 DEF StagedAs
    <3>3. pc' = "committing" /\ candidate' \in Candidates /\ outputs' = 0
      BY <3>1, <2>2 DEF Flow, Collecting
    <3>4. Len(received') <= held' /\ held' <= reserved' /\ held' \in Nat
      <4>1. held' = held - 1 /\ reserved' = reserved - 1 /\ received' = Tail(received)
        BY <3>1
      <4>2. held - 1 \in 0..(Hops + 1) /\ held - 1 <= reserved - 1
            /\ Len(Tail(received)) <= held - 1
        BY <2>1, <2>2
      <4> QED BY <4>1, <4>2
    <3> QED BY <3>2, <3>3, <3>4 DEF Flow, Collecting
  <2> QED BY <2>6, <2>7, <2>8, <2>9, <1>p
<1>6. CASE ReuseBody
  <2>1. /\ Head(received) \in Bodies \cup {None}
        /\ Tail(received) \in Seq(Bodies \cup {None})
        /\ Len(received) \in Nat \ {0} /\ Len(Tail(received)) = Len(received) - 1
        /\ held - 1 \in 0..(Hops + 1) /\ held - 1 <= reserved - 1 /\ reserved - 1 \in Nat
    BY <1>6, Spare DEF ReuseBody
  <2>2. pc = "committing" /\ staged = None /\ Len(Tail(received)) <= held - 1
        /\ candidate \in Candidates
    <3>1. pc = "committing" /\ staged = None
      BY <1>6 DEF ReuseBody
    <3> QED BY <3>1, <2>1 DEF Flow, WorkTypes
  <2>6. FileTypes'
    BY <1>6, <2>1, <2>2 DEF ReuseBody, FileTypes, Files
  <2>7. WorkTypes'
    BY <1>6, <2>1, <2>2 DEF ReuseBody, WorkTypes, FileTypes
  <2>8. FlagTypes'
    BY <1>6, <2>1, <2>2 DEF ReuseBody, FlagTypes, Places, Collecting
  <2>9. Flow'
    <3>1. /\ pc' = pc /\ staged' = staged /\ held' = held - 1 /\ reserved' = reserved - 1
          /\ received' = Tail(received) /\ candidate' = candidate /\ outputs' = outputs
      BY <1>6 DEF ReuseBody
    <3>2. ~StagedAs("body")' /\ ~StagedAs("record")' /\ ~StagedAs("index")' /\ staged' = None
      BY <3>1, <2>2 DEF StagedAs
    <3>3. pc' = "committing" /\ candidate' \in Candidates /\ outputs' = 0
      BY <3>1, <2>2 DEF Flow, Collecting
    <3>4. Len(received') <= held' /\ held' <= reserved' /\ held' \in Nat
      <4>1. held' = held - 1 /\ reserved' = reserved - 1 /\ received' = Tail(received)
        BY <3>1
      <4>2. held - 1 \in 0..(Hops + 1) /\ held - 1 <= reserved - 1
            /\ Len(Tail(received)) <= held - 1
        BY <2>1, <2>2
      <4> QED BY <4>1, <4>2
    <3> QED BY <3>2, <3>3, <3>4 DEF Flow, Collecting
  <2> QED BY <2>6, <2>7, <2>8, <2>9, <1>p
<1>7. CASE FailReuse
  <2>1. /\ Head(received) \in Bodies \cup {None}
        /\ Tail(received) \in Seq(Bodies \cup {None})
        /\ Len(received) \in Nat \ {0} /\ Len(Tail(received)) = Len(received) - 1
        /\ held - 1 \in 0..(Hops + 1) /\ held - 1 <= reserved - 1 /\ reserved - 1 \in Nat
    BY <1>7, Spare DEF FailReuse
  <2>2. pc = "committing" /\ staged = None /\ Len(Tail(received)) <= held - 1
        /\ candidate \in Candidates
    <3>1. pc = "committing" /\ staged = None
      BY <1>7 DEF FailReuse
    <3> QED BY <3>1, <2>1 DEF Flow, WorkTypes
  <2>6. FileTypes'
    BY <1>7, <2>1, <2>2 DEF FailReuse, FileTypes, Files
  <2>7. WorkTypes'
    BY <1>7, <2>1, <2>2 DEF FailReuse, WorkTypes
  <2>8. FlagTypes'
    BY <1>7, <2>1, <2>2 DEF FailReuse, FlagTypes, Places, Collecting
  <2>9. Flow'
    BY <1>7, <2>1, <2>2 DEF FailReuse, Flow, StagedAs, WorkTypes, FileTypes, Collecting
  <2> QED BY <2>6, <2>7, <2>8, <2>9, <1>p
<1>8. CASE StageBody
  <2>1. /\ Head(received) \in Bodies \cup {None}
        /\ Tail(received) \in Seq(Bodies \cup {None})
        /\ Len(received) \in Nat \ {0} /\ Len(Tail(received)) = Len(received) - 1
        /\ held - 1 \in 0..(Hops + 1) /\ held - 1 <= reserved - 1 /\ reserved - 1 \in Nat
    BY <1>8, Spare DEF StageBody
  <2>3. Head(received) \in Bodies /\ staged' \in StagedFiles /\ staged' # None
        /\ staged'.what = "body"
    BY <1>8, BodyStaged
  <2>6. FileTypes'
    BY <1>8, <2>1, <2>3 DEF StageBody, FileTypes, Files
  <2>7. WorkTypes'
    BY <1>8, <2>1, <2>3 DEF StageBody, WorkTypes
  <2>8. FlagTypes'
    BY <1>8, <2>1, <2>3 DEF StageBody, FlagTypes, Places, Collecting
  <2>9. Flow'
    BY <1>8, <2>1, <2>3 DEF StageBody, Flow, StagedAs, WorkTypes, FileTypes, Collecting
  <2> QED BY <2>6, <2>7, <2>8, <2>9, <1>p
<1>9. CASE Link
  <2>3. /\ staged' \in StagedFiles /\ staged' # None /\ staged # None
        /\ staged'.what = staged.what
        /\ staged'.size = staged.size /\ staged'.state = staged.state
    BY <1>9, FileLinked
  <2>6. FileTypes'
    <3>1. CASE staged.what = "body"
      BY <1>9, <3>1, <2>3 DEF Link, Flow, StagedAs, FileTypes, Files
    <3>2. CASE staged.what = "record"
      <4>1. [refs |-> refs, size |-> staged.size] \in RecordFiles
        BY <3>2, <2>3 DEF RecordFiles, Flow, StagedAs, WorkTypes
      <4> QED BY <1>9, <3>2, <4>1 DEF Link, FileTypes, Files
    <3>3. CASE staged.what = "index"
      <4>1. [state |-> staged.state, bodies |-> knownBodies,
          records |-> knownRecords] \in IndexFiles
        BY <3>3, <2>3 DEF IndexFiles, Flow, StagedAs, FileTypes, Files
      <4> QED BY <1>9, <3>3, <4>1 DEF Link, FileTypes, Files
    <3> QED BY <2>3, <3>1, <3>2, <3>3 DEF StagedFiles, WorkTypes
  <2>7. WorkTypes'
    BY <1>9, <2>3 DEF Link, WorkTypes
  <2>8. FlagTypes'
    BY <1>9, <2>3 DEF Link, FlagTypes, Places, Collecting
  <2>9. Flow'
    BY <1>9, <2>3 DEF Link, Flow, StagedAs, WorkTypes, Collecting
  <2> QED BY <2>6, <2>7, <2>8, <2>9, <1>p
<1>10. CASE UnstageBody
  <2>1. /\ Head(received) \in Bodies /\ pc = "committing" /\ staged # None
        /\ candidate \in Candidates
        /\ Tail(received) \in Seq(Bodies \cup {None})
        /\ Len(Tail(received)) <= held /\ reserved - 1 \in Nat /\ held <= reserved - 1
    <3>1. staged # None /\ StagedAs("body")
      BY <1>10 DEF UnstageBody, StagedAs
    <3>2. /\ Head(received) \in Bodies /\ pc = "committing" /\ received # <<>>
          /\ candidate \in Candidates
          /\ Len(received) <= held + 1
      BY <3>1 DEF Flow, WorkTypes
    <3>3. /\ Tail(received) \in Seq(Bodies \cup {None})
          /\ Len(received) \in Nat \ {0} /\ Len(Tail(received)) = Len(received) - 1
          /\ reserved - 1 \in Nat /\ held <= reserved - 1
      BY <3>1, <3>2, Spare
    <3> QED BY <3>1, <3>2, <3>3 DEF WorkTypes
  <2>6. FileTypes'
    BY <1>10, <2>1 DEF UnstageBody, FileTypes, Files
  <2>7. WorkTypes'
    BY <1>10, <2>1 DEF UnstageBody, WorkTypes
  <2>8. FlagTypes'
    BY <1>10, <2>1 DEF UnstageBody, FlagTypes, Places, Collecting
  <2>9. Flow'
    <3>1. /\ staged' = None /\ received' = Tail(received) /\ reserved' = reserved - 1
          /\ UNCHANGED <<pc, candidate, held, outputs>>
      BY <1>10 DEF UnstageBody
    <3>2. pc' = "committing" /\ outputs' = 0 /\ held \in Nat
      BY <2>1, <3>1 DEF Flow, WorkTypes, Collecting
    <3> QED BY <2>1, <3>1, <3>2 DEF Flow, StagedAs, Collecting
  <2> QED BY <2>6, <2>7, <2>8, <2>9, <1>p
<1>11. CASE \E size \in 1..RecordMaximum : StageRecord(size)
  <2>6. FileTypes'
    BY <1>11 DEF StageRecord, StagedFiles, FileTypes, Files
  <2>7. WorkTypes'
    BY <1>11 DEF StageRecord, StagedFiles, WorkTypes
  <2>8. FlagTypes'
    BY <1>11 DEF StageRecord, StagedFiles, FlagTypes, Places, Collecting
  <2>9. Flow'
    BY <1>11 DEF StageRecord, StagedFiles, Flow, StagedAs, WorkTypes, FileTypes, Collecting
  <2> QED BY <2>6, <2>7, <2>8, <2>9, <1>p
<1>12. CASE UnstageRecord
  <2>6. FileTypes'
    BY <1>12 DEF UnstageRecord, ReleaseAll, FileTypes, Files
  <2>7. WorkTypes'
    BY <1>12 DEF UnstageRecord, ReleaseAll, WorkTypes
  <2>8. FlagTypes'
    BY <1>12 DEF UnstageRecord, ReleaseAll, FlagTypes, Places, Collecting
  <2>9. Flow'
    BY <1>12 DEF UnstageRecord, ReleaseAll, Flow, StagedAs, WorkTypes, FileTypes, Collecting
  <2> QED BY <2>6, <2>7, <2>8, <2>9, <1>p
<1>13. CASE UnstageIndex
  <2>6. FileTypes'
    BY <1>13 DEF UnstageIndex, FileTypes, Files
  <2>7. WorkTypes'
    BY <1>13 DEF UnstageIndex, WorkTypes
  <2>8. FlagTypes'
    BY <1>13 DEF UnstageIndex, FlagTypes, Places, Collecting
  <2>9. Flow'
    BY <1>13 DEF UnstageIndex, Flow, StagedAs, WorkTypes, FileTypes, Collecting
  <2> QED BY <2>6, <2>7, <2>8, <2>9, <1>p
<1>14. CASE FailStaged
  <2>1. staged # None /\ staged' = None /\ outputs' = outputs /\ Give(TRUE)
    BY <1>14 DEF FailStaged
  <2>2. /\ WorkTypes' /\ Flow'
        /\ pc' \in Places /\ needsPartial' \in BOOLEAN /\ failed' \in BOOLEAN
    BY <2>1, GiveKeeps
  <2>6. FileTypes'
    BY <1>14 DEF FailStaged, FileTypes, Files
  <2>8. FlagTypes'
    BY <1>14, <2>2 DEF FailStaged, FlagTypes
  <2> QED BY <2>2, <2>6, <2>8, <1>p
<1>15. CASE FailLinked
  <2>1. staged # None /\ staged' = None /\ outputs' = outputs /\ Give(TRUE)
    BY <1>15 DEF FailLinked
  <2>2. /\ WorkTypes' /\ Flow'
        /\ pc' \in Places /\ needsPartial' \in BOOLEAN /\ failed' \in BOOLEAN
    BY <2>1, GiveKeeps
  <2>6. FileTypes'
    BY <1>15 DEF FailLinked, FileTypes, Files
  <2>8. FlagTypes'
    BY <1>15, <2>2 DEF FailLinked, FlagTypes
  <2> QED BY <2>2, <2>6, <2>8, <1>p
<1>16. CASE FailVerified
  <2>1. staged # None /\ staged' = None /\ outputs' = outputs /\ \E up \in BOOLEAN : Give(up)
    <3>1. (staged.what = "body") \in BOOLEAN
      OBVIOUS
    <3> QED BY <1>16, <3>1, Zenon DEF FailVerified, disk
  <2>2. /\ WorkTypes' /\ Flow'
        /\ pc' \in Places /\ needsPartial' \in BOOLEAN /\ failed' \in BOOLEAN
    BY <2>1, GiveKeeps
  <2>6. FileTypes'
    BY <1>16 DEF FailVerified, FileTypes, Files
  <2>8. FlagTypes'
    BY <1>16, <2>2 DEF FailVerified, FlagTypes
  <2> QED BY <2>2, <2>6, <2>8, <1>p
<1>17. CASE Seal
  <2>3. \/ staged' = staged /\ pc' \in {"closing", "ready"}
        \/ staged' \in StagedFiles /\ staged' # None /\ staged'.what = "index"
            /\ staged'.state \in States /\ pc' = "sealing"
    <3>1. \A st \in States : [what |-> "index", linked |-> FALSE, size |-> IndexMaximum,
        state |-> st] \in StagedFiles
      BY DEF StagedFiles
    <3>2. (IF failed THEN "partial" ELSE "complete") \in States
      BY DEF States
    <3> QED BY <1>17, <3>1, <3>2 DEF Seal
  <2>6. FileTypes'
    BY <1>17, <2>3 DEF Seal, FileTypes, Files
  <2>7. WorkTypes'
    BY <1>17, <2>3 DEF Seal, WorkTypes
  <2>8. FlagTypes'
    BY <1>17, <2>3 DEF Seal, FlagTypes, Places, Collecting
  <2>9. Flow'
    BY <1>17, <2>3 DEF Seal, Flow, StagedAs, WorkTypes, FileTypes, Collecting
  <2> QED BY <2>6, <2>7, <2>8, <2>9, <1>p
<1>18. CASE PublishOutput
  <2>6. FileTypes'
    BY <1>18 DEF PublishOutput, FileTypes, Files, Flow, Collecting
  <2>7. WorkTypes'
    BY <1>18 DEF PublishOutput, WorkTypes
  <2>8. FlagTypes'
    BY <1>18 DEF PublishOutput, FlagTypes, Places, Collecting
  <2>9. Flow'
    BY <1>18 DEF PublishOutput, Flow, StagedAs, WorkTypes, FileTypes, Collecting
  <2> QED BY <2>6, <2>7, <2>8, <2>9, <1>p
<1>19. CASE FailOutput
  <2>6. FileTypes'
    BY <1>19 DEF FailOutput, FileTypes, Files
  <2>7. WorkTypes'
    BY <1>19 DEF FailOutput, WorkTypes
  <2>8. FlagTypes'
    BY <1>19 DEF FailOutput, FlagTypes, Places, Collecting
  <2>9. Flow'
    BY <1>19 DEF FailOutput, Flow, StagedAs, WorkTypes, FileTypes, Collecting
  <2> QED BY <2>6, <2>7, <2>8, <2>9, <1>p
<1>20. CASE Crash
  <2>1. litter' \in BOOLEAN
    <3>1. litter' = (litter \/ staged # None)
      BY <1>20 DEF Crash
    <3> QED BY <3>1, OrIsBoolean, Zenon
  <2>2. /\ pc' = "down" /\ needsPartial' = FALSE /\ failed' = FALSE
        /\ crashes' = crashes + 1 /\ faults' = faults
    BY <1>20 DEF Crash
  <2>6. FileTypes'
    BY <1>20 DEF Crash, FileTypes, Files
  <2>7. WorkTypes'
    BY <1>20 DEF Crash, WorkTypes
  <2>8. FlagTypes'
    <3>1. pc' \in Places
      BY <2>2 DEF Places
    <3>2. faults' \in Nat /\ crashes' \in Nat
      BY <2>2 DEF FlagTypes
    <3> QED BY <2>1, <2>2, <3>1, <3>2 DEF FlagTypes
  <2>9. Flow'
    BY <1>20 DEF Crash, Flow, StagedAs, Collecting
  <2> QED BY <2>6, <2>7, <2>8, <2>9, <1>p
<1>21. CASE Reopen
  <2>6. FileTypes'
    BY <1>21 DEF Reopen, OpenStore, FileTypes, Files
  <2>7. WorkTypes'
    BY <1>21 DEF Reopen, OpenStore, WorkTypes
  <2>8. FlagTypes'
    BY <1>21 DEF Reopen, OpenStore, FlagTypes, Places, Collecting
  <2>9. Flow'
    BY <1>21 DEF Reopen, OpenStore, Flow, StagedAs, WorkTypes, FileTypes, Collecting
  <2> QED BY <2>6, <2>7, <2>8, <2>9, <1>p
<1>22. CASE Rest
  <2>6. FileTypes'
    BY <1>22 DEF Rest, FileTypes, Files
  <2>7. WorkTypes'
    BY <1>22 DEF Rest, WorkTypes
  <2>8. FlagTypes'
    BY <1>22 DEF Rest, FlagTypes, Places, Collecting
  <2>9. Flow'
    BY <1>22 DEF Rest, Flow, StagedAs, WorkTypes, FileTypes, Collecting
  <2> QED BY <2>6, <2>7, <2>8, <2>9, <1>p
<1>23. CASE UNCHANGED vars
  <2>6. FileTypes'
    BY <1>23 DEF vars, FileTypes, Files
  <2>7. WorkTypes'
    BY <1>23 DEF vars, WorkTypes
  <2>8. FlagTypes'
    BY <1>23 DEF vars, FlagTypes, Places, Collecting
  <2>9. Flow'
    BY <1>23 DEF vars, Flow, StagedAs, WorkTypes, FileTypes, Collecting
  <2> QED BY <2>6, <2>7, <2>8, <2>9, <1>p
<1> QED BY <1>1, <1>2, <1>3, <1>4, <1>5, <1>6, <1>7, <1>8, <1>9, <1>10, <1>11, <1>12, <1>13,
    <1>14, <1>15, <1>16, <1>17, <1>18, <1>19, <1>20, <1>21, <1>22, <1>23 DEF Next

----------------------------------------------------------------------------
(* What is on disk.                                                           *)

\* Bodies go to disk before what refers to them, and the body being published
\* is one that nothing refers to, so that taking it back breaks no record.
Backed ==
    /\ knownBodies \subseteq bodies /\ refs \subseteq bodies
    /\ \A c \in Candidates : records[c] # None => records[c].refs \subseteq bodies
    /\ StagedAs("body") =>
          /\ Head(received) \in bodies <=> staged.linked
          /\ Head(received) \notin knownBodies \cup refs
          /\ \A c \in Candidates : records[c] # None => Head(received) \notin records[c].refs

\* An index is written while nothing else is, from a memory that the disk
\* agrees with, and more than a baseline goes with a complete one only.
Complete == index # None /\ index.state = "complete"
Sealed ==
    /\ pc \in {"requesting", "committing", "recording"} => index = None
    /\ pc = "sealing" =>
          /\ bodies = knownBodies /\ records = knownRecords
          /\ staged.state = "complete" =>
                Referenced(records) = bodies /\ \A c \in Candidates : records[c] # None
          /\ IF staged.linked THEN index # None /\ index.state = staged.state ELSE index = None
    /\ IndexIsExact
    /\ pc = "publishing" \/ outputs > 1 => Complete

\* As long as no call has failed, every reservation belongs to the candidate
\* at work, memory and disk agree but for the file that is being published,
\* and a run ends with an index.
LedgerClean ==
    faults = 0 =>
        /\ reserved = held + (IF StagedAs("body") THEN 1 ELSE 0)
        /\ metadata = IF pc \in {"requesting", "committing",
            "recording"} THEN {candidate} ELSE {}
DiskClean ==
    faults = 0 /\ pc # "down" =>
        /\ bodies = knownBodies \cup
              (IF StagedAs("body") /\ staged.linked THEN {Head(received)} ELSE {})
        /\ \A c \in Candidates :
              records[c] = knownRecords[c] \/ (StagedAs("record") /\ c = candidate)
EndClean ==
    faults = 0 =>
        /\ needsPartial = FALSE
        /\ pc = "ready" => index = None
        /\ pc \in {"publishing", "closing", "ended"} => index # None

\* Nothing that publish_index checks stands in the way of a partial index.
LEMMA SealIsTried ==
    ASSUME TypeFlow, LedgerClean, DiskClean, EndClean, faults = 0, Seal
    PROVE  pc' \in {"sealing", "ready"}
<1>1. pc = "ready" /\ staged = None
  BY DEF Seal
<1>2. FileTypes /\ Flow
  BY TypeParts DEF TypeFlow
<1>3. reserved = 0 /\ metadata = {}
  BY <1>1, <1>2 DEF LedgerClean, Flow, StagedAs
<1>4. bodies = knownBodies /\ records = knownRecords
  BY <1>1, <1>2 DEF DiskClean, FileTypes, Files, StagedAs
<1>5. MaySeal("partial")
  BY <1>1, <1>3, <1>4 DEF MaySeal, EndClean
<1> QED BY <1>1, <1>5 DEF Seal

\* A run that nothing disturbs links all artefacts of a complete store, and
\* else the baseline.
Undisturbed ==
    faults = 0 /\ crashes = 0 =>
        /\ pc # "down"
        /\ pc = "closing" => ~Complete
        /\ pc = "ended" => outputs = (IF Complete THEN Artefacts ELSE 1)

\* Every step keeps records backed by bodies.
LEMMA BackedNext ==
    ASSUME TypeFlow, Backed, [Next]_vars
    PROVE  Backed'
<1>0. FileTypes /\ WorkTypes /\ FlagTypes /\ Flow
  BY TypeParts DEF TypeFlow
<1> USE <1>0, AssumptionsHold DEF Assumptions, vars, disk, known, ledger, work, bounds,
    StagedAs, Collecting, Backed
<1>1. CASE \E c \in Candidates : Reserve(c)
  BY <1>1 DEF Reserve, Flow, WorkTypes, FileTypes, Files
<1>2. CASE \E c \in Candidates : Exhausted(c)
  BY <1>2 DEF Exhausted, Flow, WorkTypes, FileTypes, Files
<1>3. CASE RequestUnrecordable
  BY <1>3 DEF RequestUnrecordable, ReleaseAll, Flow, WorkTypes, FileTypes, Files
<1>4. CASE \E exchanges \in Exchanges, stop \in BOOLEAN : RequestRecordable(exchanges, stop)
  BY <1>4 DEF RequestRecordable, Flow, WorkTypes, FileTypes, Files
<1>5. CASE SkipBody
  BY <1>5 DEF SkipBody, Flow, WorkTypes, FileTypes, Files
<1>6. CASE ReuseBody
  BY <1>6 DEF ReuseBody, Flow, WorkTypes, FileTypes, Files
<1>7. CASE FailReuse
  BY <1>7 DEF FailReuse, Flow, WorkTypes, FileTypes, Files
<1>8. CASE StageBody
  BY <1>8 DEF StageBody, Flow, WorkTypes, FileTypes, Files
<1>9. CASE Link
  <2>1. staged \in StagedFiles /\ staged # None /\ staged.linked = FALSE
        /\ staged' # None /\ staged'.linked = TRUE /\ staged'.what = staged.what
    BY <1>9, FileLinked
  <2>2. CASE staged.what = "body"
    BY <1>9, <2>1, <2>2 DEF Link, Flow
  <2>3. CASE staged.what = "record"
    BY <1>9, <2>1, <2>3 DEF Link, Flow, FileTypes, Files
  <2>4. CASE staged.what = "index"
    BY <1>9, <2>1, <2>4 DEF Link, Flow
  <2> QED BY <2>1, <2>2, <2>3, <2>4 DEF StagedFiles
<1>10. CASE UnstageBody
  BY <1>10 DEF UnstageBody, Flow, WorkTypes, FileTypes, Files
<1>11. CASE \E size \in 1..RecordMaximum : StageRecord(size)
  BY <1>11 DEF StageRecord, Flow, WorkTypes, FileTypes, Files
<1>12. CASE UnstageRecord
  BY <1>12 DEF UnstageRecord, ReleaseAll, Flow, WorkTypes, FileTypes, Files
<1>13. CASE UnstageIndex
  BY <1>13 DEF UnstageIndex, Flow, WorkTypes, FileTypes, Files
<1>14. CASE FailStaged
  BY <1>14 DEF FailStaged, Give, Abort, ReleaseAll, Flow, WorkTypes, FileTypes, Files
<1>15. CASE FailLinked
  <2>1. staged \in StagedFiles /\ staged' = None /\ staged.linked
        /\ UNCHANGED <<knownBodies, knownRecords>>
    BY <1>15 DEF FailLinked, WorkTypes
  <2>2. CASE staged.what = "body"
    BY <1>15, <2>1, <2>2 DEF FailLinked, Give, Abort, ReleaseAll, Flow
  <2>3. CASE staged.what = "record"
    BY <1>15, <2>1, <2>3 DEF FailLinked, Give, Abort, ReleaseAll, Flow, FileTypes, Files
  <2>4. CASE staged.what = "index"
    BY <1>15, <2>1, <2>4 DEF FailLinked, Give, Flow
  <2> QED BY <2>1, <2>2, <2>3, <2>4 DEF StagedFiles
<1>16. CASE FailVerified
  BY <1>16 DEF FailVerified, Give, Abort, ReleaseAll, Flow, WorkTypes, FileTypes, Files
<1>17. CASE Seal
  BY <1>17 DEF Seal, Flow, WorkTypes, FileTypes, Files
<1>18. CASE PublishOutput
  BY <1>18 DEF PublishOutput, Flow, WorkTypes, FileTypes, Files
<1>19. CASE FailOutput
  BY <1>19 DEF FailOutput, Flow, WorkTypes, FileTypes, Files
<1>20. CASE Crash
  BY <1>20 DEF Crash, Flow, WorkTypes, FileTypes, Files
<1>21. CASE Reopen
  BY <1>21 DEF Reopen, OpenStore, Flow, WorkTypes, FileTypes, Files
<1>22. CASE Rest
  BY <1>22 DEF Rest, Flow, WorkTypes, FileTypes, Files
<1>23. CASE UNCHANGED vars
  BY <1>23 DEF vars, Flow, WorkTypes, FileTypes, Files
<1> QED BY <1>1, <1>2, <1>3, <1>4, <1>5, <1>6, <1>7, <1>8, <1>9, <1>10, <1>11, <1>12, <1>13,
    <1>14, <1>15, <1>16, <1>17, <1>18, <1>19, <1>20, <1>21, <1>22, <1>23 DEF Next

\* Every step keeps an index exact.
LEMMA SealedNext ==
    ASSUME TypeFlow, Backed, Sealed, [Next]_vars
    PROVE  Sealed'
<1>0. FileTypes /\ WorkTypes /\ FlagTypes /\ Flow
  BY TypeParts DEF TypeFlow
<1> USE <1>0, AssumptionsHold DEF Assumptions, vars, disk, known, ledger, work, bounds,
    StagedAs, Collecting, IndexIsExact, Recorded, Complete, MaySeal, Sealed
<1>1. CASE \E c \in Candidates : Reserve(c)
  BY <1>1 DEF Reserve, Flow, WorkTypes, FileTypes, Files
<1>2. CASE \E c \in Candidates : Exhausted(c)
  BY <1>2 DEF Exhausted, Flow, WorkTypes, FileTypes, Files
<1>3. CASE RequestUnrecordable
  BY <1>3 DEF RequestUnrecordable, ReleaseAll, Flow, WorkTypes, FileTypes, Files
<1>4. CASE \E exchanges \in Exchanges, stop \in BOOLEAN : RequestRecordable(exchanges, stop)
  BY <1>4 DEF RequestRecordable, Flow, WorkTypes, FileTypes, Files
<1>5. CASE SkipBody
  BY <1>5 DEF SkipBody, Flow, WorkTypes, FileTypes, Files
<1>6. CASE ReuseBody
  BY <1>6 DEF ReuseBody, Flow, WorkTypes, FileTypes, Files
<1>7. CASE FailReuse
  BY <1>7 DEF FailReuse, Flow, WorkTypes, FileTypes, Files
<1>8. CASE StageBody
  BY <1>8 DEF StageBody, Flow, WorkTypes, FileTypes, Files
<1>9. CASE Link
  <2>1. staged \in StagedFiles /\ staged'.state = staged.state /\ staged # None
        /\ staged'.linked
    BY <1>9, FileLinked
  <2>2. CASE staged.what = "body"
    BY <1>9, <2>1, <2>2 DEF Link, Flow
  <2>3. CASE staged.what = "record"
    BY <1>9, <2>1, <2>3 DEF Link, Flow
  <2>4. CASE staged.what = "index"
    <3>1. /\ index' = [state |-> staged.state, bodies |-> knownBodies, records |-> knownRecords]
          /\ UNCHANGED <<bodies, records, knownBodies, knownRecords, pc, outputs>>
      BY <1>9, <2>4 DEF Link
    <3>2. pc = "sealing" /\ staged.state \in States /\ outputs = 0
      BY <2>1, <2>4 DEF Flow
    <3>3. index' \in IndexFiles /\ index' # None
      BY <3>1, <3>2 DEF IndexFiles, FileTypes, Files
    <3> QED BY <2>1, <3>1, <3>2, <3>3
  <2> QED BY <2>1, <2>2, <2>3, <2>4 DEF StagedFiles
<1>10. CASE UnstageBody
  BY <1>10 DEF UnstageBody, Flow, WorkTypes, FileTypes, Files
<1>11. CASE \E size \in 1..RecordMaximum : StageRecord(size)
  BY <1>11 DEF StageRecord, Flow, WorkTypes, FileTypes, Files
<1>12. CASE UnstageRecord
  BY <1>12 DEF UnstageRecord, ReleaseAll, Flow, WorkTypes, FileTypes, Files
<1>13. CASE UnstageIndex
  BY <1>13 DEF UnstageIndex, Flow, WorkTypes, FileTypes, Files
<1>14. CASE FailStaged
  BY <1>14 DEF FailStaged, Give, Abort, ReleaseAll, Flow, WorkTypes, FileTypes, Files
<1>15. CASE FailLinked
  BY <1>15 DEF FailLinked, Give, Abort, ReleaseAll, Flow, WorkTypes, FileTypes, Files
<1>16. CASE FailVerified
  BY <1>16 DEF FailVerified, Give, Abort, ReleaseAll, Flow, WorkTypes, FileTypes, Files
<1>17. CASE Seal
  BY <1>17 DEF Seal, Flow, WorkTypes, FileTypes, Files
<1>18. CASE PublishOutput
  BY <1>18 DEF PublishOutput, Flow, WorkTypes, FileTypes, Files
<1>19. CASE FailOutput
  BY <1>19 DEF FailOutput, Flow, WorkTypes, FileTypes, Files
<1>20. CASE Crash
  BY <1>20 DEF Crash, Flow, WorkTypes, FileTypes, Files
<1>21. CASE Reopen
  BY <1>21 DEF Reopen, OpenStore, Flow, WorkTypes, FileTypes, Files
<1>22. CASE Rest
  BY <1>22 DEF Rest, Flow, WorkTypes, FileTypes, Files
<1>23. CASE UNCHANGED vars
  BY <1>23 DEF vars, Flow, WorkTypes, FileTypes, Files
<1> QED BY <1>1, <1>2, <1>3, <1>4, <1>5, <1>6, <1>7, <1>8, <1>9, <1>10, <1>11, <1>12, <1>13,
    <1>14, <1>15, <1>16, <1>17, <1>18, <1>19, <1>20, <1>21, <1>22, <1>23 DEF Next

\* As long as no call fails, no step loses a reservation.
LEMMA LedgerCleanNext ==
    ASSUME TypeFlow, LedgerClean, [Next]_vars
    PROVE  LedgerClean'
<1>0. FileTypes /\ WorkTypes /\ FlagTypes /\ Flow
  BY TypeParts DEF TypeFlow
<1> USE <1>0, AssumptionsHold DEF Assumptions, vars, disk, known, ledger, work, bounds,
    StagedAs, Collecting, MaySeal, LedgerClean
<1>1. CASE \E c \in Candidates : Reserve(c)
  BY <1>1 DEF Reserve, Flow, WorkTypes, FileTypes, Files
<1>2. CASE \E c \in Candidates : Exhausted(c)
  BY <1>2 DEF Exhausted, Flow, WorkTypes, FileTypes, Files
<1>3. CASE RequestUnrecordable
  BY <1>3 DEF RequestUnrecordable, ReleaseAll, Flow, WorkTypes, FileTypes, Files
<1>4. CASE \E exchanges \in Exchanges, stop \in BOOLEAN : RequestRecordable(exchanges, stop)
  BY <1>4 DEF RequestRecordable, Flow, WorkTypes, FileTypes, Files
<1>5. CASE SkipBody
  BY <1>5 DEF SkipBody, Flow, WorkTypes, FileTypes, Files
<1>6. CASE ReuseBody
  BY <1>6 DEF ReuseBody, Flow, WorkTypes, FileTypes, Files
<1>7. CASE FailReuse
  BY <1>7 DEF FailReuse, FlagTypes
<1>8. CASE StageBody
  BY <1>8, BodyStaged DEF StageBody, Flow, WorkTypes
<1>9. CASE Link
  BY <1>9, FileLinked DEF Link, Flow, WorkTypes
<1>10. CASE UnstageBody
  <2>1. StagedAs("body") /\ ~StagedAs("body")' /\ reserved' = reserved - 1
        /\ UNCHANGED <<held, faults, metadata, pc, candidate>>
    BY <1>10 DEF UnstageBody
  <2>2. reserved \in Nat /\ held \in Nat
    BY DEF WorkTypes
  <2> QED BY <2>1, <2>2
<1>11. CASE \E size \in 1..RecordMaximum : StageRecord(size)
  BY <1>11 DEF StageRecord, Flow, WorkTypes, FileTypes, Files
<1>12. CASE UnstageRecord
  BY <1>12 DEF UnstageRecord, ReleaseAll, Flow, WorkTypes, FileTypes, Files
<1>13. CASE UnstageIndex
  BY <1>13 DEF UnstageIndex, Flow, WorkTypes, FileTypes, Files
<1>14. CASE FailStaged
  BY <1>14 DEF FailStaged, FlagTypes
<1>15. CASE FailLinked
  BY <1>15 DEF FailLinked, FlagTypes
<1>16. CASE FailVerified
  BY <1>16 DEF FailVerified, FlagTypes
<1>17. CASE Seal
  BY <1>17 DEF Seal, Flow, WorkTypes, FileTypes, Files
<1>18. CASE PublishOutput
  BY <1>18 DEF PublishOutput, Flow, WorkTypes, FileTypes, Files
<1>19. CASE FailOutput
  BY <1>19 DEF FailOutput, FlagTypes
<1>20. CASE Crash
  BY <1>20 DEF Crash, Flow, WorkTypes, FileTypes, Files
<1>21. CASE Reopen
  BY <1>21 DEF Reopen, OpenStore, Flow, WorkTypes, FileTypes, Files
<1>22. CASE Rest
  BY <1>22 DEF Rest, Flow, WorkTypes, FileTypes, Files
<1>23. CASE UNCHANGED vars
  BY <1>23 DEF vars, Flow, WorkTypes, FileTypes, Files
<1> QED BY <1>1, <1>2, <1>3, <1>4, <1>5, <1>6, <1>7, <1>8, <1>9, <1>10, <1>11, <1>12, <1>13,
    <1>14, <1>15, <1>16, <1>17, <1>18, <1>19, <1>20, <1>21, <1>22, <1>23 DEF Next

\* As long as no call fails, no step parts memory from disk.
LEMMA DiskCleanNext ==
    ASSUME TypeFlow, DiskClean, [Next]_vars
    PROVE  DiskClean'
<1>0. FileTypes /\ WorkTypes /\ FlagTypes /\ Flow
  BY TypeParts DEF TypeFlow
<1> USE <1>0, AssumptionsHold DEF Assumptions, vars, disk, known, ledger, work, bounds,
    StagedAs, Collecting, MaySeal, DiskClean
<1>1. CASE \E c \in Candidates : Reserve(c)
  BY <1>1 DEF Reserve, Flow, WorkTypes, FileTypes, Files
<1>2. CASE \E c \in Candidates : Exhausted(c)
  BY <1>2 DEF Exhausted, Flow, WorkTypes, FileTypes, Files
<1>3. CASE RequestUnrecordable
  BY <1>3 DEF RequestUnrecordable, ReleaseAll, Flow, WorkTypes, FileTypes, Files
<1>4. CASE \E exchanges \in Exchanges, stop \in BOOLEAN : RequestRecordable(exchanges, stop)
  BY <1>4 DEF RequestRecordable, Flow, WorkTypes, FileTypes, Files
<1>5. CASE SkipBody
  BY <1>5 DEF SkipBody, Flow, WorkTypes, FileTypes, Files
<1>6. CASE ReuseBody
  BY <1>6 DEF ReuseBody, Flow, WorkTypes, FileTypes, Files
<1>7. CASE FailReuse
  BY <1>7 DEF FailReuse, FlagTypes
<1>8. CASE StageBody
  BY <1>8 DEF StageBody, Flow, WorkTypes, FileTypes, Files
<1>9. CASE Link
  <2>1. staged \in StagedFiles /\ staged # None /\ ~staged.linked
        /\ staged' # None /\ staged'.linked /\ staged'.what = staged.what
    BY <1>9, FileLinked
  <2>2. CASE staged.what = "body"
    BY <1>9, <2>1, <2>2 DEF Link, Flow
  <2>3. CASE staged.what = "record"
    BY <1>9, <2>1, <2>3 DEF Link, Flow, FileTypes, Files
  <2>4. CASE staged.what = "index"
    BY <1>9, <2>1, <2>4 DEF Link, Flow
  <2> QED BY <2>1, <2>2, <2>3, <2>4 DEF StagedFiles
<1>10. CASE UnstageBody
  BY <1>10 DEF UnstageBody, Flow, WorkTypes, FileTypes, Files
<1>11. CASE \E size \in 1..RecordMaximum : StageRecord(size)
  BY <1>11 DEF StageRecord, Flow, WorkTypes, FileTypes, Files
<1>12. CASE UnstageRecord
  BY <1>12 DEF UnstageRecord, ReleaseAll, Flow, WorkTypes, FileTypes, Files
<1>13. CASE UnstageIndex
  BY <1>13 DEF UnstageIndex, Flow, WorkTypes, FileTypes, Files
<1>14. CASE FailStaged
  BY <1>14 DEF FailStaged, FlagTypes
<1>15. CASE FailLinked
  BY <1>15 DEF FailLinked, FlagTypes
<1>16. CASE FailVerified
  BY <1>16 DEF FailVerified, FlagTypes
<1>17. CASE Seal
  BY <1>17 DEF Seal, Flow, WorkTypes, FileTypes, Files
<1>18. CASE PublishOutput
  BY <1>18 DEF PublishOutput, Flow, WorkTypes, FileTypes, Files
<1>19. CASE FailOutput
  BY <1>19 DEF FailOutput, FlagTypes
<1>20. CASE Crash
  BY <1>20 DEF Crash, Flow, WorkTypes, FileTypes, Files
<1>21. CASE Reopen
  BY <1>21 DEF Reopen, OpenStore, Flow, WorkTypes, FileTypes, Files
<1>22. CASE Rest
  BY <1>22 DEF Rest, Flow, WorkTypes, FileTypes, Files
<1>23. CASE UNCHANGED vars
  BY <1>23 DEF vars, Flow, WorkTypes, FileTypes, Files
<1> QED BY <1>1, <1>2, <1>3, <1>4, <1>5, <1>6, <1>7, <1>8, <1>9, <1>10, <1>11, <1>12, <1>13,
    <1>14, <1>15, <1>16, <1>17, <1>18, <1>19, <1>20, <1>21, <1>22, <1>23 DEF Next

\* As long as no call fails, a run ends with an index.
LEMMA EndCleanNext ==
    ASSUME TypeFlow, Sealed, LedgerClean, DiskClean, EndClean, [Next]_vars
    PROVE  EndClean'
<1>0. FileTypes /\ WorkTypes /\ FlagTypes /\ Flow
  BY TypeParts DEF TypeFlow
<1> USE <1>0, AssumptionsHold DEF Assumptions, vars, disk, known, ledger, work, bounds,
    StagedAs, Collecting, MaySeal, EndClean
<1>1. CASE \E c \in Candidates : Reserve(c)
  BY <1>1 DEF Reserve, Flow, WorkTypes, FileTypes, Files
<1>2. CASE \E c \in Candidates : Exhausted(c)
  BY <1>2 DEF Exhausted, Flow, WorkTypes, FileTypes, Files
<1>3. CASE RequestUnrecordable
  <2>1. index = None
    BY <1>3 DEF RequestUnrecordable, Sealed
  <2> QED BY <1>3, <2>1 DEF RequestUnrecordable, ReleaseAll
<1>4. CASE \E exchanges \in Exchanges, stop \in BOOLEAN : RequestRecordable(exchanges, stop)
  BY <1>4 DEF RequestRecordable, Flow, WorkTypes, FileTypes, Files
<1>5. CASE SkipBody
  BY <1>5 DEF SkipBody, Flow, WorkTypes, FileTypes, Files
<1>6. CASE ReuseBody
  BY <1>6 DEF ReuseBody, Flow, WorkTypes, FileTypes, Files
<1>7. CASE FailReuse
  BY <1>7 DEF FailReuse, FlagTypes
<1>8. CASE StageBody
  BY <1>8 DEF StageBody, Flow, WorkTypes, FileTypes, Files
<1>9. CASE Link
  <2>1. pc \in {"committing", "recording", "sealing"} /\ pc' = pc
    BY <1>9 DEF Link, Flow, WorkTypes, StagedFiles
  <2>2. needsPartial' = needsPartial /\ faults' = faults
    BY <1>9 DEF Link
  <2> QED BY <2>1, <2>2
<1>10. CASE UnstageBody
  BY <1>10 DEF UnstageBody, Flow, WorkTypes, FileTypes, Files
<1>11. CASE \E size \in 1..RecordMaximum : StageRecord(size)
  BY <1>11 DEF StageRecord, Flow, WorkTypes, FileTypes, Files
<1>12. CASE UnstageRecord
  <2>1. pc = "recording"
    BY <1>12 DEF UnstageRecord, Flow
  <2>2. index = None
    BY <2>1 DEF Sealed
  <2> QED BY <1>12, <2>1, <2>2 DEF UnstageRecord, ReleaseAll
<1>13. CASE UnstageIndex
  <2>1. pc = "sealing" /\ staged.linked
    BY <1>13 DEF UnstageIndex, Flow
  <2>2. index # None
    BY <2>1 DEF Sealed
  <2> QED BY <1>13, <2>2 DEF UnstageIndex
<1>14. CASE FailStaged
  BY <1>14 DEF FailStaged, FlagTypes
<1>15. CASE FailLinked
  BY <1>15 DEF FailLinked, FlagTypes
<1>16. CASE FailVerified
  BY <1>16 DEF FailVerified, FlagTypes
<1>17. CASE Seal
  <2>1. faults' = faults /\ needsPartial' = needsPartial /\ index' = index /\ pc = "ready"
    BY <1>17 DEF Seal
  <2> QED BY <1>17, <2>1, SealIsTried
<1>18. CASE PublishOutput
  BY <1>18 DEF PublishOutput, Flow, WorkTypes, FileTypes, Files
<1>19. CASE FailOutput
  BY <1>19 DEF FailOutput, FlagTypes
<1>20. CASE Crash
  BY <1>20 DEF Crash, Flow, WorkTypes, FileTypes, Files
<1>21. CASE Reopen
  BY <1>21 DEF Reopen, OpenStore, Flow, WorkTypes, FileTypes, Files
<1>22. CASE Rest
  BY <1>22 DEF Rest, Flow, WorkTypes, FileTypes, Files
<1>23. CASE UNCHANGED vars
  BY <1>23 DEF vars, Flow, WorkTypes, FileTypes, Files
<1> QED BY <1>1, <1>2, <1>3, <1>4, <1>5, <1>6, <1>7, <1>8, <1>9, <1>10, <1>11, <1>12, <1>13,
    <1>14, <1>15, <1>16, <1>17, <1>18, <1>19, <1>20, <1>21, <1>22, <1>23 DEF Next

\* As long as nothing disturbs it, a run ends with its artefacts.
LEMMA UndisturbedNext ==
    ASSUME TypeFlow, Sealed, LedgerClean, DiskClean, EndClean, EndClean', Undisturbed,
        [Next]_vars
    PROVE  Undisturbed'
<1>0. FileTypes /\ WorkTypes /\ FlagTypes /\ Flow
  BY TypeParts DEF TypeFlow
<1> USE <1>0, AssumptionsHold DEF Assumptions, vars, disk, known, ledger, work, bounds,
    StagedAs, Collecting, Complete, MaySeal, Undisturbed
<1>1. CASE \E c \in Candidates : Reserve(c)
  BY <1>1 DEF Reserve, Flow, WorkTypes, FileTypes, Files
<1>2. CASE \E c \in Candidates : Exhausted(c)
  BY <1>2 DEF Exhausted, Flow, WorkTypes, FileTypes, Files
<1>3. CASE RequestUnrecordable
  BY <1>3 DEF RequestUnrecordable, ReleaseAll, Flow, WorkTypes, FileTypes, Files
<1>4. CASE \E exchanges \in Exchanges, stop \in BOOLEAN : RequestRecordable(exchanges, stop)
  BY <1>4 DEF RequestRecordable, Flow, WorkTypes, FileTypes, Files
<1>5. CASE SkipBody
  BY <1>5 DEF SkipBody, Flow, WorkTypes, FileTypes, Files
<1>6. CASE ReuseBody
  BY <1>6 DEF ReuseBody, Flow, WorkTypes, FileTypes, Files
<1>7. CASE FailReuse
  BY <1>7 DEF FailReuse, FlagTypes
<1>8. CASE StageBody
  BY <1>8 DEF StageBody, Flow, WorkTypes, FileTypes, Files
<1>9. CASE Link
  <2>1. pc \in {"committing", "recording", "sealing"} /\ pc' = pc
    BY <1>9 DEF Link, Flow, WorkTypes, StagedFiles
  <2> QED BY <2>1
<1>10. CASE UnstageBody
  BY <1>10 DEF UnstageBody, Flow, WorkTypes, FileTypes, Files
<1>11. CASE \E size \in 1..RecordMaximum : StageRecord(size)
  BY <1>11 DEF StageRecord, Flow, WorkTypes, FileTypes, Files
<1>12. CASE UnstageRecord
  BY <1>12 DEF UnstageRecord, ReleaseAll, Flow, WorkTypes, FileTypes, Files
<1>13. CASE UnstageIndex
  <2>1. pc = "sealing" /\ staged.linked
    BY <1>13 DEF UnstageIndex, Flow
  <2>2. index.state = staged.state
    BY <2>1 DEF Sealed
  <2> QED BY <1>13, <2>2 DEF UnstageIndex
<1>14. CASE FailStaged
  BY <1>14 DEF FailStaged, FlagTypes
<1>15. CASE FailLinked
  BY <1>15 DEF FailLinked, FlagTypes
<1>16. CASE FailVerified
  BY <1>16 DEF FailVerified, FlagTypes
<1>17. CASE Seal
  <2>1. faults' = faults
    BY <1>17 DEF Seal
  <2> QED BY <1>17, <2>1, SealIsTried
<1>18. CASE PublishOutput
  <2>1. /\ outputs' = outputs + 1 /\ index' = index /\ UNCHANGED <<faults, crashes>>
        /\ pc' = IF pc = "closing" \/ outputs' = Artefacts THEN "ended" ELSE pc
        /\ pc \in {"publishing", "closing"}
    BY <1>18 DEF PublishOutput
  <2>2. pc = "closing" => outputs = 0
    BY DEF Flow
  <2>3. pc = "publishing" => Complete
    BY DEF Sealed
  <2> QED BY <2>1, <2>2, <2>3
<1>19. CASE FailOutput
  BY <1>19 DEF FailOutput, FlagTypes
<1>20. CASE Crash
  BY <1>20 DEF Crash, FlagTypes
<1>21. CASE Reopen
  BY <1>21 DEF Reopen, OpenStore, Flow, WorkTypes, FileTypes, Files
<1>22. CASE Rest
  BY <1>22 DEF Rest, Flow, WorkTypes, FileTypes, Files
<1>23. CASE UNCHANGED vars
  BY <1>23 DEF vars, Flow, WorkTypes, FileTypes, Files
<1> QED BY <1>1, <1>2, <1>3, <1>4, <1>5, <1>6, <1>7, <1>8, <1>9, <1>10, <1>11, <1>12, <1>13,
    <1>14, <1>15, <1>16, <1>17, <1>18, <1>19, <1>20, <1>21, <1>22, <1>23 DEF Next

----------------------------------------------------------------------------
(* Sums over finite sets.  A finite set of bad sets has a smallest one, which *)
(* stands for induction.                                                      *)

\* In a set of subsets of a finite set one is smallest.
LEMMA OneIsSmallest ==
    ASSUME NEW S, IsFiniteSet(S), NEW Bad, Bad \subseteq SUBSET S, Bad # {}
    PROVE  \E T \in Bad : \A U \in Bad : U \subseteq T => U = T
<1>1. IsWellFoundedOn(StrictSubsetOrdering(S), FiniteSubsetsOf(S))
  BY FS_StrictSubsetOrderingWellFounded
<1>2. Bad \subseteq FiniteSubsetsOf(S)
  BY FS_Subset DEF FiniteSubsetsOf
<1>3. PICK T \in Bad : \A U \in Bad : ~(<<U, T>> \in StrictSubsetOrdering(S))
  BY <1>1, <1>2, WFMin
<1>4. \A U \in Bad : U \subseteq T => U = T
  BY <1>3 DEF StrictSubsetOrdering
<1> QED BY <1>4

\* The element that the library's sum takes next, and the equation it solves.
Pick(s) == CHOOSE x \in s : TRUE

Sums(g, w, S) ==
    g = [s \in SUBSET S |-> IF s = {} THEN 0 ELSE w[Pick(s)] + g[s \ {Pick(s)}]]

\* Solutions agree where both are defined.
LEMMA SumsAgree ==
    ASSUME NEW w, NEW S, IsFiniteSet(S), NEW U \in SUBSET S,
           NEW g, Sums(g, w, S), NEW h, Sums(h, w, U)
    PROVE  \A s \in SUBSET U : g[s] = h[s]
<1> DEFINE Bad == {s \in SUBSET U : g[s] # h[s]}
<1> SUFFICES ASSUME Bad # {} PROVE FALSE
  OBVIOUS
<1>1. PICK T \in Bad : \A V \in Bad : V \subseteq T => V = T
  <2>1. Bad \subseteq SUBSET S
    OBVIOUS
  <2> HIDE DEF Bad
  <2> QED BY <2>1, OneIsSmallest
<1>2. T # {}
  BY DEF Sums
<1>3. Pick(T) \in T
  BY <1>2 DEF Pick
<1>4. g[T \ {Pick(T)}] = h[T \ {Pick(T)}]
  BY <1>1, <1>3
<1>5. g[T] = w[Pick(T)] + g[T \ {Pick(T)}] /\ h[T] = w[Pick(T)] + h[T \ {Pick(T)}]
  BY <1>1, <1>2 DEF Sums
<1> QED BY <1>1, <1>4, <1>5

\* There is a solution over every finite set.
LEMMA SumsExist ==
    ASSUME NEW w, NEW S, IsFiniteSet(S)
    PROVE  \E g : Sums(g, w, S)
<1> DEFINE Bad == {s \in SUBSET S : ~\E g : Sums(g, w, s)}
<1> SUFFICES ASSUME Bad # {} PROVE FALSE
  OBVIOUS
<1>1. PICK T \in Bad : \A V \in Bad : V \subseteq T => V = T
  <2>1. Bad \subseteq SUBSET S
    OBVIOUS
  <2> HIDE DEF Bad
  <2> QED BY <2>1, OneIsSmallest
<1>2. \A u \in SUBSET T : u # T => \E g : Sums(g, w, u)
  BY <1>1
<1> DEFINE f(u) == CHOOSE g : Sums(g, w, u)
           F == [s \in SUBSET T |->
                    IF s = {} THEN 0
                    ELSE w[Pick(s)] + f(s \ {Pick(s)})[s \ {Pick(s)}]]
<1>3. \A u \in SUBSET T : u # T => Sums(f(u), w, u)
  BY <1>2
<1> HIDE DEF f
<1>p. \A s : s # {} => Pick(s) \in s
  BY DEF Pick
<1>4. \A u \in SUBSET T : u # T => F[u] = f(u)[u]
  <2> SUFFICES ASSUME NEW u \in SUBSET T, u # T PROVE F[u] = f(u)[u]
    OBVIOUS
  <2>1. Sums(f(u), w, u)
    BY <1>3
  <2>2. CASE u = {}
    BY <2>1, <2>2 DEF Sums
  <2>3. CASE u # {}
    <3> DEFINE v == u \ {Pick(u)}
    <3>1. Pick(u) \in u
      BY <2>3, <1>p
    <3>2. v \in SUBSET u /\ v \in SUBSET T /\ v # T
      BY <3>1
    <3>3. Sums(f(v), w, v) /\ IsFiniteSet(u)
      BY <3>2, <1>3, FS_Subset
    <3>4. f(u)[v] = f(v)[v]
      <4> HIDE DEF v
      <4> QED BY <2>1, <3>2, <3>3, SumsAgree
    <3>5. f(u)[u] = w[Pick(u)] + f(u)[v]
      BY <2>1, <2>3 DEF Sums
    <3>6. F[u] = w[Pick(u)] + f(v)[v]
      BY <2>3
    <3> QED BY <3>4, <3>5, <3>6
  <2> QED BY <2>2, <2>3
<1>5. \A s \in SUBSET T : s # {} => s \ {Pick(s)} \in SUBSET T /\ s \ {Pick(s)} # T
  BY <1>p
<1>6. Sums(F, w, T)
  BY <1>4, <1>5 DEF Sums
<1> QED BY <1>1, <1>6

\* The library's sum is such a solution.
LEMMA SumUnfolds ==
    ASSUME NEW w, NEW S, IsFiniteSet(S)
    PROVE  \E g : Sums(g, w, S) /\ SumFunctionOnSet(w, S) = g[S]
<1> DEFINE G == CHOOSE g : g = [s \in SUBSET S |->
                  IF s = {} THEN 0 ELSE w[CHOOSE x \in s : TRUE]
                                            + g[s \ {CHOOSE x \in s : TRUE}]]
<1>1. Sums(G, w, S)
  <2>1. \E g : g = [s \in SUBSET S |->
                  IF s = {} THEN 0 ELSE w[CHOOSE x \in s : TRUE]
                                            + g[s \ {CHOOSE x \in s : TRUE}]]
    <3>1. PICK g : Sums(g, w, S)
      BY SumsExist
    <3> QED BY <3>1 DEF Sums, Pick
  <2>2. G = [s \in SUBSET S |->
                  IF s = {} THEN 0 ELSE w[CHOOSE x \in s : TRUE]
                                            + G[s \ {CHOOSE x \in s : TRUE}]]
    BY <2>1
  <2> HIDE DEF G
  <2> QED BY <2>2 DEF Sums, Pick
<1>2. SumFunctionOnSet(w, S) = G[S]
  BY DEF SumFunctionOnSet, FoldFunctionOnSet, MapThenFoldSet
<1> QED BY <1>1, <1>2

\* One step of the sum.
LEMMA SumStep ==
    ASSUME NEW w, NEW S, IsFiniteSet(S)
    PROVE  /\ SumFunctionOnSet(w, {}) = 0
           /\ S # {} => /\ Pick(S) \in S
                        /\ SumFunctionOnSet(w, S)
                              = w[Pick(S)] + SumFunctionOnSet(w, S \ {Pick(S)})
<1>1. SumFunctionOnSet(w, {}) = 0
  <2>1. PICK g : Sums(g, w, {}) /\ SumFunctionOnSet(w, {}) = g[{}]
    BY SumUnfolds, FS_EmptySet
  <2> QED BY <2>1 DEF Sums
<1>2. ASSUME S # {}
      PROVE  /\ Pick(S) \in S
             /\ SumFunctionOnSet(w, S) = w[Pick(S)] + SumFunctionOnSet(w, S \ {Pick(S)})
  <2>1. PICK g : Sums(g, w, S) /\ SumFunctionOnSet(w, S) = g[S]
    BY SumUnfolds
  <2>2. Pick(S) \in S
    BY <1>2 DEF Pick
  <2> DEFINE V == S \ {Pick(S)}
  <2>3. V \in SUBSET S /\ IsFiniteSet(V)
    BY FS_Subset
  <2>4. g[S] = w[Pick(S)] + g[V]
    BY <2>1, <1>2 DEF Sums
  <2> HIDE DEF V
  <2>5. PICK h : Sums(h, w, V) /\ SumFunctionOnSet(w, V) = h[V]
    BY <2>3, SumUnfolds
  <2>6. g[V] = h[V]
    BY <2>1, <2>3, <2>5, SumsAgree
  <2> QED BY <2>1, <2>2, <2>4, <2>5, <2>6 DEF V
<1> QED BY <1>1, <1>2

\* A sum of naturals is a natural, and any element can be taken out first.
LEMMA SumWithout ==
    ASSUME NEW w, NEW S, IsFiniteSet(S), \A x \in S : w[x] \in Nat
    PROVE  /\ SumFunctionOnSet(w, S) \in Nat
           /\ \A x \in S : SumFunctionOnSet(w, S) = w[x] + SumFunctionOnSet(w, S \ {x})
<1> DEFINE Sum(T) == SumFunctionOnSet(w, T)
           Good(T) == Sum(T) \in Nat /\ \A x \in T : Sum(T) = w[x] + Sum(T \ {x})
           Bad == {T \in SUBSET S : ~Good(T)}
<1> SUFFICES ASSUME Bad # {} PROVE FALSE
  OBVIOUS
<1>1. PICK T \in Bad : \A V \in Bad : V \subseteq T => V = T
  <2>1. Bad \subseteq SUBSET S
    OBVIOUS
  <2> HIDE DEF Bad
  <2> QED BY <2>1, OneIsSmallest
<1>2. \A V \in SUBSET T : V # T => Good(V)
  <2> HIDE DEF Good
  <2> QED BY <1>1
<1>3. IsFiniteSet(T)
  BY FS_Subset
<1>4. T # {}
  <2>1. Sum({}) = 0
    BY SumStep, FS_EmptySet
  <2>2. Good({})
    BY <2>1
  <2> HIDE DEF Good
  <2> QED BY <2>2
<1> DEFINE c == Pick(T)
<1>5. c \in T /\ Sum(T) = w[c] + Sum(T \ {c})
  BY <1>3, <1>4, SumStep
<1> HIDE DEF c, Sum
<1>6. Good(T \ {c})
  BY <1>2, <1>5
<1>7. Sum(T) \in Nat
  BY <1>5, <1>6
<1>8. ASSUME NEW x \in T PROVE Sum(T) = w[x] + Sum(T \ {x})
  <2>1. CASE x = c
    BY <1>5, <2>1
  <2>2. CASE x # c
    <3>1. Sum(T \ {c}) = w[x] + Sum((T \ {c}) \ {x})
      BY <1>6, <2>2
    <3>2. Good(T \ {x}) /\ Good((T \ {c}) \ {x})
      BY <1>2, <1>5
    <3>3. Sum(T \ {x}) = w[c] + Sum((T \ {x}) \ {c})
      BY <1>5, <2>2, <3>2
    <3>4. (T \ {x}) \ {c} = (T \ {c}) \ {x}
      OBVIOUS
    <3>6. Sum(T \ {x}) = w[c] + Sum((T \ {c}) \ {x})
      BY <3>3, <3>4
    <3>5. w[x] \in Nat /\ w[c] \in Nat /\ Sum((T \ {c}) \ {x}) \in Nat
      BY <1>5, <3>2
    <3> HIDE DEF Good, Bad
    <3>7. Sum(T) = w[c] + (w[x] + Sum((T \ {c}) \ {x}))
      BY <1>5, <3>1
    <3> QED BY <3>5, <3>6, <3>7
  <2> QED BY <2>1, <2>2
<1> QED BY <1>1, <1>7, <1>8

\* Functions that agree on a set have the same sum over it.
LEMMA SumAgrees ==
    ASSUME NEW w, NEW v, NEW S, IsFiniteSet(S), \A x \in S : w[x] = v[x]
    PROVE  SumFunctionOnSet(w, S) = SumFunctionOnSet(v, S)
<1> DEFINE Bad == {T \in SUBSET S : SumFunctionOnSet(w, T) # SumFunctionOnSet(v, T)}
<1> SUFFICES ASSUME Bad # {} PROVE FALSE
  OBVIOUS
<1>1. PICK T \in Bad : \A V \in Bad : V \subseteq T => V = T
  <2>1. Bad \subseteq SUBSET S
    OBVIOUS
  <2> HIDE DEF Bad
  <2> QED BY <2>1, OneIsSmallest
<1>2. IsFiniteSet(T) /\ T # {}
  BY FS_Subset, FS_EmptySet, SumStep
<1>3. /\ Pick(T) \in T
      /\ SumFunctionOnSet(w, T) = w[Pick(T)] + SumFunctionOnSet(w, T \ {Pick(T)})
      /\ SumFunctionOnSet(v, T) = v[Pick(T)] + SumFunctionOnSet(v, T \ {Pick(T)})
  BY <1>2, SumStep
<1>4. SumFunctionOnSet(w, T \ {Pick(T)}) = SumFunctionOnSet(v, T \ {Pick(T)})
  BY <1>1, <1>3
<1> QED BY <1>1, <1>3, <1>4

----------------------------------------------------------------------------
(* What fits.                                                                 *)

There(f) == {c \in Candidates : f[c] # None}

\* One body more or less.
LEMMA BytesChange ==
    ASSUME NEW S \in SUBSET Bodies, IsFiniteSet(S), NEW b \in Bodies
    PROVE  /\ Bytes(S) \in Nat
           /\ IsFiniteSet(S \cup {b}) /\ Bytes(S \cup {b}) \in Nat
           /\ Bytes(S \cup {b}) <= Bytes(S) + BodyMaximum
           /\ IsFiniteSet(S \ {b}) /\ Bytes(S \ {b}) \in Nat
           /\ Bytes(S \ {b}) <= Bytes(S)
<1>1. BodyMaximum \in Nat /\ \A x \in Bodies : BodySize[x] \in Nat /\ BodySize[x] <= BodyMaximum
  BY AssumptionsHold DEF Assumptions
<1>2. IsFiniteSet(S \cup {b}) /\ IsFiniteSet(S \ {b})
  BY FS_AddElement, FS_RemoveElement
<1>3. Bytes(S) \in Nat /\ Bytes(S \cup {b}) \in Nat /\ Bytes(S \ {b}) \in Nat
  BY <1>1, <1>2, SumWithout DEF Bytes
<1>4. Bytes(S \cup {b}) = BodySize[b] + Bytes((S \cup {b}) \ {b})
  BY <1>1, <1>2, SumWithout DEF Bytes
<1>5. CASE b \in S
  <2>1. S \cup {b} = S
    BY <1>5
  <2>2. Bytes(S) = BodySize[b] + Bytes(S \ {b})
    BY <1>4, <2>1
  <2>3. Bytes(S \cup {b}) = Bytes(S)
    BY <2>1
  <2>4. BodySize[b] \in Nat
    BY <1>1
  <2> QED BY <1>1, <1>2, <1>3, <2>2, <2>3, <2>4
<1>6. CASE b \notin S
  <2>1. (S \cup {b}) \ {b} = S /\ S \ {b} = S
    BY <1>6
  <2>2. Bytes(S \cup {b}) = BodySize[b] + Bytes(S)
    BY <1>4, <2>1
  <2> QED BY <1>1, <1>2, <1>3, <2>1, <2>2
<1> QED BY <1>5, <1>6

\* One record more or less.
LEMMA RecordBytesChange ==
    ASSUME NEW f \in [Candidates -> Files], IsFiniteSet(There(f)),
           NEW c \in Candidates, NEW r \in Files
    PROVE  LET g == [f EXCEPT ![c] = r] IN
           /\ RecordBytes(f) \in Nat
           /\ IsFiniteSet(There(g)) /\ RecordBytes(g) \in Nat
           /\ r = None => RecordBytes(g) <= RecordBytes(f)
           /\ f[c] = None /\ r # None => RecordBytes(g) = RecordBytes(f) + r.size
<1> DEFINE g == [f EXCEPT ![c] = r]
           w(h) == [d \in There(h) |-> h[d].size]
<1>1. \A h \in [Candidates -> Files] : \A d \in There(h) : h[d].size \in Nat
  BY AssumptionsHold DEF Assumptions, There, Files, RecordFiles
<1>2. \A h : RecordBytes(h) = SumFunctionOnSet(w(h), There(h))
  BY DEF RecordBytes, SumFunction, There
<1>3. g \in [Candidates -> Files] /\ g[c] = r
      /\ There(g) = IF r = None THEN There(f) \ {c} ELSE There(f) \cup {c}
  BY DEF There
<1>4. IsFiniteSet(There(g)) /\ IsFiniteSet(There(f) \ {c})
  BY <1>3, FS_AddElement, FS_RemoveElement
<1>5. \A h \in [Candidates -> Files] : IsFiniteSet(There(h)) =>
         /\ RecordBytes(h) \in Nat
         /\ c \in There(h) =>
               /\ RecordBytes(h) = h[c].size + SumFunctionOnSet(w(h), There(h) \ {c})
               /\ SumFunctionOnSet(w(h), There(h) \ {c}) \in Nat
  <2> SUFFICES ASSUME NEW h \in [Candidates -> Files], IsFiniteSet(There(h))
               PROVE  /\ RecordBytes(h) \in Nat
                      /\ c \in There(h) =>
                           /\ RecordBytes(h) = h[c].size + SumFunctionOnSet(w(h), There(h) \ {c})
                           /\ SumFunctionOnSet(w(h), There(h) \ {c}) \in Nat
    OBVIOUS
  <2>1. \A d \in There(h) : w(h)[d] = h[d].size /\ w(h)[d] \in Nat
    BY <1>1
  <2>2. IsFiniteSet(There(h) \ {c})
    BY FS_RemoveElement
  <2> HIDE DEF w
  <2>3. /\ SumFunctionOnSet(w(h), There(h)) \in Nat
        /\ \A d \in There(h) : SumFunctionOnSet(w(h), There(h))
              = w(h)[d] + SumFunctionOnSet(w(h), There(h) \ {d})
    BY <2>1, SumWithout
  <2>4. SumFunctionOnSet(w(h), There(h) \ {c}) \in Nat
    BY <2>1, <2>2, SumWithout
  <2> QED BY <1>2, <2>1, <2>3, <2>4
<1>6. SumFunctionOnSet(w(g), There(f) \ {c}) = SumFunctionOnSet(w(f), There(f) \ {c})
  <2>1. \A d \in There(f) \ {c} : w(g)[d] = w(f)[d]
    BY <1>3 DEF There
  <2> HIDE DEF w, g
  <2> QED BY <1>4, <2>1, SumAgrees
<1> HIDE DEF w, g
<1>7. /\ RecordBytes(f) \in Nat /\ RecordBytes(g) \in Nat
  BY <1>3, <1>4, <1>5
<1>8. ASSUME r = None PROVE RecordBytes(g) <= RecordBytes(f)
  <2>1. There(g) = There(f) \ {c}
    BY <1>3, <1>8
  <2>2. RecordBytes(g) = SumFunctionOnSet(w(f), There(f) \ {c})
    BY <1>2, <1>6, <2>1
  <2>3. CASE c \in There(f)
    <3>1. RecordBytes(f) = f[c].size + RecordBytes(g)
      BY <1>5, <2>2, <2>3
    <3> QED BY <1>1, <1>7, <2>3, <3>1
  <2>4. CASE c \notin There(f)
    <3>1. There(f) \ {c} = There(f)
      BY <2>4
    <3> QED BY <1>2, <1>7, <2>2, <3>1
  <2> QED BY <2>3, <2>4
<1>9. ASSUME f[c] = None, r # None PROVE RecordBytes(g) = RecordBytes(f) + r.size
  <2>1. There(g) = There(f) \cup {c} /\ c \notin There(f)
    BY <1>3, <1>9 DEF There
  <2>2. There(g) \ {c} = There(f) \ {c} /\ There(f) \ {c} = There(f) /\ c \in There(g)
    BY <2>1
  <2>3. RecordBytes(g) = g[c].size + SumFunctionOnSet(w(g), There(g) \ {c})
    BY <1>3, <1>4, <1>5, <2>2
  <2>4. SumFunctionOnSet(w(g), There(g) \ {c}) = RecordBytes(f)
    BY <1>2, <1>6, <2>2
  <2>5. g[c].size \in Nat
    BY <1>1, <1>3, <2>2
  <2> QED BY <1>3, <1>7, <2>3, <2>4, <2>5
<1> QED BY <1>4, <1>7, <1>8, <1>9 DEF g

\* While a candidate is at work, and between candidates until an error, memory
\* is the disk less the file just linked, and the candidate has no record yet.
Linked(what) == StagedAs(what) /\ staged.linked
AtWork == {"requesting", "committing", "recording"}
RecordPending == pc \in AtWork /\ ~Linked("record")
Remembered ==
    /\ pc \in AtWork \/ (pc = "ready" /\ ~failed) =>
          /\ bodies = knownBodies \cup (IF Linked("body") THEN {Head(received)} ELSE {})
          /\ \A c \in Candidates :
                records[c] = knownRecords[c] \/ (Linked("record") /\ c = candidate)
    /\ RecordPending => records[candidate] = None

\* There is room for every body still to come, each at its largest, the one
\* on its way included, and for the record until it is linked.
Coming(s) == IF s # None /\ s.what = "body" /\ ~s.linked THEN 1 ELSE 0
BodiesFit == pc \in {"requesting", "committing"} =>
    Bytes(bodies) + (held + Coming(staged)) * BodyMaximum <= BodyAllowance
RecordFits == RecordPending =>
    RecordBytes(records) + RecordMaximum + IndexMaximum <= MetadataAllowance

\* Sums are of finite sets: however large the plan, finitely many files exist.
Finite == IsFiniteSet(bodies) /\ IsFiniteSet(There(records)) /\ IsFiniteSet(metadata)

Room == Finite /\ WithinAllowances /\ BodiesFit /\ RecordFits

\* More reservations take more room.
LEMMA MoreTakesMore ==
    ASSUME NEW a \in Nat, NEW b \in Nat, a <= b, NEW m \in Nat
    PROVE  a * m \in Nat /\ b * m \in Nat /\ a * m <= b * m
<1>1. b * m = a * m + (b - a) * m /\ (b - a) \in Nat
  OBVIOUS
<1>2. a * m \in Nat /\ (b - a) * m \in Nat
  BY <1>1
<1> QED BY <1>1, <1>2

\* What the sums are compared with, and what they are made of.
LEMMA Sizes ==
    ASSUME TypeFlow, Finite
    PROVE  /\ Bytes(bodies) \in Nat /\ RecordBytes(records) \in Nat
           /\ BodyMaximum \in Nat /\ BodyAllowance \in Nat /\ RecordMaximum \in Nat
           /\ IndexMaximum \in Nat /\ MetadataAllowance \in Nat /\ Hops \in Nat
           /\ held \in Nat /\ reserved \in Nat /\ Coming(staged) \in Nat
           /\ records \in [Candidates -> Files] /\ bodies \in SUBSET Bodies
<1>1. records \in [Candidates -> Files] /\ bodies \in SUBSET Bodies
  BY DEF TypeFlow, TypeOK, Files
<1>2. Bytes(bodies) \in Nat
  <2>1. \A b \in bodies : BodySize[b] \in Nat
    BY <1>1, AssumptionsHold DEF Assumptions
  <2> QED BY <2>1, SumWithout DEF Bytes, Finite
<1>3. RecordBytes(records) \in Nat
  <2> DEFINE w == [c \in There(records) |-> records[c].size]
  <2>1. \A c \in There(records) : w[c] \in Nat
    BY <1>1, AssumptionsHold DEF Assumptions, There, Files, RecordFiles
  <2>2. RecordBytes(records) = SumFunctionOnSet(w, There(records))
    BY DEF RecordBytes, SumFunction, There
  <2> HIDE DEF w
  <2> QED BY <2>1, <2>2, SumWithout DEF Finite
<1>4. held \in Nat /\ reserved \in Nat /\ Coming(staged) \in Nat /\ Hops \in Nat
  BY AssumptionsHold DEF Assumptions, TypeFlow, TypeOK, Coming
<1> QED BY <1>1, <1>2, <1>3, <1>4, SizeAssumption

\* Every step keeps memory and disk in step.
LEMMA RememberedNext ==
    ASSUME TypeFlow, Backed, Remembered, [Next]_vars
    PROVE  Remembered'
<1>0. FileTypes /\ WorkTypes /\ FlagTypes /\ Flow
  BY TypeParts DEF TypeFlow
<1> USE <1>0, AssumptionsHold DEF Assumptions, vars, disk, known, ledger, work, bounds,
    StagedAs, Collecting, AtWork, Linked, RecordPending,
    Remembered
<1>1. CASE \E c \in Candidates : Reserve(c)
  BY <1>1 DEF Reserve, Flow, WorkTypes, FileTypes, Files
<1>2. CASE \E c \in Candidates : Exhausted(c)
  BY <1>2 DEF Exhausted, Flow, WorkTypes, FileTypes, Files
<1>3. CASE RequestUnrecordable
  BY <1>3 DEF RequestUnrecordable, ReleaseAll, Flow, WorkTypes, FileTypes, Files
<1>4. CASE \E exchanges \in Exchanges, stop \in BOOLEAN : RequestRecordable(exchanges, stop)
  BY <1>4 DEF RequestRecordable, Flow, WorkTypes, FileTypes, Files
<1>5. CASE SkipBody
  BY <1>5 DEF SkipBody, Flow, WorkTypes, FileTypes, Files
<1>6. CASE ReuseBody
  BY <1>6 DEF ReuseBody, Flow, WorkTypes, FileTypes, Files
<1>7. CASE FailReuse
  BY <1>7 DEF FailReuse, Flow, WorkTypes, FileTypes, Files
<1>8. CASE StageBody
  BY <1>8 DEF StageBody, Flow, WorkTypes, FileTypes, Files
<1>9. CASE Link
  <2>1. /\ staged # None /\ ~staged.linked /\ staged' # None /\ staged'.linked
        /\ staged'.what = staged.what
    BY <1>9, FileLinked
  <2>2. /\ UNCHANGED <<pc, failed, candidate, received, knownBodies, knownRecords>>
        /\ staged.what \in {"body", "record", "index"}
    BY <1>9, <2>1 DEF Link, WorkTypes, StagedFiles
  <2>3. CASE staged.what = "body"
    <3>1. bodies' = bodies \cup {Head(received)} /\ records' = records
      BY <1>9, <2>3 DEF Link
    <3> QED BY <2>1, <2>2, <2>3, <3>1
  <2>4. CASE staged.what = "record"
    <3>1. /\ bodies' = bodies
          /\ records' = [records EXCEPT ![candidate] = [refs |-> refs, size |-> staged.size]]
      BY <1>9, <2>4 DEF Link
    <3>2. \A c \in Candidates : c # candidate => records'[c] = records[c]
      BY <3>1 DEF FileTypes
    <3> QED BY <2>1, <2>2, <2>4, <3>1, <3>2
  <2>5. CASE staged.what = "index"
    <3>1. bodies' = bodies /\ records' = records
      BY <1>9, <2>5 DEF Link
    <3> QED BY <2>1, <2>2, <2>5, <3>1 DEF Flow
  <2> QED BY <2>2, <2>3, <2>4, <2>5
<1>10. CASE UnstageBody
  BY <1>10 DEF UnstageBody, Flow, WorkTypes, FileTypes, Files
<1>11. CASE \E size \in 1..RecordMaximum : StageRecord(size)
  BY <1>11 DEF StageRecord, Flow, WorkTypes, FileTypes, Files
<1>12. CASE UnstageRecord
  BY <1>12 DEF UnstageRecord, ReleaseAll, Flow, WorkTypes, FileTypes, Files
<1>13. CASE UnstageIndex
  BY <1>13 DEF UnstageIndex, Flow, WorkTypes, FileTypes, Files
<1>14. CASE FailStaged
  BY <1>14 DEF FailStaged, Give, Abort, ReleaseAll, Flow, WorkTypes, FileTypes, Files
<1>15. CASE FailLinked
  BY <1>15 DEF FailLinked, Give, Abort, ReleaseAll, Flow, WorkTypes, FileTypes, Files
<1>16. CASE FailVerified
  BY <1>16 DEF FailVerified, Give, Abort, ReleaseAll, Flow, WorkTypes, FileTypes, Files
<1>17. CASE Seal
  BY <1>17 DEF Seal, Flow, WorkTypes, FileTypes, Files
<1>18. CASE PublishOutput
  BY <1>18 DEF PublishOutput, Flow, WorkTypes, FileTypes, Files
<1>19. CASE FailOutput
  BY <1>19 DEF FailOutput, Flow, WorkTypes, FileTypes, Files
<1>20. CASE Crash
  BY <1>20 DEF Crash, Flow, WorkTypes, FileTypes, Files
<1>21. CASE Reopen
  BY <1>21 DEF Reopen, OpenStore, Flow, WorkTypes, FileTypes, Files
<1>22. CASE Rest
  BY <1>22 DEF Rest, Flow, WorkTypes, FileTypes, Files
<1>23. CASE UNCHANGED vars
  BY <1>23 DEF vars, Flow, WorkTypes, FileTypes, Files
<1> QED BY <1>1, <1>2, <1>3, <1>4, <1>5, <1>6, <1>7, <1>8, <1>9, <1>10, <1>11,
    <1>12, <1>13, <1>14, <1>15, <1>16, <1>17, <1>18, <1>19, <1>20, <1>21, <1>22,
    <1>23 DEF Next

\* A step that takes nothing onto the disk and no new reservation leaves room.
LEMMA RoomKept ==
    ASSUME TypeFlow, Room, bodies' = bodies, records' = records, IsFiniteSet(metadata'),
           held' \in Nat,
           pc' \in {"requesting", "committing"} =>
               pc \in {"requesting", "committing"}
                     /\ held' + Coming(staged') <= held + Coming(staged),
           RecordPending' => RecordPending
    PROVE  Room'
<1>1. held \in Nat /\ Coming(staged) \in Nat /\ Coming(staged') \in Nat /\ BodyMaximum \in Nat
  BY AssumptionsHold DEF Assumptions, TypeFlow, TypeOK, Coming
<1>2. Bytes(bodies)' = Bytes(bodies) /\ RecordBytes(records)' = RecordBytes(records)
      /\ There(records)' = There(records)
  OBVIOUS
<1>3. Finite' /\ WithinAllowances'
  BY <1>2 DEF Room, Finite, WithinAllowances
<1>4. RecordFits'
  BY <1>2 DEF Room, RecordFits
<1>5. ASSUME pc' \in {"requesting", "committing"}
      PROVE  Bytes(bodies)' + (held' + Coming(staged')) * BodyMaximum <= BodyAllowance
  <2>1. Bytes(bodies) + (held + Coming(staged)) * BodyMaximum <= BodyAllowance
    BY <1>5 DEF Room, BodiesFit
  <2>2. (held' + Coming(staged')) * BodyMaximum <= (held + Coming(staged)) * BodyMaximum
        /\ (held' + Coming(staged')) * BodyMaximum \in Nat
        /\ (held + Coming(staged)) * BodyMaximum \in Nat
    <3> DEFINE a == held' + Coming(staged')
               b == held + Coming(staged)
    <3>1. a \in Nat /\ b \in Nat /\ a <= b
      BY <1>1, <1>5
    <3> HIDE DEF a, b
    <3>2. a * BodyMaximum <= b * BodyMaximum
          /\ a * BodyMaximum \in Nat /\ b * BodyMaximum \in Nat
      BY <1>1, <3>1, MoreTakesMore
    <3> QED BY <3>2 DEF a, b
  <2>3. Bytes(bodies) \in Nat /\ BodyAllowance \in Nat
    BY Sizes DEF TypeFlow, Room
  <2> QED BY <1>2, <2>1, <2>2, <2>3
<1> QED BY <1>3, <1>4, <1>5 DEF Room, BodiesFit

\* Every step keeps what is on disk and what is still to come within the
\* allowances.
LEMMA RoomNext ==
    ASSUME TypeFlow, Backed, Remembered, Room, [Next]_vars
    PROVE  Room'
<1>0. FileTypes /\ WorkTypes /\ FlagTypes /\ Flow
  BY TypeParts DEF TypeFlow
<1>k. ASSUME UNCHANGED <<bodies, records>>, IsFiniteSet(metadata'), held' \in Nat,
             pc' \in {"requesting", "committing"} =>
                 pc \in {"requesting", "committing"}
                     /\ held' + Coming(staged') <= held + Coming(staged),
             RecordPending' => RecordPending
      PROVE  Room'
  BY <1>k, RoomKept
<1>s. /\ Bytes(bodies) \in Nat /\ RecordBytes(records) \in Nat
      /\ BodyMaximum \in Nat /\ BodyAllowance \in Nat /\ RecordMaximum \in Nat
      /\ IndexMaximum \in Nat /\ MetadataAllowance \in Nat /\ Hops \in Nat
      /\ held \in Nat /\ reserved \in Nat /\ Coming(staged) \in Nat
      /\ records \in [Candidates -> Files] /\ bodies \in SUBSET Bodies
  BY Sizes DEF Room
<1>m. IsFiniteSet(metadata) /\ IsFiniteSet(metadata \ {candidate}) /\ IsFiniteSet({})
  BY FS_RemoveElement, FS_EmptySet DEF Room, Finite
<1> USE <1>0, AssumptionsHold DEF Assumptions, vars, disk, known, ledger, work, bounds
<1>1. CASE \E c \in Candidates : Reserve(c)
  <2>1. PICK c \in Candidates : Reserve(c)
    BY <1>1
  <2>2. /\ pc = "ready" /\ ~failed /\ knownRecords[c] = None /\ staged' = staged
        /\ metadata' = metadata \cup {c} /\ held' = Hops + 1 /\ candidate' = c
        /\ pc' = "requesting" /\ UNCHANGED <<bodies, records>>
    BY <2>1 DEF Reserve
  <2>3. bodies = knownBodies /\ records = knownRecords /\ Coming(staged') = 0
    <3>1. ~StagedAs("body") /\ ~StagedAs("record")
      BY <2>2 DEF Flow
    <3>2. bodies = knownBodies /\ \A d \in Candidates : records[d] = knownRecords[d]
      BY <2>2, <3>1 DEF Remembered, Linked
    <3>3. records = knownRecords
      BY <3>2 DEF FileTypes
    <3>4. Coming(staged') = 0
      BY <2>2, <3>1 DEF Coming, StagedAs
    <3> QED BY <3>2, <3>3, <3>4
  <2>4. Bytes(bodies) + (reserved + (Hops + 1)) * BodyMaximum <= BodyAllowance
    BY <2>1, <2>3 DEF Reserve, RoomForBodies
  <2>5. RecordBytes(records) + (Cardinality(metadata) + 1) * RecordMaximum + IndexMaximum
           <= MetadataAllowance
    BY <2>1, <2>3 DEF Reserve, RoomForRecord
  <2>6. Finite'
    BY <2>2, FS_AddElement DEF Room, Finite
  <2>7. WithinAllowances'
    BY <2>2 DEF Room, WithinAllowances
  <2>8. Bytes(bodies) + (held' + Coming(staged')) * BodyMaximum <= BodyAllowance
    <3> DEFINE a == Hops + 1
               b == reserved + (Hops + 1)
    <3>1. a \in Nat /\ b \in Nat /\ a <= b
      BY <1>s
    <3>2. held' + Coming(staged') = a
      BY <1>s, <2>2, <2>3
    <3>3. Bytes(bodies) + b * BodyMaximum <= BodyAllowance
      BY <2>4
    <3> HIDE DEF a, b
    <3>4. a * BodyMaximum \in Nat /\ b * BodyMaximum \in Nat
          /\ a * BodyMaximum <= b * BodyMaximum
      BY <1>s, <3>1, MoreTakesMore
    <3> QED BY <1>s, <3>2, <3>3, <3>4
  <2>9. RecordBytes(records) + RecordMaximum + IndexMaximum <= MetadataAllowance
    <3> DEFINE a == 1
               b == Cardinality(metadata) + 1
    <3>1. a \in Nat /\ b \in Nat /\ a <= b
      BY FS_CardinalityType DEF Room, Finite
    <3>3. RecordBytes(records) + b * RecordMaximum + IndexMaximum <= MetadataAllowance
      BY <2>5
    <3> HIDE DEF b
    <3>4. a * RecordMaximum = RecordMaximum /\ b * RecordMaximum \in Nat
          /\ a * RecordMaximum <= b * RecordMaximum
      BY <1>s, <3>1, MoreTakesMore
    <3> HIDE DEF a
    <3> QED BY <1>s, <3>3, <3>4
  <2> QED BY <2>2, <2>6, <2>7, <2>8, <2>9 DEF Room, BodiesFit, RecordFits
<1>2. CASE \E c \in Candidates : Exhausted(c)
  BY <1>2, <1>k, <1>m, <1>s DEF Exhausted, Flow, Coming, RecordPending, Linked,
     StagedAs, AtWork, Collecting, WorkTypes
<1>3. CASE RequestUnrecordable
  BY <1>3, <1>k, <1>m, <1>s DEF RequestUnrecordable, ReleaseAll, Flow, Coming,
     RecordPending, Linked, StagedAs, AtWork, Collecting, WorkTypes
<1>4. CASE \E exchanges \in Exchanges, stop \in BOOLEAN : RequestRecordable(exchanges, stop)
  BY <1>4, <1>k, <1>m, <1>s DEF RequestRecordable, Flow, Coming, RecordPending,
     Linked, StagedAs, AtWork, Collecting, WorkTypes
<1>5. CASE SkipBody
  <2>1. /\ pc = "committing" /\ staged = None /\ received # <<>>
        /\ held' = held - 1
        /\ UNCHANGED <<bodies, records, metadata, pc, staged>>
    BY <1>5 DEF SkipBody
  <2>2. held' \in Nat
    BY <2>1, Spare
  <2>3. RecordPending' => RecordPending
    BY <2>1 DEF RecordPending, Linked, StagedAs, AtWork
  <2>4. held' + Coming(staged') <= held + Coming(staged)
    BY <2>1, <2>2, <1>s
  <2> QED BY <2>1, <2>2, <2>3, <2>4, <1>k, <1>m
<1>6. CASE ReuseBody
  <2>1. /\ pc = "committing" /\ staged = None /\ received # <<>>
        /\ held' = held - 1
        /\ UNCHANGED <<bodies, records, metadata, pc, staged>>
    BY <1>6 DEF ReuseBody
  <2>2. held' \in Nat
    BY <2>1, Spare
  <2>3. RecordPending' => RecordPending
    BY <2>1 DEF RecordPending, Linked, StagedAs, AtWork
  <2>4. held' + Coming(staged') <= held + Coming(staged)
    BY <2>1, <2>2, <1>s
  <2> QED BY <2>1, <2>2, <2>3, <2>4, <1>k, <1>m
<1>7. CASE FailReuse
  BY <1>7, <1>k, <1>m, <1>s DEF FailReuse, Flow, Coming, RecordPending, Linked,
     StagedAs, AtWork, Collecting, WorkTypes
<1>8. CASE StageBody
  BY <1>8, <1>k, <1>m, <1>s DEF StageBody, Flow, Coming, RecordPending, Linked,
     StagedAs, AtWork, Collecting, WorkTypes
<1>9. CASE Link
  <2>1. /\ staged # None /\ ~staged.linked /\ staged' # None /\ staged'.linked
        /\ staged'.what = staged.what
    BY <1>9, FileLinked
  <2>2. /\ UNCHANGED <<pc, metadata, candidate, held, received>>
        /\ staged.what \in {"body", "record", "index"}
    BY <1>9, <2>1 DEF Link, WorkTypes, StagedFiles
  <2>3. CASE staged.what = "body"
    <3>1. bodies' = bodies \cup {Head(received)} /\ UNCHANGED records
      BY <1>9, <2>3 DEF Link
    <3>2. pc = "committing" /\ Head(received) \in Bodies
          /\ Coming(staged) = 1 /\ Coming(staged') = 0
      BY <2>1, <2>3 DEF Flow, StagedAs, Coming
    <3>3. /\ IsFiniteSet(bodies') /\ Bytes(bodies') \in Nat
          /\ Bytes(bodies') <= Bytes(bodies) + BodyMaximum
      BY <1>s, <3>1, <3>2, BytesChange DEF Room, Finite
    <3>4. Bytes(bodies) + (held + 1) * BodyMaximum <= BodyAllowance
      BY <3>2 DEF Room, BodiesFit
    <3>5. (held + 1) * BodyMaximum = held * BodyMaximum + BodyMaximum
          /\ held * BodyMaximum \in Nat
      BY <1>s
    <3>6. Bytes(bodies') + (held' + Coming(staged')) * BodyMaximum <= BodyAllowance
          /\ Bytes(bodies') <= BodyAllowance
      <4>1. held' + Coming(staged') = held
        BY <1>s, <2>2, <3>2
      <4> QED BY <1>s, <3>3, <3>4, <3>5, <4>1
    <3>7. RecordPending' => RecordPending
      BY <2>1, <2>2, <2>3 DEF RecordPending, Linked, StagedAs
    <3> QED BY <2>2, <3>1, <3>3, <3>6, <3>7 DEF Room, Finite, WithinAllowances, BodiesFit,
        RecordFits
  <2>4. CASE staged.what = "record"
    <3>1. /\ bodies' = bodies
          /\ records' = [records EXCEPT ![candidate] = [refs |-> refs, size |-> staged.size]]
      BY <1>9, <2>4 DEF Link
    <3>2. /\ pc = "recording" /\ candidate \in Candidates /\ staged.size \in 1..RecordMaximum
          /\ RecordPending /\ ~RecordPending'
      BY <2>1, <2>2, <2>4 DEF Flow, StagedAs, RecordPending, Linked, AtWork
    <3> DEFINE r == [refs |-> refs, size |-> staged.size]
    <3>3. r \in Files /\ r # None /\ r.size = staged.size
      BY <3>2 DEF Files, RecordFiles, WorkTypes
    <3>4. records[candidate] = None
      BY <3>2 DEF Remembered
    <3> HIDE DEF r
    <3>5. records' = [records EXCEPT ![candidate] = r]
      BY <3>1 DEF r
    <3>6. /\ IsFiniteSet(There(records')) /\ RecordBytes(records') \in Nat
          /\ RecordBytes(records') = RecordBytes(records) + staged.size
      BY <1>s, <3>2, <3>3, <3>4, <3>5, RecordBytesChange DEF Room, Finite
    <3>7. RecordBytes(records') + IndexMaximum <= MetadataAllowance
      BY <1>s, <3>2, <3>6 DEF Room, RecordFits
    <3> QED BY <2>2, <3>1, <3>2, <3>6, <3>7 DEF Room, Finite, WithinAllowances, BodiesFit,
        RecordFits
  <2>5. CASE staged.what = "index"
    <3>1. UNCHANGED <<bodies, records>>
      BY <1>9, <2>5 DEF Link
    <3>2. pc = "sealing"
      BY <2>1, <2>5 DEF Flow, StagedAs
    <3> QED BY <1>k, <1>m, <1>s, <2>2, <3>1, <3>2 DEF RecordPending, AtWork
  <2> QED BY <2>2, <2>3, <2>4, <2>5
<1>10. CASE UnstageBody
  BY <1>10, <1>k, <1>m, <1>s DEF UnstageBody, Flow, Coming, RecordPending, Linked,
     StagedAs, AtWork, Collecting, WorkTypes
<1>11. CASE \E size \in 1..RecordMaximum : StageRecord(size)
  BY <1>11, <1>k, <1>m, <1>s DEF StageRecord, Flow, Coming, RecordPending, Linked,
     StagedAs, AtWork, Collecting, WorkTypes
<1>12. CASE UnstageRecord
  BY <1>12, <1>k, <1>m, <1>s DEF UnstageRecord, ReleaseAll, Flow, Coming,
     RecordPending, Linked, StagedAs, AtWork, Collecting, WorkTypes
<1>13. CASE UnstageIndex
  BY <1>13, <1>k, <1>m, <1>s DEF UnstageIndex, Flow, Coming, RecordPending, Linked,
     StagedAs, AtWork, Collecting, WorkTypes
<1>14. CASE FailStaged
  <2>1. /\ UNCHANGED <<bodies, records>> /\ pc' \in {"ready", "closing"}
        /\ metadata' \in {metadata, metadata \ {candidate}}
        /\ held' \in {held, 0}
    BY <1>14 DEF FailStaged, Give, Abort, ReleaseAll
  <2>2. pc' \notin {"requesting", "committing"} /\ ~RecordPending' /\ IsFiniteSet(metadata')
    BY <1>m, <2>1 DEF RecordPending, AtWork
  <2>3. held' \in Nat
    BY <1>s, <2>1
  <2> QED BY <1>k, <2>1, <2>2, <2>3
<1>15. CASE FailLinked
  <2>1. /\ staged # None /\ staged.linked /\ staged.what \in {"body", "record", "index"}
        /\ pc' \in {"ready", "closing"}
        /\ metadata' \in {metadata, metadata \ {candidate}}
        /\ held' \in {held, 0}
    BY <1>15 DEF FailLinked, Give, Abort, ReleaseAll, WorkTypes, StagedFiles
  <2>2. pc' \notin {"requesting", "committing"} /\ ~RecordPending' /\ IsFiniteSet(metadata')
    BY <1>m, <2>1 DEF RecordPending, AtWork
  <2>3. CASE staged.what = "body"
    <3>1. bodies' = bodies \ {Head(received)} /\ UNCHANGED records
      BY <1>15, <2>3 DEF FailLinked
    <3>2. Head(received) \in Bodies
      BY <2>1, <2>3 DEF Flow, StagedAs
    <3>3. /\ IsFiniteSet(bodies') /\ Bytes(bodies') \in Nat
          /\ Bytes(bodies') <= Bytes(bodies)
      BY <1>s, <3>1, <3>2, BytesChange DEF Room, Finite
    <3>4. Bytes(bodies') <= BodyAllowance
      BY <1>s, <3>3 DEF Room, WithinAllowances
    <3> QED BY <2>2, <3>1, <3>3, <3>4 DEF Room, Finite, WithinAllowances, BodiesFit,
        RecordFits
  <2>4. CASE staged.what = "record"
    <3>1. bodies' = bodies /\ records' = [records EXCEPT ![candidate] = None]
      BY <1>15, <2>4 DEF FailLinked
    <3>2. candidate \in Candidates /\ None \in Files
      BY <2>1, <2>4 DEF Flow, StagedAs, Files
    <3>3. /\ IsFiniteSet(There(records')) /\ RecordBytes(records') \in Nat
          /\ RecordBytes(records') <= RecordBytes(records)
      BY <1>s, <3>1, <3>2, RecordBytesChange DEF Room, Finite
    <3>4. RecordBytes(records') + IndexMaximum <= MetadataAllowance
      BY <1>s, <3>3 DEF Room, WithinAllowances
    <3> QED BY <2>2, <3>1, <3>3, <3>4 DEF Room, Finite, WithinAllowances, BodiesFit,
        RecordFits
  <2>5. CASE staged.what = "index"
    <3>1. UNCHANGED <<bodies, records>>
      BY <1>15, <2>5 DEF FailLinked
    <3> QED BY <1>k, <1>s, <2>1, <2>2, <3>1
  <2> QED BY <2>1, <2>3, <2>4, <2>5
<1>16. CASE FailVerified
  BY <1>16, <1>k, <1>m, <1>s DEF FailVerified, Give, Abort, ReleaseAll, Flow,
     Coming, RecordPending, Linked, StagedAs, AtWork, Collecting, WorkTypes
<1>17. CASE Seal
  BY <1>17, <1>k, <1>m, <1>s DEF Seal, Flow, Coming, RecordPending, Linked,
     StagedAs, AtWork, Collecting, WorkTypes
<1>18. CASE PublishOutput
  BY <1>18, <1>k, <1>m, <1>s DEF PublishOutput, Flow, Coming, RecordPending, Linked,
     StagedAs, AtWork, Collecting, WorkTypes
<1>19. CASE FailOutput
  BY <1>19, <1>k, <1>m, <1>s DEF FailOutput, Flow, Coming, RecordPending, Linked,
     StagedAs, AtWork, Collecting, WorkTypes
<1>20. CASE Crash
  BY <1>20, <1>k, <1>m, <1>s DEF Crash, Flow, Coming, RecordPending, Linked,
     StagedAs, AtWork, Collecting, WorkTypes
<1>21. CASE Reopen
  BY <1>21, <1>k, <1>m, <1>s DEF Reopen, OpenStore, Flow, Coming, RecordPending,
     Linked, StagedAs, AtWork, Collecting, WorkTypes
<1>22. CASE Rest
  BY <1>22, <1>k, <1>m, <1>s DEF Rest, Flow, Coming, RecordPending, Linked,
     StagedAs, AtWork, Collecting, WorkTypes
<1>23. CASE UNCHANGED vars
  BY <1>23, <1>k, <1>m, <1>s DEF vars, Flow, Coming, RecordPending, Linked,
     StagedAs, AtWork, Collecting, WorkTypes
<1> QED BY <1>1, <1>2, <1>3, <1>4, <1>5, <1>6, <1>7, <1>8, <1>9, <1>10, <1>11,
    <1>12, <1>13, <1>14, <1>15, <1>16, <1>17, <1>18, <1>19, <1>20, <1>21, <1>22,
    <1>23 DEF Next

----------------------------------------------------------------------------
(* Theorems.                                                                  *)

\* The inductive invariant.
IInv ==
    /\ TypeFlow /\ Backed /\ Sealed /\ LedgerClean /\ DiskClean /\ EndClean /\ Undisturbed
    /\ Remembered /\ Room

\* The invariant holds at the start.
LEMMA IInvInit == Init => IInv
<1> SUFFICES ASSUME Init PROVE IInv
  OBVIOUS
<1>1. TypeFlow
  BY TypeFlowInit
<1>2. Backed /\ LedgerClean /\ DiskClean /\ EndClean /\ Undisturbed
  BY DEF Init, Backed, LedgerClean, DiskClean, EndClean, Undisturbed, StagedAs
<1>3. Sealed
  BY DEF Init, Sealed, IndexIsExact
<1>4. Remembered
  BY DEF Init, Remembered, RecordPending, Linked, StagedAs, AtWork
<1>5. Room
  <2>1. bodies = {} /\ There(records) = {} /\ metadata = {}
    BY DEF Init, There
  <2>2. Bytes(bodies) = 0 /\ RecordBytes(records) = 0
    <3>1. \A w : SumFunctionOnSet(w, {}) = 0
      BY SumStep, FS_EmptySet
    <3>2. RecordBytes(records)
             = SumFunctionOnSet([c \in There(records) |-> records[c].size], There(records))
      BY DEF RecordBytes, SumFunction, There
    <3> QED BY <2>1, <3>1, <3>2 DEF Bytes
  <2>3. Finite
    BY <2>1, FS_EmptySet DEF Finite
  <2>4. WithinAllowances
    BY <2>2, SizeAssumption DEF WithinAllowances
  <2>5. BodiesFit /\ RecordFits
    BY DEF Init, BodiesFit, RecordFits, RecordPending, AtWork
  <2> QED BY <2>3, <2>4, <2>5 DEF Room
<1> QED BY <1>1, <1>2, <1>3, <1>4, <1>5 DEF IInv

\* Every step keeps the invariant.
LEMMA IInvNext == IInv /\ [Next]_vars => IInv'
<1> SUFFICES ASSUME IInv, [Next]_vars PROVE IInv'
  OBVIOUS
<1>1. TypeFlow' /\ Backed' /\ Sealed' /\ LedgerClean' /\ DiskClean' /\ EndClean'
  BY TypeFlowNext, BackedNext, SealedNext, LedgerCleanNext, DiskCleanNext, EndCleanNext DEF IInv
<1>2. Undisturbed'
  BY <1>1, UndisturbedNext DEF IInv
<1>3. Remembered' /\ Room'
  BY RememberedNext, RoomNext DEF IInv
<1> QED BY <1>1, <1>2, <1>3 DEF IInv

\* The invariant holds throughout.
THEOREM Inductive == Spec => []IInv
BY IInvInit, IInvNext, PTL DEF Spec

\* Every variable of the store and its recorder keeps its type: no
\* reservation is released twice and none is released that is not there.
THEOREM TypeCorrect == Spec => []TypeOK
<1>1. IInv => TypeOK
  BY DEF IInv, TypeFlow
<1> QED BY <1>1, Inductive, PTL

\* No record on disk ever names a body that is not there.
THEOREM BodiesComeFirst == Spec => []RecordsBacked
<1>1. IInv => RecordsBacked
  BY DEF IInv, Backed, RecordsBacked, Referenced
<1> QED BY <1>1, Inductive, PTL

\* An index on disk lists exactly the files on disk.
THEOREM IndexStaysExact == Spec => []IndexIsExact
<1>1. IInv => IndexIsExact
  BY DEF IInv, Sealed
<1> QED BY <1>1, Inductive, PTL

\* A run that no call failed ends with an index.
THEOREM StopsAreSealed == Spec => []StopIsSealed
<1>1. IInv => StopIsSealed
  BY DEF IInv, EndClean, StopIsSealed
<1> QED BY <1>1, Inductive, PTL

\* The artefacts of the step tell of one run and follow its store.
THEOREM OutputsTellOneRun == Spec => []OutputsFollowIndex
<1>1. IInv => OutputsFollowIndex
  BY DEF IInv, TypeFlow, Flow, Sealed, Complete, Undisturbed, OutputsFollowIndex
<1> QED BY <1>1, Inductive, PTL

\* What is on disk stays within both allowances.
THEOREM AllowancesKept == Spec => []WithinAllowances
<1>1. IInv => WithinAllowances
  BY DEF IInv, Room
<1> QED BY <1>1, Inductive, PTL

\* A reservation is honoured: what is still to come for a candidate fits, so
\* that no evidence received is thrown away for want of room.
THEOREM ReservationsAreHonoured == Spec => []ReservationHonoured
<1>1. ASSUME IInv PROVE ReservationHonoured
  <2>1. TypeFlow /\ Flow /\ Finite /\ BodiesFit /\ RecordFits
    BY <1>1 DEF IInv, TypeFlow, Room
  <2>2. ASSUME pc \in {"requesting", "committing"}
        PROVE  /\ Bytes(bodies) + held * BodyMaximum <= BodyAllowance
               /\ RecordBytes(records) + RecordMaximum + IndexMaximum <= MetadataAllowance
               /\ Len(received) <= held + (IF staged = None THEN 0 ELSE 1)
    <3>s. /\ Bytes(bodies) \in Nat /\ BodyMaximum \in Nat /\ BodyAllowance \in Nat
          /\ held \in Nat /\ Coming(staged) \in Nat
      BY <2>1, Sizes
    <3>1. Bytes(bodies) + (held + Coming(staged)) * BodyMaximum <= BodyAllowance
      BY <2>1, <2>2 DEF BodiesFit
    <3>2. /\ held * BodyMaximum \in Nat /\ (held + Coming(staged)) * BodyMaximum \in Nat
          /\ held * BodyMaximum <= (held + Coming(staged)) * BodyMaximum
      BY <3>s, MoreTakesMore
    <3>3. Bytes(bodies) + held * BodyMaximum <= BodyAllowance
      BY <3>s, <3>1, <3>2
    <3>4. RecordPending
      BY <2>1, <2>2 DEF RecordPending, AtWork, Linked, Flow
    <3>5. Len(received) <= held + (IF staged = None THEN 0 ELSE 1)
      <4>1. pc = "requesting" => Len(received) = 0
        BY <2>1 DEF Flow
      <4> QED BY <2>1, <2>2, <3>s, <4>1 DEF Flow
    <3> QED BY <2>1, <3>3, <3>4, <3>5 DEF RecordFits
  <2> QED BY <2>2 DEF ReservationHonoured
<1> QED BY <1>1, Inductive, PTL
=============================================================================
