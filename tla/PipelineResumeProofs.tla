------------------------ MODULE PipelineResumeProofs ------------------------
(* Proofs about PipelineResume, for any number of failures, crashes and       *)
(* resumes, for whatever a step that stops half way leaves, and for any steps *)
(* that end without work; only NeverOutOfOrder restricts the last.            *)
EXTENDS PipelineResume, TLAPS

Running == pc # "idle"
Over == {"completed", "noop", "skipped_existing"}

\* Where a run stands: what lies behind it is over, or depends on the failed
\* content discovery; the Deep steps and the closing ones are worked off in
\* their order; a preserved run passes over them.
Progress ==
    Running /\ ~preserve =>
        \A i \in 1..15 :
            /\ i < at => status[Order[i]] \in Over \/ (deferred /\ i \in 8..10)
            /\ i < at /\ i >= 11 => status[Order[i]] = "completed"
            /\ i > at /\ i >= 11 => status[Order[i]] = "pending"
            /\ i = at /\ i >= 11 =>
                  status[Order[i]] = (IF pc \in {"step", "done"} THEN "running" ELSE "pending")
            /\ status[Order[i]] = "skipped_dependency" => deferred /\ i \in 8..10
Kept == Running /\ preserve => \A i \in 11..15 : status[Order[i]] = "skipped_existing"
Finalising == pc = "finalise" => ~preserve /\ at = 16
NoWork ==
    /\ Running /\ ~preserve => \A s \in Steps : status[s] = "noop" => s \in MayNoop
    /\ pc = "done" /\ outcome = "noop" => Current \in MayNoop
Flow == TypeOK /\ Progress /\ Kept /\ Finalising /\ NoWork

\* The Deep artefacts are complete behind the Deep steps, and with the pack.
Packed ==
    /\ Running /\ ~preserve /\ at > 12 => deepFiles = "all"
    /\ Running /\ ~preserve /\ at = 12 /\ pc = "done" /\ outcome = "completed" => deepFiles = "all"
    /\ zip => deepFiles = "all" /\ (Running => preserve)

\* Evidence is where the statuses say, and a step to be done has none.
Tracked ==
    /\ "006" \in evidence => planned
    /\ Running /\ ~preserve =>
        /\ \A s \in Live : status[s] = "pending" => s \notin evidence
        /\ status["006"] \in {"completed", "skipped_existing"} => "006" \in evidence
        /\ pc = "done" /\ outcome = "completed" /\ Current = "006" => "006" \in evidence

\* Once the Deep collection was started something on disk says so, and keeps
\* every later run from the Deep steps.
Remembered ==
    deepStarts # 0 =>
        /\ deepStarts = 1 /\ planned
        /\ saved = Torn \/ DeepTouched
        /\ Running /\ ~preserve => at > 11 \/ (at = 11 /\ pc \in {"step", "done"})

IInv == Flow /\ Packed /\ Tracked /\ NoRepeat /\ Remembered /\ CompletedMeansAll

\* Whatever is recorded as over was done to the end, but for a content
\* follow-up whose part of the evidence a resume took over.
Sound(s, st) == s \in whole \/ (s = "008" /\ st = "skipped_existing")
Accounted ==
    /\ evidence \subseteq whole \cup {"008"}
    /\ \A s \in Live :
          /\ Readable /\ saved.status[s] \in Over => Sound(s, saved.status[s])
          /\ Running /\ status[s] \in Over => Sound(s, status[s])
    /\ pc = "done" /\ outcome \in {"completed", "noop"} /\ Current \in Live => Current \in whole

----------------------------------------------------------------------------
(* The order of the steps. *)

LEMMA OrderEntries ==
    /\ Len(Order) = 15 /\ DOMAIN Order = 1..15
    /\ Order[1] = "001" /\ Order[2] = "002" /\ Order[3] = "003" /\ Order[4] = "003S"
    /\ Order[5] = "004" /\ Order[6] = "005" /\ Order[7] = "006" /\ Order[8] = "007"
    /\ Order[9] = "008" /\ Order[10] = "009" /\ Order[11] = "010D" /\ Order[12] = "011D"
    /\ Order[13] = "010" /\ Order[14] = "011" /\ Order[15] = "012"
  BY DEF Order

LEMMA OrderDiffers == \A i, j \in 1..15 : Order[i] = Order[j] => i = j
  <1> SUFFICES ASSUME NEW i \in 1..15, NEW j \in 1..15, Order[i] = Order[j] PROVE i = j
    OBVIOUS
  <1> QED BY OrderEntries

LEMMA StepsAre ==
    /\ \A i \in 1..15 : Order[i] \in Steps
    /\ \A i \in 2..10 : Order[i] \in Live
    /\ \A i \in 1..15 : Order[i] \in Live => i \in 2..10
    /\ \A s \in Steps : \E i \in 1..15 : s = Order[i]
    /\ Live \subseteq Steps
  <1>1. \A i \in 1..15 : Order[i] \in Live => i \in 2..10
    BY OrderDiffers DEF Live
  <1> QED BY <1>1, OrderEntries DEF Steps, Live

----------------------------------------------------------------------------
(* Types. *)

DiskTypes ==
    /\ evidence \subseteq Live /\ whole \subseteq Live
    /\ deepFiles \in {"none", "some", "all"}
SavedTypes == saved \in {None, Torn} \cup Checkpoints
RunTypes ==
    /\ pc \in {"idle", "ready", "step", "done", "finalise"} /\ at \in 1..16
    /\ status \in [Steps -> Statuses]
    /\ pc \in {"step", "done"} => at <= 15 /\ status[Current] = "running"
    /\ outcome \in {"completed", "noop", "failed", "http", None}
    /\ (outcome # None) <=> (pc = "done")
FlagTypes ==
    /\ residue \in BOOLEAN /\ planned \in BOOLEAN /\ cut \in BOOLEAN
    /\ zip \in BOOLEAN /\ refused \in BOOLEAN
    /\ preserve \in BOOLEAN /\ deferred \in BOOLEAN /\ exporting \in BOOLEAN
CountTypes == deepStarts \in Nat /\ faults \in Nat /\ crashes \in Nat

LEMMA TypeParts ==
    TypeOK <=> DiskTypes /\ SavedTypes /\ RunTypes /\ FlagTypes /\ CountTypes
  BY OrderEntries DEF TypeOK, DiskTypes, SavedTypes, RunTypes, FlagTypes, CountTypes

LEMMA OrIsBoolean == \A a, b : (a \/ b) \in BOOLEAN
  OBVIOUS

LEMMA InIsBoolean == \A a, S : (a \in S) \in BOOLEAN
  OBVIOUS

LEMMA CurrentStep ==
    RunTypes /\ pc \in {"step", "done"} => at \in 1..15 /\ Current \in Steps
  BY StepsAre DEF RunTypes, Current

LEMMA TypeInit == Init => TypeOK
  <1> SUFFICES ASSUME Init PROVE TypeOK
    OBVIOUS
  <1>1. DiskTypes /\ SavedTypes
    BY DEF Init, DiskTypes, SavedTypes
  <1>2. status \in [Steps -> Statuses]
    BY DEF Init, Statuses
  <1>3. RunTypes
    BY <1>2 DEF Init, RunTypes
  <1>4. FlagTypes /\ CountTypes
    BY DEF Init, FlagTypes, CountTypes
  <1> QED BY <1>1, <1>3, <1>4, TypeParts

\* What a live step that stops half way does to the evidence.
LEMMA PhaseLeft ==
    ASSUME DiskTypes, PhaseLeaves
    PROVE  /\ evidence' \subseteq evidence \cup {Current} /\ evidence \ {Current} \subseteq evidence'
           /\ evidence' \subseteq Live /\ whole \subseteq whole' /\ whole' \subseteq Live
           /\ evidence' \subseteq evidence \cup whole' \cup {"008"}
           /\ planned => planned'
           /\ ("006" \in evidence => planned) => ("006" \in evidence' => planned')
  <1> USE DEF DiskTypes
  <1>1. CASE UNCHANGED <<evidence, whole, planned, cut>>
    BY <1>1
  <1>2. CASE /\ Current \in Live /\ evidence' = evidence \cup {Current}
             /\ whole' = whole \cup {Current} /\ planned' = (planned \/ Current = "006")
    BY <1>2
  <1>3. CASE /\ Current = "008" /\ evidence' = evidence \cup {"008"}
             /\ UNCHANGED <<whole, planned, cut>>
    BY <1>3, OrderEntries, StepsAre
  <1>4. CASE Current = "006" /\ planned' = TRUE /\ evidence' = evidence \ {"006"} /\ whole' = whole
    BY <1>4
  <1>5. CASE UNCHANGED <<evidence, whole, planned>>
    BY <1>5
  <1> QED BY <1>1, <1>2, <1>3, <1>4, <1>5, Zenon DEF PhaseLeaves, PlanLeaves

LEMMA FlagsLeft ==
    ASSUME FlagTypes, Leaves
    PROVE  residue' \in BOOLEAN /\ planned' \in BOOLEAN /\ cut' \in BOOLEAN /\ zip' \in BOOLEAN
  <1> USE DEF FlagTypes
  <1>1. residue' \in BOOLEAN
    BY OrIsBoolean, Zenon DEF Leaves
  <1>2. planned' \in BOOLEAN
    BY OrIsBoolean, Zenon DEF Leaves, PhaseLeaves, PlanLeaves
  <1>3. cut' = cut \/ cut' = TRUE
    BY Zenon DEF Leaves, PhaseLeaves, PlanLeaves
  <1>4. zip' = zip
    BY Zenon DEF Leaves
  <1> QED BY <1>1, <1>2, <1>3, <1>4

LEMMA DiskTypesKept == TypeOK /\ [Next]_vars => DiskTypes'
  <1> SUFFICES ASSUME TypeOK, [Next]_vars PROVE DiskTypes'
    OBVIOUS
  <1> USE TypeParts, CurrentStep, StepsAre DEF DiskTypes, disk, vars
  <1>1. CASE StartFresh \/ StartResume \/ PassOver \/ StartStep
    BY <1>1 DEF StartFresh, StartResume, PassOver, StartStep
  <1>2. CASE Work
    BY <1>2 DEF Work
  <1>3. CASE WorkNoop
    BY <1>3, NoopAssumption, OrderEntries DEF WorkNoop, Live
  <1>4. ASSUME Leaves PROVE DiskTypes'
    BY <1>4, PhaseLeft DEF Leaves
  <1>5. CASE Record \/ GoOn \/ Stop \/ Conclude \/ Publish \/ PublishFails
    BY <1>5 DEF Record, GoOn, Stop, Conclude, Publish, PublishFails
  <1>6. CASE WorkFails \/ Crash
    BY <1>4, <1>6 DEF WorkFails, Crash
  <1>7. CASE UNCHANGED vars
    BY <1>7
  <1> QED BY <1>1, <1>2, <1>3, <1>5, <1>6, <1>7 DEF Next

LEMMA CheckpointType ==
    ASSUME SavedTypes, NEW st \in [Steps -> Statuses],
           NEW final \in {"running", "failed", "completed"}, NEW export \in BOOLEAN,
           Checkpoint(st, final, export)
    PROVE  SavedTypes'
  BY DEF Checkpoint, SavedTypes, Checkpoints

LEMMA RunTypesKept == TypeOK /\ [Next]_vars => RunTypes'
  <1> SUFFICES ASSUME TypeOK, [Next]_vars PROVE RunTypes'
    OBVIOUS
  <1> USE TypeParts, CurrentStep, StepsAre, OrderEntries
      DEF RunTypes, Current, Statuses, flags, vars
  <1>1. CASE StartFresh
    BY <1>1 DEF StartFresh, Begin
  <1>2. CASE StartResume
    BY <1>2 DEF StartResume, Begin
  <1>3. CASE PassOver
    BY <1>3 DEF PassOver
  <1>4. CASE StartStep
    BY <1>4, NoneAssumption DEF StartStep
  <1>5. CASE Work
    BY <1>5, NoneAssumption DEF Work, Done
  <1>6. CASE WorkNoop
    BY <1>6, NoneAssumption DEF WorkNoop, Done
  <1>7. CASE WorkFails
    BY <1>7, NoneAssumption DEF WorkFails, Done
  <1>8. CASE Record
    BY <1>8 DEF Record
  <1>9. CASE GoOn
    BY <1>9 DEF GoOn
  <1>10. CASE Stop
    BY <1>10 DEF Stop
  <1>11. CASE Conclude
    BY <1>11 DEF Conclude
  <1>12. CASE Publish \/ PublishFails \/ Crash
    <2>1. CASE Publish
      BY <2>1 DEF Publish
    <2>2. CASE PublishFails
      BY <2>2 DEF PublishFails
    <2>3. CASE Crash
      BY <2>3 DEF Crash
    <2> QED BY <1>12, <2>1, <2>2, <2>3
  <1>13. CASE UNCHANGED vars
    BY <1>13
  <1> QED BY <1>1, <1>2, <1>3, <1>4, <1>5, <1>6, <1>7, <1>8, <1>9, <1>10, <1>11, <1>12, <1>13
          DEF Next

LEMMA SavedTypesKept == TypeOK /\ [Next]_vars => SavedTypes'
  <1> SUFFICES ASSUME TypeOK, [Next]_vars PROVE SavedTypes'
    OBVIOUS
  <1> SavedTypes /\ status \in [Steps -> Statuses] /\ exporting \in BOOLEAN /\ RunTypes'
    BY TypeParts, RunTypesKept DEF RunTypes, FlagTypes
  <1> status' \in [Steps -> Statuses]
    BY DEF RunTypes
  <1>1. CASE StartFresh \/ StartResume \/ PassOver \/ Work \/ WorkNoop \/ WorkFails \/ Publish
             \/ UNCHANGED vars
    BY <1>1 DEF StartFresh, StartResume, PassOver, Work, WorkNoop, WorkFails, Publish, vars,
                SavedTypes
  <1>2. CASE StartStep
    BY <1>2, CheckpointType DEF StartStep
  <1>3. CASE Record
    BY <1>3, CheckpointType DEF Record
  <1>4. CASE GoOn
    BY <1>4, CheckpointType DEF GoOn
  <1>5. CASE Stop
    BY <1>5, CheckpointType DEF Stop
  <1>6. CASE Conclude
    BY <1>6, CheckpointType DEF Conclude
  <1>7. CASE PublishFails
    BY <1>7, CheckpointType DEF PublishFails
  <1>8. CASE Crash
    BY <1>8 DEF Crash, SavedTypes
  <1> QED BY <1>1, <1>2, <1>3, <1>4, <1>5, <1>6, <1>7, <1>8 DEF Next

LEMMA FlagTypesKept == TypeOK /\ [Next]_vars => FlagTypes' /\ CountTypes'
  <1> SUFFICES ASSUME TypeOK, [Next]_vars PROVE FlagTypes' /\ CountTypes'
    OBVIOUS
  <1> FlagTypes /\ CountTypes
    BY TypeParts
  <1> USE DEF FlagTypes, CountTypes
  <1>1. CountTypes'
    <2>1. CASE StartFresh \/ StartResume \/ PassOver \/ Work \/ WorkNoop \/ Record \/ GoOn
               \/ Stop \/ Conclude \/ Publish \/ UNCHANGED vars
      BY <2>1 DEF vars, bounds, StartFresh, StartResume, PassOver, Work, WorkNoop, Record, GoOn,
                  Stop, Conclude, Publish
    <2>2. CASE StartStep
      BY <2>2 DEF StartStep, bounds
    <2>3. CASE PublishFails \/ Crash
      <3>1. deepStarts' = deepStarts
        BY <2>3, Zenon DEF PublishFails, Crash
      <3>2. faults' \in {faults, faults + 1} /\ crashes' \in {crashes, crashes + 1}
        BY <2>3, Zenon DEF PublishFails, Crash
      <3> QED BY <3>1, <3>2
    <2>4. CASE WorkFails
      <3>1. deepStarts' = deepStarts /\ crashes' = crashes
        BY <2>4 DEF WorkFails
      <3>2. faults' = faults + 1 \/ faults' = faults
        BY <2>4 DEF WorkFails
      <3> QED BY <3>1, <3>2
    <2> QED BY <2>1, <2>2, <2>3, <2>4 DEF Next
  <1>2. residue' \in BOOLEAN /\ planned' \in BOOLEAN /\ cut' \in BOOLEAN /\ zip' \in BOOLEAN
    <2>1. CASE UNCHANGED disk
      BY <2>1 DEF disk
    <2>2. CASE WorkFails \/ Crash
      BY <2>1, <2>2, FlagsLeft, Zenon DEF WorkFails, Crash
    <2>3. CASE Publish
      <3>1. residue' = residue /\ planned' = planned /\ cut' = cut
        BY <2>3 DEF Publish
      <3>2. zip' \in BOOLEAN
        BY <2>3, OrIsBoolean, Zenon DEF Publish
      <3> QED BY <3>1, <3>2
    <2>4. CASE Work
      <3>1. residue' = residue /\ cut' = cut /\ zip' = zip
        BY <2>4 DEF Work
      <3>2. planned' \in BOOLEAN
        BY <2>4, OrIsBoolean, Zenon DEF Work
      <3> QED BY <3>1, <3>2
    <2>5. CASE WorkNoop
      BY <2>5 DEF WorkNoop
    <2>6. StartFresh \/ StartResume \/ PassOver \/ StartStep \/ Record \/ GoOn \/ Stop \/ Conclude
               \/ PublishFails \/ UNCHANGED vars => UNCHANGED disk
      BY Zenon DEF vars, StartFresh, StartResume, PassOver, StartStep, Record, GoOn, Stop,
                   Conclude, PublishFails
    <2> QED BY <2>1, <2>2, <2>3, <2>4, <2>5, <2>6 DEF Next
  <1>3. /\ refused' \in BOOLEAN /\ preserve' \in BOOLEAN /\ deferred' \in BOOLEAN
        /\ exporting' \in BOOLEAN
    <2>1. CASE PassOver \/ StartStep \/ WorkNoop \/ WorkFails \/ Record \/ GoOn
               \/ Stop \/ Conclude \/ Publish \/ PublishFails \/ Crash \/ UNCHANGED vars
      BY <2>1 DEF vars, flags, PassOver, StartStep, WorkNoop, WorkFails, Record, GoOn, Stop,
                  Conclude, Publish, PublishFails, Crash
    <2>2. ASSUME NEW S, NEW b \in BOOLEAN, Begin(S, b)
          PROVE  /\ refused' \in BOOLEAN /\ preserve' \in BOOLEAN /\ deferred' \in BOOLEAN
                 /\ exporting' \in BOOLEAN
      <3>1. exporting' \in BOOLEAN
        BY <2>2, InIsBoolean, Zenon DEF Begin
      <3> QED BY <2>2, <3>1 DEF Begin
    <2>3. CASE StartFresh
      <3>1. Begin({}, FALSE)
        BY <2>3 DEF StartFresh
      <3> QED BY <3>1, <2>2
    <2>4. CASE StartResume
      <3>1. CASE Begin({s \in Steps \ {"001"} : saved.status[s] \in {"completed", "noop"}}, TRUE)
        BY <3>1, <2>2
      <3>2. CASE Begin({s \in Live : Detected(s)}, FALSE)
        BY <3>2, <2>2
      <3>3. CASE refused' = TRUE /\ UNCHANGED <<pc, at, status, outcome, flags>>
        BY <3>3 DEF flags
      <3> QED BY <2>4, <3>1, <3>2, <3>3 DEF StartResume
    <2>5. CASE Work
      <3>1. exporting' \in BOOLEAN
        BY <2>5, OrIsBoolean, Zenon DEF Work
      <3> QED BY <3>1, <2>5 DEF Work
    <2> QED BY <2>1, <2>3, <2>4, <2>5 DEF Next
  <1> QED BY <1>1, <1>2, <1>3

LEMMA TypeNext == TypeOK /\ [Next]_vars => TypeOK'
  <1>1. (TypeOK <=> DiskTypes /\ SavedTypes /\ RunTypes /\ FlagTypes /\ CountTypes)'
    BY TypeParts, PTL
  <1> QED BY <1>1, DiskTypesKept, SavedTypesKept, RunTypesKept, FlagTypesKept

\* Every variable keeps its type: no checkpoint is written that a resume
\* could not read, but for one that a crash tears.
THEOREM TypeCorrect == Spec => []TypeOK
  BY TypeInit, TypeNext, PTL DEF Spec

----------------------------------------------------------------------------
(* Where a run stands. *)

\* A run starts with the Deep steps pending, or, preserved, done.
LEMMA Begun ==
    ASSUME NEW skipped, NEW keep \in BOOLEAN, Begin(skipped, keep),
           ~keep => skipped \subseteq Live, keep => Tail5 \subseteq skipped
    PROVE  Progress' /\ Kept' /\ Finalising' /\ NoWork'
  <1>1. pc' = "ready" /\ at' = 1 /\ preserve' = keep
    BY DEF Begin
  <1>2. \A i \in 1..15 : status'[Order[i]] \in {"pending", "skipped_existing"}
    BY StepsAre DEF Begin
  <1>3. ~keep => \A i \in 11..15 : status'[Order[i]] = "pending"
    BY StepsAre DEF Begin
  <1>4. keep => \A i \in 11..15 : status'[Order[i]] = "skipped_existing"
    BY OrderEntries, StepsAre DEF Begin, Tail5, Deep
  <1>5. Progress'
    BY <1>1, <1>2, <1>3 DEF Progress, Running
  <1>6. \A s \in Steps : status'[s] # "noop"
    BY DEF Begin
  <1> QED BY <1>1, <1>4, <1>5, <1>6 DEF Kept, Finalising, NoWork, Running

LEMMA FlowInit == Init => Flow
  BY TypeInit DEF Init, Flow, Progress, Kept, Finalising, NoWork, Running

LEMMA FlowNext == Flow /\ [Next]_vars => Flow'
  <1> SUFFICES ASSUME Flow, [Next]_vars PROVE Progress' /\ Kept' /\ Finalising' /\ NoWork'
    BY TypeNext DEF Flow
  <1>1. RunTypes /\ Progress /\ Kept /\ Finalising /\ NoWork
    BY TypeParts DEF Flow
  <1>2. CASE StartFresh
    BY <1>2, Begun DEF StartFresh
  <1>3. CASE StartResume
    <2>1. CASE Verified /\ Begin({s \in Steps \ {"001"} : saved.status[s] \in {"completed", "noop"}},
                                TRUE)
      <3>1. Tail5 \subseteq {s \in Steps \ {"001"} : saved.status[s] \in {"completed", "noop"}}
        BY <2>1, OrderEntries, StepsAre DEF Verified, Tail5, Deep
      <3> QED BY <3>1, <2>1, Begun
    <2>2. CASE Begin({s \in Live : Detected(s)}, FALSE)
      BY <2>2, Begun
    <2>3. CASE UNCHANGED <<pc, at, status, outcome, flags>>
      BY <2>3, <1>1 DEF flags, Progress, Kept, Finalising, NoWork, Running, Current
    <2> QED BY <1>3, <2>1, <2>2, <2>3 DEF StartResume
  <1> USE <1>1 DEF RunTypes, Running, flags
  <1>4. CASE PassOver
    <2>1. at \in 1..15 /\ pc = "ready" /\ pc' = pc /\ at' = at + 1 /\ status' = status
          /\ status[Order[at]] \in {"skipped_existing", "skipped_dependency"}
          /\ preserve' = preserve /\ deferred' = deferred /\ outcome' = outcome
      BY <1>4, OrderEntries DEF PassOver, Current
    <2>2. Progress'
      <3>1. ~preserve => at < 11
        BY <2>1 DEF Progress
      <3> QED BY <2>1, <3>1 DEF Progress, Over
    <2> QED BY <2>1, <2>2 DEF Kept, Finalising, NoWork
  <1>5. CASE StartStep
    <2>1. at \in 1..15 /\ Order[at] \in Steps /\ pc = "ready" /\ pc' = "step" /\ at' = at
          /\ status' = [status EXCEPT ![Order[at]] = "running"]
          /\ status[Order[at]] = "pending"
          /\ preserve' = preserve /\ deferred' = deferred /\ outcome' = outcome
      BY <1>5, StepsAre, OrderEntries DEF StartStep, Current
    <2>2. \A i \in 1..15 :
             status'[Order[i]] = IF i = at THEN "running" ELSE status[Order[i]]
      BY <2>1, StepsAre, OrderDiffers
    <2>3. Progress'
      BY <2>1, <2>2 DEF Progress
    <2>4. Kept'
      BY <2>1, <2>2 DEF Kept
    <2> QED BY <2>1, <2>3, <2>4 DEF Finalising, NoWork
  <1>6. CASE Work \/ WorkNoop \/ WorkFails
    <2>1. pc = "step" /\ pc' = "done" /\ at' = at /\ status' = status /\ preserve' = preserve
          /\ deferred' = deferred
      BY <1>6 DEF Work, WorkNoop, WorkFails, Done
    <2>2. outcome' = "noop" => Current' \in MayNoop
      BY <1>6, <2>1 DEF Work, WorkNoop, WorkFails, Done, Current
    <2> QED BY <2>1, <2>2 DEF Progress, Kept, Finalising, NoWork
  <1>7. CASE Record
    <2>1. at \in 1..15 /\ Order[at] \in Steps /\ pc = "done" /\ pc' = "ready" /\ at' = at + 1
          /\ status' = [status EXCEPT ![Order[at]] = outcome]
          /\ status[Order[at]] = "running" /\ outcome \in {"completed", "noop"}
          /\ preserve' = preserve /\ deferred' = deferred /\ outcome' = None
      BY <1>7, StepsAre, CurrentStep DEF Record, Current
    <2>2. \A i \in 1..15 :
             status'[Order[i]] = IF i = at THEN outcome ELSE status[Order[i]]
      BY <2>1, StepsAre, OrderDiffers
    <2>3. outcome = "noop" => at < 11
      BY <2>1, NoopAssumption, OrderEntries DEF NoWork, Current
    <2>4. Progress'
      BY <2>1, <2>2, <2>3 DEF Progress, Over
    <2>5. Kept'
      BY <2>1, <2>2 DEF Kept
    <2>6. NoWork'
      BY <2>1 DEF NoWork, Current
    <2> QED BY <2>1, <2>4, <2>5, <2>6 DEF Finalising
  <1>8. CASE GoOn
    <2>1. at = 8
      BY <1>8, CurrentStep, OrderEntries, OrderDiffers DEF GoOn, Current
    <2>2. pc = "done" /\ pc' = "ready" /\ at' = 9 /\ preserve' = preserve /\ deferred' = TRUE
          /\ outcome' = None
      BY <1>8, <2>1 DEF GoOn
    <2>3. status' = [s \in Steps |-> CASE s = "007" -> "failed"
                                       [] s \in {"008", "009"} -> "skipped_dependency"
                                       [] OTHER -> status[s]]
      BY <1>8 DEF GoOn
    <2>4. /\ \A i \in 1..15 : i \notin 8..10 => status'[Order[i]] = status[Order[i]]
          /\ \A i \in 8..10 : status'[Order[i]] \in {"failed", "skipped_dependency"}
      BY <2>3, OrderEntries, StepsAre
    <2>5. Progress'
      BY <2>1, <2>2, <2>4 DEF Progress
    <2>6. Kept'
      BY <2>2, <2>4 DEF Kept
    <2>7. \A s \in Steps : status'[s] = "noop" => status[s] = "noop"
      BY <2>3
    <2> QED BY <2>2, <2>5, <2>6, <2>7, NoneAssumption DEF Finalising, NoWork
  <1>9. CASE Stop \/ Publish \/ PublishFails \/ Crash
    BY <1>9 DEF Stop, Publish, PublishFails, Crash, Progress, Kept, Finalising, NoWork
  <1>10. CASE Conclude
    <2>1. pc = "ready" /\ at = 16 /\ at' = at /\ status' = status /\ deferred' = deferred
          /\ preserve' = preserve /\ pc' = (IF preserve THEN "idle" ELSE "finalise")
          /\ outcome' = outcome
      BY <1>10, OrderEntries DEF Conclude
    <2> QED BY <2>1 DEF Progress, Kept, Finalising, NoWork
  <1>11. CASE UNCHANGED vars
    BY <1>11 DEF vars, Progress, Kept, Finalising, NoWork, Current
  <1> QED BY <1>2, <1>3, <1>4, <1>5, <1>6, <1>7, <1>8, <1>9, <1>10, <1>11 DEF Next

----------------------------------------------------------------------------
(* The Deep artefacts and the evidence pack. *)

LEMMA CurrentIs ==
    ASSUME at \in 1..15
    PROVE  /\ Current = "006" <=> at = 7
           /\ Current = "007" <=> at = 8
           /\ Current = "010D" <=> at = 11
           /\ Current = "011D" <=> at = 12
           /\ Current \in Live <=> at \in 2..10
  BY OrderEntries, OrderDiffers, StepsAre DEF Current

\* A preserved run never works on a Deep step or on a closing one.
LEMMA DeepNotKept ==
    ASSUME Flow, pc \in {"step", "done"}, at >= 11
    PROVE  ~preserve
  BY TypeParts DEF Flow, RunTypes, Kept, Running, Current

LEMMA PackedNext == Flow /\ Packed /\ [Next]_vars => Packed'
  <1> SUFFICES ASSUME Flow, Packed, [Next]_vars PROVE Packed'
    OBVIOUS
  <1>1. RunTypes /\ DiskTypes /\ Progress /\ Kept /\ Finalising /\ NoWork
    BY TypeParts DEF Flow
  <1>2. CASE StartFresh
    BY <1>2 DEF StartFresh, Begin, disk, Packed
  <1>3. CASE StartResume
    <2>1. zip' = zip /\ deepFiles' = deepFiles
      BY <1>3 DEF StartResume, disk
    <2>2. CASE Begin({s \in Steps \ {"001"} : saved.status[s] \in {"completed", "noop"}}, TRUE)
      BY <2>1, <2>2 DEF Begin, Packed
    <2>3. CASE ~DeepTouched /\ Begin({s \in Live : Detected(s)}, FALSE)
      BY <2>1, <2>3 DEF Begin, Packed, DeepTouched
    <2>4. CASE UNCHANGED <<pc, at, status, outcome, flags>>
      BY <2>1, <2>4 DEF flags, Packed, Running
    <2> QED BY <1>3, <2>2, <2>3, <2>4 DEF StartResume
  <1> USE <1>1 DEF RunTypes, Running, flags, disk
  <1>4. CASE PassOver
    <2>1. at \in 1..15 /\ pc = "ready" /\ pc' = pc /\ at' = at + 1
          /\ status[Order[at]] \in {"skipped_existing", "skipped_dependency"}
          /\ preserve' = preserve /\ deepFiles' = deepFiles /\ zip' = zip
      BY <1>4, OrderEntries DEF PassOver, Current
    <2>2. ~preserve => at < 11
      BY <2>1 DEF Progress
    <2> QED BY <2>1, <2>2 DEF Packed
  <1>5. CASE StartStep
    BY <1>5 DEF StartStep, Packed
  <1>6. CASE Work \/ WorkNoop \/ WorkFails
    <2>1. pc = "step" /\ pc' = "done" /\ at' = at /\ preserve' = preserve /\ zip' = zip
          /\ at \in 1..15
      BY <1>6, CurrentStep DEF Work, WorkNoop, WorkFails, Leaves, Done
    <2>2. outcome' = "completed" => Work
      BY <1>6 DEF WorkNoop, WorkFails, Done
    <2>3. Work => deepFiles' = (IF at = 11 THEN "some" ELSE IF at = 12 THEN "all" ELSE deepFiles)
      BY <2>1, CurrentIs DEF Work
    <2>4. WorkNoop \/ WorkFails => at = 11 \/ deepFiles' = deepFiles
      BY <2>1, CurrentIs DEF WorkNoop, WorkFails, Leaves
    <2>5. zip => at < 11
      BY <2>1, DeepNotKept DEF Packed
    <2> QED BY <1>6, <2>1, <2>2, <2>3, <2>4, <2>5 DEF Packed
  <1>7. CASE Record
    <2>1. pc = "done" /\ pc' = "ready" /\ at' = at + 1 /\ preserve' = preserve /\ zip' = zip
          /\ deepFiles' = deepFiles /\ outcome \in {"completed", "noop"} /\ at \in 1..15
      BY <1>7, CurrentStep DEF Record
    <2>2. outcome = "noop" => at # 12
      BY <2>1, NoopAssumption, CurrentIs DEF NoWork
    <2> QED BY <2>1, <2>2 DEF Packed
  <1>8. CASE GoOn
    <2>1. pc = "done" /\ at' = at + 1 /\ preserve' = preserve /\ zip' = zip /\ at = 8
          /\ deepFiles' = deepFiles
      BY <1>8, CurrentStep, CurrentIs DEF GoOn
    <2> QED BY <2>1 DEF Packed
  <1>9. CASE Stop \/ PublishFails
    <2>1. pc' = "idle" /\ zip' = zip /\ deepFiles' = deepFiles
      BY <1>9 DEF Stop, PublishFails
    <2> QED BY <2>1 DEF Packed
  <1>10. CASE Conclude
    BY <1>10 DEF Conclude, Packed
  <1>11. CASE Publish
    <2>1. pc = "finalise" /\ pc' = "idle" /\ deepFiles' = deepFiles
      BY <1>11 DEF Publish
    <2> QED BY <2>1 DEF Packed, Finalising
  <1>12. CASE Crash
    <2>1. pc # "idle" /\ pc' = "idle" /\ zip' = zip
      BY <1>12, Zenon DEF Crash, Leaves, disk
    <2>2. deepFiles' = deepFiles \/ (pc = "step" /\ Current = "010D")
      BY <1>12, Zenon DEF Crash, Leaves, disk
    <2>3. zip => deepFiles' = deepFiles
      BY <2>2, CurrentStep, CurrentIs, DeepNotKept DEF Packed
    <2> QED BY <2>1, <2>3 DEF Packed
  <1>13. CASE UNCHANGED vars
    BY <1>13 DEF vars, Packed
  <1> QED BY <1>2, <1>3, <1>4, <1>5, <1>6, <1>7, <1>8, <1>9, <1>10, <1>11, <1>12, <1>13 DEF Next

\* The evidence pack is the last thing written.
LEMMA PackStep == Flow /\ Packed /\ [Next]_vars => (zip => UNCHANGED <<saved, deepFiles>>)
  <1> SUFFICES ASSUME Flow, Packed, zip, [Next]_vars PROVE saved' = saved /\ deepFiles' = deepFiles
    OBVIOUS
  <1>1. deepFiles = "all" /\ (Running => preserve)
    BY DEF Packed
  <1>2. pc \in {"step", "done"} => at \in 1..10 /\ RunTypes
    <2>1. RunTypes
      BY TypeParts DEF Flow
    <2> QED BY <2>1, <1>1, CurrentStep, DeepNotKept DEF Running
  <1> USE <1>1, <1>2 DEF Running, disk
  <1>3. CASE StartFresh \/ StartResume \/ PassOver \/ WorkNoop \/ Publish \/ UNCHANGED vars
    BY <1>3 DEF StartFresh, StartResume, PassOver, WorkNoop, Publish, vars
  <1>4. CASE StartStep \/ Record \/ GoOn \/ Stop \/ Conclude \/ PublishFails
    BY <1>4 DEF StartStep, Record, GoOn, Stop, Conclude, PublishFails, Checkpoint
  <1>5. CASE Work \/ WorkFails
    <2>1. at \in 1..10 /\ saved' = saved
      BY <1>5 DEF Work, WorkFails
    <2>2. Current # "010D" /\ Current # "011D"
      BY <2>1, CurrentIs
    <2>3. deepFiles' = deepFiles
      BY <1>5, <2>2 DEF Work, WorkFails, Leaves
    <2> QED BY <2>1, <2>3
  <1>6. CASE Crash
    <2>1. pc # "idle"
      BY <1>6, Zenon DEF Crash
    <2>2. preserve
      BY <2>1
    <2>3. saved' = saved
      BY <1>6, <2>2, Zenon DEF Crash
    <2>4. deepFiles' = deepFiles \/ (pc = "step" /\ Current = "010D")
      BY <1>6, Zenon DEF Crash, Leaves, disk
    <2> QED BY <2>3, <2>4, CurrentIs
  <1> QED BY <1>3, <1>4, <1>5, <1>6 DEF Next

----------------------------------------------------------------------------
(* Evidence and statuses. *)

\* What any step does to the evidence, the plan directory and the rest.
LEMMA DiskStep ==
    ASSUME DiskTypes, [Next]_vars
    PROVE  /\ evidence' \subseteq evidence \cup {Current} /\ evidence \ {Current} \subseteq evidence'
           /\ evidence' # evidence => pc = "step"
           /\ whole \subseteq whole' /\ evidence' \subseteq evidence \cup whole' \cup {"008"}
           /\ planned => planned'
           /\ ("006" \in evidence => planned) => ("006" \in evidence' => planned')
           /\ deepFiles' = "none" => deepFiles = "none"
  <1>1. CASE UNCHANGED disk
    BY <1>1 DEF disk
  <1>2. CASE Leaves /\ pc = "step"
    <2>1. deepFiles' = deepFiles \/ deepFiles' = "some"
      BY <1>2, Zenon DEF Leaves
    <2> QED BY <1>2, <2>1, PhaseLeft DEF Leaves
  <1>3. CASE Work
    <2>1. pc = "step" /\ planned' = (planned \/ Current = "006")
      BY <1>3 DEF Work
    <2>2. deepFiles' \in {deepFiles, "some", "all"}
      BY <1>3 DEF Work
    <2>3. \/ evidence' = evidence /\ whole \subseteq whole'
          \/ evidence' = evidence \cup {Current} /\ whole' = whole \cup {Current}
      BY <1>3 DEF Work
    <2> QED BY <2>1, <2>2, <2>3
  <1>4. CASE WorkNoop \/ Publish
    BY <1>4 DEF WorkNoop, Publish
  <1>5. WorkFails \/ Crash => UNCHANGED disk \/ (Leaves /\ pc = "step")
    BY Zenon DEF WorkFails, Crash
  <1>6. StartFresh \/ StartResume \/ PassOver \/ StartStep \/ Record \/ GoOn \/ Stop \/ Conclude
             \/ PublishFails \/ UNCHANGED vars => UNCHANGED disk
    BY Zenon DEF vars, StartFresh, StartResume, PassOver, StartStep, Record, GoOn, Stop,
                 Conclude, PublishFails
  <1> QED BY <1>1, <1>2, <1>3, <1>4, <1>5, <1>6 DEF Next

LEMMA TrackedNext ==
    Flow /\ Tracked /\ NoRepeat /\ [Next]_vars => Tracked' /\ NoRepeat'
  <1> SUFFICES ASSUME Flow, Tracked, NoRepeat, [Next]_vars PROVE Tracked' /\ NoRepeat'
    OBVIOUS
  <1>1. RunTypes /\ DiskTypes
    BY TypeParts DEF Flow
  <1>0. "006" \in evidence' => planned'
    BY <1>1, DiskStep DEF Tracked
  <1> USE <1>0
  <1>2. CASE StartFresh
    <2>1. evidence' = {} /\ pc' = "ready" /\ status' = [s \in Steps |-> "pending"]
      BY <1>2 DEF StartFresh, Begin, disk
    <2>2. "006" \in Steps
      BY OrderEntries, StepsAre
    <2> QED BY <2>1, <2>2 DEF Tracked, NoRepeat
  <1>3. CASE StartResume
    <2>1. evidence' = evidence
      BY <1>3 DEF StartResume, disk
    <2>2. CASE Begin({s \in Steps \ {"001"} : saved.status[s] \in {"completed", "noop"}}, TRUE)
      BY <2>2 DEF Begin, Tracked, NoRepeat
    <2>3. CASE Begin({s \in Live : Detected(s)}, FALSE)
      <3>1. \A s \in Steps : status'[s] = (IF s \in Live /\ Detected(s)
                                          THEN "skipped_existing" ELSE "pending")
        BY <2>3 DEF Begin
      <3>2. \A s \in Live : status'[s] = "pending" => s \notin evidence'
        BY <2>1, <3>1, StepsAre DEF Detected
      <3>3. "006" \in Steps
        BY OrderEntries, StepsAre
      <3>4. status'["006"] \in {"completed", "skipped_existing"} => "006" \in evidence'
        BY <2>1, <3>1, <3>3 DEF Detected
      <3> QED BY <2>3, <3>2, <3>4 DEF Begin, Tracked, NoRepeat
    <2>4. CASE UNCHANGED <<pc, at, status, outcome, flags>>
      BY <2>1, <2>4 DEF flags, Tracked, NoRepeat, Running, Current
    <2> QED BY <1>3, <2>2, <2>3, <2>4 DEF StartResume
  <1> USE <1>1 DEF RunTypes, DiskTypes, Running, flags, disk
  <1>4. CASE PassOver
    BY <1>4, NoneAssumption DEF PassOver, Tracked, NoRepeat
  <1>5. CASE StartStep
    <2>1. pc = "ready" /\ pc' = "step" /\ Current' = Current /\ evidence' = evidence
          /\ preserve' = preserve /\ status[Current] = "pending"
          /\ status' = [status EXCEPT ![Current] = "running"]
      BY <1>5 DEF StartStep, Current
    <2> QED BY <2>1, StepsAre DEF Tracked, NoRepeat
  <1>6. CASE Work \/ WorkNoop \/ WorkFails
    <2>1. pc = "step" /\ pc' = "done" /\ Current' = Current /\ status' = status
          /\ preserve' = preserve
      BY <1>6 DEF Work, WorkNoop, WorkFails, Done, Current
    <2>2. evidence' \subseteq evidence \cup {Current} /\ evidence \ {Current} \subseteq evidence'
      BY <1>1, DiskStep
    <2>3. outcome' = "completed" => Work
      BY <1>6 DEF WorkNoop, WorkFails, Done
    <2>4. Work /\ Current = "006" => "006" \in evidence'
      BY OrderEntries, StepsAre DEF Work
    <2>5. status[Current] = "running"
      BY <2>1
    <2> QED BY <2>1, <2>2, <2>3, <2>4, <2>5 DEF Tracked, NoRepeat
  <1>7. CASE Record
    <2>1. pc = "done" /\ pc' = "ready" /\ evidence' = evidence /\ preserve' = preserve
          /\ status' = [status EXCEPT ![Current] = outcome] /\ outcome \in {"completed", "noop"}
      BY <1>7 DEF Record
    <2> QED BY <2>1, StepsAre DEF Tracked, NoRepeat
  <1>8. CASE GoOn
    <2>1. pc = "done" /\ pc' = "ready" /\ evidence' = evidence /\ preserve' = preserve
      BY <1>8 DEF GoOn
    <2>2. \A s \in Steps : status'[s] \in {"failed", "skipped_dependency"} \/ status'[s] = status[s]
      BY <1>8 DEF GoOn
    <2>3. "006" \in Steps
      BY OrderEntries, StepsAre
    <2> QED BY <2>1, <2>2, <2>3, StepsAre DEF Tracked, NoRepeat
  <1>9. CASE Stop \/ Publish \/ PublishFails \/ Crash
    <2>1. pc' = "idle"
      BY <1>9, Zenon DEF Stop, Publish, PublishFails, Crash
    <2> QED BY <2>1 DEF Tracked, NoRepeat
  <1>10. CASE Conclude
    BY <1>10 DEF Conclude, Tracked, NoRepeat
  <1>11. CASE UNCHANGED vars
    BY <1>11 DEF vars, Tracked, NoRepeat, Current
  <1> QED BY <1>2, <1>3, <1>4, <1>5, <1>6, <1>7, <1>8, <1>9, <1>10, <1>11 DEF Next

\* The directory of the content plan is there when the Deep steps are reached.
LEMMA PlanIsThere ==
    ASSUME Flow, Tracked, Running, ~preserve, at > 7
    PROVE  planned
  <1>1. "006" \in Steps /\ Order[7] = "006"
    BY OrderEntries, StepsAre
  <1>2. status["006"] \in Over
    BY <1>1 DEF Flow, Progress
  <1>3. status["006"] # "noop"
    BY <1>1, NoopAssumption DEF Flow, NoWork
  <1> QED BY <1>2, <1>3 DEF Over, Tracked

LEMMA CheckpointRemembers ==
    ASSUME NEW st \in [Steps -> Statuses], NEW final \in {"running", "failed", "completed"},
           NEW export \in BOOLEAN, Checkpoint(st, final, export), deepFiles' = deepFiles,
           preserve => saved = Torn \/ DeepTouched,
           ~preserve => st["010D"] \in {"running", "completed", "failed"}
    PROVE  saved' = Torn \/ DeepTouched'
  <1>1. CASE preserve
    BY <1>1 DEF Checkpoint, DeepTouched, Prior, Readable
  <1>2. CASE ~preserve
    <2>1. saved' = [status |-> st, final |-> final, export |-> export]
      BY <1>2 DEF Checkpoint
    <2>2. saved' \in Checkpoints /\ saved'.status = st
      BY <2>1 DEF Checkpoints
    <2> QED BY <2>2, <1>2, NoneAssumption DEF DeepTouched, Prior, Readable, Deep
  <1> QED BY <1>1, <1>2

LEMMA RememberedNext ==
    Flow /\ Tracked /\ Remembered /\ [Next]_vars => Remembered'
  <1> SUFFICES ASSUME Flow, Tracked, Remembered, [Next]_vars, deepStarts' # 0 PROVE Remembered'
    BY DEF Remembered
  <1>1. RunTypes /\ DiskTypes /\ Progress /\ Kept /\ Finalising /\ NoWork /\ FlagTypes
        /\ deepStarts \in Nat
    BY TypeParts DEF Flow, CountTypes
  <1>2. RunTypes'
    BY FlowNext, TypeNext, RunTypesKept DEF Flow
  <1>3. "010D" \in Steps /\ Order[11] = "010D"
    BY OrderEntries, StepsAre
  <1>4. ASSUME saved' = saved \/ saved' = Torn, deepFiles' = "none" => deepFiles = "none",
               saved = Torn \/ DeepTouched
        PROVE  saved' = Torn \/ DeepTouched'
    BY <1>4 DEF DeepTouched, Prior, Readable
  <1>0. (planned => planned') /\ (deepFiles' = "none" => deepFiles = "none")
    BY <1>1, DiskStep
  <1>5. ~preserve /\ Running /\ at > 11 => status["010D"] = "completed"
    BY <1>1, <1>3 DEF Progress, RunTypes
  <1>6. CASE StartFresh
    BY <1>6 DEF StartFresh, Remembered
  <1>7. CASE StartResume
    <2>1. saved' = saved /\ deepFiles' = deepFiles /\ planned' = planned
          /\ deepStarts' = deepStarts
      BY <1>7 DEF StartResume, disk
    <2>2. DeepTouched' <=> DeepTouched
      BY <2>1 DEF DeepTouched, Prior, Readable
    <2>3. CASE Begin({s \in Steps \ {"001"} : saved.status[s] \in {"completed", "noop"}}, TRUE)
      BY <2>1, <2>2, <2>3 DEF Begin, Remembered
    <2>4. CASE ~Unreadable /\ ~DeepTouched
      BY <2>1, <2>4 DEF Remembered, Unreadable
    <2>5. CASE UNCHANGED <<pc, at, status, outcome, flags>>
      BY <2>1, <2>2, <2>5 DEF flags, Remembered, Running
    <2> QED BY <1>7, <2>3, <2>4, <2>5 DEF StartResume
  <1>8. CASE PassOver
    <2>1. saved' = saved /\ deepFiles' = deepFiles /\ planned' = planned /\ pc = "ready"
          /\ deepStarts' = deepStarts /\ at' = at + 1 /\ preserve' = preserve /\ pc' = pc
      BY <1>8 DEF PassOver, disk, flags
    <2> QED BY <2>1, <1>4, <1>1 DEF Remembered, Running, RunTypes
  <1>9. CASE StartStep
    <2>1. at \in 1..15 /\ pc = "ready" /\ pc' = "step" /\ at' = at /\ planned' = planned
          /\ preserve' = preserve /\ deepFiles' = deepFiles /\ status[Order[at]] = "pending"
          /\ status' = [status EXCEPT ![Order[at]] = "running"]
          /\ Checkpoint(status', "running", exporting)
      BY <1>9, <1>1, OrderEntries DEF StartStep, Current, RunTypes, disk, flags
    <2>2. deepStarts' = IF at = 11 THEN deepStarts + 1 ELSE deepStarts
      BY <1>9, <1>1, <2>1, CurrentIs DEF StartStep
    <2>3. at < 11 => preserve
      BY <1>1, <2>1, <2>2 DEF Remembered, Running
    <2>4. at = 11 => ~preserve /\ deepStarts = 0
      BY <2>1, <1>1, <1>3 DEF Remembered, Running, Kept
    <2>5. ~preserve => status'["010D"] \in {"running", "completed"}
      BY <2>1, <2>3, <1>1, <1>2, <1>3, <1>5 DEF RunTypes, Running
    <2>6. preserve => deepStarts' = deepStarts
      BY <2>2, <2>4
    <2>7. saved' = Torn \/ DeepTouched'
      BY <2>1, <2>5, <2>6, <1>1, <1>2, CheckpointRemembers DEF RunTypes, FlagTypes, Remembered
    <2>8. planned
      <3>1. CASE preserve
        BY <3>1, <2>6 DEF Remembered
      <3>2. CASE ~preserve
        BY <3>2, <2>1, <2>3, PlanIsThere DEF Running
      <3> QED BY <3>1, <3>2
    <2>9. deepStarts' = 1
      BY <2>2, <2>4, <1>1 DEF Remembered
    <2> QED BY <2>1, <2>3, <2>7, <2>8, <2>9 DEF Remembered
  <1>10. CASE Work \/ WorkNoop \/ WorkFails
    <2>1. pc = "step" /\ pc' = "done" /\ at' = at /\ preserve' = preserve /\ saved' = saved
          /\ deepStarts' = deepStarts
      BY <1>10 DEF Work, WorkNoop, WorkFails, Done, flags
    <2> QED BY <2>1, <1>0, <1>4 DEF Remembered, Running
  <1>11. CASE Record
    <2>1. pc = "done" /\ pc' = "ready" /\ at' = at + 1 /\ preserve' = preserve
          /\ planned' = planned /\ deepStarts' = deepStarts /\ deepFiles' = deepFiles
          /\ outcome \in {"completed", "noop"} /\ at \in 1..15
          /\ status' = [status EXCEPT ![Order[at]] = outcome]
          /\ Checkpoint(status', "running", exporting)
      BY <1>11, <1>1, CurrentStep DEF Record, Current, disk, flags
    <2>2. at >= 11 => outcome = "completed"
      BY <2>1, <1>1, NoopAssumption, CurrentIs, OrderEntries DEF NoWork, Current
    <2>3. ~preserve => at >= 11
      BY <2>1 DEF Remembered, Running
    <2>4. ~preserve => status'["010D"] = "completed"
      BY <2>1, <2>2, <2>3, <1>1, <1>3, <1>5, OrderDiffers DEF RunTypes, Running
    <2>5. saved' = Torn \/ DeepTouched'
      BY <2>1, <2>4, <1>1, <1>2, CheckpointRemembers DEF RunTypes, FlagTypes, Remembered
    <2> QED BY <2>1, <2>3, <2>5 DEF Remembered
  <1>12. CASE GoOn
    <2>1. pc = "done" /\ at = 8 /\ preserve' = preserve /\ planned' = planned
          /\ deepStarts' = deepStarts /\ deepFiles' = deepFiles
          /\ Checkpoint(status', "failed", exporting)
      BY <1>12, <1>1, CurrentStep, CurrentIs DEF GoOn, disk
    <2>2. preserve
      BY <2>1 DEF Remembered, Running
    <2>3. saved' = Torn \/ DeepTouched'
      BY <2>1, <2>2, <1>1, <1>2, CheckpointRemembers DEF RunTypes, FlagTypes, Remembered
    <2> QED BY <2>1, <2>2, <2>3 DEF Remembered
  <1>13. CASE Stop
    <2>1. pc = "done" /\ pc' = "idle" /\ planned' = planned /\ at \in 1..15
          /\ deepStarts' = deepStarts /\ deepFiles' = deepFiles
          /\ status' = [status EXCEPT ![Order[at]] = "failed"]
          /\ Checkpoint(status', "failed", exporting)
      BY <1>13, <1>1, CurrentStep DEF Stop, Current, disk
    <2>2. ~preserve => at >= 11
      BY <2>1 DEF Remembered, Running
    <2>3. ~preserve => status'["010D"] \in {"completed", "failed"}
      BY <2>1, <2>2, <1>1, <1>3, <1>5, OrderDiffers DEF RunTypes, Running
    <2>4. saved' = Torn \/ DeepTouched'
      BY <2>1, <2>3, <1>1, <1>2, CheckpointRemembers DEF RunTypes, FlagTypes, Remembered
    <2> QED BY <2>1, <2>4 DEF Remembered, Running
  <1>14. CASE Conclude
    <2>1. pc = "ready" /\ at > 11 /\ at' = at /\ planned' = planned /\ status' = status
          /\ deepStarts' = deepStarts /\ deepFiles' = deepFiles
      <3>1. pc = "ready" /\ at > Len(Order)
        BY <1>14, Zenon DEF Conclude
      <3>2. at' = at /\ planned' = planned /\ status' = status /\ deepStarts' = deepStarts
            /\ deepFiles' = deepFiles
        BY <1>14, Zenon DEF Conclude, disk
      <3> QED BY <3>1, <3>2, <1>1, OrderEntries DEF RunTypes
    <2>3. \E final \in {"failed", "completed"} : Checkpoint(status, final, exporting)
      BY <1>14, Zenon DEF Conclude
    <2>2. saved' = Torn \/ DeepTouched'
      BY <2>1, <2>3, <1>1, <1>5, CheckpointRemembers DEF RunTypes, FlagTypes, Remembered, Running
    <2> QED BY <2>1, <2>2 DEF Remembered
  <1>15. CASE Publish
    <2>1. saved' = saved /\ deepFiles' = deepFiles /\ planned' = planned /\ pc' = "idle"
          /\ deepStarts' = deepStarts
      BY <1>15 DEF Publish
    <2> QED BY <2>1, <1>4 DEF Remembered, Running
  <1>16. CASE PublishFails
    <2>1. pc = "finalise" /\ pc' = "idle" /\ planned' = planned /\ deepStarts' = deepStarts
          /\ deepFiles' = deepFiles /\ Checkpoint(status, "failed", FALSE)
      BY <1>16 DEF PublishFails, disk
    <2>2. saved' = Torn \/ DeepTouched'
      BY <2>1, <1>1, <1>5, CheckpointRemembers
         DEF RunTypes, FlagTypes, Remembered, Running, Finalising
    <2> QED BY <2>1, <2>2 DEF Remembered, Running
  <1>17. CASE Crash
    <2>1. pc' = "idle" /\ deepStarts' = deepStarts /\ (saved' = saved \/ saved' = Torn)
      BY <1>17, Zenon DEF Crash
    <2>2. saved' = Torn \/ DeepTouched'
      BY <2>1, <1>0, <1>4 DEF Remembered
    <2> QED BY <2>1, <2>2, <1>0 DEF Remembered, Running
  <1>18. CASE UNCHANGED vars
    BY <1>18 DEF vars, disk, flags, Remembered, Running, DeepTouched, Prior, Readable
  <1> QED BY <1>6, <1>7, <1>8, <1>9, <1>10, <1>11, <1>12, <1>13, <1>14, <1>15, <1>16, <1>17, <1>18
          DEF Next

----------------------------------------------------------------------------
(* What checkpoints say. *)

\* A checkpoint is kept, torn, or a record of the statuses it was given.
LEMMA CheckpointIs ==
    ASSUME NEW st \in [Steps -> Statuses], NEW final \in {"running", "failed", "completed"},
           NEW export \in BOOLEAN, Checkpoint(st, final, export)
    PROVE  \/ preserve /\ saved' = saved
           \/ ~preserve /\ Readable' /\ saved'.status = st /\ saved'.final = final
  <1> DEFINE record == [status |-> st, final |-> final, export |-> export]
  <1>1. record \in Checkpoints /\ record.status = st /\ record.final = final
    BY DEF Checkpoints
  <1> QED BY <1>1, NoneAssumption DEF Checkpoint, Readable

\* Every checkpoint that an action writes, and when it says completed.
LEMMA Written ==
    ASSUME Flow, [Next]_vars
    PROVE  \/ saved' = saved
           \/ saved' = Torn
           \/ /\ Running /\ ~preserve /\ Readable' /\ saved'.status = status'
              /\ saved'.final = "completed" => at = 16 /\ ~deferred /\ status' = status
              /\ StartStep \/ Record \/ GoOn \/ Stop \/ Conclude \/ PublishFails
  <1>1. RunTypes /\ FlagTypes /\ RunTypes'
    BY TypeParts, TypeNext, RunTypesKept DEF Flow
  <1>2. status \in [Steps -> Statuses] /\ status' \in [Steps -> Statuses]
        /\ exporting \in BOOLEAN
    BY <1>1 DEF RunTypes, FlagTypes
  <1>3. CASE StartFresh \/ StartResume \/ PassOver \/ Work \/ WorkNoop \/ WorkFails \/ Publish
             \/ UNCHANGED vars
    BY <1>3 DEF StartFresh, StartResume, PassOver, Work, WorkNoop, WorkFails, Publish, vars
  <1>4. CASE StartStep
    <2>1. Checkpoint(status', "running", exporting) /\ Running
      BY <1>4 DEF StartStep, Running
    <2> QED BY <2>1, <1>2, <1>4, CheckpointIs
  <1>5. CASE Record
    <2>1. Checkpoint(status', "running", exporting) /\ Running
      BY <1>5 DEF Record, Running
    <2> QED BY <2>1, <1>2, <1>5, CheckpointIs
  <1>6. CASE GoOn \/ Stop
    <2>1. Checkpoint(status', "failed", exporting) /\ Running
      BY <1>6 DEF GoOn, Stop, Running
    <2> QED BY <2>1, <1>2, <1>6, CheckpointIs
  <1>7. CASE Conclude
    <2>1. pc = "ready" /\ at > Len(Order) /\ status' = status
      BY <1>7, Zenon DEF Conclude
    <2>2. at = 16 /\ Running
      BY <2>1, <1>1, OrderEntries DEF RunTypes, Running
    <2>3. CASE deferred
      <3>1. Checkpoint(status, "failed", exporting)
        BY <1>7, <2>3 DEF Conclude
      <3> QED BY <3>1, <2>1, <2>2, <1>2, <1>7, CheckpointIs
    <2>4. CASE ~deferred
      <3>1. Checkpoint(status, "completed", exporting)
        BY <1>7, <2>4 DEF Conclude
      <3> QED BY <3>1, <2>1, <2>2, <2>4, <1>2, <1>7, CheckpointIs
    <2> QED BY <2>3, <2>4
  <1>8. CASE PublishFails
    <2>1. Checkpoint(status, "failed", FALSE) /\ status' = status /\ Running
      BY <1>8 DEF PublishFails, Running
    <2> QED BY <2>1, <1>2, <1>8, CheckpointIs
  <1>9. CASE Crash
    BY <1>9, Zenon DEF Crash
  <1> QED BY <1>3, <1>4, <1>5, <1>6, <1>7, <1>8, <1>9 DEF Next

LEMMA CompletedNext == Flow /\ CompletedMeansAll /\ [Next]_vars => CompletedMeansAll'
  <1> SUFFICES ASSUME Flow, CompletedMeansAll, [Next]_vars PROVE CompletedMeansAll'
    OBVIOUS
  <1>1. CASE saved' = saved
    BY <1>1 DEF CompletedMeansAll, Readable
  <1>2. CASE saved' = Torn
    BY <1>2 DEF CompletedMeansAll, Readable
  <1>3. CASE /\ Running /\ ~preserve /\ saved'.status = status'
             /\ saved'.final = "completed" => at = 16 /\ ~deferred /\ status' = status
    <2>1. SUFFICES ASSUME at = 16, ~deferred, status' = status
                   PROVE  \A s \in Steps : saved'.status[s] \in Over
      BY <1>3 DEF CompletedMeansAll, Over
    <2>2. \A i \in 1..15 : status[Order[i]] \in Over
      BY <1>3, <2>1 DEF Flow, Progress
    <2> QED BY <1>3, <2>1, <2>2, StepsAre
  <1> QED BY <1>1, <1>2, <1>3, Written

\* Work is never taken for done that was not.
LEMMA AccountedNext == Flow /\ Accounted /\ [Next]_vars => Accounted'
  <1> SUFFICES ASSUME Flow, Accounted, [Next]_vars PROVE Accounted'
    OBVIOUS
  <1>1. RunTypes /\ DiskTypes
    BY TypeParts DEF Flow
  <1> DEFINE Trusted == pc' = "done" /\ outcome' \in {"completed", "noop"} /\ Current' \in Live
                           => Current' \in whole'
  <1>2. whole \subseteq whole' /\ evidence' \subseteq whole' \cup {"008"} /\ Trusted
    <2>0. whole \subseteq whole' /\ evidence' \subseteq whole' \cup {"008"}
      BY <1>1, DiskStep DEF Accounted
    <2> USE <2>0
    <2>1. CASE Work
      <3>1. pc = "step" /\ at' = at /\ Current' = Current
        BY <2>1 DEF Work, Current
      <3>2. CASE Current \in Live
        <4>1. whole' = whole \cup {Current} /\ evidence' \subseteq evidence \cup {Current}
          BY <2>1, <3>2 DEF Work
        <4> QED BY <3>1, <4>1 DEF Accounted
      <3>3. CASE Current \notin Live
        BY <2>1, <3>1, <3>3 DEF Work, Accounted
      <3> QED BY <3>2, <3>3
    <2>2. CASE WorkNoop
      BY <2>2 DEF WorkNoop, Accounted, Current
    <2>3. CASE WorkFails
      BY <2>3 DEF WorkFails, Done
    <2>4. CASE StartFresh
      BY <2>4 DEF StartFresh, Begin, disk, Accounted
    <2>5. CASE StartResume
      BY <2>5, <1>1 DEF StartResume, Begin, disk, flags, Accounted, RunTypes, Current
    <2>6. CASE PassOver \/ StartStep \/ Conclude \/ UNCHANGED vars
      <3>1. whole' = whole /\ evidence' = evidence
        BY <2>6, Zenon DEF PassOver, StartStep, Conclude, disk, vars
      <3>2. CASE UNCHANGED vars
        BY <3>1, <3>2 DEF vars, Accounted, Current
      <3>3. CASE PassOver \/ StartStep \/ Conclude
        <4>1. pc' # "done"
          BY <3>3 DEF PassOver, StartStep, Conclude
        <4> QED BY <3>1, <4>1 DEF Accounted
      <3> QED BY <2>6, <3>2, <3>3
    <2>7. CASE Record \/ GoOn \/ Stop \/ Publish \/ PublishFails \/ Crash
      <3>1. pc' \in {"idle", "ready"}
        BY <2>7, Zenon DEF Record, GoOn, Stop, Publish, PublishFails, Crash
      <3> QED BY <3>1
    <2> QED BY <2>1, <2>2, <2>3, <2>4, <2>5, <2>6, <2>7 DEF Next
  <1>3. ASSUME NEW s \in Live, Running', status'[s] \in Over PROVE Sound(s, status[s])'
    <2>1. CASE StartFresh
      BY <2>1, <1>3, StepsAre DEF StartFresh, Begin, Over
    <2>2. CASE StartResume
      <3>1. CASE Verified
                   /\ Begin({t \in Steps \ {"001"} : saved.status[t] \in {"completed", "noop"}}, TRUE)
        <4>1. saved.status[s] \in {"completed", "noop"} /\ Readable
          BY <1>3, <3>1, StepsAre DEF Begin, Over, Verified
        <4> QED BY <4>1, <1>2 DEF Sound, Accounted, Over
      <3>2. CASE Begin({t \in Live : Detected(t)}, FALSE)
        <4>1. Detected(s)
          BY <1>3, <3>2, StepsAre DEF Begin, Over
        <4>2. \/ s \in evidence
              \/ Readable /\ saved.status[s] = "noop"
              \/ Readable /\ s # "008" /\ saved.status[s] \in Over
          BY <4>1 DEF Detected, Prior, Over
        <4>3. s \in whole \/ (s = "008" /\ s \in evidence)
          BY <4>2 DEF Sound, Accounted, Over
        <4>4. status'[s] = "skipped_existing"
          BY <1>3, <3>2, StepsAre DEF Begin, Over
        <4> QED BY <4>3, <4>4, <1>2 DEF Sound
      <3>3. CASE UNCHANGED <<pc, at, status, outcome, flags>>
        BY <1>2, <1>3, <3>3 DEF Sound, Accounted, Running
      <3> QED BY <2>2, <3>1, <3>2, <3>3 DEF StartResume
    <2>3. CASE Running /\ (status'[s] \in Over => status'[s] = status[s])
      BY <1>2, <1>3, <2>3 DEF Sound, Accounted
    <2>4. CASE Record
      <3>1. status'[s] = IF s = Current THEN outcome ELSE status[s]
        BY <2>4, <1>1, StepsAre DEF Record, RunTypes
      <3> QED BY <3>1, <1>2, <1>3, <2>4 DEF Record, Sound, Accounted, Running
    <2>5. CASE StartStep \/ Stop
      <3>1. Running /\ (status'[s] \in {"running", "failed"} \/ status'[s] = status[s])
        BY <2>5, <1>1, StepsAre DEF StartStep, Stop, Running, RunTypes
      <3> QED BY <3>1, <2>3 DEF Over
    <2>6. CASE GoOn
      <3>1. Running /\ (status'[s] \in {"failed", "skipped_dependency"} \/ status'[s] = status[s])
        BY <2>6, StepsAre DEF GoOn, Running
      <3> QED BY <3>1, <2>3 DEF Over
    <2>7. CASE PassOver \/ Work \/ WorkNoop \/ WorkFails \/ Conclude
      <3>1. Running /\ status' = status
        BY <2>7, Zenon DEF PassOver, Work, WorkNoop, WorkFails, Conclude, Running
      <3> QED BY <3>1, <2>3
    <2>8. CASE Publish \/ PublishFails \/ Crash
      BY <2>8, <1>3, Zenon DEF Publish, PublishFails, Crash, Running
    <2>9. CASE UNCHANGED vars
      BY <2>9, <1>2, <1>3 DEF vars, Sound, Accounted, Running
    <2> QED BY <2>1, <2>2, <2>4, <2>5, <2>6, <2>7, <2>8, <2>9 DEF Next
  <1>4. ASSUME NEW s \in Live, Readable', saved'.status[s] \in Over
        PROVE  Sound(s, saved.status[s])'
    <2>1. CASE saved' = saved
      BY <1>2, <1>4, <2>1 DEF Sound, Accounted, Readable
    <2>2. CASE saved' = Torn
      BY <1>4, <2>2 DEF Readable
    <2>3. CASE /\ Running /\ saved'.status = status'
               /\ StartStep \/ Record \/ GoOn \/ Stop \/ Conclude \/ PublishFails
      <3>1. CASE Running'
        BY <1>3, <1>4, <2>3, <3>1
      <3>2. CASE ~Running'
        <4>1. status'[s] \in {"failed"} \/ status'[s] = status[s]
          <5>1. CASE Stop
            BY <5>1, <1>1, StepsAre DEF Stop, RunTypes
          <5>2. CASE Conclude \/ PublishFails
            BY <5>2, Zenon DEF Conclude, PublishFails
          <5>3. CASE StartStep \/ Record \/ GoOn
            BY <5>3, <3>2 DEF StartStep, Record, GoOn, Running
          <5> QED BY <2>3, <5>1, <5>2, <5>3
        <4> QED BY <1>2, <1>4, <2>3, <4>1 DEF Sound, Accounted, Over
      <3> QED BY <3>1, <3>2
    <2> QED BY <2>1, <2>2, <2>3, Written
  <1> QED BY <1>2, <1>3, <1>4 DEF Sound, Accounted

----------------------------------------------------------------------------
(* Why a resume is refused.                                                  *)

\* Only steps that every later resume can tell from it find nothing to do.
Restrained == MayNoop \subseteq {"003S", "009"}

\* What a resume takes for done if the disk holds the evidence and the
\* checkpoint the statuses.
Marked(held, st, s) ==
    \/ s \in held
    \/ s = "003S" /\ st[s] \in Over
    \/ s = "009" /\ st[s] = "noop"
InSequence(held, st) ==
    \A i, j \in 2..10 : i < j /\ Marked(held, st, Order[j]) => Marked(held, st, Order[i])

\* A run's statuses are those of its checkpoint once it has written one, and
\* tell its evidence in order.
Mirrored ==
    Running /\ ~preserve =>
        IF pc = "ready" /\ at = 1 THEN status["001"] = "pending"
                                  ELSE Readable /\ saved.status = status
Traced ==
    Running /\ ~preserve =>
        /\ \A s \in Live : status[s] \in Over /\ s # "009" => Marked(evidence, status, s)
        /\ pc = "done" /\ outcome = "completed" /\ Current \in Live =>
              Current \in evidence \cup {"003S", "009"}
        /\ deferred => status["008"] = "skipped_dependency" /\ status["009"] = "skipped_dependency"
        /\ InSequence(evidence, status)
\* What a resume finds is in order, or a Deep stage was begun, or the
\* checkpoint is lost.
Legible == Readable => \A s \in Steps : saved.status[s] = "noop" => s \in MayNoop
Orderly ==
    /\ Legible
    /\ DeepTouched \/ saved = Torn \/ Coherent
    /\ Running /\ preserve => deepFiles # "none"
    /\ refused => ~Running /\ (DeepTouched \/ Unreadable)

LEMMA DetectedIsMarked ==
    ASSUME Restrained, Legible, Readable, NEW i \in 2..10
    PROVE  Detected(Order[i]) <=> Marked(evidence, saved.status, Order[i])
  <1>1. saved.status[Order[i]] = "noop" => Order[i] \in {"003S", "009"}
    BY StepsAre DEF Legible, Restrained
  <1> QED
    BY <1>1 DEF Detected, Marked, Prior, Over

LEMMA CoherentIsSequence ==
    Restrained /\ Legible /\ Readable => (Coherent <=> InSequence(evidence, saved.status))
  BY DetectedIsMarked DEF Coherent, InSequence

\* A resume takes over what it detects, in order.
LEMMA ResumedInSequence ==
    ASSUME Restrained, Flow, Orderly, Coherent, evidence' = evidence,
           Begin({s \in Live : Detected(s)}, FALSE)
    PROVE  Traced'
  <1>1. pc' = "ready" /\ preserve' = FALSE /\ deferred' = FALSE
    BY DEF Begin
  <1>2. \A s \in Live : status'[s] = IF Detected(s) THEN "skipped_existing" ELSE "pending"
    BY StepsAre DEF Begin
  <1>3. \A s \in Live : Readable => (saved.status[s] = "noop" => s \in {"003S", "009"})
    BY StepsAre DEF Orderly, Legible, Restrained
  <1>4. \A s \in Live : Detected(s) => s \in evidence \/ s = "003S" \/ s = "009"
    BY <1>3 DEF Detected, Prior
  <1>5. \A s \in Live : Marked(evidence', status', s) => Detected(s)
    BY <1>2 DEF Marked, Over, Detected
  <1>6. \A s \in Live : Detected(s) /\ s # "009" => Marked(evidence', status', s)
    BY <1>2, <1>4 DEF Marked, Over
  <1>7. InSequence(evidence', status')
    <2> SUFFICES ASSUME NEW i \in 2..10, NEW j \in 2..10, i < j, Marked(evidence', status', Order[j])
                 PROVE  Marked(evidence', status', Order[i])
      BY DEF InSequence
    <2>1. Detected(Order[i])
      BY <1>5, StepsAre DEF Coherent
    <2>2. Order[i] # "009"
      BY OrderEntries, OrderDiffers
    <2> QED
      BY <1>6, <2>1, <2>2, StepsAre
  <1>8. \A s \in Live : status'[s] \in Over /\ s # "009" => Marked(evidence', status', s)
    BY <1>2, <1>6 DEF Over
  <1> QED
    BY <1>1, <1>7, <1>8 DEF Traced

LEMMA MirroredNext == Flow /\ Mirrored /\ [Next]_vars => Mirrored'
  <1> SUFFICES ASSUME Flow, Mirrored, [Next]_vars PROVE Mirrored'
    OBVIOUS
  <1>1. RunTypes /\ FlagTypes /\ RunTypes'
    BY TypeParts, TypeNext, RunTypesKept DEF Flow
  <1>2. status \in [Steps -> Statuses] /\ status' \in [Steps -> Statuses]
        /\ exporting \in BOOLEAN /\ "001" \in Steps /\ "001" \notin Live
    BY <1>1, OrderEntries, OrderDiffers, StepsAre DEF RunTypes, FlagTypes
  <1>3. ASSUME NEW skipped, NEW keep, Begin(skipped, keep), ~keep => skipped \subseteq Live
        PROVE  Mirrored'
    BY <1>2, <1>3 DEF Begin, Mirrored
  <1>4. CASE StartFresh
    BY <1>3, <1>4 DEF StartFresh
  <1>5. CASE StartResume
    <2>1. CASE Begin({s \in Steps \ {"001"} : saved.status[s] \in {"completed", "noop"}}, TRUE)
      BY <1>3, <2>1
    <2>2. CASE Begin({s \in Live : Detected(s)}, FALSE)
      BY <1>3, <2>2
    <2>3. CASE UNCHANGED <<pc, at, status, outcome, flags>>
      BY <1>5, <2>3 DEF StartResume, flags, Mirrored, Running, Readable
    <2> QED
      BY <1>5, <2>1, <2>2, <2>3 DEF StartResume
  <1>6. CASE PassOver
    <2>1. pc = "ready" /\ pc' = "ready" /\ at' = at + 1 /\ status' = status /\ saved' = saved
          /\ preserve' = preserve /\ status[Order[at]] # "pending"
      BY <1>6 DEF PassOver, flags, Current
    <2>2. ~preserve => at # 1
      BY <2>1, OrderEntries DEF Mirrored, Running
    <2> QED
      BY <1>1, <2>1, <2>2 DEF Mirrored, Running, Readable, RunTypes
  <1>7. CASE Work \/ WorkNoop \/ WorkFails
    <2>1. pc = "step" /\ pc' = "done" /\ status' = status /\ saved' = saved
          /\ preserve' = preserve
      BY <1>7 DEF Work, WorkNoop, WorkFails, Done, flags
    <2> QED
      BY <2>1 DEF Mirrored, Running, Readable
  <1>8. ASSUME NEW final \in {"running", "failed", "completed"},
               Checkpoint(status', final, exporting), preserve' = preserve,
               pc' = "ready" => at' # 1
        PROVE  Mirrored'
    <2>1. ~preserve => Readable' /\ saved'.status = status'
      BY <1>2, <1>8, CheckpointIs
    <2> QED
      BY <1>8, <2>1 DEF Mirrored
  <1>9. CASE StartStep
    BY <1>8, <1>9 DEF StartStep, flags
  <1>10. CASE Record \/ GoOn
    <2>1. at' # 1
      BY <1>1, <1>10 DEF Record, GoOn, RunTypes
    <2> QED
      BY <1>8, <1>10, <2>1 DEF Record, GoOn, flags
  <1>11. CASE Conclude
    <2>1. status' = status /\ preserve' = preserve /\ pc' # "ready"
      BY <1>11, Zenon DEF Conclude, flags
    <2>2. \E final \in {"failed", "completed"} : Checkpoint(status, final, exporting)
      BY <1>11, Zenon DEF Conclude
    <2> QED
      BY <1>8, <2>1, <2>2
  <1>12. CASE Stop \/ Publish \/ PublishFails \/ Crash
    <2>1. pc' = "idle"
      BY <1>12, Zenon DEF Stop, Publish, PublishFails, Crash
    <2> QED
      BY <2>1 DEF Mirrored, Running
  <1>13. CASE UNCHANGED vars
    BY <1>13 DEF vars, flags, Mirrored, Running, Readable
  <1> QED
    BY <1>4, <1>5, <1>6, <1>7, <1>9, <1>10, <1>11, <1>12, <1>13 DEF Next

\* A step is worked on when all phases before it can be told to be over.
LEMMA BeforeIsMarked ==
    ASSUME Restrained, Flow, Traced, Running, ~preserve, pc \in {"step", "done"}, at <= 10
    PROVE  \A i \in 2..10 : i < at => Marked(evidence, status, Order[i])
  <1> SUFFICES ASSUME NEW i \in 2..10, i < at PROVE Marked(evidence, status, Order[i])
    OBVIOUS
  <1>1. RunTypes /\ Progress
    BY TypeParts DEF Flow
  <1>2. status[Order[at]] = "running"
    BY <1>1 DEF RunTypes, Current
  <1>3. i < 10 /\ Order[i] # "009"
    BY <1>1, OrderEntries, OrderDiffers DEF RunTypes
  <1>4. ~(deferred /\ i \in 8..10)
    <2>1. CASE deferred /\ i \in 8..10
      <3>1. at \in {9, 10}
        BY <1>1, <2>1 DEF RunTypes
      <3> QED
        BY <1>2, <2>1, <3>1, OrderEntries DEF Traced
    <2> QED
      BY <2>1
  <1>5. status[Order[i]] \in Over
    BY <1>1, <1>4 DEF Progress
  <1> QED
    BY <1>3, <1>5, StepsAre DEF Traced

\* The evidence a step adds, however it ends, does not disturb the order.
LEMMA StepInSequence ==
    ASSUME Restrained, Flow, NoRepeat, Traced, [Next]_vars, pc = "step", ~preserve
    PROVE  /\ InSequence(evidence', status)
           /\ evidence \subseteq evidence' /\ evidence' \subseteq evidence \cup {Current}
  <1>1. RunTypes /\ DiskTypes
    BY TypeParts DEF Flow
  <1>2. evidence \subseteq evidence' /\ evidence' \subseteq evidence \cup {Current}
    BY <1>1, DiskStep DEF NoRepeat
  <1>3. \A s \in Live : Marked(evidence, status, s) => Marked(evidence', status, s)
    BY <1>2 DEF Marked
  <1>5. \A s \in Live : Marked(evidence', status, s) => Marked(evidence, status, s) \/ s = Current
    BY <1>2 DEF Marked
  <1>4. ASSUME NEW i \in 2..10, NEW j \in 2..10, i < j, Marked(evidence', status, Order[j])
        PROVE  Marked(evidence', status, Order[i])
    <2>1. CASE Marked(evidence, status, Order[j])
      <3>1. InSequence(evidence, status)
        BY DEF Traced, Running
      <3>2. Marked(evidence, status, Order[i])
        BY <3>1, <1>4, <2>1 DEF InSequence
      <3> QED BY <1>3, <3>2, StepsAre
    <2>2. CASE Order[j] = Current
      <3>1. j = at
        BY <1>1, <2>2, CurrentStep, OrderDiffers DEF Current
      <3>2. Marked(evidence, status, Order[i])
        BY <1>4, <3>1, BeforeIsMarked DEF Running
      <3> QED BY <1>3, <3>2, StepsAre
    <2> QED BY <1>5, <1>4, <2>1, <2>2, StepsAre
  <1> QED BY <1>2, <1>4 DEF InSequence

LEMMA TracedNext ==
    ASSUME Restrained
    PROVE  Flow /\ NoRepeat /\ Traced /\ Orderly /\ [Next]_vars => Traced'
  <1> SUFFICES ASSUME Flow, NoRepeat, Traced, Orderly, [Next]_vars PROVE Traced'
    OBVIOUS
  <1>1. RunTypes /\ DiskTypes /\ Progress /\ NoWork
    BY TypeParts DEF Flow
  <1>2. CASE StartFresh
    <2>1. evidence' = {} /\ pc' = "ready" /\ deferred' = FALSE
          /\ \A s \in Steps : status'[s] = "pending"
      BY <1>2 DEF StartFresh, Begin, disk
    <2>2. \A s \in Live : ~Marked(evidence', status', s)
      BY <2>1, StepsAre DEF Marked, Over
    <2> QED
      BY <2>1, <2>2, StepsAre DEF Traced, InSequence, Over
  <1>3. CASE StartResume
    <2>1. evidence' = evidence
      BY <1>3 DEF StartResume, disk
    <2>2. CASE Begin({s \in Steps \ {"001"} : saved.status[s] \in {"completed", "noop"}}, TRUE)
      BY <2>2 DEF Begin, Traced
    <2>3. CASE Coherent /\ Begin({s \in Live : Detected(s)}, FALSE)
      BY <2>1, <2>3, ResumedInSequence
    <2>4. CASE UNCHANGED <<pc, at, status, outcome, flags>>
      BY <2>1, <2>4 DEF flags, Traced, Running, Current
    <2> QED
      BY <1>3, <2>2, <2>3, <2>4 DEF StartResume
  <1>4. CASE PassOver
    <2>1. evidence' = evidence /\ pc' = "ready" /\ pc = "ready" /\ status' = status
          /\ preserve' = preserve /\ deferred' = deferred
      BY <1>4 DEF PassOver, disk, flags
    <2> QED
      BY <2>1 DEF Traced, Running
  <1>5. CASE StartStep
    <2>1. evidence' = evidence /\ pc' = "step" /\ pc = "ready"
          /\ status' = [status EXCEPT ![Current] = "running"] /\ status[Current] = "pending"
          /\ preserve' = preserve /\ deferred' = deferred
      BY <1>5 DEF StartStep, disk, flags
    <2>2. \A s \in Steps : status'[s] = status[s]
                             \/ (status[s] = "pending" /\ status'[s] = "running")
      BY <1>1, <2>1 DEF RunTypes
    <2>3. \A s \in Live : /\ status'[s] \in Over => status[s] \in Over
                          /\ Marked(evidence', status', s) <=> Marked(evidence, status, s)
      BY <2>1, <2>2, StepsAre DEF Marked, Over
    <2>4. InSequence(evidence, status) => InSequence(evidence', status')
      BY <2>3, StepsAre DEF InSequence
    <2>5. "008" \in Steps /\ "009" \in Steps
      BY OrderEntries, StepsAre
    <2> QED
      BY <2>1, <2>2, <2>3, <2>4, <2>5 DEF Traced, Running
  <1>6. CASE Work \/ WorkNoop \/ WorkFails
    <2>1. pc = "step" /\ pc' = "done" /\ at' = at /\ Current' = Current /\ status' = status
          /\ preserve' = preserve /\ deferred' = deferred
      BY <1>6 DEF Work, WorkNoop, WorkFails, Done, Current, flags
    <2>2. outcome' = "completed" /\ Current \in Live => Current \in evidence' \cup {"003S", "009"}
      BY <1>6 DEF Work, WorkNoop, WorkFails, Done
    <2> SUFFICES ASSUME ~preserve PROVE Traced'
      BY <2>1 DEF Traced
    <2>3. InSequence(evidence', status) /\ evidence \subseteq evidence'
      BY <2>1, StepInSequence
    <2>4. \A s \in Live : Marked(evidence, status, s) => Marked(evidence', status', s)
      BY <2>1, <2>3 DEF Marked
    <2> QED
      BY <2>1, <2>2, <2>3, <2>4 DEF Traced, Running
  <1>7. CASE Record
    <2>1. evidence' = evidence /\ pc = "done" /\ pc' = "ready"
          /\ status' = [status EXCEPT ![Current] = outcome]
          /\ preserve' = preserve /\ deferred' = deferred /\ outcome \in {"completed", "noop"}
          /\ status[Current] = "running" /\ Current \in Steps /\ at \in 1..15
      BY <1>1, <1>7, CurrentStep DEF Record, disk, flags, RunTypes
    <2> SUFFICES ASSUME ~preserve PROVE Traced'
      BY <2>1 DEF Traced
    <2>2. \A s \in Steps : status'[s] = IF s = Current THEN outcome ELSE status[s]
      BY <1>1, <2>1 DEF RunTypes
    <2>3. \A s \in Live : Marked(evidence, status, s) => Marked(evidence', status', s)
      BY <2>1, <2>2, StepsAre DEF Marked, Over
    <2>4. \A s \in Live : Marked(evidence', status', s) => Marked(evidence, status, s) \/ s = Current
      BY <2>1, <2>2, StepsAre DEF Marked
    <2>5. outcome = "noop" => Current \in {"003S", "009"}
      BY <1>1, <2>1 DEF NoWork, Restrained
    <2>6. Current \in Live /\ Current # "009" => Marked(evidence', status', Current)
      BY <2>1, <2>2, <2>5 DEF Traced, Running, Marked, Over
    <2>7. \A s \in Live : status'[s] \in Over /\ s # "009" => Marked(evidence', status', s)
      BY <2>1, <2>2, <2>3, <2>6, StepsAre DEF Traced, Running
    <2>8. InSequence(evidence', status')
      <3> SUFFICES ASSUME NEW i \in 2..10, NEW j \in 2..10, i < j,
                          Marked(evidence', status', Order[j])
                   PROVE  Marked(evidence', status', Order[i])
        BY DEF InSequence
      <3>1. CASE Marked(evidence, status, Order[j])
        BY <2>1, <2>3, <3>1, StepsAre DEF Traced, Running, InSequence
      <3>2. CASE Order[j] = Current
        <4>1. j = at
          BY <2>1, <3>2, OrderDiffers DEF Current
        <4>2. Marked(evidence, status, Order[i])
          BY <2>1, <4>1, BeforeIsMarked DEF Running
        <4> QED
          BY <2>3, <4>2, StepsAre
      <3> QED
        BY <2>4, <3>1, <3>2, StepsAre
    <2>9. deferred => Current # "008" /\ Current # "009"
      BY <2>1 DEF Traced, Running
    <2>10. "008" \in Steps /\ "009" \in Steps
      BY OrderEntries, StepsAre
    <2> QED
      BY <2>1, <2>2, <2>7, <2>8, <2>9, <2>10 DEF Traced, Running
  <1>8. CASE GoOn
    <2>1. evidence' = evidence /\ pc = "done" /\ pc' = "ready" /\ preserve' = preserve
      BY <1>8 DEF GoOn, disk
    <2>2. status' = [s \in Steps |-> CASE s = "007" -> "failed"
                                       [] s \in {"008", "009"} -> "skipped_dependency"
                                       [] OTHER -> status[s]]
      BY <1>8 DEF GoOn
    <2>3. \A s \in Steps : s \notin {"007", "008", "009"} => status'[s] = status[s]
      BY <2>2
    <2>4. "007" \in Steps /\ "008" \in Steps /\ "009" \in Steps
      BY OrderEntries, StepsAre
    <2>5. status'["007"] = "failed" /\ status'["008"] = "skipped_dependency"
          /\ status'["009"] = "skipped_dependency"
      BY <2>2, <2>4
    <2>6. \A s \in Live : /\ Marked(evidence', status', s) => Marked(evidence, status, s)
                          /\ Marked(evidence, status, s) /\ s # "009" => Marked(evidence', status', s)
                          /\ status'[s] \in Over => status[s] \in Over
      BY <2>1, <2>3, <2>5, StepsAre DEF Marked, Over
    <2>7. \A i, j \in 2..10 : i < j => Order[i] # "009"
      BY OrderEntries, OrderDiffers
    <2>8. InSequence(evidence, status) => InSequence(evidence', status')
      BY <2>6, <2>7, StepsAre DEF InSequence
    <2> QED
      BY <2>1, <2>5, <2>6, <2>8 DEF Traced, Running
  <1>9. CASE Conclude
    <2>1. evidence' = evidence /\ status' = status /\ preserve' = preserve /\ deferred' = deferred
          /\ pc' # "done" /\ pc = "ready"
      BY <1>9, Zenon DEF Conclude, disk, flags
    <2> QED
      BY <2>1 DEF Traced, Running
  <1>10. CASE Stop \/ Publish \/ PublishFails \/ Crash
    <2>1. pc' = "idle"
      BY <1>10, Zenon DEF Stop, Publish, PublishFails, Crash
    <2> QED
      BY <2>1 DEF Traced, Running
  <1>11. CASE UNCHANGED vars
    BY <1>11 DEF vars, disk, flags, Traced, Running, Current
  <1> QED
    BY <1>2, <1>3, <1>4, <1>5, <1>6, <1>7, <1>8, <1>9, <1>10, <1>11 DEF Next

LEMMA LegibleNext ==
    ASSUME Restrained, Flow, Orderly, [Next]_vars
    PROVE  Legible'
  <1>1. RunTypes /\ NoWork
    BY TypeParts DEF Flow
  <1>2. CASE saved' = saved
    BY <1>2 DEF Orderly, Legible, Readable
  <1>4. CASE saved' = Torn
    BY <1>4 DEF Legible, Readable
  <1>3. CASE /\ Running /\ ~preserve /\ Readable' /\ saved'.status = status'
             /\ StartStep \/ Record \/ GoOn \/ Stop \/ Conclude \/ PublishFails
    <2>1. ASSUME NEW s \in Steps, status'[s] = "noop" PROVE s \in MayNoop
      <3>1. CASE Record
        <4>1. status' = [status EXCEPT ![Current] = outcome] /\ pc = "done"
          BY <3>1 DEF Record
        <4> QED
          BY <1>1, <1>3, <2>1, <4>1 DEF NoWork, RunTypes
      <3>2. CASE StartStep \/ GoOn \/ Stop \/ Conclude \/ PublishFails
        <4>1. status[s] = "noop"
          <5>1. CASE StartStep \/ Stop
            BY <1>1, <2>1, <5>1 DEF StartStep, Stop, RunTypes
          <5>2. CASE GoOn
            BY <2>1, <5>2 DEF GoOn
          <5>3. CASE Conclude \/ PublishFails
            <6>1. status' = status
              BY <5>3, Zenon DEF Conclude, PublishFails
            <6> QED
              BY <2>1, <6>1
          <5> QED
            BY <3>2, <5>1, <5>2, <5>3
        <4> QED
          BY <1>1, <1>3, <4>1 DEF NoWork
      <3> QED
        BY <1>3, <3>1, <3>2
    <2> QED
      BY <1>3, <2>1 DEF Legible, Readable
  <1> QED
    BY <1>2, <1>3, <1>4, Written

LEMMA OrderlyNext ==
    ASSUME Restrained
    PROVE  Flow /\ NoRepeat /\ Mirrored /\ Traced /\ Orderly /\ [Next]_vars => Orderly'
  <1> SUFFICES ASSUME Flow, NoRepeat, Mirrored, Traced, Orderly, [Next]_vars PROVE Orderly'
    OBVIOUS
  <1>1. RunTypes /\ FlagTypes /\ DiskTypes /\ RunTypes' /\ Finalising
    BY TypeParts, TypeNext, RunTypesKept DEF Flow
  <1>2. Legible' /\ Mirrored' /\ Traced'
    BY LegibleNext, MirroredNext, TracedNext
  <1>3. ASSUME saved' = saved, evidence' = evidence, deepFiles' = "none" => deepFiles = "none"
        PROVE  DeepTouched' \/ saved' = Torn \/ Coherent'
    <2>1. \A s \in Steps : Prior(s)' = Prior(s)
      BY <1>3 DEF Prior, Readable
    <2>2. DeepTouched => DeepTouched'
      BY <1>3, <2>1, OrderEntries, StepsAre DEF DeepTouched, Deep
    <2>3. \A s \in Steps : Detected(s)' <=> Detected(s)
      BY <1>3, <2>1 DEF Detected
    <2>4. Coherent => Coherent'
      BY <2>3, StepsAre DEF Coherent
    <2> QED
      BY <1>3, <2>2, <2>4 DEF Orderly
  <1>4. ASSUME Readable', InSequence(evidence', saved'.status) PROVE Coherent'
    <2>1. (Restrained /\ Legible /\ Readable
             => (Coherent <=> InSequence(evidence, saved.status)))'
      BY CoherentIsSequence, PTL
    <2> QED
      BY <1>2, <1>4, <2>1 DEF Restrained
  <1>5. CASE StartFresh
    <2>1. saved' = saved /\ evidence' = evidence /\ deepFiles' = deepFiles /\ preserve' = FALSE
          /\ refused' = FALSE
      BY <1>5 DEF StartFresh, Begin, disk
    <2> QED
      BY <1>2, <1>3, <2>1 DEF Orderly
  <1>6. CASE StartResume
    <2>1. saved' = saved /\ evidence' = evidence /\ deepFiles' = deepFiles
      BY <1>6 DEF StartResume, disk
    <2>2. DeepTouched' \/ saved' = Torn \/ Coherent'
      BY <1>3, <2>1
    <2>3. CASE Verified /\ Begin({s \in Steps \ {"001"} : saved.status[s] \in {"completed", "noop"}},
                                TRUE)
      BY <1>2, <2>1, <2>2, <2>3 DEF Begin, Verified, Orderly
    <2>4. CASE Begin({s \in Live : Detected(s)}, FALSE)
      BY <1>2, <2>2, <2>4 DEF Begin, Orderly
    <2>5. CASE /\ Unreadable \/ (~Verified /\ (DeepTouched \/ ~Coherent))
               /\ refused' = TRUE /\ UNCHANGED <<pc, at, status, outcome, flags>>
      <3>1. pc' = "idle" /\ (DeepTouched \/ Unreadable)
        BY <1>6, <2>5 DEF Orderly, Unreadable, StartResume
      <3>2. DeepTouched' \/ Unreadable'
        BY <1>6, <3>1 DEF StartResume, disk, DeepTouched, Prior, Readable, Unreadable, BrokenPlan
      <3>3. Running' /\ preserve' => deepFiles' # "none"
        BY <3>1 DEF Running
      <3> QED
        BY <1>2, <2>2, <3>1, <3>2, <3>3 DEF Orderly, Running
    <2> QED
      BY <1>6, <2>3, <2>4, <2>5 DEF StartResume
  <1>7. ASSUME Running, refused' = refused, preserve' = preserve,
               deepFiles' = "none" => deepFiles = "none",
               ~preserve => DeepTouched' \/ saved' = Torn \/ Coherent'
        PROVE  Orderly'
    <2>1. preserve => deepFiles' # "none"
      BY <1>7 DEF Orderly
    <2>2. preserve => DeepTouched'
      BY <2>1 DEF DeepTouched
    <2> QED
      BY <1>2, <1>7, <2>1, <2>2 DEF Orderly
  <1>8. ASSUME Running', pc' = "ready" => at' # 1
        PROVE  ~preserve' => Coherent'
    BY <1>2, <1>4, <1>8 DEF Mirrored, Traced
  <1>9. CASE PassOver \/ Publish
    <2>1. Running /\ refused' = refused /\ preserve' = preserve /\ saved' = saved
          /\ evidence' = evidence /\ deepFiles' = deepFiles
      BY <1>9, Zenon DEF PassOver, Publish, disk, flags, Running
    <2> QED
      BY <1>3, <1>7, <2>1
  <1>10. CASE StartStep
    <2>1. Running /\ Running' /\ pc' = "step" /\ refused' = refused /\ preserve' = preserve
          /\ deepFiles' = deepFiles
      BY <1>10 DEF StartStep, disk, flags, Running
    <2> QED
      BY <1>7, <1>8, <2>1
  <1>11. CASE Work \/ WorkNoop \/ WorkFails
    <2>1. Running /\ Running' /\ pc' = "done" /\ refused' = refused /\ preserve' = preserve
      BY <1>11 DEF Work, WorkNoop, WorkFails, Done, flags, Running
    <2>2. deepFiles' = "none" => deepFiles = "none"
      BY <1>1, DiskStep
    <2> QED
      BY <1>7, <1>8, <2>1, <2>2
  <1>12. CASE Record \/ GoOn
    <2>1. Running /\ Running' /\ at' # 1 /\ refused' = refused /\ preserve' = preserve
          /\ deepFiles' = deepFiles
      BY <1>1, <1>12 DEF Record, GoOn, disk, flags, Running, RunTypes
    <2> QED
      BY <1>7, <1>8, <2>1
  <1>13. CASE Conclude
    <2>1. Running /\ refused' = refused /\ preserve' = preserve /\ deepFiles' = deepFiles
          /\ pc' = (IF preserve THEN "idle" ELSE "finalise")
      BY <1>13, Zenon DEF Conclude, disk, flags, Running
    <2>2. ~preserve => Running' /\ pc' # "ready"
      BY <2>1 DEF Running
    <2> QED
      BY <1>7, <1>8, <2>1, <2>2
  <1>14. CASE Stop
    <2>1. Running /\ refused' = refused /\ preserve' = preserve /\ evidence' = evidence
          /\ deepFiles' = deepFiles /\ Checkpoint(status', "failed", exporting)
          /\ status' = [status EXCEPT ![Current] = "failed"] /\ status[Current] = "running"
      BY <1>1, <1>14 DEF Stop, disk, flags, Running, RunTypes
    <2>2. ASSUME ~preserve PROVE Coherent'
      <3>1. Readable' /\ saved'.status = status'
        BY <1>1, <2>1, <2>2, CheckpointIs DEF RunTypes, FlagTypes
      <3>2. \A s \in Steps : status'[s] = status[s] \/ (status[s] = "running" /\ status'[s] = "failed")
        BY <1>1, <2>1 DEF RunTypes
      <3>3. \A s \in Live : Marked(evidence', status', s) <=> Marked(evidence, status, s)
        BY <2>1, <3>2, StepsAre DEF Marked, Over
      <3>4. InSequence(evidence', status')
        BY <2>1, <2>2, <3>3, StepsAre DEF Traced, InSequence
      <3> QED
        BY <1>4, <3>1, <3>4
    <2> QED
      BY <1>7, <2>1, <2>2
  <1>15. CASE PublishFails
    <2>1. Running /\ refused' = refused /\ preserve' = preserve /\ evidence' = evidence
          /\ deepFiles' = deepFiles /\ Checkpoint(status, "failed", FALSE)
      BY <1>15 DEF PublishFails, disk, flags, Running
    <2>2. ASSUME ~preserve PROVE Coherent'
      <3>1. Readable' /\ saved'.status = status
        BY <1>1, <2>1, <2>2, CheckpointIs DEF RunTypes, FlagTypes
      <3> QED
        BY <1>4, <2>1, <2>2, <3>1 DEF Traced
    <2> QED
      BY <1>7, <2>1, <2>2
  <1>16. CASE Crash
    <2>1. Running /\ refused' = refused /\ preserve' = preserve /\ saved' \in {saved, Torn}
          /\ status' = status
      BY <1>16, Zenon DEF Crash, flags, Running
    <2>2. deepFiles' = "none" => deepFiles = "none"
      BY <1>1, DiskStep
    <2>3. ASSUME ~preserve, saved' = saved PROVE DeepTouched' \/ saved' = Torn \/ Coherent'
      <3>1. CASE pc = "step"
        <4>1. InSequence(evidence', status)
          BY <2>3, <3>1, StepInSequence
        <4>2. Readable' /\ saved'.status = status
          BY <2>3, <3>1 DEF Mirrored, Running, Readable
        <4> QED
          BY <1>4, <4>1, <4>2
      <3>2. CASE pc # "step"
        BY <1>1, <1>3, <2>2, <2>3, <3>2, DiskStep
      <3> QED
        BY <3>1, <3>2
    <2> QED
      BY <1>7, <2>1, <2>2, <2>3
  <1>17. CASE UNCHANGED vars
    <2>1. DeepTouched \/ Unreadable => DeepTouched' \/ Unreadable'
      BY <1>17 DEF vars, disk, DeepTouched, Prior, Readable, Unreadable, BrokenPlan
    <2>2. DeepTouched' \/ saved' = Torn \/ Coherent'
      BY <1>3, <1>17 DEF vars, disk
    <2> QED
      BY <1>2, <1>17, <2>1, <2>2 DEF vars, disk, flags, Orderly, Running
  <1> QED
    BY <1>5, <1>6, <1>9, <1>10, <1>11, <1>12, <1>13, <1>14, <1>15, <1>16, <1>17 DEF Next

----------------------------------------------------------------------------
(* The results. *)

THEOREM Inductive == Spec => []IInv
  <1>1. Init => IInv
    BY FlowInit DEF Init, IInv, Packed, Tracked, NoRepeat, Remembered, CompletedMeansAll, Readable,
                    Running
  <1>2. IInv /\ [Next]_vars => IInv'
    BY FlowNext, PackedNext, TrackedNext, RememberedNext, CompletedNext DEF IInv
  <1> QED BY <1>1, <1>2, PTL DEF Spec

\* No live phase is run again over evidence it left.
THEOREM PhasesAreNotRepeated == Spec => []NoRepeat
  <1>1. IInv => NoRepeat
    BY DEF IInv
  <1> QED BY <1>1, Inductive, PTL

\* The Deep network stages are started once, however a run ends and whatever
\* is left of its checkpoint.
THEOREM DeepRunsOnce == Spec => []DeepOnce
  <1>1. IInv => DeepOnce
    BY DEF IInv, Remembered, DeepOnce
  <1> QED BY <1>1, Inductive, PTL

\* A checkpoint says completed only of a run in which every step is done.
THEOREM CompletedIsWhole == Spec => []CompletedMeansAll
  <1>1. IInv => CompletedMeansAll
    BY DEF IInv
  <1> QED BY <1>1, Inductive, PTL

\* Nothing the evidence pack contains changes once it is published.
THEOREM PackIsLast == Spec => PackFreezesMetadata
  <1>1. IInv /\ [Next]_vars => (zip => UNCHANGED <<saved, deepFiles>>)
    BY PackStep DEF IInv
  <1>2. IInv /\ [Next]_vars => [zip => UNCHANGED <<saved, deepFiles>>]_vars
    BY <1>1
  <1> QED BY <1>2, Inductive, PTL DEF Spec, PackFreezesMetadata

\* Whatever a run counts as over was done to the end, wherever the runs
\* before it failed or died: the one phase a resume may take over half done
\* is a content follow-up that timed out.
THEOREM OverStaysWhole == Spec => []OverIsWhole
  <1>1. Init => Flow /\ Accounted
    BY FlowInit DEF Init, Accounted, Readable, Running
  <1>2. Flow /\ Accounted /\ [Next]_vars => (Flow /\ Accounted)'
    BY FlowNext, AccountedNext
  <1>3. Accounted => OverIsWhole
    BY DEF Accounted, Sound, OverIsWhole, Running, Over
  <1> QED BY <1>1, <1>2, <1>3, PTL DEF Spec

\* The phases a resume detects are in order, however often the project
\* stopped and whatever the step it stopped in left: a refusal means that a
\* Deep stage was begun or that a file was cut.  This holds provided that
\* only the share listing and the body fetch find nothing to do; without the
\* condition it is false: resume_path shows it of the path follow-up.
THEOREM NeverOutOfOrder == Restrained => (Spec => []NeverIncoherent)
  <1> SUFFICES ASSUME Restrained PROVE Spec => []NeverIncoherent
    OBVIOUS
  <1> DEFINE Inv == Flow /\ Mirrored /\ Traced /\ Orderly
  <1>1. Init => Inv
    <2> SUFFICES ASSUME Init PROVE Inv
      OBVIOUS
    <2>1. ~Running /\ ~Readable /\ ~refused /\ evidence = {}
      BY DEF Init, Running, Readable
    <2>2. Coherent
      <3>1. \A s : ~Detected(s)
        BY <2>1 DEF Detected, Prior
      <3> QED
        BY <3>1 DEF Coherent
    <2> QED
      BY <2>1, <2>2, FlowInit DEF Mirrored, Traced, Orderly, Legible
  <1>2. IInv /\ Inv /\ [Next]_vars => Inv'
    BY FlowNext, MirroredNext, TracedNext, OrderlyNext DEF IInv
  <1>3. Inv => NeverIncoherent
    BY DEF Orderly, NeverIncoherent
  <1> HIDE DEF Inv
  <1> QED
    BY <1>1, <1>2, <1>3, Inductive, PTL DEF Spec
=============================================================================
