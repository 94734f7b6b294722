-------------------------- MODULE ObservationStore --------------------------
(* The create-only store of native HTTP observations,                       *)
(* bugslyce/recon/native_observation_store.py, driven by the recorder of    *)
(* bugslyce/recon/native_content_discovery.py: for every candidate reserve  *)
(* the worst case, request, commit each received body, publish the record,  *)
(* at the end seal the store with an index, and then link the artefacts of  *)
(* the step: baseline, coverage and the text of each origin.                *)
(*                                                                          *)
(* A file is published in three steps, staged under a temporary name,       *)
(* linked, unstaged; each can fail, and the process can die between them.   *)
EXTENDS Integers, FiniteSets, Sequences, FiniteSetsExt

CONSTANTS
    Candidates,         \* candidate indices of the plan, less those of refused origins
    Bodies,             \* distinct response bodies, named by their digest
    BodySize,           \* bytes of each body
    BodyMaximum,        \* BASELINE_MAXIMUM_RESPONSE_BYTES
    Hops,               \* maximum_redirect_hops
    BodyAllowance,      \* body_byte_allowance
    RecordMaximum,      \* maximum_observation_serialized_bytes
    IndexMaximum,       \* maximum_native_observation_index_bytes
    MetadataAllowance,  \* metadata_byte_allowance
    Artefacts,          \* artefacts of a complete run: baseline, coverage, texts
    MaxFaults,          \* bound: failing calls
    MaxCrashes,         \* bound: crashes
    None

ASSUME SizeAssumption ==
    /\ BodyMaximum \in Nat /\ BodySize \in [Bodies -> 0..BodyMaximum]
    /\ {Hops, BodyAllowance, RecordMaximum, IndexMaximum, MetadataAllowance} \subseteq Nat
    /\ IndexMaximum <= MetadataAllowance
    /\ Artefacts \in Nat \ {0, 1}

States == {"complete", "partial"}

\* What a published record and a published index hold, and a file on its way:
\* what it is, whether it is linked, its bytes, the state of an index.
RecordFiles == [refs : SUBSET Bodies, size : 1..RecordMaximum]
IndexFiles  == [state : States, bodies : SUBSET Bodies,
                records : [Candidates -> {None} \cup RecordFiles]]
StagedFiles == [what : {"body", "record", "index"}, linked : BOOLEAN, size : Nat,
                state : States \cup {None}]

ASSUME NoneAssumption ==
    /\ None \notin Bodies \cup Candidates /\ None \notin States
    /\ None \notin RecordFiles /\ None \notin IndexFiles /\ None \notin StagedFiles

VARIABLES
    bodies,      \* disk: body objects
    records,     \* disk: observation records, None or bodies referenced and size
    index,       \* disk: index.json, None or state and what it lists
    litter,      \* disk: a staging file was left by a crash
    outputs,     \* disk: how many artefacts are linked, in their order
    knownBodies,   \* memory: _body_sizes
    knownRecords,  \* memory: _observations
    reserved,      \* memory: number of outstanding body reservations
    metadata,      \* memory: candidates with a metadata reservation
    needsPartial,  \* memory: _requires_partial_index
    pc,          \* the recorder: see Places
    candidate,   \* the candidate it works on
    held,        \* body reservations in its list
    received,    \* bodies (None: no body) of exchanges yet to be committed
    refs,        \* bodies committed for this candidate
    staged,      \* file being published: None or what, whether linked
    failed,      \* the run is stopping because of an error
    faults, crashes

disk   == <<bodies, records, index, litter, outputs>>
known  == <<knownBodies, knownRecords>>
ledger == <<reserved, metadata>>
work   == <<candidate, held, received, refs>>
bounds == <<faults, crashes>>
vars   == <<disk, known, ledger, needsPartial, pc, work, staged, failed, bounds>>

\* "down": no process.  "ready": between candidates.  "requesting": all is
\* reserved, the request is out.  "committing", "recording", "sealing".
\* "publishing": all artefacts.  "closing": after an error, the baseline
\* only.  "ended": the run is over, its process alive.
Collecting == {"ready", "requesting", "committing", "recording", "sealing"}
Places == Collecting \cup {"down", "publishing", "closing", "ended"}

Recorded == {c \in Candidates : records[c] # None}
Bytes(S) == SumFunctionOnSet(BodySize, S)

\* Body references of the records in f, and their bytes of metadata.
Referenced(f) == UNION {f[c].refs : c \in {d \in Candidates : f[d] # None}}
RecordBytes(f) == SumFunction([c \in {d \in Candidates : f[d] # None} |-> f[c].size])

Init ==
    /\ bodies = {} /\ records = [c \in Candidates |-> None] /\ index = None /\ litter = FALSE
    /\ outputs = 0
    /\ knownBodies = {} /\ knownRecords = [c \in Candidates |-> None]
    /\ reserved = 0 /\ metadata = {} /\ needsPartial = FALSE
    /\ pc = "ready"
    /\ candidate = None /\ held = 0 /\ received = <<>> /\ refs = {}
    /\ staged = None /\ failed = FALSE
    /\ faults = 0 /\ crashes = 0

----------------------------------------------------------------------------
(* Reservations: all of a candidate's worst case, before its request. *)

RoomForBodies(n) ==
    Bytes(knownBodies) + (reserved + n) * BodyMaximum <= BodyAllowance

\* A variant with a plausible slip: the index is not provided for.
RoomForRecord_NoIndex ==
    RecordBytes(knownRecords) + (Cardinality(metadata) + 1) * RecordMaximum
        <= MetadataAllowance

RoomForRecord ==
    RecordBytes(knownRecords) + (Cardinality(metadata) + 1) * RecordMaximum + IndexMaximum
        <= MetadataAllowance

\* A variant with a plausible slip: room for the final hop is forgotten.
Reserve_OneShort(c) ==
    /\ pc = "ready" /\ ~failed /\ index = None
    /\ knownRecords[c] = None
    /\ RoomForRecord /\ RoomForBodies(Hops)
    /\ reserved' = reserved + Hops + 1 /\ metadata' = metadata \cup {c}
    /\ held' = Hops + 1 /\ candidate' = c
    /\ pc' = "requesting"
    /\ UNCHANGED <<disk, known, needsPartial, received, refs, staged, failed, bounds>>

\* reserve(): record and bodies, or nothing.
Reserve(c) ==
    /\ pc = "ready" /\ ~failed /\ index = None
    /\ knownRecords[c] = None
    /\ RoomForRecord /\ RoomForBodies(Hops + 1)
    /\ reserved' = reserved + Hops + 1 /\ metadata' = metadata \cup {c}
    /\ held' = Hops + 1 /\ candidate' = c
    /\ pc' = "requesting"
    /\ UNCHANGED <<disk, known, needsPartial, received, refs, staged, failed, bounds>>

\* It does not fit: what was reserved is released, and the run stops.
Exhausted(c) ==
    /\ pc = "ready" /\ ~failed /\ index = None
    /\ knownRecords[c] = None
    /\ ~(RoomForRecord /\ RoomForBodies(Hops + 1))
    /\ failed' = TRUE
    /\ UNCHANGED <<disk, known, ledger, needsPartial, pc, work, staged, bounds>>

\* release(): both lists of the recorder go back to the store.
ReleaseAll ==
    /\ reserved' = reserved - held /\ held' = 0
    /\ metadata' = metadata \ {candidate}
    /\ candidate' = None /\ received' = <<>> /\ refs' = {}
    /\ pc' = "ready"

\* A variant with a plausible slip: the early return forgets to release.
RequestUnrecordable_Forgets ==
    /\ pc = "requesting"
    /\ candidate' = None /\ held' = 0 /\ failed' = TRUE /\ pc' = "ready"
    /\ UNCHANGED <<disk, known, ledger, needsPartial, received, refs, staged, bounds>>

\* The outcome of the request has nothing to record (refused, closed, an
\* error before any response): release, and stop.
RequestUnrecordable ==
    /\ pc = "requesting"
    /\ ReleaseAll
    /\ failed' = TRUE
    /\ UNCHANGED <<disk, known, needsPartial, staged, bounds>>

\* A recordable outcome with up to Hops + 1 exchanges (none: the attempt
\* failed), each with or without a body.  stop: it is recorded and then ends the run (a 429, a scope
\* refusal, a fatal transport failure).
RequestRecordable(exchanges, stop) ==
    /\ pc = "requesting"
    /\ received' = exchanges
    /\ failed' = stop
    /\ pc' = "committing"
    /\ UNCHANGED <<disk, known, ledger, needsPartial, candidate, held, refs, staged, bounds>>

----------------------------------------------------------------------------
(* Publishing a file. *)

\* An error inside publish(): the recorder releases the reservations it has
\* still in its lists.  The body reservation being committed was taken out
\* of the list before.
Abort ==
    /\ ReleaseAll
    /\ failed' = TRUE

\* An exchange without a body only releases a reservation.
SkipBody ==
    /\ pc = "committing" /\ staged = None /\ received # <<>> /\ Head(received) = None
    /\ received' = Tail(received)
    /\ held' = held - 1 /\ reserved' = reserved - 1
    /\ UNCHANGED <<disk, known, metadata, needsPartial, pc, candidate, refs, staged, failed,
                   bounds>>

\* commit_body of a digest already there: verified, not written again.
ReuseBody ==
    /\ pc = "committing" /\ staged = None /\ received # <<>> /\ Head(received) \in bodies
    /\ received' = Tail(received)
    /\ held' = held - 1 /\ reserved' = reserved - 1
    /\ refs' = refs \cup {Head(received)}
    /\ UNCHANGED <<disk, known, metadata, needsPartial, pc, candidate, staged, failed, bounds>>

\* The body that is there does not verify.
FailReuse ==
    /\ pc = "committing" /\ staged = None /\ received # <<>> /\ Head(received) \in bodies
    /\ faults < MaxFaults /\ faults' = faults + 1
    /\ needsPartial' = TRUE
    /\ failed' = TRUE /\ pc' = "ready"
    /\ reserved' = reserved - (held - 1) /\ held' = 0 /\ metadata' = metadata \ {candidate}
    /\ candidate' = None /\ received' = <<>> /\ refs' = {}
    /\ UNCHANGED <<disk, known, staged, crashes>>

StageBody ==
    /\ pc = "committing" /\ staged = None /\ received # <<>>
    /\ Head(received) \notin bodies \cup {None}
    /\ held' = held - 1
    /\ staged' = [what |-> "body", linked |-> FALSE, size |-> BodySize[Head(received)],
                state |-> None]
    /\ UNCHANGED <<disk, known, ledger, needsPartial, pc, candidate, received, refs, failed,
                   bounds>>

\* A variant with a plausible slip: the record goes first.
StageRecord_BeforeBodies(size) ==
    /\ pc = "committing" /\ staged = None
    /\ reserved' = reserved - held /\ held' = 0
    /\ staged' = [what |-> "record", linked |-> FALSE, size |-> size, state |-> None]
    /\ refs' = (refs \cup {received[i] : i \in DOMAIN received}) \ {None}
    /\ received' = <<>>
    /\ pc' = "recording"
    /\ UNCHANGED <<disk, known, metadata, needsPartial, candidate, failed, bounds>>

\* All bodies are committed: release the rest and stage the record.
StageRecord(size) ==
    /\ pc = "committing" /\ staged = None /\ received = <<>>
    /\ refs \subseteq knownBodies
    /\ reserved' = reserved - held /\ held' = 0
    /\ staged' = [what |-> "record", linked |-> FALSE, size |-> size, state |-> None]
    /\ pc' = "recording"
    /\ UNCHANGED <<disk, known, metadata, needsPartial, candidate, received, refs, failed, bounds>>

\* os.link makes the staged file visible under its name.
Link ==
    /\ staged # None /\ ~staged.linked
    /\ staged' = [staged EXCEPT !.linked = TRUE]
    /\ CASE staged.what = "body" ->
              bodies' = bodies \cup {Head(received)} /\ UNCHANGED <<records, index>>
         [] staged.what = "record" ->
              /\ records' = [records EXCEPT ![candidate] = [refs |-> refs, size |-> staged.size]]
              /\ UNCHANGED <<bodies, index>>
         [] OTHER ->
              /\ index' = [state |-> staged.state, bodies |-> knownBodies, records |-> knownRecords]
              /\ UNCHANGED <<bodies, records>>
    /\ UNCHANGED <<litter, outputs, known, ledger, needsPartial, pc, work, failed, bounds>>

\* The staging file is removed and the store takes note.
UnstageBody ==
    /\ staged # None /\ staged.linked /\ staged.what = "body"
    /\ knownBodies' = knownBodies \cup {Head(received)}
    /\ refs' = refs \cup {Head(received)}
    /\ received' = Tail(received)
    /\ reserved' = reserved - 1
    /\ staged' = None
    /\ UNCHANGED <<disk, knownRecords, metadata, needsPartial, pc, candidate, held, failed, bounds>>

UnstageRecord ==
    /\ staged # None /\ staged.linked /\ staged.what = "record"
    /\ knownRecords' = [knownRecords EXCEPT ![candidate] = records[candidate]]
    /\ ReleaseAll
    /\ staged' = None
    /\ UNCHANGED <<disk, knownBodies, needsPartial, failed, bounds>>

UnstageIndex ==
    /\ staged # None /\ staged.linked /\ staged.what = "index"
    /\ staged' = None
    /\ pc' = IF staged.state = "complete" THEN "publishing" ELSE "closing"
    /\ UNCHANGED <<disk, known, ledger, needsPartial, work, failed, bounds>>

\* The error of a publication: a failed index attempt for "complete" is
\* followed by one for "partial"; anything else ends the candidate.
Give(up) ==
    IF staged.what = "index"
    THEN /\ pc' = IF staged.state = "complete" THEN "ready" ELSE "closing"
         /\ failed' = TRUE
         /\ UNCHANGED <<ledger, work, needsPartial>>
    ELSE Abort /\ needsPartial' = (needsPartial \/ up)

\* A call fails before the link.
FailStaged ==
    /\ staged # None /\ ~staged.linked /\ faults < MaxFaults
    /\ faults' = faults + 1
    /\ staged' = None
    /\ Give(TRUE)
    /\ UNCHANGED <<disk, known, crashes>>

\* A call fails after the link, and the link is undone.
FailLinked ==
    /\ staged # None /\ staged.linked /\ faults < MaxFaults
    /\ faults' = faults + 1
    /\ staged' = None
    /\ bodies' = IF staged.what = "body" THEN bodies \ {Head(received)} ELSE bodies
    /\ records' = IF staged.what = "record" THEN [records EXCEPT ![candidate] = None] ELSE records
    /\ index' = IF staged.what = "index" THEN None ELSE index
    /\ Give(TRUE)
    /\ UNCHANGED <<litter, outputs, known, crashes>>

\* The published file cannot be read back, or the link cannot be undone: it
\* stays, unknown to the store.  Reading a record back does not set
\* _requires_partial_index.
FailVerified ==
    /\ staged # None /\ staged.linked /\ faults < MaxFaults
    /\ faults' = faults + 1
    /\ staged' = None
    /\ \E up \in {staged.what = "body", TRUE} : Give(up)
    /\ UNCHANGED <<disk, known, crashes>>

----------------------------------------------------------------------------
(* The end of a run. *)

\* A variant with a plausible slip: memory is trusted.
MaySeal_Trusting(state) ==
    /\ index = None
    /\ reserved = 0 /\ metadata = {}
    /\ state = "complete" => ~needsPartial /\ Referenced(knownRecords) = knownBodies

\* What publish_index checks before it writes: no reservation outstanding,
\* complete only if no error asked for partial and no body is an orphan, and
\* the disk as it is remembered.
MaySeal(state) ==
    /\ index = None
    /\ reserved = 0 /\ metadata = {}
    /\ bodies = knownBodies /\ records = knownRecords
    /\ state = "complete" => ~needsPartial /\ Referenced(records) = bodies

\* publish_index, "complete" after the last candidate, "partial" after an
\* error, which may be the refusal of "complete".
Seal ==
    /\ pc = "ready" /\ staged = None
    /\ failed \/ \A c \in Candidates : knownRecords[c] # None
    /\ LET state == IF failed THEN "partial" ELSE "complete" IN
       IF MaySeal(state)
       THEN /\ staged' = [what |-> "index", linked |-> FALSE, size |-> IndexMaximum,
                           state |-> state]
            /\ pc' = "sealing"
            /\ UNCHANGED failed
       ELSE /\ failed' = TRUE
            /\ pc' = IF failed THEN "closing" ELSE "ready"
            /\ UNCHANGED staged
    /\ UNCHANGED <<disk, known, ledger, needsPartial, work, bounds>>

\* The process dies: a file being published leaves its staging name.
Crash ==
    /\ pc # "down" /\ crashes < MaxCrashes
    /\ crashes' = crashes + 1
    /\ litter' = (litter \/ staged # None)
    /\ knownBodies' = {} /\ knownRecords' = [c \in Candidates |-> None]
    /\ reserved' = 0 /\ metadata' = {} /\ needsPartial' = FALSE
    /\ candidate' = None /\ held' = 0 /\ received' = <<>> /\ refs' = {}
    /\ staged' = None /\ failed' = FALSE
    /\ pc' = "down"
    /\ UNCHANGED <<bodies, records, index, outputs, faults>>

\* The store of a new run on what is there: scanned, refused when a staging
\* file is left in an unsealed store.  A sealed store, or a candidate
\* recorded before, is an error of reserve(), which ends the run.
OpenStore ==
    /\ pc = "down" /\ (litter => index # None)
    /\ knownBodies' = bodies /\ knownRecords' = records
    /\ pc' = IF index # None THEN "closing" ELSE "ready"
    /\ failed' \in (IF index # None THEN {TRUE} ELSE IF Recorded = {} THEN {FALSE} ELSE BOOLEAN)
    /\ UNCHANGED <<disk, ledger, needsPartial, work, staged, bounds>>

\* A variant with a plausible slip: the artefacts are not looked at.
Reopen_Overlooks == OpenStore

\* Nothing is sent or opened while an artefact of an earlier run is there.
Reopen == outputs = 0 /\ OpenStore

----------------------------------------------------------------------------
(* The artefacts of the step. *)

\* The next artefact is linked: all of them after a complete index, and only
\* the baseline after an error.
PublishOutput ==
    /\ pc \in {"publishing", "closing"}
    /\ outputs' = outputs + 1
    /\ pc' = IF pc = "closing" \/ outputs' = Artefacts THEN "ended" ELSE pc
    /\ UNCHANGED <<bodies, records, index, litter, known, ledger, needsPartial, work, staged,
                   failed, bounds>>

\* Staging or linking fails: what was linked is taken back, the last first,
\* and taking back may fail too.
FailOutput ==
    /\ pc \in {"publishing", "closing"} /\ faults < MaxFaults
    /\ faults' = faults + 1
    /\ outputs' \in 0..outputs
    /\ pc' = "ended" /\ failed' = TRUE
    /\ UNCHANGED <<bodies, records, index, litter, known, ledger, needsPartial, work, staged,
                   crashes>>

\* The run is over, or the directory waits for an operator.
Rest == (pc = "ended" \/ (pc = "down" /\ (litter \/ outputs > 0))) /\ UNCHANGED vars

Exchanges == UNION {[1..n -> Bodies \cup {None}] : n \in 0..(Hops + 1)}

Next ==
    \/ \E c \in Candidates : Reserve(c) \/ Exhausted(c)
    \/ RequestUnrecordable
    \/ \E exchanges \in Exchanges, stop \in BOOLEAN : RequestRecordable(exchanges, stop)
    \/ SkipBody \/ ReuseBody \/ FailReuse \/ StageBody \/ Link \/ UnstageBody
    \/ \E size \in 1..RecordMaximum : StageRecord(size)
    \/ UnstageRecord \/ UnstageIndex
    \/ FailStaged \/ FailLinked \/ FailVerified
    \/ Seal \/ PublishOutput \/ FailOutput \/ Crash \/ Reopen \/ Rest

Spec == Init /\ [][Next]_vars

----------------------------------------------------------------------------
(* Properties. *)

TypeOK ==
    /\ bodies \subseteq Bodies /\ knownBodies \subseteq Bodies /\ refs \subseteq Bodies
    /\ records \in [Candidates -> {None} \cup RecordFiles]
    /\ knownRecords \in [Candidates -> {None} \cup RecordFiles]
    /\ index \in {None} \cup IndexFiles
    /\ outputs \in 0..Artefacts
    /\ pc \in Places
    /\ candidate \in Candidates \cup {None}
    /\ received \in Seq(Bodies \cup {None})
    /\ held \in 0..(Hops + 1) /\ reserved \in Nat /\ held <= reserved
    /\ metadata \subseteq Candidates
    /\ staged \in {None} \cup StagedFiles
    /\ litter \in BOOLEAN /\ needsPartial \in BOOLEAN /\ failed \in BOOLEAN
    /\ faults \in Nat /\ crashes \in Nat

\* No record on disk names a body that is not there, at any moment and after
\* any failure or crash: bodies are published before the record.
RecordsBacked == Referenced(records) \subseteq bodies

\* What is on disk stays within both allowances, whatever sizes the answers
\* had and whatever the store lost track of, because every request is
\* reserved for in full before it is sent.
WithinAllowances ==
    /\ Bytes(bodies) <= BodyAllowance
    /\ RecordBytes(records) + IndexMaximum <= MetadataAllowance

\* Once reserved, a candidate can always be recorded: the bodies that are
\* still to come and the record fit, so no evidence received is thrown away
\* for want of room.
ReservationHonoured ==
    pc \in {"requesting", "committing"} =>
        /\ Bytes(bodies) + held * BodyMaximum <= BodyAllowance
        /\ RecordBytes(records) + RecordMaximum + IndexMaximum <= MetadataAllowance
        /\ Len(received) <= held + (IF staged = None THEN 0 ELSE 1)

\* An index on disk lists exactly the files on disk, now and for ever after;
\* "complete" says that every candidate is there and no body is an orphan.
IndexIsExact ==
    index # None =>
        /\ index.bodies = bodies /\ index.records = records
        /\ index.state = "complete" =>
              Recorded = Candidates /\ Referenced(records) = bodies

\* A run that no call failed ends with an index, whichever way it stopped:
\* no path loses a reservation.
StopIsSealed == pc = "ended" /\ faults = 0 => index # None

\* The artefacts of the step tell of one run and follow its store: none is
\* there while a run collects, whatever ended the run before it, more than
\* the baseline is there only beside a complete index, and without a failing
\* call or a crash a complete index ends with all of them, any other end
\* with the baseline.
OutputsFollowIndex ==
    LET complete == index # None /\ index.state = "complete" IN
    /\ pc \in Collecting \cup {"closing"} => outputs = 0
    /\ outputs > 1 => complete
    /\ pc = "ended" /\ faults = 0 /\ crashes = 0 => outputs = (IF complete THEN Artefacts ELSE 1)

\* A failed publication that left nothing behind is sealed as partial.
FailureIsSealed ==
    pc = "ended" /\ needsPartial /\ bodies = knownBodies /\ records = knownRecords
        => index # None
=============================================================================
