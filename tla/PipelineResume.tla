-------------------------- MODULE PipelineResume ---------------------------
(* The fixed project pipeline and its resume, bugslyce/project_pipeline.py, *)
(* for the one profile that can be executed, deep-bounded.                  *)
(*                                                                          *)
(* A run works off the steps in order and rewrites its metadata, the saved  *)
(* checkpoint, at every change of a step.  A resume looks at the disk, not  *)
(* at the checkpoint alone: the artefacts in the manifest tell which live   *)
(* phases are there.  A run stops by itself, by an error or by a crash, and *)
(* the step it stops in may have left any part of its traces: manifest,     *)
(* content plan and checkpoint are written in place, and a phase may fail   *)
(* after its artefacts are registered.                                      *)
EXTENDS Naturals, Sequences

CONSTANTS
    MayNoop,     \* steps that may find nothing to do, or be denied by policy
    MaxFaults,   \* bound: failing steps
    MaxCrashes,  \* bound: crashes and interrupts
    Torn,        \* what is left of a checkpoint whose writing was cut: no JSON
    None

Order == << "001", "002", "003", "003S", "004", "005", "006", "007", "008", "009",
            "010D", "011D", "010", "011", "012" >>
Steps == {Order[i] : i \in DOMAIN Order}

\* The phases whose evidence a resume may reuse.
Live == {Order[i] : i \in 2..10}
Deep == {"010D", "011D"}
Tail5 == Deep \cup {"010", "011", "012"}

Statuses == {"pending", "running", "completed", "noop", "failed", "skipped_existing",
             "skipped_dependency"}

\* What a checkpoint holds: statuses, the status of the run, an export path.
Checkpoints == [status : [Steps -> Statuses], final : {"running", "failed", "completed"},
                export : BOOLEAN]

\* Only these steps have an outcome without work.
ASSUME NoopAssumption == MayNoop \subseteq {"002", "003", "003S", "005", "008", "009"}
ASSUME BoundsAssumption == MaxFaults \in Nat /\ MaxCrashes \in Nat
ASSUME NoneAssumption ==
    /\ None # Torn /\ None \notin Checkpoints /\ Torn \notin Checkpoints
    /\ None \notin {"completed", "noop", "failed", "http"}

VARIABLES
    evidence,   \* disk: live steps whose artefact is registered (006: a readable plan)
    whole,      \* live steps whose work was done to the end (not in the code)
    residue,    \* disk: files of a failed content discovery that refuse another
    planned,    \* disk: the directory of the content plan exists
    cut,        \* disk: the manifest was cut while it was written
    deepFiles,  \* disk: how many of the Deep artefacts exist
    zip,        \* disk: the evidence pack
    saved,      \* disk: the checkpoint: None, Torn or a record
    pc,         \* "idle", "ready", "step", "done", "finalise"
    at,         \* position of the current step
    status,     \* status of each step
    outcome,    \* how the work of the current step ended
    preserve,   \* preserve_canonical_pipeline_metadata
    deferred,   \* deferred_failure_diagnostic is set
    exporting,  \* result.export_path is set
    refused,    \* the last resume was refused
    deepStarts, \* starts of the Deep collection (not in the code)
    faults, crashes

disk   == <<evidence, whole, residue, planned, cut, deepFiles, zip>>
flags  == <<preserve, deferred, exporting>>
bounds == <<faults, crashes>>
vars   == <<disk, saved, pc, at, status, outcome, flags, refused, deepStarts, bounds>>

Init ==
    /\ evidence = {} /\ whole = {} /\ residue = FALSE /\ planned = FALSE /\ cut = FALSE
    /\ deepFiles = "none" /\ zip = FALSE
    /\ saved = None
    /\ pc = "idle" /\ at = 1 /\ status = [s \in Steps |-> "pending"] /\ outcome = None
    /\ preserve = FALSE /\ deferred = FALSE /\ exporting = FALSE
    /\ refused = FALSE /\ deepStarts = 0
    /\ faults = 0 /\ crashes = 0

Current == Order[at]
Readable == saved \notin {None, Torn}
Prior(s) == IF Readable THEN saved.status[s] ELSE "absent"

\* A variant with a plausible slip: preserved metadata is rewritten.
Checkpoint_Always(st, final, export) ==
    saved' = [status |-> st, final |-> final, export |-> export]

\* A checkpoint of statuses st; nothing is written when metadata is preserved.
Checkpoint(st, final, export) ==
    saved' = IF preserve THEN saved ELSE [status |-> st, final |-> final, export |-> export]

----------------------------------------------------------------------------
(* Starting. *)

Begin(skipped, keep) ==
    /\ status' = [s \in Steps |-> IF s \in skipped THEN "skipped_existing" ELSE "pending"]
    /\ pc' = "ready" /\ at' = 1 /\ outcome' = None
    /\ preserve' = keep /\ deferred' = FALSE /\ exporting' = ("012" \in skipped)
    /\ refused' = FALSE

\* Without --resume: only into a directory with no manifest, plan directory,
\* Deep artefact or evidence pack.
StartFresh ==
    /\ pc = "idle"
    /\ evidence = {} /\ ~planned /\ ~cut /\ deepFiles = "none" /\ ~zip
    /\ Begin({}, FALSE)
    /\ UNCHANGED <<disk, saved, deepStarts, bounds>>

\* _deep_completed_resume_verified
Verified ==
    /\ Readable /\ saved.final = "completed" /\ saved.export
    /\ \A s \in Tail5 : saved.status[s] = "completed"
    /\ deepFiles = "all" /\ zip

\* A variant with a plausible slip: a Deep step that was interrupted before
\* it wrote a file does not count.
DeepTouched_ByFiles ==
    deepFiles # "none" \/ \E s \in Deep : Prior(s) \in {"completed", "failed"}

\* _validate_deep_resume_state, unless Verified
DeepTouched ==
    \/ deepFiles # "none"
    \/ \E s \in Deep : Prior(s) \in {"running", "completed", "failed"}

\* A variant with a plausible slip: the checkpoint is asked, not the disk.
Detected_ByCheckpoint(s) == Prior(s) \in {"completed", "noop", "skipped_existing"}

\* A variant with a plausible slip: a phase that was started is taken for done.
Detected_Started(s) == s \in evidence \/ Prior(s) \notin {"absent", "pending"}

\* A variant with a plausible slip: the share listing is known by its files.
Detected_NoSmb(s) ==
    s \in evidence \/ (s \in {"002", "003", "008", "009"} /\ Prior(s) = "noop")

\* What a resume takes for done.
Detected(s) ==
    \/ s \in evidence
    \/ s \in {"002", "003", "008", "009"} /\ Prior(s) = "noop"
    \/ s = "003S" /\ Prior(s) \in {"completed", "noop", "skipped_existing"}

\* _validate_resume_phase_order
Coherent ==
    \A i, j \in 2..10 : i < j /\ Detected(Order[j]) => Detected(Order[i])

\* The plan directory without a content_discovery_plan.json that can be read.
BrokenPlan == planned /\ "006" \notin evidence

\* What a resume refuses before it judges anything: files it cannot parse.
Unreadable == cut \/ saved = Torn \/ BrokenPlan

StartResume ==
    /\ pc = "idle"
    /\ \/ /\ ~Unreadable /\ Verified
          /\ Begin({s \in Steps \ {"001"} : saved.status[s] \in {"completed", "noop"}}, TRUE)
       \/ /\ ~Unreadable /\ ~Verified /\ ~DeepTouched /\ Coherent
          /\ Begin({s \in Live : Detected(s)}, FALSE)
       \/ /\ Unreadable \/ (~Verified /\ (DeepTouched \/ ~Coherent))
          /\ refused' = TRUE
          /\ UNCHANGED <<pc, at, status, outcome, flags>>
    /\ UNCHANGED <<disk, saved, deepStarts, bounds>>

----------------------------------------------------------------------------
(* Working off a step. *)

\* The loop passes over what is not to be done.
PassOver ==
    /\ pc = "ready" /\ at <= Len(Order)
    /\ status[Current] \in {"skipped_existing", "skipped_dependency"}
    /\ at' = at + 1
    /\ UNCHANGED <<disk, saved, pc, status, outcome, flags, refused, deepStarts, bounds>>

StartStep ==
    /\ pc = "ready" /\ at <= Len(Order) /\ status[Current] = "pending"
    /\ status' = [status EXCEPT ![Current] = "running"]
    /\ Checkpoint(status', "running", exporting)
    /\ pc' = "step"
    /\ deepStarts' = deepStarts + (IF Current = "010D" THEN 1 ELSE 0)
    /\ UNCHANGED <<disk, at, outcome, flags, refused, bounds>>

Done(result) == pc' = "done" /\ outcome' = result

\* Steps that cannot do their work: content discovery over files it would
\* overwrite, the body fetch without responses, the pack without a manifest.
Able ==
    /\ Current = "007" => ~residue /\ "007" \notin evidence
    /\ Current = "009" => "008" \in evidence
    /\ Current = "012" => ~cut

\* What the work of a step leaves on disk.  A body fetch may keep nothing;
\* so may the share listing.
Work ==
    /\ pc = "step" /\ Able
    /\ Done("completed")
    /\ IF Current \in Live
       THEN /\ whole' = whole \cup {Current}
            /\ \/ evidence' = evidence \cup {Current}
               \/ Current \in {"003S", "009"} /\ UNCHANGED evidence
       ELSE UNCHANGED <<evidence, whole>>
    /\ planned' = (planned \/ Current = "006")
    /\ deepFiles' = CASE Current = "010D" -> "some"
                      [] Current = "011D" -> "all"
                      [] OTHER -> deepFiles
    /\ exporting' = (exporting \/ Current = "012")
    /\ UNCHANGED <<residue, cut, zip, saved, at, status, preserve, deferred, refused,
                   deepStarts, bounds>>

\* The step finds that there is nothing for it to do.
WorkNoop ==
    /\ pc = "step" /\ Current \in MayNoop
    /\ Done("noop")
    /\ whole' = whole \cup {Current}
    /\ UNCHANGED <<evidence, residue, planned, cut, deepFiles, zip, saved, at, status, flags,
                   refused, deepStarts, bounds>>

\* A content plan whose writing is cut: its directory, with no plan to read.
PlanLeaves ==
    /\ Current = "006" /\ planned' = TRUE /\ evidence' = evidence \ {"006"}
    /\ UNCHANGED <<whole, cut>>

\* What a live step that does not reach its end may leave: nothing; all of
\* its evidence, if it stops after the manifest or the plan is written; part
\* of it, if the content follow-up times out; half a plan; a cut manifest.
PhaseLeaves ==
    \/ UNCHANGED <<evidence, whole, planned, cut>>
    \/ /\ Current \in Live /\ Able
       /\ evidence' = evidence \cup {Current} /\ whole' = whole \cup {Current}
       /\ planned' = (planned \/ Current = "006") /\ UNCHANGED cut
    \/ /\ Current = "008" /\ evidence' = evidence \cup {"008"}
       /\ UNCHANGED <<whole, planned, cut>>
    \/ PlanLeaves
    \/ /\ Current \in Live \ {"006"} /\ Able /\ cut' = TRUE
       /\ UNCHANGED <<evidence, whole, planned>>

\* Besides, content discovery may leave its baseline and its store, and the
\* Deep collection some artefacts.
Leaves ==
    /\ PhaseLeaves
    /\ residue' \in {residue, residue \/ Current = "007"}
    /\ deepFiles' \in {deepFiles} \cup (IF Current = "010D" THEN {"some"} ELSE {})
    /\ UNCHANGED zip

\* The step fails; "http" is an enforcement error.  Content discovery and the
\* pack fail whenever they are not able to do their work.
WorkFails ==
    /\ pc = "step"
    /\ \/ faults < MaxFaults /\ faults' = faults + 1 /\ (Done("failed") \/ Done("http"))
       \/ Current \in {"007", "012"} /\ ~Able /\ UNCHANGED faults /\ Done("failed")
    /\ Leaves
    /\ UNCHANGED <<saved, at, status, flags, refused, deepStarts, crashes>>

\* The result is recorded and the loop goes on.
Record ==
    /\ pc = "done" /\ outcome \in {"completed", "noop"}
    /\ status' = [status EXCEPT ![Current] = outcome]
    /\ Checkpoint(status', "running", exporting)
    /\ pc' = "ready" /\ at' = at + 1 /\ outcome' = None
    /\ UNCHANGED <<disk, flags, refused, deepStarts, bounds>>

\* A variant with a plausible slip: the failure is not remembered.
GoOn_Forgets ==
    /\ pc = "done" /\ outcome = "failed" /\ Current = "007"
    /\ status' = [s \in Steps |-> CASE s = Current -> "failed"
                                    [] s \in {"008", "009"} -> "skipped_dependency"
                                    [] OTHER -> status[s]]
    /\ Checkpoint(status', "failed", exporting)
    /\ pc' = "ready" /\ at' = at + 1 /\ outcome' = None
    /\ UNCHANGED <<disk, flags, refused, deepStarts, bounds>>

\* A variant with a plausible slip: every failure ends the run.
GoOn_Stops ==
    /\ pc = "done" /\ outcome = "failed" /\ Current = "007"
    /\ status' = [status EXCEPT ![Current] = "failed"]
    /\ Checkpoint(status', "failed", exporting)
    /\ pc' = "idle" /\ outcome' = None
    /\ UNCHANGED <<disk, at, flags, refused, deepStarts, bounds>>

\* Failed content discovery: its dependents are skipped and the run goes on
\* to the Deep steps, to fail at its end.
GoOn ==
    /\ pc = "done" /\ outcome = "failed" /\ Current = "007"
    /\ status' = [s \in Steps |-> CASE s = Current -> "failed"
                                    [] s \in {"008", "009"} -> "skipped_dependency"
                                    [] OTHER -> status[s]]
    /\ Checkpoint(status', "failed", exporting)
    /\ deferred' = TRUE
    /\ pc' = "ready" /\ at' = at + 1 /\ outcome' = None
    /\ UNCHANGED <<disk, preserve, exporting, refused, deepStarts, bounds>>

\* Any other failure ends the run.
Stop ==
    /\ pc = "done"
    /\ outcome = "http" \/ (outcome = "failed" /\ Current # "007")
    /\ status' = [status EXCEPT ![Current] = "failed"]
    /\ Checkpoint(status', "failed", exporting)
    /\ pc' = "idle" /\ outcome' = None
    /\ UNCHANGED <<disk, at, flags, refused, deepStarts, bounds>>

----------------------------------------------------------------------------
(* The end of a run. *)

\* The final status is saved; a preserved run is over.
Conclude ==
    /\ pc = "ready" /\ at > Len(Order)
    /\ Checkpoint(status, IF deferred THEN "failed" ELSE "completed", exporting)
    /\ pc' = IF preserve THEN "idle" ELSE "finalise"
    /\ UNCHANGED <<disk, at, status, outcome, flags, refused, deepStarts, bounds>>

\* Final outputs are refreshed and the evidence pack is published, last.
Publish ==
    /\ pc = "finalise"
    /\ zip' = (zip \/ (exporting /\ status["012"] = "completed"))
    /\ pc' = "idle"
    /\ UNCHANGED <<evidence, whole, residue, planned, cut, deepFiles, saved, at, status,
                   outcome, flags, refused, deepStarts, bounds>>

\* One of them fails: PIPELINE-FINALISE.
PublishFails ==
    /\ pc = "finalise" /\ faults < MaxFaults
    /\ faults' = faults + 1
    /\ Checkpoint(status, "failed", FALSE)
    /\ exporting' = FALSE
    /\ pc' = "idle"
    /\ UNCHANGED <<disk, at, status, outcome, preserve, deferred, refused, deepStarts, crashes>>

\* The process dies, or is interrupted by an exception nothing handles: in
\* the middle of a step, or of the writing of a checkpoint.
Crash ==
    /\ pc # "idle" /\ crashes < MaxCrashes
    /\ crashes' = crashes + 1
    /\ pc' = "idle" /\ outcome' = None
    /\ IF pc = "step" THEN Leaves ELSE UNCHANGED disk
    /\ saved' \in {saved} \cup (IF preserve THEN {} ELSE {Torn})
    /\ UNCHANGED <<at, status, flags, refused, deepStarts, faults>>

Next == \/ StartFresh \/ StartResume \/ PassOver \/ StartStep
        \/ Work \/ WorkNoop \/ WorkFails
        \/ Record \/ GoOn \/ Stop
        \/ Conclude \/ Publish \/ PublishFails \/ Crash

Spec == Init /\ [][Next]_vars

\* A started run goes on, and the operator resumes what stopped.  Nothing
\* has to fail, but a refused content discovery cannot do anything else.
Fairness == WF_vars(\/ StartResume \/ PassOver \/ StartStep \/ Work
                    \/ WorkNoop \/ (UNCHANGED faults /\ WorkFails)
                    \/ Record \/ GoOn \/ Stop \/ Conclude \/ Publish)

FairSpec == Spec /\ Fairness

----------------------------------------------------------------------------
(* Properties. *)

TypeOK ==
    /\ evidence \subseteq Live /\ whole \subseteq Live
    /\ deepFiles \in {"none", "some", "all"}
    /\ saved \in {None, Torn} \cup Checkpoints
    /\ pc \in {"idle", "ready", "step", "done", "finalise"} /\ at \in 1..(Len(Order) + 1)
    /\ status \in [Steps -> Statuses]
    /\ pc \in {"step", "done"} => at <= Len(Order) /\ status[Current] = "running"
    /\ outcome \in {"completed", "noop", "failed", "http", None}
    /\ (outcome # None) <=> (pc = "done")
    /\ residue \in BOOLEAN /\ planned \in BOOLEAN /\ cut \in BOOLEAN
    /\ zip \in BOOLEAN /\ refused \in BOOLEAN
    /\ preserve \in BOOLEAN /\ deferred \in BOOLEAN /\ exporting \in BOOLEAN
    /\ deepStarts \in Nat /\ faults \in Nat /\ crashes \in Nat

\* A live phase is not run again over evidence it has left, whenever and
\* however the runs before it stopped.
NoRepeat == pc = "step" /\ ~preserve => Current \notin evidence

\* The Deep network stages are run at most once in a project.
DeepOnce == deepStarts <= 1

\* A phase the run counts as over was done to the end, however the runs before
\* it stopped; the content follow-up alone may have timed out half way and be
\* taken for existing by a later resume.
OverIsWhole ==
    pc # "idle" =>
        \A s \in Live : status[s] \in {"completed", "noop", "skipped_existing"} =>
            s \in whole \/ (s = "008" /\ status[s] = "skipped_existing")

\* The checkpoint says completed only of a run in which every step is done.
CompletedMeansAll ==
    Readable /\ saved.final = "completed" =>
        \A s \in Steps : saved.status[s] \in {"completed", "noop", "skipped_existing"}

\* The evidence pack is the last thing written: while it exists the saved
\* metadata and the Deep artefacts, which it contains, never change again.
PackFreezesMetadata == [][zip => UNCHANGED <<saved, deepFiles>>]_vars

\* A resume is refused only over what the Deep stages left or over a file
\* that was cut: the phases it detects are in order, whenever and however
\* the runs before it stopped.
NeverIncoherent == refused /\ pc = "idle" => DeepTouched \/ Unreadable

\* A resume of a verified, completed project does nothing but validate.
CompletedIsNoOp == preserve /\ pc = "step" => Current = "001"

\* Resumed as often as needed, a project ends completed with its evidence
\* pack, or in one of the states that need a clean project: partial Deep
\* state, or a file that was cut.
Settles == <>[](zip \/ DeepTouched \/ Unreadable)
=============================================================================
