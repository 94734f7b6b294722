----------------------------- MODULE PolicyFiles -----------------------------
(* The private policies of a bug bounty project and the project file that     *)
(* refers to them: bugslyce/project_session.py over the atomic writers of     *)
(* core/programme_scope_store.py and core/engagement_policy.py.  A policy is  *)
(* in effect when its file is there and the project file names it: two files, *)
(* written one after the other, the first taken back when the second fails.   *)
(* One operator saves; a reconnaissance run may start at any moment.          *)
EXTENDS Naturals

CONSTANTS
    Values,     \* policies an operator may confirm, of either kind
    None,
    MaxCrashes  \* bound: crashes and interrupts

Kinds == {"scope", "policy"}

ASSUME NoneAssumption ==
    None \notin Values /\ None \notin {"saved", "failed"} /\ None \notin Kinds \X Values

VARIABLES
    refs,     \* kinds the project file refers to
    file,     \* the policy file of each kind, or None
    save,     \* the save under way or the last one, and how far it is
    run,      \* a run that reads its policies, and how far it is
    crashes

vars == <<refs, file, save, run, crashes>>

Idle == [pc |-> "idle", kind |-> "scope", value |-> None, loaded |-> {}, previous |-> None]

Init ==
    /\ refs = {} /\ file = [k \in Kinds |-> None]
    /\ save = Idle
    /\ run = [pc |-> "none", loaded |-> {}]
    /\ crashes = 0

----------------------------------------------------------------------------
(* Saving. *)

Saving == save.pc \in {"writing", "referring", "undoing"}

\* The operator has confirmed a policy.  A scope is edited from the stored
\* one, so that a reference to nothing would refuse every edit.
Begin(k, v) ==
    /\ ~Saving
    /\ k = "scope" /\ k \in refs => file[k] # None
    /\ save' = [pc |-> "writing", kind |-> k, value |-> v, loaded |-> refs,
                previous |-> IF k \in refs THEN None ELSE file[k]]
    /\ UNCHANGED <<refs, file, run, crashes>>

\* A temporary file is renamed over the policy file.
Write ==
    /\ save.pc = "writing"
    /\ file' = [file EXCEPT ![save.kind] = save.value]
    /\ save' = [save EXCEPT !.pc = IF save.kind \in save.loaded THEN "saved" ELSE "referring"]
    /\ UNCHANGED <<refs, run, crashes>>

WriteFails ==
    /\ save.pc = "writing"
    /\ save' = [save EXCEPT !.pc = "failed"]
    /\ UNCHANGED <<refs, file, run, crashes>>

\* A slip: the project file is rewritten with the one reference.
WriteReference_Only ==
    /\ save.pc = "referring"
    /\ refs' = {save.kind}
    /\ save' = [save EXCEPT !.pc = "saved"]
    /\ UNCHANGED <<file, run, crashes>>

\* The project file is rewritten whole, from what was loaded of it.
WriteReference ==
    /\ save.pc = "referring"
    /\ refs' = save.loaded \cup {save.kind}
    /\ save' = [save EXCEPT !.pc = "saved"]
    /\ UNCHANGED <<file, run, crashes>>

ReferenceFails ==
    /\ save.pc = "referring"
    /\ save' = [save EXCEPT !.pc = "undoing"]
    /\ UNCHANGED <<refs, file, run, crashes>>

\* A slip: the file is removed whatever was there before.
Undo_Removes ==
    /\ save.pc = "undoing"
    /\ file' = [file EXCEPT ![save.kind] = None]
    /\ save' = [save EXCEPT !.pc = "failed"]
    /\ UNCHANGED <<refs, run, crashes>>

\* The first file is written back, or removed if there was none.
Undo ==
    /\ save.pc = "undoing"
    /\ file' = [file EXCEPT ![save.kind] = save.previous]
    /\ save' = [save EXCEPT !.pc = "failed"]
    /\ UNCHANGED <<refs, run, crashes>>

\* "rollback could not be confirmed".
UndoFails ==
    /\ save.pc = "undoing"
    /\ save' = [save EXCEPT !.pc = "unsure"]
    /\ UNCHANGED <<refs, file, run, crashes>>

\* A crash, or an interrupt, which nothing takes back.
Crash ==
    /\ Saving /\ crashes < MaxCrashes
    /\ save' = Idle /\ crashes' = crashes + 1
    /\ UNCHANGED <<refs, file, run>>

\* A slip: it is the policy files that start over.
Initialise_Forgets ==
    /\ ~Saving
    /\ file' = [k \in Kinds |-> None]
    /\ save' = Idle
    /\ UNCHANGED <<refs, run, crashes>>

\* "project init --force": the project file starts over, without references;
\* the policy files stay where they are.
Initialise ==
    /\ ~Saving
    /\ refs' = {} /\ save' = Idle
    /\ UNCHANGED <<file, run, crashes>>

----------------------------------------------------------------------------
(* A run of reconnaissance loads the project file, then the engagement        *)
(* policy, then the scope.                                                    *)

LoadProject ==
    /\ run.pc = "none"
    /\ run' = [pc |-> "loaded", loaded |-> refs]
    /\ UNCHANGED <<refs, file, save, crashes>>

\* One policy: not configured, missing from where the project refers to, or read.
Read(k, then) ==
    run' = [run EXCEPT !.pc = IF k \notin run.loaded THEN "refused"
                              ELSE IF file[k] = None THEN "missing" ELSE then]

ReadPolicy == run.pc = "loaded" /\ Read("policy", "half") /\ UNCHANGED <<refs, file, save, crashes>>
ReadScope  == run.pc = "half" /\ Read("scope", "started") /\ UNCHANGED <<refs, file, save, crashes>>

EndRun ==
    /\ run.pc \in {"refused", "missing", "started"}
    /\ run' = [pc |-> "none", loaded |-> {}]
    /\ UNCHANGED <<refs, file, save, crashes>>

Next ==
    \/ \E k \in Kinds, v \in Values : Begin(k, v)
    \/ Write \/ WriteFails \/ WriteReference \/ ReferenceFails \/ Undo \/ UndoFails
    \/ Crash \/ Initialise
    \/ LoadProject \/ ReadPolicy \/ ReadScope \/ EndRun

Spec == Init /\ [][Next]_vars

----------------------------------------------------------------------------
(* Properties. *)

Effective(k) == IF k \in refs THEN file[k] ELSE None

Register == INSTANCE PolicyRegister WITH
    effective <- [k \in Kinds |-> Effective(k)],
    asked     <- IF Saving THEN <<save.kind, save.value>> ELSE None,
    told      <- CASE save.pc = "saved"                 -> "saved"
                   [] save.pc \in {"failed", "unsure"}  -> "failed"
                   [] OTHER                             -> None

\* Saving implements a register: what is in effect changes at one moment, to
\* what the operator confirmed, and then the save is reported to have
\* succeeded; a save that fails, at its first or at its second file, with or
\* without its rollback, and a crash between the two leave every policy in
\* effect as it was.
SavesAreAtomic == Register!Spec

\* The project file never refers to a policy that is not there: such a
\* reference would refuse every run and every edit of a scope.
NoDanglingReference == \A k \in refs : file[k] # None

\* A run that starts while policies are saved, taken back or the project is
\* initialised anew is refused for what is not configured, never for a file
\* that has gone since the project was loaded.
RunFindsPolicies == run.pc # "missing"

\* A policy file that is not in effect survives a save that fails later.
FailedSaveRestores ==
    save.pc = "failed" /\ save.kind \notin refs => file[save.kind] = save.previous
=============================================================================
