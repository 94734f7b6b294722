-------------------------- MODULE StoreCompaction --------------------------
(* Whole-store compaction of the native observation evidence as a sibling   *)
(* transaction: bugslyce/recon/native_observation_compaction.py.            *)
(*                                                                          *)
(* A run recovers what an earlier one left, builds a compacted replacement  *)
(* next to the canonical store, and swaps the two under a marker file.  The *)
(* operations that change the disk form a list, todo; an exception drops    *)
(* the rest of it and enters the handler of its try block, a crash drops    *)
(* everything but the disk.  Every rename and unlink is followed by an      *)
(* fsync of the directory, so a crash loses at most the last one, which is  *)
(* a crash before it.                                                       *)
EXTENDS Naturals, Sequences

CONSTANTS
    Async,      \* may an exception (KeyboardInterrupt) come between two calls?
    PerRun,     \* bound: exceptions within one run
    MaxFaults,  \* bound: exceptions over all runs
    MaxCrashes  \* bound: crashes over all runs

ASSUME AsyncAssumption == Async \in BOOLEAN
ASSUME BoundsAssumption == {PerRun, MaxFaults, MaxCrashes} \subseteq Nat

VARIABLES
    dir,        \* disk: the tree at each path
    marker,     \* disk: does the transaction marker exist?
    phase,      \* what the run is doing
    todo,       \* operations still to be done in this phase
    published,  \* the local variable of the same name
    refused,    \* the last run found a transaction it cannot recover
    raised,     \* exceptions in this run
    faults,     \* exceptions over all runs
    crashes     \* crashes over all runs

disk == <<dir, marker>>
vars == <<dir, marker, phase, todo, published, refused, raised, faults, crashes>>

Paths == {"canonical", "replacement", "backup"}

\* phase: "idle", "recover", "build", "commit", "caught" (the handler of the
\* commit is entered) or "abort" (a handler cleans up before it re-raises).
\* A tree: "old" is the uncompacted store, whole; "new" the compacted one, whole;
\* "partial" a tree being written or being removed, or "absent".

Exists(p) == dir[p] # "absent"
Intact(p) == dir[p] \in {"old", "new"}

Remove(p)     == [op |-> "remove", path |-> p, to |-> p]
Rename(p, q)  == [op |-> "rename", path |-> p, to |-> q]
Build         == [op |-> "build", path |-> "replacement", to |-> "replacement"]
Mark          == [op |-> "mark", path |-> "canonical", to |-> "canonical"]
Unmark        == [op |-> "unmark", path |-> "canonical", to |-> "canonical"]
SetPublished  == [op |-> "set", path |-> "canonical", to |-> "canonical"]
Validate      == [op |-> "validate", path |-> "canonical", to |-> "canonical"]

\* A variant with a plausible slip: the marker comes after the first rename.
Commit_LateMark ==
    << Rename("canonical", "backup"), Mark, Rename("replacement", "canonical"),
       SetPublished, Validate, Remove("backup"), Unmark >>

Commit == << Mark, Rename("canonical", "backup"), Rename("replacement", "canonical"),
             SetPublished, Validate, Remove("backup"), Unmark >>

Init ==
    /\ dir = [p \in Paths |-> IF p = "canonical" THEN "old" ELSE "absent"]
    /\ marker = FALSE
    /\ phase = "idle" /\ todo = <<>> /\ published = FALSE
    /\ refused = FALSE
    /\ raised = 0 /\ faults = 0 /\ crashes = 0

----------------------------------------------------------------------------
(* Recovery. *)

\* What _recover_transaction does about the disk it finds, when validating
\* a whole compacted store succeeds (valid) or fails with an OSError.
RecoveryTable(valid) ==
    LET c == Exists("canonical")
        r == Exists("replacement")
        b == Exists("backup")
        Compacted(p) == dir[p] = "new" /\ valid
    IN { [when |-> ~marker /\ ~r /\ ~b,
          plan |-> <<>>],
         [when |-> ~marker /\ r /\ ~b /\ Intact("canonical"),
          plan |-> << Remove("replacement") >>],
         [when |-> marker /\ c /\ b /\ ~r /\ Compacted("canonical"),
          plan |-> << Remove("backup"), Unmark >>],
         [when |-> marker /\ c /\ b /\ ~r /\ ~Compacted("canonical") /\ dir["backup"] = "old",
          plan |-> << Remove("canonical"), Rename("backup", "canonical"), Unmark >>],
         [when |-> marker /\ ~c /\ b /\ Compacted("replacement"),
          plan |-> << Rename("replacement", "canonical"), Remove("backup"), Unmark >>],
         [when |-> marker /\ ~c /\ b /\ ~Compacted("replacement"),
          plan |-> << Rename("backup", "canonical"), Remove("replacement"), Unmark >>],
         [when |-> marker /\ c /\ ~b,
          plan |-> << Remove("replacement"), Unmark >>] }

\* A variant with a plausible slip: the backup, not validated first, wins.
Recovery_BackupWins(valid) ==
    IF marker /\ Exists("backup")
    THEN { << Remove("canonical"), Rename("backup", "canonical"),
              Remove("replacement"), Unmark >> }
    ELSE {row.plan : row \in {q \in RecoveryTable(valid) : q.when}}

\* A variant with a plausible slip: a replacement without a marker, which a
\* crash of the build leaves, is refused like any other residue.
Recovery_RefusesResidue(valid) ==
    {row.plan : row \in {q \in RecoveryTable(valid) :
                           q.when /\ (marker \/ ~Exists("replacement"))}}

\* The plan of the row that applies; of none, when it raises.
Recovery(valid) == {row.plan : row \in {q \in RecoveryTable(valid) : q.when}}

MayRaise == raised < PerRun /\ faults < MaxFaults

\* The caller starts a run: recovery looks at the disk.
StartRun ==
    /\ phase = "idle"
    /\ published' = FALSE
    /\ \/ /\ raised' = 0 /\ UNCHANGED faults
          /\ IF Recovery(TRUE) = {}
             THEN refused' = TRUE /\ UNCHANGED <<phase, todo>>
             ELSE refused' = FALSE /\ phase' = "recover" /\ todo' \in Recovery(TRUE)
       \/ /\ PerRun > 0 /\ faults < MaxFaults
          /\ raised' = 1 /\ faults' = faults + 1
          /\ refused' = FALSE
          /\ IF Recovery(FALSE) = {}
             THEN UNCHANGED <<phase, todo>>
             ELSE phase' = "recover" /\ todo' \in Recovery(FALSE)
    /\ UNCHANGED <<disk, crashes>>

----------------------------------------------------------------------------
(* Operations. *)

\* Do the first operation of the list.  A tree is built and removed in two
\* steps, file by file; a removal of nothing does nothing; a rename needs
\* its source and a free target, or the list would be stuck.
Do ==
    /\ todo # <<>>
    /\ LET o == Head(todo)
           Change(new) == dir' = new /\ UNCHANGED <<marker, published>>
       IN \/ /\ o.op = "remove" /\ Intact(o.path)
             /\ Change([dir EXCEPT ![o.path] = "partial"])
             /\ UNCHANGED todo
          \/ /\ o.op = "build" /\ ~Exists(o.path)
             /\ Change([dir EXCEPT ![o.path] = "partial"])
             /\ UNCHANGED todo
          \/ /\ \/ /\ o.op = "remove" /\ ~Intact(o.path)
                   /\ Change([dir EXCEPT ![o.path] = "absent"])
                \/ /\ o.op = "build" /\ Exists(o.path)
                   /\ Change([dir EXCEPT ![o.path] = "new"])
                \/ /\ o.op = "rename" /\ Exists(o.path) /\ ~Exists(o.to)
                   /\ Change([dir EXCEPT ![o.to] = dir[o.path], ![o.path] = "absent"])
                \/ o.op = "mark" /\ marker' = TRUE /\ UNCHANGED <<dir, published>>
                \/ o.op = "unmark" /\ marker' = FALSE /\ UNCHANGED <<dir, published>>
                \/ o.op = "set" /\ published' = TRUE /\ UNCHANGED disk
                \/ o.op = "validate" /\ dir[o.path] = "new" /\ UNCHANGED <<disk, published>>
             /\ todo' = Tail(todo)
    /\ UNCHANGED <<phase, refused, raised, faults, crashes>>

Clean == ~Exists("replacement") /\ ~Exists("backup") /\ ~marker

\* The store found after recovery: compacted already, or to be compacted.
Assess ==
    /\ phase = "recover" /\ todo = <<>>
    /\ \/ dir["canonical"] = "old" /\ Clean /\ phase' = "build" /\ todo' = << Build >>
          /\ UNCHANGED refused
       \/ dir["canonical"] = "new" /\ phase' = "idle" /\ UNCHANGED <<todo, refused>>
       \/ (~Intact("canonical") \/ (dir["canonical"] = "old" /\ ~Clean))
          /\ phase' = "idle" /\ refused' = TRUE /\ UNCHANGED todo
    /\ UNCHANGED <<disk, published, raised, faults, crashes>>

\* The replacement is whole and carries the same capture truth: swap it in.
BeginCommit ==
    /\ phase = "build" /\ todo = <<>>
    /\ phase' = "commit" /\ todo' = Commit
    /\ UNCHANGED <<disk, published, refused, raised, faults, crashes>>

\* The list of the last phase is done, and the run with it.
Return ==
    /\ phase \in {"commit", "abort"} /\ todo = <<>>
    /\ phase' = "idle"
    /\ UNCHANGED <<disk, todo, published, refused, raised, faults, crashes>>

----------------------------------------------------------------------------
(* Exceptions and crashes. *)

\* An exception leaves the current list: to the handler of the commit, to
\* the removal of an unfinished replacement, or out of the run.  A call may
\* raise; an assignment is interrupted only from outside.
Raise ==
    /\ phase # "idle" /\ MayRaise
    /\ (todo # <<>> /\ Head(todo) = SetPublished => Async)
    /\ raised' = raised + 1 /\ faults' = faults + 1
    /\ CASE phase = "commit" -> phase' = "caught" /\ todo' = <<>>
         [] phase = "build"  -> phase' = "abort" /\ todo' = << Remove("replacement") >>
         [] OTHER            -> phase' = "idle" /\ todo' = <<>>
    /\ UNCHANGED <<disk, published, refused, crashes>>

\* A variant with a plausible slip: the marker goes before the rename.
Rollback_UnmarksFirst ==
    << Unmark >> \o
    (IF ~Exists("canonical") /\ Exists("backup")
     THEN << Rename("backup", "canonical") >> ELSE <<>>)
    \o << Remove("replacement") >>

\* The rollback of the handler, and what it does before.
Rollback ==
    (IF ~Exists("canonical") /\ Exists("backup")
     THEN << Rename("backup", "canonical") >> ELSE <<>>)
    \o << Remove("replacement"), Unmark >>

\* The published store did not validate a second time: put the backup back,
\* if there is one.
Unpublish ==
    << Remove("canonical") >>
    \o (IF Exists("backup") THEN << Rename("backup", "canonical") >> ELSE <<>>)
    \o << Remove("replacement"), Unmark >>

\* except BaseException around the commit.
Handle ==
    /\ phase = "caught"
    /\ \/ /\ ~published
          /\ phase' = "abort" /\ todo' = Rollback
          /\ UNCHANGED <<raised, faults>>
       \/ /\ published /\ dir["canonical"] = "new"
          /\ phase' = "idle"
          /\ UNCHANGED <<todo, raised, faults>>
       \/ /\ published /\ dir["canonical"] # "new"
          /\ phase' = "abort" /\ todo' = Unpublish
          /\ UNCHANGED <<raised, faults>>
       \/ /\ published /\ MayRaise   \* validation itself raises
          /\ raised' = raised + 1 /\ faults' = faults + 1
          /\ phase' = "abort" /\ todo' = Unpublish
    /\ UNCHANGED <<disk, published, refused, crashes>>

\* The process dies; only the disk is left.
Crash ==
    /\ phase # "idle" /\ crashes < MaxCrashes
    /\ crashes' = crashes + 1
    /\ phase' = "idle" /\ todo' = <<>> /\ published' = FALSE
    /\ UNCHANGED <<disk, refused, raised, faults>>

Next == StartRun \/ Do \/ Assess \/ BeginCommit \/ Return \/ Raise \/ Handle \/ Crash

Spec == Init /\ [][Next]_vars

\* A run proceeds, and the operator runs the step again until it has ended
\* well; nothing has to fail.
Fairness == WF_vars(StartRun \/ Do \/ Assess \/ BeginCommit \/ Return \/ Handle)

FairSpec == Spec /\ Fairness

----------------------------------------------------------------------------
(* Properties. *)

\* The evidence survives: whatever failed or crashed so far, a whole copy of
\* the store, compacted or not, is on disk at one of the three paths.
IntactCopy == \E p \in Paths : Intact(p)

\* Without a marker the canonical store is whole: a reader that sees no
\* transaction may trust it, at any moment of a run and after any failure.
MarkerGuards == ~marker => Intact("canonical")

\* No run leaves a disk that a later run cannot recover.
NeverRefused == ~refused

\* Run again often enough, compaction ends with the compacted store and
\* nothing of the transaction, for good.
Converges ==
    <>[](dir["canonical"] = "new" /\ Clean)
=============================================================================
