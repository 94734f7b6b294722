-------------------------- MODULE PolicyFilesProofs --------------------------
(* Proofs about PolicyFiles, for any policies and any number of crashes.      *)
EXTENDS PolicyFiles, TLAPS

Saves == [pc : {"idle", "writing", "referring", "undoing", "saved", "failed", "unsure"},
          kind : Kinds, value : Values \cup {None}, loaded : SUBSET Kinds,
          previous : Values \cup {None}]

Types ==
    /\ refs \in SUBSET Kinds
    /\ file \in [Kinds -> Values \cup {None}]
    /\ save \in Saves
    /\ run \in [pc : {"none", "loaded", "half", "started", "refused", "missing"},
                loaded : SUBSET Kinds]

\* A save works on the project file it loaded, and on a file that was there
\* before it began or that nobody refers to.
SaveCoherent ==
    /\ Saving => save.value \in Values /\ save.loaded = refs
    /\ save.pc \in {"referring", "undoing"} => save.kind \notin refs
    /\ save.pc = "referring" => file[save.kind] = save.value
    /\ save.pc = "writing" /\ save.kind \notin refs => file[save.kind] = save.previous

\* A save only ever removes a file that no run has seen a reference to.
RunCoherent ==
    /\ \A k \in run.loaded : file[k] # None
    /\ Saving /\ save.kind \notin refs /\ save.previous = None => save.kind \notin run.loaded

IInv == Types /\ NoDanglingReference /\ SaveCoherent /\ RunCoherent /\ RunFindsPolicies
        /\ FailedSaveRestores

USE NoneAssumption

LEMMA InitIInv == Init => IInv
  BY DEF Init, IInv, Types, Saves, Idle, NoDanglingReference, SaveCoherent, RunCoherent,
         RunFindsPolicies, FailedSaveRestores, Saving, Kinds

LEMMA NextIInv == IInv /\ [Next]_vars => IInv'
  <1> SUFFICES ASSUME IInv, [Next]_vars PROVE IInv'
    OBVIOUS
  <1> USE DEF IInv, Types, NoDanglingReference, SaveCoherent, RunCoherent, RunFindsPolicies,
              FailedSaveRestores, Saving
  <1>1. ASSUME NEW k \in Kinds, NEW v \in Values, Begin(k, v) PROVE IInv'
    BY <1>1 DEF Begin, Saves
  <1>2. CASE Write
    BY <1>2 DEF Write, Saves
  <1>3. CASE WriteFails
    BY <1>3 DEF WriteFails, Saves
  <1>4. CASE WriteReference
    BY <1>4 DEF WriteReference, Saves
  <1>5. CASE ReferenceFails
    BY <1>5 DEF ReferenceFails, Saves
  <1>6. CASE Undo
    BY <1>6 DEF Undo, Saves
  <1>7. CASE UndoFails
    BY <1>7 DEF UndoFails, Saves
  <1>8. CASE Crash
    BY <1>8 DEF Crash, Saves, Idle, Kinds
  <1>9. CASE Initialise
    BY <1>9 DEF Initialise, Saves, Idle, Kinds
  <1>10. CASE LoadProject
    BY <1>10 DEF LoadProject, Saves
  <1>11. CASE ReadPolicy
    BY <1>11 DEF ReadPolicy, Read, Saves
  <1>12. CASE ReadScope
    BY <1>12 DEF ReadScope, Read, Saves
  <1>13. CASE EndRun
    BY <1>13 DEF EndRun, Saves
  <1>14. CASE UNCHANGED vars
    BY <1>14 DEF vars
  <1> QED
    BY <1>1, <1>2, <1>3, <1>4, <1>5, <1>6, <1>7, <1>8, <1>9, <1>10, <1>11, <1>12, <1>13, <1>14
       DEF Next

LEMMA Inductive == Spec => []IInv
  BY InitIInv, NextIInv, PTL DEF Spec

\* The project file never refers to a policy that is not there, whatever
\* fails or crashes between the two files.
THEOREM ReferencesHold == Spec => []NoDanglingReference
  BY Inductive, PTL DEF IInv

\* A run never finds a policy missing that the project file it loaded names,
\* however its reads interleave with saves and resets.
THEOREM RunsFindPolicies == Spec => []RunFindsPolicies
  BY Inductive, PTL DEF IInv

\* A save that fails leaves the file of a policy not in effect as it was.
THEOREM FailedSavesRestore == Spec => []FailedSaveRestores
  BY Inductive, PTL DEF IInv

----------------------------------------------------------------------------
(* The refinement. *)

InEffect == [k \in Kinds |-> Effective(k)]
Pending  == IF Saving THEN <<save.kind, save.value>> ELSE None
Told     == CASE save.pc = "saved"                -> "saved"
              [] save.pc \in {"failed", "unsure"} -> "failed"
              [] OTHER                            -> None

LEMMA InitMaps == Init => Register!Init
  BY DEF Init, Idle, Register!Init, Effective, Saving

\* Steps that leave the register alone.
LEMMA StutterMaps ==
    ASSUME InEffect' = InEffect, Pending' = Pending, Told' = Told
    PROVE  UNCHANGED Register!vars
  BY DEF Register!vars, InEffect, Pending, Told

LEMMA BeginMaps ==
    ASSUME IInv, NEW k \in Kinds, NEW v \in Values, Begin(k, v)
    PROVE  Register!Ask(k, v)
  BY DEF IInv, Types, Saves, Begin, Saving, Register!Ask, Effective

LEMMA Asked ==
    ASSUME IInv, Saving
    PROVE  <<save.kind, save.value>> # None
  <1>1. save.kind \in Kinds /\ save.value \in Values
    BY DEF IInv, Types, Saves, SaveCoherent
  <1> QED
    BY <1>1

\* A save that ends: what the register was asked for is no longer pending.
LEMMA Ended ==
    ASSUME IInv, Saving, NEW how, save' = [save EXCEPT !.pc = how],
           how \in {"saved", "failed", "unsure"}
    PROVE  /\ Pending = <<save.kind, save.value>> /\ Pending # None /\ Pending' = None
           /\ Told' = IF how = "saved" THEN "saved" ELSE "failed"
  <1>1. save'.pc = how
    BY DEF IInv, Types, Saves
  <1>2. Told' = IF how = "saved" THEN "saved" ELSE "failed"
    BY <1>1 DEF Told
  <1>3. Pending' = None
    BY <1>1 DEF Pending, Saving
  <1>4. Pending = <<save.kind, save.value>>
    BY DEF Pending
  <1> QED
    BY <1>2, <1>3, <1>4, Asked

LEMMA SucceedMaps ==
    ASSUME IInv, Saving, save' = [save EXCEPT !.pc = "saved"],
           \A k \in Kinds :
              Effective(k)' = IF k = save.kind THEN save.value ELSE Effective(k)
    PROVE  Register!Succeed
  <1>1. /\ Pending = <<save.kind, save.value>> /\ Pending # None
        /\ Pending' = None /\ Told' = "saved"
    BY Ended
  <1>2. InEffect' = [InEffect EXCEPT ![Pending[1]] = Pending[2]]
    BY <1>1 DEF InEffect
  <1> QED
    BY <1>1, <1>2 DEF Register!Succeed, InEffect, Pending, Told

LEMMA FailMaps ==
    ASSUME IInv, Saving, NEW how \in {"failed", "unsure"}, save' = [save EXCEPT !.pc = how],
           \A k \in Kinds : Effective(k)' = Effective(k)
    PROVE  Register!Fail
  <1>1. Pending # None /\ Pending' = None /\ Told' = "failed"
    BY Ended
  <1>2. InEffect' = InEffect
    BY DEF InEffect
  <1> QED
    BY <1>1, <1>2 DEF Register!Fail, InEffect, Pending, Told

LEMMA WriteMaps ==
    ASSUME IInv, Write
    PROVE  Register!Succeed \/ UNCHANGED Register!vars
  <1>1. CASE save.kind \in save.loaded
    <2>1. Saving /\ save' = [save EXCEPT !.pc = "saved"]
      BY <1>1 DEF Write, Saving
    <2>2. \A k \in Kinds : Effective(k)' = IF k = save.kind THEN save.value ELSE Effective(k)
      BY <1>1 DEF IInv, Types, Saves, SaveCoherent, Write, Saving, Effective
    <2> QED
      BY <2>1, <2>2, SucceedMaps
  <1>2. CASE save.kind \notin save.loaded
    BY <1>2 DEF IInv, Types, Saves, SaveCoherent, Write, Saving, Effective, Register!vars
  <1> QED
    BY <1>1, <1>2

LEMMA ReferenceMaps ==
    ASSUME IInv, WriteReference
    PROVE  Register!Succeed
  <1>1. Saving /\ save' = [save EXCEPT !.pc = "saved"]
    BY DEF WriteReference, Saving
  <1>2. \A k \in Kinds : Effective(k)' = IF k = save.kind THEN save.value ELSE Effective(k)
    BY DEF IInv, Types, Saves, SaveCoherent, WriteReference, Saving, Effective
  <1> QED
    BY <1>1, <1>2, SucceedMaps

LEMMA FailureMaps ==
    ASSUME IInv, WriteFails \/ Undo \/ UndoFails
    PROVE  Register!Fail
  <1>1. PICK how \in {"failed", "unsure"} : Saving /\ save' = [save EXCEPT !.pc = how]
    BY DEF WriteFails, Undo, UndoFails, Saving
  <1>2. \A k \in Kinds : Effective(k)' = Effective(k)
    BY DEF IInv, Types, Saves, SaveCoherent, WriteFails, Undo, UndoFails, Effective
  <1> QED
    BY <1>1, <1>2, FailMaps

LEMMA CrashMaps ==
    ASSUME IInv, Crash
    PROVE  Register!Crash
  BY DEF IInv, Types, Saves, Crash, Idle, Saving, Effective, Register!Crash

LEMMA InitialiseMaps ==
    ASSUME IInv, Initialise
    PROVE  Register!Reset
  BY DEF IInv, Types, Saves, Initialise, Idle, Saving, Effective, Register!Reset

\* Saving a private policy implements a register: every step of the files is
\* a step of the register, or leaves it alone.
THEOREM SavingIsAtomic == Spec => SavesAreAtomic
<1>1. IInv /\ [Next]_vars => [Register!Next]_(Register!vars)
  <2> SUFFICES ASSUME IInv, [Next]_vars PROVE Register!Next \/ UNCHANGED Register!vars
    OBVIOUS
  <2>1. ASSUME NEW k \in Kinds, NEW v \in Values, Begin(k, v) PROVE Register!Next
    BY <2>1, BeginMaps DEF Register!Next
  <2>2. CASE Write
    BY <2>2, WriteMaps DEF Register!Next
  <2>3. CASE WriteReference
    BY <2>3, ReferenceMaps DEF Register!Next
  <2>4. CASE WriteFails \/ Undo \/ UndoFails
    BY <2>4, FailureMaps DEF Register!Next
  <2>5. CASE Crash
    BY <2>5, CrashMaps DEF Register!Next
  <2>6. CASE Initialise
    BY <2>6, InitialiseMaps DEF Register!Next
  <2>7. CASE ReferenceFails
    BY <2>7 DEF ReferenceFails, IInv, Types, Saves, Saving, Effective, Register!vars
  <2>8. CASE LoadProject \/ ReadPolicy \/ ReadScope \/ EndRun
    BY <2>8 DEF LoadProject, ReadPolicy, ReadScope, EndRun, Saving, Effective, Register!vars
  <2>9. CASE UNCHANGED vars
    BY <2>9 DEF vars, Saving, Effective, Register!vars
  <2> QED
    BY <2>1, <2>2, <2>3, <2>4, <2>5, <2>6, <2>7, <2>8, <2>9 DEF Next
<1> QED
  BY <1>1, InitMaps, Inductive, PTL DEF Spec, SavesAreAtomic, Register!Spec
==============================================================================
