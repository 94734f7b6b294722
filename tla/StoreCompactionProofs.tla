----------------------- MODULE StoreCompactionProofs ------------------------
(* Proofs about StoreCompaction, for any number of runs, crashes and          *)
(* exceptions: at most one exception in a run, none between a call and the    *)
(* assignment that follows it.                                                *)
EXTENDS StoreCompaction, TLAPS

C == dir["canonical"]
R == dir["replacement"]
B == dir["backup"]

Trees == {"old", "new", "partial", "absent"}

\* What is left of the lists of a run.
ClearReplacement == << Remove("replacement") >>
JustUnmark       == << Unmark >>
ClearUnmark      == << Remove("replacement"), Unmark >>
DropBackup       == << Remove("backup"), Unmark >>
PutBack          == << Rename("backup", "canonical"), Unmark >>
Restore          == << Remove("canonical"), Rename("backup", "canonical"), Unmark >>
Complete         == << Rename("replacement", "canonical"), Remove("backup"), Unmark >>
Revert           == << Rename("backup", "canonical"), Remove("replacement"), Unmark >>
Building         == << Build >>
AfterMark  == << Rename("canonical", "backup"), Rename("replacement", "canonical"),
                 SetPublished, Validate, Remove("backup"), Unmark >>
AfterAside == << Rename("replacement", "canonical"), SetPublished, Validate,
                 Remove("backup"), Unmark >>
AfterSwap  == << SetPublished, Validate, Remove("backup"), Unmark >>
Published  == << Validate, Remove("backup"), Unmark >>

\* The disks that a run can leave: without a backup the canonical store is
\* whole; a backup is whole until the compacted store has taken its place.
Recoverable ==
    \/ B = "absent" /\ Intact("canonical")
    \/ marker /\ B = "old" /\ (C = "absent" \/ R = "absent")
    \/ marker /\ C = "new" /\ R = "absent"

Settled == Clean /\ Intact("canonical")

\* What each list finds on disk.
Prepared ==
    /\ todo = ClearReplacement => ~marker /\ B = "absent" /\ Intact("canonical")
    /\ todo = ClearUnmark => B = "absent" /\ Intact("canonical")
    /\ todo = JustUnmark => R = "absent" /\ B = "absent" /\ Intact("canonical")
    /\ todo = DropBackup => marker /\ C = "new" /\ R = "absent"
    /\ todo = PutBack => marker /\ C = "absent" /\ R = "absent" /\ B = "old"
    /\ todo = Restore => marker /\ R = "absent" /\ B = "old"
    /\ todo = Complete => marker /\ C = "absent" /\ R = "new" /\ B = "old"
    /\ todo = Revert => marker /\ C = "absent" /\ B = "old"
    /\ todo = Building => ~marker /\ C = "old" /\ R \in {"absent", "partial"} /\ B = "absent"
    /\ todo = Commit => ~marker /\ C = "old" /\ R = "new" /\ B = "absent"
    /\ todo = AfterMark => marker /\ C = "old" /\ R = "new" /\ B = "absent"
    /\ todo = AfterAside => marker /\ C = "absent" /\ R = "new" /\ B = "old"
    /\ todo = AfterSwap => marker /\ C = "new" /\ R = "absent" /\ B = "old"
    /\ todo = Published => marker /\ C = "new" /\ R = "absent" /\ B = "old"

\* Which lists a phase has, and what its end finds.
Phased ==
    /\ phase \in {"idle", "recover", "build", "commit", "caught", "abort"}
    /\ phase = "idle" => todo = << >> /\ Recoverable
    /\ phase = "recover" =>
         /\ todo \in {<< >>, ClearReplacement, ClearUnmark, JustUnmark, DropBackup, PutBack,
                      Restore, Complete, Revert}
         /\ todo = << >> => Settled
         /\ ~published
    /\ phase = "build" =>
         /\ todo \in {<< >>, Building} /\ ~published
         /\ todo = << >> => ~marker /\ C = "old" /\ R = "new" /\ B = "absent"
    /\ phase = "commit" =>
         /\ todo \in {<< >>, Commit, AfterMark, AfterAside, AfterSwap, Published, DropBackup,
                      JustUnmark}
         /\ todo = << >> => Settled
         /\ published <=> todo \in {<< >>, Published, DropBackup, JustUnmark}
         /\ published => C = "new"
    /\ phase = "caught" =>
         /\ todo = << >> /\ raised >= 1 /\ Recoverable
         /\ published => C = "new"
         /\ ~published => \/ C = "old" /\ B = "absent"
                          \/ marker /\ C = "absent" /\ B = "old"
    /\ phase = "abort" =>
         /\ todo \in {<< >>, ClearReplacement, ClearUnmark, JustUnmark, Revert}
         /\ todo = << >> => Settled

Types == dir \in [Paths -> Trees] /\ marker \in BOOLEAN /\ published \in BOOLEAN /\ raised \in Nat

IInv == Types /\ Prepared /\ Phased /\ NeverRefused

----------------------------------------------------------------------------
(* The lists. *)

\* Lengths and first operations tell the lists apart.
LEMMA Lengths ==
    /\ Len(ClearReplacement) = 1 /\ Len(JustUnmark) = 1 /\ Len(ClearUnmark) = 2
    /\ Len(DropBackup) = 2 /\ Len(PutBack) = 2 /\ Len(Restore) = 3
    /\ Len(Complete) = 3 /\ Len(Revert) = 3 /\ Len(Building) = 1
    /\ Len(Commit) = 7 /\ Len(AfterMark) = 6 /\ Len(AfterAside) = 5
    /\ Len(AfterSwap) = 4 /\ Len(Published) = 3 /\ Len(<< >>) = 0
  BY DEF ClearReplacement, JustUnmark, ClearUnmark, DropBackup, PutBack, Restore, Complete, Revert,
         Building, Commit, AfterMark, AfterAside, AfterSwap, Published

LEMMA Heads ==
    /\ Head(ClearReplacement) = Remove("replacement")
    /\ Head(JustUnmark) = Unmark
    /\ Head(ClearUnmark) = Remove("replacement")
    /\ Head(DropBackup) = Remove("backup")
    /\ Head(PutBack) = Rename("backup", "canonical")
    /\ Head(Restore) = Remove("canonical")
    /\ Head(Complete) = Rename("replacement", "canonical")
    /\ Head(Revert) = Rename("backup", "canonical")
    /\ Head(Building) = Build
    /\ Head(Commit) = Mark
    /\ Head(AfterMark) = Rename("canonical", "backup")
    /\ Head(AfterAside) = Rename("replacement", "canonical")
    /\ Head(AfterSwap) = SetPublished
    /\ Head(Published) = Validate
  BY DEF ClearReplacement, JustUnmark, ClearUnmark, DropBackup, PutBack, Restore, Complete, Revert,
         Building, Commit, AfterMark, AfterAside, AfterSwap, Published

LEMMA Tails ==
    /\ Tail(ClearReplacement) = << >> /\ Tail(JustUnmark) = << >>
    /\ Tail(ClearUnmark) = JustUnmark /\ Tail(DropBackup) = JustUnmark
    /\ Tail(PutBack) = JustUnmark /\ Tail(Restore) = PutBack
    /\ Tail(Complete) = DropBackup /\ Tail(Revert) = ClearUnmark
    /\ Tail(Building) = << >> /\ Tail(Commit) = AfterMark
    /\ Tail(AfterMark) = AfterAside /\ Tail(AfterAside) = AfterSwap
    /\ Tail(AfterSwap) = Published /\ Tail(Published) = DropBackup
  BY DEF ClearReplacement, JustUnmark, ClearUnmark, DropBackup, PutBack, Restore, Complete, Revert,
         Building, Commit, AfterMark, AfterAside, AfterSwap, Published

LEMMA DoRemove ==
    ASSUME NEW p \in Paths, Types, Do, Head(todo) = Remove(p)
    PROVE  /\ marker' = marker /\ published' = published
           /\ \/ dir' = [dir EXCEPT ![p] = "partial"] /\ todo' = todo
              \/ dir' = [dir EXCEPT ![p] = "absent"] /\ todo' = Tail(todo)
  BY DEF Do, Remove

LEMMA DoRename ==
    ASSUME NEW p \in Paths, NEW q \in Paths, Types, Do, Head(todo) = Rename(p, q)
    PROVE  /\ marker' = marker /\ published' = published /\ todo' = Tail(todo)
           /\ dir' = [dir EXCEPT ![q] = dir[p], ![p] = "absent"]
           /\ dir[q] = "absent"
  BY DEF Do, Rename, Exists

LEMMA DoBuild ==
    ASSUME Types, Do, Head(todo) = Build
    PROVE  /\ marker' = marker /\ published' = published
           /\ \/ dir' = [dir EXCEPT !["replacement"] = "partial"] /\ todo' = todo
              \/ dir' = [dir EXCEPT !["replacement"] = "new"] /\ todo' = Tail(todo)
  BY DEF Do, Build

LEMMA DoMark ==
    ASSUME Do
    PROVE  /\ Head(todo) = Mark => marker' = TRUE /\ UNCHANGED <<dir, published>>
           /\ Head(todo) = Unmark => marker' = FALSE /\ UNCHANGED <<dir, published>>
           /\ Head(todo) = SetPublished => published' = TRUE /\ UNCHANGED <<dir, marker>>
           /\ Head(todo) = Validate => UNCHANGED <<dir, marker, published>>
           /\ Head(todo) \in {Mark, Unmark, SetPublished, Validate} => todo' = Tail(todo)
  BY DEF Do, Mark, Unmark, SetPublished, Validate, disk

\* No list is another.
LEMMA Distinct ==
    /\ << >> \notin {ClearReplacement, JustUnmark, Building, ClearUnmark, DropBackup,
          PutBack, Restore, Complete, Revert, Published, AfterSwap, AfterAside,
          AfterMark, Commit}
    /\ ClearReplacement \notin {JustUnmark, Building, ClearUnmark, DropBackup, PutBack,
          Restore, Complete, Revert, Published, AfterSwap, AfterAside, AfterMark,
          Commit}
    /\ JustUnmark \notin {Building, ClearUnmark, DropBackup, PutBack, Restore, Complete,
          Revert, Published, AfterSwap, AfterAside, AfterMark, Commit}
    /\ Building \notin {ClearUnmark, DropBackup, PutBack, Restore, Complete, Revert,
          Published, AfterSwap, AfterAside, AfterMark, Commit}
    /\ ClearUnmark \notin {DropBackup, PutBack, Restore, Complete, Revert, Published,
          AfterSwap, AfterAside, AfterMark, Commit}
    /\ DropBackup \notin {PutBack, Restore, Complete, Revert, Published, AfterSwap,
          AfterAside, AfterMark, Commit}
    /\ PutBack \notin {Restore, Complete, Revert, Published, AfterSwap, AfterAside,
          AfterMark, Commit}
    /\ Restore \notin {Complete, Revert, Published, AfterSwap, AfterAside, AfterMark,
          Commit}
    /\ Complete \notin {Revert, Published, AfterSwap, AfterAside, AfterMark, Commit}
    /\ Revert \notin {Published, AfterSwap, AfterAside, AfterMark, Commit}
    /\ Published \notin {AfterSwap, AfterAside, AfterMark, Commit}
    /\ AfterSwap \notin {AfterAside, AfterMark, Commit}
    /\ AfterAside \notin {AfterMark, Commit}
    /\ AfterMark \notin {Commit}
  <1>1. /\ Remove("replacement") \notin {Unmark, Build, Remove("backup"), Rename("backup", "canonical")}
        /\ Unmark # Build /\ Remove("backup") # Rename("backup", "canonical")
        /\ Remove("canonical") \notin {Rename("replacement", "canonical"),
                                      Rename("backup", "canonical"), Validate}
        /\ Rename("replacement", "canonical") \notin {Rename("backup", "canonical"), Validate}
        /\ Rename("backup", "canonical") # Validate
    BY DEF Remove, Rename, Unmark, Build, Validate
  <1>2. << >> \notin {ClearReplacement, JustUnmark, Building, ClearUnmark, DropBackup,
        PutBack, Restore, Complete, Revert, Published, AfterSwap, AfterAside, AfterMark,
        Commit}
    BY DEF ClearReplacement, JustUnmark, ClearUnmark, DropBackup, PutBack, Restore, Complete,
           Revert, Building, Commit, AfterMark, AfterAside, AfterSwap, Published
  <1>3. ClearReplacement \notin {JustUnmark, Building, ClearUnmark, DropBackup, PutBack,
        Restore, Complete, Revert, Published, AfterSwap, AfterAside, AfterMark, Commit}
    BY <1>1, Lengths, Heads
  <1>4. JustUnmark \notin {Building, ClearUnmark, DropBackup, PutBack, Restore, Complete,
        Revert, Published, AfterSwap, AfterAside, AfterMark, Commit}
    BY <1>1, Lengths, Heads
  <1>5. Building \notin {ClearUnmark, DropBackup, PutBack, Restore, Complete, Revert,
        Published, AfterSwap, AfterAside, AfterMark, Commit}
    BY <1>1, Lengths, Heads
  <1>6. ClearUnmark \notin {DropBackup, PutBack, Restore, Complete, Revert, Published,
        AfterSwap, AfterAside, AfterMark, Commit}
    BY <1>1, Lengths, Heads
  <1>7. DropBackup \notin {PutBack, Restore, Complete, Revert, Published, AfterSwap,
        AfterAside, AfterMark, Commit}
    BY <1>1, Lengths, Heads
  <1>8. PutBack \notin {Restore, Complete, Revert, Published, AfterSwap, AfterAside,
        AfterMark, Commit}
    BY <1>1, Lengths, Heads
  <1>9. Restore \notin {Complete, Revert, Published, AfterSwap, AfterAside, AfterMark,
        Commit}
    BY <1>1, Lengths, Heads
  <1>10. Complete \notin {Revert, Published, AfterSwap, AfterAside, AfterMark, Commit}
    BY <1>1, Lengths, Heads
  <1>11. Revert \notin {Published, AfterSwap, AfterAside, AfterMark, Commit}
    BY <1>1, Lengths, Heads
  <1>12. Published \notin {AfterSwap, AfterAside, AfterMark, Commit}
    BY <1>1, Lengths, Heads
  <1>13. AfterSwap \notin {AfterAside, AfterMark, Commit}
    BY <1>1, Lengths, Heads
  <1>14. AfterAside \notin {AfterMark, Commit}
    BY <1>1, Lengths, Heads
  <1>15. AfterMark \notin {Commit}
    BY <1>1, Lengths, Heads
  <1> QED BY <1>2, <1>3, <1>4, <1>5, <1>6, <1>7, <1>8, <1>9, <1>10, <1>11, <1>12, <1>13, <1>14, <1>15

----------------------------------------------------------------------------
(* Steps of a list. *)

LEMMA Preparing ==
    /\ todo' = << >> => Prepared'
    /\ todo' = ClearReplacement /\ (~marker /\ B = "absent" /\ Intact("canonical"))' => Prepared'
    /\ todo' = ClearUnmark /\ (B = "absent" /\ Intact("canonical"))' => Prepared'
    /\ todo' = JustUnmark /\ (R = "absent" /\ B = "absent" /\ Intact("canonical"))' => Prepared'
    /\ todo' = DropBackup /\ (marker /\ C = "new" /\ R = "absent")' => Prepared'
    /\ todo' = PutBack /\ (marker /\ C = "absent" /\ R = "absent" /\ B = "old")' => Prepared'
    /\ todo' = Restore /\ (marker /\ R = "absent" /\ B = "old")' => Prepared'
    /\ todo' = Complete /\ (marker /\ C = "absent" /\ R = "new" /\ B = "old")' => Prepared'
    /\ todo' = Revert /\ (marker /\ C = "absent" /\ B = "old")' => Prepared'
    /\ todo' = Building /\ (~marker /\ C = "old" /\ R \in {"absent", "partial"} /\ B = "absent")'
          => Prepared'
    /\ todo' = Commit /\ (~marker /\ C = "old" /\ R = "new" /\ B = "absent")' => Prepared'
    /\ todo' = AfterMark /\ (marker /\ C = "old" /\ R = "new" /\ B = "absent")' => Prepared'
    /\ todo' = AfterAside /\ (marker /\ C = "absent" /\ R = "new" /\ B = "old")' => Prepared'
    /\ todo' = AfterSwap /\ (marker /\ C = "new" /\ R = "absent" /\ B = "old")' => Prepared'
    /\ todo' = Published /\ (marker /\ C = "new" /\ R = "absent" /\ B = "old")' => Prepared'
  BY Distinct DEF Prepared

LEMMA DoNext ==
    ASSUME IInv, Do
    PROVE  IInv'
  <1>0. /\ Types /\ Prepared /\ Phased /\ todo # << >>
        /\ phase' = phase /\ refused' = refused /\ raised' = raised
    BY DEF IInv, Do
  <1> SUFFICES Types' /\ Prepared' /\ Phased'
    BY <1>0 DEF IInv, NeverRefused
  <1>1. CASE todo = ClearReplacement
    <2>1. phase \in {"recover", "abort"} /\ ~marker /\ B = "absent" /\ Intact("canonical")
      BY <1>1, Distinct DEF IInv, Phased, Prepared
    <2>2. /\ B' = B /\ C' = C /\ marker' = marker /\ published' = published /\ Types'
          /\ \/ R' = "partial" /\ todo' = todo
             \/ R' = "absent" /\ todo' = Tail(ClearReplacement)
      BY <1>0, <1>1, DoRemove, Heads DEF Types, Trees, Paths, C, R, B
    <2>3. Prepared'
      BY <1>1, <2>1, <2>2, Tails, Preparing DEF Intact, C
    <2> QED BY <1>0, <1>1, <2>1, <2>2, <2>3, Tails, Distinct
            DEF Phased, Settled, Clean, Exists, Intact, C, R, B
  <1>2. CASE todo = ClearUnmark
    <2>1. phase \in {"recover", "abort"} /\ B = "absent" /\ Intact("canonical")
      BY <1>2, Distinct DEF IInv, Phased, Prepared
    <2>2. /\ B' = B /\ C' = C /\ marker' = marker /\ published' = published /\ Types'
          /\ \/ R' = "partial" /\ todo' = todo
             \/ R' = "absent" /\ todo' = Tail(ClearUnmark)
      BY <1>0, <1>2, DoRemove, Heads DEF Types, Trees, Paths, C, R, B
    <2>3. Prepared'
      BY <1>2, <2>1, <2>2, Tails, Preparing DEF Intact, C
    <2> QED BY <1>0, <1>2, <2>1, <2>2, <2>3, Tails, Distinct
            DEF Phased, Settled, Clean, Exists, Intact, C, R, B
  <1>3. CASE todo = DropBackup
    <2>1. phase \in {"recover", "commit"} /\ marker /\ C = "new" /\ R = "absent"
      BY <1>3, Distinct DEF IInv, Phased, Prepared
    <2>2. /\ R' = R /\ C' = C /\ marker' = marker /\ published' = published /\ Types'
          /\ \/ B' = "partial" /\ todo' = todo
             \/ B' = "absent" /\ todo' = Tail(DropBackup)
      BY <1>0, <1>3, DoRemove, Heads DEF Types, Trees, Paths, C, R, B
    <2>3. Prepared'
      BY <1>3, <2>1, <2>2, Tails, Preparing DEF Intact, C
    <2> QED BY <1>0, <1>3, <2>1, <2>2, <2>3, Tails, Distinct
            DEF Phased, Settled, Clean, Exists, Intact, C, R, B
  <1>4. CASE todo = Restore
    <2>1. phase \in {"recover"} /\ marker /\ R = "absent" /\ B = "old"
      BY <1>4, Distinct DEF IInv, Phased, Prepared
    <2>2. /\ R' = R /\ B' = B /\ marker' = marker /\ published' = published /\ Types'
          /\ \/ C' = "partial" /\ todo' = todo
             \/ C' = "absent" /\ todo' = Tail(Restore)
      BY <1>0, <1>4, DoRemove, Heads DEF Types, Trees, Paths, C, R, B
    <2>3. Prepared'
      BY <1>4, <2>1, <2>2, Tails, Preparing DEF Intact, C
    <2> QED BY <1>0, <1>4, <2>1, <2>2, <2>3, Tails, Distinct
            DEF Phased, Settled, Clean, Exists, Intact, C, R, B
  <1>5. CASE todo = PutBack
    <2>1. phase \in {"recover"} /\ marker /\ C = "absent" /\ R = "absent" /\ B = "old"
      BY <1>5, Distinct DEF IInv, Phased, Prepared
    <2>2. /\ C' = B /\ B' = "absent" /\ R' = R /\ marker' = marker
          /\ published' = published /\ todo' = Tail(PutBack) /\ Types'
      BY <1>0, <1>5, DoRename, Heads DEF Types, Trees, Paths, C, R, B
    <2>3. Prepared'
      BY <2>1, <2>2, Tails, Preparing DEF Intact, C
    <2> QED BY <1>0, <1>5, <2>1, <2>2, <2>3, Tails, Distinct DEF Phased
  <1>6. CASE todo = Complete
    <2>1. phase \in {"recover"} /\ marker /\ C = "absent" /\ R = "new" /\ B = "old"
      BY <1>6, Distinct DEF IInv, Phased, Prepared
    <2>2. /\ C' = R /\ R' = "absent" /\ B' = B /\ marker' = marker
          /\ published' = published /\ todo' = Tail(Complete) /\ Types'
      BY <1>0, <1>6, DoRename, Heads DEF Types, Trees, Paths, C, R, B
    <2>3. Prepared'
      BY <2>1, <2>2, Tails, Preparing DEF Intact, C
    <2> QED BY <1>0, <1>6, <2>1, <2>2, <2>3, Tails, Distinct DEF Phased
  <1>7. CASE todo = Revert
    <2>1. phase \in {"recover", "abort"} /\ marker /\ C = "absent" /\ B = "old"
      BY <1>7, Distinct DEF IInv, Phased, Prepared
    <2>2. /\ C' = B /\ B' = "absent" /\ R' = R /\ marker' = marker
          /\ published' = published /\ todo' = Tail(Revert) /\ Types'
      BY <1>0, <1>7, DoRename, Heads DEF Types, Trees, Paths, C, R, B
    <2>3. Prepared'
      BY <2>1, <2>2, Tails, Preparing DEF Intact, C
    <2> QED BY <1>0, <1>7, <2>1, <2>2, <2>3, Tails, Distinct DEF Phased
  <1>8. CASE todo = AfterMark
    <2>1. phase \in {"commit"} /\ marker /\ C = "old" /\ R = "new" /\ B = "absent"
      BY <1>8, Distinct DEF IInv, Phased, Prepared
    <2>2. /\ B' = C /\ C' = "absent" /\ R' = R /\ marker' = marker
          /\ published' = published /\ todo' = Tail(AfterMark) /\ Types'
      BY <1>0, <1>8, DoRename, Heads DEF Types, Trees, Paths, C, R, B
    <2>3. Prepared'
      BY <2>1, <2>2, Tails, Preparing DEF Intact, C
    <2> QED BY <1>0, <1>8, <2>1, <2>2, <2>3, Tails, Distinct DEF Phased
  <1>9. CASE todo = AfterAside
    <2>1. phase \in {"commit"} /\ marker /\ C = "absent" /\ R = "new" /\ B = "old"
      BY <1>9, Distinct DEF IInv, Phased, Prepared
    <2>2. /\ C' = R /\ R' = "absent" /\ B' = B /\ marker' = marker
          /\ published' = published /\ todo' = Tail(AfterAside) /\ Types'
      BY <1>0, <1>9, DoRename, Heads DEF Types, Trees, Paths, C, R, B
    <2>3. Prepared'
      BY <2>1, <2>2, Tails, Preparing DEF Intact, C
    <2> QED BY <1>0, <1>9, <2>1, <2>2, <2>3, Tails, Distinct DEF Phased
  <1>10. CASE todo = JustUnmark
    <2>1. phase \in {"recover", "commit", "abort"} /\ R = "absent" /\ B = "absent" /\ Intact("canonical")
      BY <1>10, Distinct DEF IInv, Phased, Prepared
    <2>2. /\ C' = C /\ R' = R /\ B' = B /\ todo' = Tail(JustUnmark) /\ marker' = FALSE /\ published' = published
          /\ Types'
      BY <1>0, <1>10, DoMark, Heads DEF Types, C, R, B
    <2>3. Prepared'
      BY <2>1, <2>2, Tails, Preparing DEF Intact, C
    <2> QED BY <1>0, <1>10, <2>1, <2>2, <2>3, Tails, Distinct
            DEF Phased, Settled, Clean, Exists, Intact, C, R, B
  <1>11. CASE todo = Commit
    <2>1. phase \in {"commit"} /\ C = "old" /\ R = "new" /\ B = "absent"
      BY <1>11, Distinct DEF IInv, Phased, Prepared
    <2>2. /\ C' = C /\ R' = R /\ B' = B /\ todo' = Tail(Commit) /\ marker' = TRUE /\ published' = published
          /\ Types'
      BY <1>0, <1>11, DoMark, Heads DEF Types, C, R, B
    <2>3. Prepared'
      BY <2>1, <2>2, Tails, Preparing DEF Intact, C
    <2> QED BY <1>0, <1>11, <2>1, <2>2, <2>3, Tails, Distinct
            DEF Phased, Settled, Clean, Exists, Intact, C, R, B
  <1>12. CASE todo = AfterSwap
    <2>1. phase \in {"commit"} /\ marker /\ C = "new" /\ R = "absent" /\ B = "old"
      BY <1>12, Distinct DEF IInv, Phased, Prepared
    <2>2. /\ C' = C /\ R' = R /\ B' = B /\ todo' = Tail(AfterSwap) /\ marker' = marker /\ published' = TRUE
          /\ Types'
      BY <1>0, <1>12, DoMark, Heads DEF Types, C, R, B
    <2>3. Prepared'
      BY <2>1, <2>2, Tails, Preparing DEF Intact, C
    <2> QED BY <1>0, <1>12, <2>1, <2>2, <2>3, Tails, Distinct
            DEF Phased, Settled, Clean, Exists, Intact, C, R, B
  <1>13. CASE todo = Published
    <2>1. phase \in {"commit"} /\ marker /\ C = "new" /\ R = "absent" /\ B = "old"
      BY <1>13, Distinct DEF IInv, Phased, Prepared
    <2>2. /\ C' = C /\ R' = R /\ B' = B /\ todo' = Tail(Published) /\ marker' = marker /\ published' = published
          /\ Types'
      BY <1>0, <1>13, DoMark, Heads DEF Types, C, R, B
    <2>3. Prepared'
      BY <2>1, <2>2, Tails, Preparing DEF Intact, C
    <2> QED BY <1>0, <1>13, <2>1, <2>2, <2>3, Tails, Distinct
            DEF Phased, Settled, Clean, Exists, Intact, C, R, B
  <1>14. CASE todo = Building
    <2>1. phase = "build" /\ ~marker /\ C = "old" /\ B = "absent"
      BY <1>14, Distinct DEF IInv, Phased, Prepared
    <2>2. /\ C' = C /\ B' = B /\ marker' = marker /\ published' = published /\ Types'
          /\ \/ R' = "partial" /\ todo' = todo
             \/ R' = "new" /\ todo' = Tail(Building)
      BY <1>0, <1>14, DoBuild, Heads DEF Types, Trees, Paths, C, R, B
    <2>3. Prepared'
      BY <1>14, <2>1, <2>2, Tails, Preparing
    <2> QED BY <1>0, <1>14, <2>1, <2>2, <2>3, Tails, Distinct DEF Phased
  <1> QED BY <1>0, <1>1, <1>2, <1>3, <1>4, <1>5, <1>6, <1>7, <1>8, <1>9, <1>10, <1>11, <1>12, <1>13, <1>14
          DEF Phased

----------------------------------------------------------------------------
(* The other steps. *)

\* Whatever a list still has to do, a run that ends here is recoverable.
LEMMA AlwaysRecoverable == IInv => Recoverable
  <1> SUFFICES ASSUME IInv PROVE Recoverable
    OBVIOUS
  <1>1. Prepared /\ Phased
    BY DEF IInv
  <1>2. CASE todo = << >>
    BY <1>1, <1>2 DEF Phased, Settled, Clean, Exists, Intact, Recoverable, C, R, B
  <1>3. CASE todo # << >>
    <2>1. todo \in {ClearReplacement, ClearUnmark, JustUnmark, DropBackup, PutBack, Restore,
                   Complete, Revert, Building, Commit, AfterMark, AfterAside, AfterSwap, Published}
      BY <1>1, <1>3 DEF Phased
    <2> QED BY <1>1, <2>1 DEF Prepared, Recoverable, Intact, C
  <1> QED BY <1>2, <1>3

\* What a table of rows, each with a condition and a plan, comes to.
LEMMA Select ==
    ASSUME NEW q1, NEW q2, NEW q3, NEW q4, NEW q5, NEW q6, NEW q7
    PROVE  \A plan :
             plan \in {row.plan : row \in {q \in {q1, q2, q3, q4, q5, q6, q7} : q.when}} <=>
               \/ q1.when /\ plan = q1.plan
               \/ q2.when /\ plan = q2.plan
               \/ q3.when /\ plan = q3.plan
               \/ q4.when /\ plan = q4.plan
               \/ q5.when /\ plan = q5.plan
               \/ q6.when /\ plan = q6.plan
               \/ q7.when /\ plan = q7.plan
  <1>1. ASSUME NEW S, NEW plan
        PROVE  plan \in {row.plan : row \in {q \in S : q.when}} <=>
               \E q \in S : q.when /\ plan = q.plan
    OBVIOUS
  <1> QED BY <1>1

\* The rows of the recovery table.
LEMMA Rows ==
    ASSUME NEW valid \in BOOLEAN
    PROVE  \A plan : plan \in Recovery(valid) <=>
             LET c == Exists("canonical")
                 r == Exists("replacement")
                 b == Exists("backup")
                 Compacted(p) == dir[p] = "new" /\ valid
             IN  \/ ~marker /\ ~r /\ ~b /\ plan = << >>
                 \/ ~marker /\ r /\ ~b /\ Intact("canonical") /\ plan = ClearReplacement
                 \/ marker /\ c /\ b /\ ~r /\ Compacted("canonical") /\ plan = DropBackup
                 \/ /\ marker /\ c /\ b /\ ~r /\ ~Compacted("canonical") /\ dir["backup"] = "old"
                    /\ plan = Restore
                 \/ marker /\ ~c /\ b /\ Compacted("replacement") /\ plan = Complete
                 \/ marker /\ ~c /\ b /\ ~Compacted("replacement") /\ plan = Revert
                 \/ marker /\ c /\ ~b /\ plan = ClearUnmark
  <1> DEFINE c == Exists("canonical")
             r == Exists("replacement")
             b == Exists("backup")
             Compacted(p) == dir[p] = "new" /\ valid
             Row(w, plan) == [when |-> w, plan |-> plan]
             q1 == Row(~marker /\ ~r /\ ~b, << >>)
             q2 == Row(~marker /\ r /\ ~b /\ Intact("canonical"), ClearReplacement)
             q3 == Row(marker /\ c /\ b /\ ~r /\ Compacted("canonical"), DropBackup)
             q4 == Row(marker /\ c /\ b /\ ~r /\ ~Compacted("canonical") /\ dir["backup"] = "old",
                       Restore)
             q5 == Row(marker /\ ~c /\ b /\ Compacted("replacement"), Complete)
             q6 == Row(marker /\ ~c /\ b /\ ~Compacted("replacement"), Revert)
             q7 == Row(marker /\ c /\ ~b, ClearUnmark)
  <1>1. Recovery(valid) = {row.plan : row \in {q \in {q1, q2, q3, q4, q5, q6, q7} : q.when}}
    BY DEF Recovery, RecoveryTable, ClearReplacement, DropBackup, Restore, Complete, Revert,
           ClearUnmark
  <1>2. \A plan : plan \in Recovery(valid) <=>
               \/ q1.when /\ plan = q1.plan
               \/ q2.when /\ plan = q2.plan
               \/ q3.when /\ plan = q3.plan
               \/ q4.when /\ plan = q4.plan
               \/ q5.when /\ plan = q5.plan
               \/ q6.when /\ plan = q6.plan
               \/ q7.when /\ plan = q7.plan
    <2> HIDE DEF q1, q2, q3, q4, q5, q6, q7
    <2> QED BY <1>1, Select
  <1>3. ASSUME NEW w, NEW plan
        PROVE  (Row(w, plan).when <=> w) /\ Row(w, plan).plan = plan
    OBVIOUS
  <1>4. /\ q1.when <=> ~marker /\ ~r /\ ~b
        /\ q2.when <=> ~marker /\ r /\ ~b /\ Intact("canonical")
        /\ q3.when <=> marker /\ c /\ b /\ ~r /\ Compacted("canonical")
        /\ q4.when <=> marker /\ c /\ b /\ ~r /\ ~Compacted("canonical") /\ dir["backup"] = "old"
        /\ q5.when <=> marker /\ ~c /\ b /\ Compacted("replacement")
        /\ q6.when <=> marker /\ ~c /\ b /\ ~Compacted("replacement")
        /\ q7.when <=> marker /\ c /\ ~b
    <2> HIDE DEF Row
    <2> QED BY <1>3, Zenon
  <1>5. /\ q1.plan = << >> /\ q2.plan = ClearReplacement /\ q3.plan = DropBackup
        /\ q4.plan = Restore /\ q5.plan = Complete /\ q6.plan = Revert /\ q7.plan = ClearUnmark
    OBVIOUS
  <1> HIDE DEF q1, q2, q3, q4, q5, q6, q7
  <1> QED BY <1>2, <1>4, <1>5

\* Recovery has a plan for every recoverable disk if the validation of a
\* compacted store does not fail, and every plan finds what it needs.
LEMMA Recovered ==
    ASSUME Types, Recoverable
    PROVE  /\ Recovery(TRUE) # {}
           /\ \A valid \in BOOLEAN : \A plan \in Recovery(valid) :
                 \/ plan = << >> /\ Settled
                 \/ plan = ClearReplacement /\ ~marker /\ B = "absent" /\ Intact("canonical")
                 \/ plan = DropBackup /\ marker /\ C = "new" /\ R = "absent"
                 \/ plan = Restore /\ marker /\ R = "absent" /\ B = "old"
                 \/ plan = Complete /\ marker /\ C = "absent" /\ R = "new" /\ B = "old"
                 \/ plan = Revert /\ marker /\ C = "absent" /\ B = "old"
                 \/ plan = ClearUnmark /\ B = "absent" /\ Intact("canonical")
  <1>1. Recovery(TRUE) # {}
    BY Rows DEF Recoverable, Exists, Intact, C, R, B
  <1>2. ASSUME NEW valid \in BOOLEAN, NEW plan \in Recovery(valid)
        PROVE  \/ plan = << >> /\ Settled
               \/ plan = ClearReplacement /\ ~marker /\ B = "absent" /\ Intact("canonical")
               \/ plan = DropBackup /\ marker /\ C = "new" /\ R = "absent"
               \/ plan = Restore /\ marker /\ R = "absent" /\ B = "old"
               \/ plan = Complete /\ marker /\ C = "absent" /\ R = "new" /\ B = "old"
               \/ plan = Revert /\ marker /\ C = "absent" /\ B = "old"
               \/ plan = ClearUnmark /\ B = "absent" /\ Intact("canonical")
    BY <1>2, Rows DEF Recoverable, Exists, Intact, Settled, Clean, C, R, B
  <1> QED BY <1>1, <1>2

LEMMA StartNext ==
    ASSUME IInv, StartRun
    PROVE  IInv'
  <1>1. /\ Types /\ phase = "idle" /\ todo = << >> /\ Recoverable /\ ~refused
        /\ dir' = dir /\ marker' = marker /\ published' = FALSE /\ raised' \in Nat
    <2>1. phase = "idle" /\ dir' = dir /\ marker' = marker /\ published' = FALSE
      BY DEF StartRun, disk
    <2>2. raised' \in {0, 1}
      BY DEF StartRun
    <2> QED BY <2>1, <2>2 DEF IInv, Phased, NeverRefused
  <1>2. Recoverable' /\ Types'
    BY <1>1 DEF Types, Recoverable, Intact, C, R, B
  <1>3. /\ ~refused'
        /\ \/ phase' = "idle" /\ todo' = << >>
           \/ phase' = "recover" /\ \E valid \in BOOLEAN : todo' \in Recovery(valid)
    BY <1>1, Recovered DEF StartRun
  <1>4. CASE phase' = "idle" /\ todo' = << >>
    BY <1>2, <1>3, <1>4, Preparing DEF IInv, Phased, NeverRefused
  <1>5. CASE phase' = "recover" /\ \E valid \in BOOLEAN : todo' \in Recovery(valid)
    <2>1. \/ todo' = << >> /\ Settled
          \/ todo' = ClearReplacement /\ ~marker /\ B = "absent" /\ Intact("canonical")
          \/ todo' = DropBackup /\ marker /\ C = "new" /\ R = "absent"
          \/ todo' = Restore /\ marker /\ R = "absent" /\ B = "old"
          \/ todo' = Complete /\ marker /\ C = "absent" /\ R = "new" /\ B = "old"
          \/ todo' = Revert /\ marker /\ C = "absent" /\ B = "old"
          \/ todo' = ClearUnmark /\ B = "absent" /\ Intact("canonical")
      BY <1>1, <1>5, Recovered
    <2>2. (Intact("canonical") => Intact("canonical")') /\ (Settled => Settled')
      BY <1>1 DEF Settled, Clean, Exists, Intact
    <2>3. C' = C /\ R' = R /\ B' = B
      BY <1>1 DEF C, R, B
    <2>4. Prepared'
      BY <1>1, <2>1, <2>2, <2>3, Preparing
    <2> QED BY <1>1, <1>2, <1>3, <1>5, <2>1, <2>2, <2>4, Distinct DEF IInv, Phased, NeverRefused
  <1> QED BY <1>3, <1>4, <1>5

LEMMA AssessNext ==
    ASSUME IInv, Assess
    PROVE  IInv'
  <1>1. /\ Types /\ phase = "recover" /\ todo = << >> /\ Settled /\ ~refused /\ ~published
        /\ dir' = dir /\ marker' = marker /\ published' = published /\ raised' = raised
    BY DEF IInv, Phased, NeverRefused, Assess, disk
  <1>2. Recoverable' /\ Types' /\ ~marker' /\ R' = "absent" /\ B' = "absent" /\ C' = C
    BY <1>1 DEF Types, Settled, Clean, Exists, Recoverable, Intact, C, R, B
  <1>3. /\ ~refused'
        /\ \/ phase' = "build" /\ todo' = Building /\ C = "old"
           \/ phase' = "idle" /\ todo' = << >>
    BY <1>1 DEF Assess, Settled, Building, C
  <1>4. Prepared'
    BY <1>2, <1>3, Preparing
  <1> QED BY <1>1, <1>2, <1>3, <1>4, Distinct DEF IInv, Phased, NeverRefused

LEMMA BeginCommitNext ==
    ASSUME IInv, BeginCommit
    PROVE  IInv'
  <1>1. /\ Types /\ phase = "build" /\ todo = << >> /\ ~published /\ ~refused
        /\ ~marker /\ C = "old" /\ R = "new" /\ B = "absent"
        /\ dir' = dir /\ marker' = marker /\ published' = published /\ raised' = raised
        /\ refused' = refused /\ phase' = "commit" /\ todo' = Commit
    BY DEF IInv, Phased, NeverRefused, BeginCommit, disk
  <1>2. Types' /\ ~marker' /\ C' = "old" /\ R' = "new" /\ B' = "absent"
    BY <1>1 DEF Types, C, R, B
  <1>3. Prepared'
    BY <1>1, <1>2, Preparing
  <1> QED BY <1>1, <1>2, <1>3, Distinct DEF IInv, Phased, NeverRefused

\* The run ends: Return, a crash, and an exception that nothing handles.
LEMMA Ends ==
    ASSUME IInv, UNCHANGED <<dir, marker, refused>>, phase' = "idle", todo' = << >>,
           published' \in BOOLEAN, raised' \in Nat
    PROVE  IInv'
  <1>1. Types /\ Recoverable /\ ~refused
    BY AlwaysRecoverable DEF IInv, NeverRefused
  <1>2. Types' /\ Recoverable' /\ ~refused'
    BY <1>1 DEF Types, Recoverable, Intact, C, R, B
  <1> QED BY <1>2, Preparing DEF IInv, Phased, NeverRefused

LEMMA RaiseNext ==
    ASSUME ~Async, PerRun <= 1, IInv, Raise
    PROVE  IInv'
  <1>1. /\ Types /\ Prepared /\ Phased /\ ~refused /\ Recoverable
        /\ phase # "idle" /\ raised < PerRun /\ raised' = raised + 1
        /\ UNCHANGED <<dir, marker, published, refused>>
    BY AlwaysRecoverable DEF IInv, NeverRefused, Raise, MayRaise, disk
  <1>2. raised \in Nat /\ PerRun \in Nat /\ published \in BOOLEAN
    BY <1>1, BoundsAssumption DEF Types
  <1>3. phase # "caught" /\ raised' >= 1 /\ raised' \in Nat
    BY <1>1, <1>2 DEF Phased
  <1>4. /\ Types' /\ Recoverable' /\ ~refused' /\ marker' = marker /\ published' = published
        /\ C' = C /\ R' = R /\ B' = B /\ (Intact("canonical") => Intact("canonical")')
    BY <1>1, <1>3 DEF Types, Recoverable, Intact, C, R, B
  <1>5. CASE phase = "commit"
    <2>1. phase' = "caught" /\ todo' = << >>
      BY <1>5 DEF Raise
    <2>2. todo # AfterSwap
      BY Heads, Distinct DEF Raise
    <2>3. published => C = "new"
      BY <1>1, <1>5 DEF Phased
    <2>4. ~published => todo \in {Commit, AfterMark, AfterAside}
      BY <1>1, <1>2, <1>5, <2>2 DEF Phased
    <2>5. ~published => \/ C = "old" /\ B = "absent"
                        \/ marker /\ C = "absent" /\ B = "old"
      BY <1>1, <2>4 DEF Prepared
    <2> QED BY <1>3, <1>4, <2>1, <2>3, <2>5, Preparing DEF IInv, Phased, NeverRefused
  <1>6. CASE phase = "build"
    <2>1. phase' = "abort" /\ todo' = ClearReplacement
      BY <1>6 DEF Raise, ClearReplacement
    <2>2. ~marker /\ B = "absent" /\ Intact("canonical")
      BY <1>1, <1>6 DEF Phased, Prepared, Intact, C
    <2> QED BY <1>4, <2>1, <2>2, Preparing, Distinct DEF IInv, Phased, NeverRefused
  <1>7. CASE phase \notin {"commit", "build"}
    <2>1. phase' = "idle" /\ todo' = << >>
      BY <1>7 DEF Raise
    <2> QED BY <1>1, <1>2, <1>3, <2>1, Ends
  <1> QED BY <1>5, <1>6, <1>7

LEMMA HandleNext ==
    ASSUME PerRun <= 1, IInv, Handle
    PROVE  IInv'
  <1>1. /\ Types /\ phase = "caught" /\ todo = << >> /\ raised >= 1 /\ ~refused /\ Recoverable
        /\ UNCHANGED <<dir, marker, published, refused>>
        /\ published => C = "new"
        /\ ~published => \/ C = "old" /\ B = "absent"
                         \/ marker /\ C = "absent" /\ B = "old"
    BY DEF IInv, Phased, NeverRefused, Handle, disk
  <1>2. ~MayRaise /\ raised \in Nat /\ published \in BOOLEAN
    BY <1>1, BoundsAssumption DEF Types, MayRaise
  <1>3. CASE published
    <2>1. phase' = "idle" /\ todo' = << >> /\ raised' = raised
      BY <1>1, <1>2, <1>3 DEF Handle, C
    <2> QED BY <1>1, <1>2, <2>1, Ends
  <1>4. CASE ~published
    <2>1. phase' = "abort" /\ todo' = Rollback /\ raised' = raised
      BY <1>4 DEF Handle
    <2>2. /\ Types' /\ ~refused' /\ marker' = marker
          /\ C' = C /\ B' = B /\ (Intact("canonical") => Intact("canonical")')
      BY <1>1, <2>1 DEF Types, Intact, C, B
    <2>3. CASE C = "old" /\ B = "absent"
      <3>1. Rollback = << >> \o ClearUnmark
        BY <2>3 DEF Rollback, Exists, ClearUnmark, C, B
      <3>2. todo' = ClearUnmark /\ Intact("canonical")
        BY <2>1, <2>3, <3>1 DEF ClearUnmark, Intact, C
      <3> QED BY <2>1, <2>2, <2>3, <3>2, Preparing, Distinct DEF IInv, Phased, NeverRefused
    <2>4. CASE marker /\ C = "absent" /\ B = "old"
      <3>1. Rollback = << Rename("backup", "canonical") >> \o << Remove("replacement"), Unmark >>
        BY <2>4 DEF Rollback, Exists, C, B
      <3>2. \A x, y, z : << x >> \o << y, z >> = << x, y, z >>
        <4> TAKE x, y, z
        <4> DEFINE s == << x >> \o << y, z >>
        <4>1. s \in Seq({x, y, z}) /\ Len(s) = 3 /\ s[1] = x /\ s[2] = y /\ s[3] = z
          OBVIOUS
        <4>2. s = << x, y, z >>
          <5> HIDE DEF s
          <5>1. s = [i \in 1 .. Len(s) |-> s[i]]
            BY <4>1
          <5>2. << x, y, z >> = [i \in 1 .. 3 |-> << x, y, z >>[i]]
            OBVIOUS
          <5> QED BY <4>1, <5>1, <5>2
        <4> QED BY <4>2
      <3>3. todo' = Revert
        BY <2>1, <3>1, <3>2 DEF Revert
      <3> QED BY <2>1, <2>2, <2>4, <3>3, Preparing, Distinct DEF IInv, Phased, NeverRefused
    <2> QED BY <1>1, <1>4, <2>3, <2>4
  <1> QED BY <1>3, <1>4

----------------------------------------------------------------------------
(* The theorems. *)

\* The disk a list leaves is the disk its next operation expects.
THEOREM Inductive == ~Async /\ PerRun <= 1 => (Spec => []IInv)
  <1> SUFFICES ASSUME ~Async, PerRun <= 1 PROVE Spec => []IInv
    OBVIOUS
  <1>1. Init => IInv
    <2> SUFFICES ASSUME Init PROVE IInv
      OBVIOUS
    <2>1. /\ phase = "idle" /\ todo = << >> /\ ~refused /\ Types
          /\ C = "old" /\ R = "absent" /\ B = "absent"
      BY DEF Init, Types, Trees, Paths, C, R, B
    <2>2. Recoverable
      BY <2>1 DEF Recoverable, Intact, C
    <2>3. Prepared
      BY <2>1, Distinct DEF Prepared
    <2> QED BY <2>1, <2>2, <2>3 DEF IInv, Phased, NeverRefused
  <1>2. IInv /\ [Next]_vars => IInv'
    <2> SUFFICES ASSUME IInv, [Next]_vars PROVE IInv'
      OBVIOUS
    <2>1. CASE StartRun
      BY <2>1, StartNext
    <2>2. CASE Do
      BY <2>2, DoNext
    <2>3. CASE Assess
      BY <2>3, AssessNext
    <2>4. CASE BeginCommit
      BY <2>4, BeginCommitNext
    <2>5. CASE Return
      BY <2>5, Ends DEF Return, IInv, Types, disk
    <2>6. CASE Raise
      BY <2>6, RaiseNext
    <2>7. CASE Handle
      BY <2>7, HandleNext
    <2>8. CASE Crash
      BY <2>8, Ends DEF Crash, IInv, Types, disk
    <2>9. CASE UNCHANGED vars
      BY <2>9 DEF vars, IInv, Types, Prepared, Phased, NeverRefused, Recoverable, Settled, Clean,
                  Exists, Intact, C, R, B
    <2> QED BY <2>1, <2>2, <2>3, <2>4, <2>5, <2>6, <2>7, <2>8, <2>9 DEF Next
  <1> QED BY <1>1, <1>2, PTL DEF Spec

\* The evidence survives every crash and every exception: at each moment a
\* whole store is at one of the three paths.
THEOREM EvidenceSurvives == ~Async /\ PerRun <= 1 => (Spec => []IntactCopy)
  <1> SUFFICES ASSUME ~Async, PerRun <= 1 PROVE Spec => []IntactCopy
    OBVIOUS
  <1>1. IInv => IntactCopy
    BY AlwaysRecoverable DEF Recoverable, IntactCopy, Intact, Paths, C, B
  <1> QED BY <1>1, Inductive, PTL

\* A reader that sees no marker reads a whole canonical store.
THEOREM MarkerTellsTheTruth == ~Async /\ PerRun <= 1 => (Spec => []MarkerGuards)
  <1> SUFFICES ASSUME ~Async, PerRun <= 1 PROVE Spec => []MarkerGuards
    OBVIOUS
  <1>1. IInv => MarkerGuards
    BY AlwaysRecoverable DEF Recoverable, MarkerGuards
  <1> QED BY <1>1, Inductive, PTL

\* Every run finds a disk that _recover_transaction has a row for.
THEOREM AlwaysRecovers == ~Async /\ PerRun <= 1 => (Spec => []NeverRefused)
  <1> SUFFICES ASSUME ~Async, PerRun <= 1 PROVE Spec => []NeverRefused
    OBVIOUS
  <1>1. IInv => NeverRefused
    BY DEF IInv
  <1> QED BY <1>1, Inductive, PTL
=============================================================================
