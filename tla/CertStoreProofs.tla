--------------------------- MODULE CertStoreProofs ---------------------------
(***************************************************************************)
(* Proofs about CertStore, for any set of organizations, whose processes   *)
(* share the store without a lock and may stop anywhere.                   *)
(*                                                                         *)
(* Whatever the processes do: type correctness, and that no flat file is   *)
(* ever orphaned or comes back. Where rename works, and no migration       *)
(* begins between the two looks of another command's layout check          *)
(* (Unraced): that a migration loses no file. As long as the commands do   *)
(* not overlap (Serial: one process, or any number that take turns): that  *)
(* with copies too, the order of the files of a bundle, that a migration   *)
(* can be resumed and happens once, and that the store implements          *)
(* Enrollments. Last, for any processes: a command only goes forward.      *)
(***************************************************************************)
EXTENDS CertStore, TLAPS

\* Writing any one file of the store keeps the store well typed, whichever
\* place and name are written (a name outside the domain changes nothing).
LEMMA SetFile ==
  ASSUME NEW F \in FileMap, NEW d, NEW f, NEW c \in Content
  PROVE  [F EXCEPT ![d][f] = c] \in FileMap
  BY DEF FileMap

\* A file of the store, absent from the store, and torn are contents.
LEMMA ContentFacts ==
  /\ Absent \in Content
  /\ Torn \in Content
  /\ Root \in Place
  BY DEF Content, Place

\* The move order of migrateFlat lists every flat file name.
LEMMA MoveOrderCovers ==
  /\ Len(MoveOrder) = 7
  /\ Len(WriteOrder) = 5
  /\ Len(ClearOrder) = 6
  /\ \A k \in 1 .. 7 : MoveOrder[k] \in FileName
  /\ \A f \in FileName : \E k \in 1 .. 7 : MoveOrder[k] = f
  BY DEF MoveOrder, WriteOrder, ClearOrder, FileName

\* discoverMigrationOrgID answers an organization or nothing.
LEMMA DiscoverType ==
  ASSUME TypeOK PROVE DiscoverOrg \in Orgs \cup {NoOrg}
  BY DEF TypeOK, DiscoverOrg, Place, FileName, Content, Identity

-----------------------------------------------------------------------------
(* Type correctness. *)

\* The initial stores - empty, flat, one directory per organization - are well typed.
LEMMA InitType == Init => TypeOK
<1> SUFFICES ASSUME Init PROVE TypeOK
  OBVIOUS
<1>1. ASSUME NEW S, NEW o \in Place, o \in Orgs \/ S = {}
      PROVE  Files(S, o) \in [FileName -> Content]
  BY <1>1, StoreAssumption DEF Files, Content, Identity
<1>5. file \in FileMap /\ dirs \subseteq Orgs /\ active \in Orgs \cup {NoOrg}
  <2>1. CASE EmptyStore
    BY <1>1, <2>1 DEF EmptyStore, FileMap
  <2>2. CASE FlatStore
    <3>1. PICK o \in Orgs, extra \in {{}, {"tok"}, {"tok", "legacy"}} :
            file = [d \in Place |-> IF d = Root THEN Files(Bundle \cup extra, o) ELSE Files({}, d)]
      BY <2>2 DEF FlatStore
    <3>2. Files(Bundle \cup extra, o) \in [FileName -> Content]
      BY <1>1 DEF Place
    <3>3. \A d \in Place : Files({}, d) \in [FileName -> Content]
      BY <1>1
    <3>4. file \in FileMap
      BY <3>1, <3>2, <3>3 DEF FileMap
    <3> QED BY <2>2, <3>4 DEF FlatStore
  <2>3. CASE OrgStore
    <3>1. PICK S \in SUBSET Orgs \ {{}} :
            /\ file = [d \in Place |-> IF d \in S THEN Files(Bundle \cup {"tok", "meta"}, d)
                                                 ELSE Files({}, d)]
            /\ dirs = S
            /\ active \in S \cup {NoOrg}
      BY <2>3 DEF OrgStore
    <3>2. \A d \in S : Files(Bundle \cup {"tok", "meta"}, d) \in [FileName -> Content]
      BY <1>1 DEF Place
    <3>3. \A d \in Place : Files({}, d) \in [FileName -> Content]
      BY <1>1
    <3>4. file \in FileMap
      BY <3>1, <3>2, <3>3 DEF FileMap
    <3> QED BY <3>1, <3>4
  <2> QED BY <2>1, <2>2, <2>3 DEF Init
<1>6. StoreOK
  <2>1. marker \in BOOLEAN
    BY DEF Init
  <2>2. issued \in 0 .. MaxGen
    BY StoreAssumption DEF Init
  <2> QED BY <1>5, <2>1, <2>2 DEF StoreOK
<1>7. ProcsOK
  BY ContentFacts DEF Init, ProcsOK, Command, PC
<1>8. LocalsOK
  BY DEF Init, LocalsOK
<1>9. HistoryOK
  BY DEF Init, HistoryOK
<1> QED BY <1>6, <1>7, <1>8, <1>9 DEF TypeOK

\* Returning from a command keeps the processes well typed.
LEMMA ReturnType ==
  ASSUME ProcsOK, LocalsOK, NEW p \in Procs, Return(p) PROVE ProcsOK' /\ LocalsOK'
<1>1. ProcsOK'
  BY ContentFacts DEF ProcsOK, Return, Goto, Command, PC
<1>2. LocalsOK'
  BY DEF ProcsOK, LocalsOK, Return, Goto
<1> QED BY <1>1, <1>2

\* So does moving on to the next file of the migration.
LEMMA NextMoveType ==
  ASSUME ProcsOK, LocalsOK, NEW p \in Procs, NextMove(p), mig[p] \in Orgs,
         pc[p] # "idle", UNCHANGED <<cmd, target, mig>>, buf' \in [Procs -> Content]
  PROVE  ProcsOK' /\ LocalsOK'
<1>1. idx' \in [Procs -> 1 .. 7]
  BY MoveOrderCovers DEF ProcsOK, NextMove
<1>2. pc' \in [Procs -> PC]
  BY DEF ProcsOK, NextMove, Goto, PC
<1>3. LocalsOK'
  BY DEF ProcsOK, LocalsOK, NextMove, Goto
<1> QED BY <1>1, <1>2, <1>3 DEF ProcsOK

\* Every step of the layout migration keeps the store and the processes well typed.
LEMMA MigrateType ==
  ASSUME TypeOK, NEW p \in Procs, Migrate(p)
  PROVE  StoreOK' /\ ProcsOK' /\ LocalsOK'
<1> USE DEF TypeOK
<1>1. CASE EnsureLayout(p) \/ EnsureFlat(p) \/ Mark(p)
  <2>1. StoreOK' /\ ProcsOK'
    BY <1>1 DEF EnsureLayout, EnsureFlat, Mark, Goto, StoreOK, ProcsOK, PC, store
  <2>2. LocalsOK'
    BY <1>1 DEF EnsureLayout, EnsureFlat, Mark, Goto, ProcsOK, LocalsOK
  <2> QED BY <2>1, <2>2
<1>2. CASE Unmark(p)
  <2>1. StoreOK'
    BY <1>2 DEF Unmark, StoreOK
  <2>2. CASE ~marker
    BY <1>2, <2>1, <2>2, ReturnType DEF Unmark
  <2>3. CASE marker
    <3>1. ProcsOK'
      BY <1>2, <2>3 DEF Unmark, Goto, ProcsOK, PC
    <3>2. LocalsOK'
      BY <1>2, <2>3 DEF Unmark, Goto, ProcsOK, LocalsOK
    <3> QED BY <2>1, <3>1, <3>2
  <2> QED BY <2>2, <2>3
<1>3. CASE MoveAbsent(p)
  <2>1. mig[p] \in Orgs /\ buf' \in [Procs -> Content]
    BY <1>3 DEF MoveAbsent, LocalsOK, ProcsOK
  <2> QED BY <1>3, <2>1, NextMoveType DEF MoveAbsent, StoreOK, store
<1>4. CASE Discover(p)
  <2>1. DiscoverOrg \in Orgs
    BY <1>4, DiscoverType DEF Discover
  <2>2. StoreOK' /\ ProcsOK'
    BY <1>4, <2>1 DEF Discover, Goto, StoreOK, ProcsOK, PC
  <2>3. LocalsOK'
    BY <1>4, <2>1 DEF Discover, Goto, ProcsOK, LocalsOK
  <2> QED BY <2>2, <2>3
<1>5. CASE DiscoverFails(p) \/ MoveFails(p) \/ CopyUnlinkFails(p)
  BY <1>5, ReturnType DEF DiscoverFails, MoveFails, CopyUnlinkFails, StoreOK, store
<1>6. CASE MoveRename(p)
  <2> DEFINE f == MoveOrder[idx[p]]
             F == [file EXCEPT ![mig[p]][MovedName(f)] = file[Root][f]]
  <2>1. file[Root][f] \in Content
    BY MoveOrderCovers, ContentFacts DEF StoreOK, ProcsOK, FileMap
  <2>2. F \in FileMap
    BY <2>1, SetFile DEF StoreOK
  <2>3. file' = [F EXCEPT ![Root][f] = Absent]
    BY <1>6 DEF MoveRename
  <2>4. file' \in FileMap
    BY <2>2, <2>3, ContentFacts, SetFile
  <2>5. StoreOK'
    BY <1>6, <2>4 DEF MoveRename, StoreOK
  <2>6. mig[p] \in Orgs /\ buf' \in [Procs -> Content]
    BY <1>6 DEF MoveRename, LocalsOK, ProcsOK
  <2> QED BY <1>6, <2>5, <2>6, NextMoveType DEF MoveRename
<1>7. CASE MoveCopy(p)
  <2>1. file[Root][MoveOrder[idx[p]]] \in Content
    BY MoveOrderCovers, ContentFacts DEF StoreOK, ProcsOK, FileMap
  <2>2. StoreOK'
    BY <1>7, ContentFacts, SetFile DEF MoveCopy, StoreOK
  <2>3. ProcsOK'
    BY <1>7, <2>1 DEF MoveCopy, ProcsOK, Goto, PC
  <2>4. LocalsOK'
    BY <1>7 DEF MoveCopy, ProcsOK, LocalsOK, Goto
  <2> QED BY <2>2, <2>3, <2>4
<1>8. CASE CopyDone(p)
  <2>1. file' \in FileMap
    BY <1>8, ContentFacts DEF CopyDone, Fill, StoreOK, ProcsOK, FileMap
  <2>2. StoreOK' /\ ProcsOK'
    BY <1>8, <2>1 DEF CopyDone, Goto, StoreOK, ProcsOK, PC
  <2>3. LocalsOK'
    BY <1>8 DEF CopyDone, ProcsOK, LocalsOK, Goto
  <2> QED BY <2>2, <2>3
<1>9. CASE CopyUnlink(p)
  <2>1. StoreOK'
    BY <1>9, ContentFacts, SetFile DEF CopyUnlink, StoreOK
  <2>2. mig[p] \in Orgs /\ buf' \in [Procs -> Content]
    BY <1>9, ContentFacts DEF CopyUnlink, ProcsOK, LocalsOK
  <2> QED BY <1>9, <2>1, <2>2, NextMoveType DEF CopyUnlink
<1>10. CASE MigrateMeta(p)
  <2>1. file' \in FileMap
    <3>1. CASE file[mig[p]]["meta"] = Absent
      <4>1. file' = [file EXCEPT ![mig[p]]["meta"] = Torn]
        BY <1>10, <3>1 DEF MigrateMeta
      <4> QED BY <4>1, ContentFacts, SetFile DEF StoreOK
    <3>2. CASE file[mig[p]]["meta"] # Absent
      BY <1>10, <3>2 DEF MigrateMeta, StoreOK
    <3> QED BY <3>1, <3>2
  <2>2. dirs' \subseteq Orgs
    BY <1>10 DEF MigrateMeta, StoreOK, LocalsOK
  <2>3. StoreOK' /\ ProcsOK'
    BY <1>10, <2>1, <2>2 DEF MigrateMeta, Goto, StoreOK, ProcsOK, PC
  <2>4. LocalsOK'
    BY <1>10 DEF MigrateMeta, ProcsOK, LocalsOK, Goto
  <2> QED BY <2>3, <2>4
<1>11. CASE MigrateMetaDone(p)
  <2>1. [org |-> mig[p], gen |-> 0] \in Content
    BY <1>11, StoreAssumption DEF MigrateMetaDone, LocalsOK, Content, Identity
  <2>2. file' \in FileMap
    BY <1>11, <2>1, ContentFacts DEF MigrateMetaDone, Fill, StoreOK, ProcsOK, FileMap
  <2>3. StoreOK' /\ ProcsOK'
    BY <1>11, <2>2 DEF MigrateMetaDone, Goto, StoreOK, ProcsOK, PC
  <2>4. LocalsOK'
    BY <1>11 DEF MigrateMetaDone, ProcsOK, LocalsOK, Goto
  <2> QED BY <2>3, <2>4
<1> QED BY <1>1, <1>2, <1>3, <1>4, <1>5, <1>6, <1>7, <1>8, <1>9, <1>10, <1>11 DEF Migrate

\* Every step of a command after the layout check does too.
LEMMA BodyType ==
  ASSUME TypeOK, NEW p \in Procs, Body(p)
  PROVE  StoreOK' /\ ProcsOK' /\ LocalsOK'
<1> USE DEF TypeOK
<1>1. CASE Resolve(p) \/ ClearActive(p) \/ EnrollRefused(p)
  BY <1>1, ReturnType DEF Resolve, ClearActive, EnrollRefused, StoreOK, store
<1>2. CASE ResolveStale(p)
  <2>1. StoreOK' /\ ProcsOK'
    BY <1>2 DEF ResolveStale, Goto, StoreOK, ProcsOK, PC, store
  <2>2. LocalsOK'
    BY <1>2 DEF ResolveStale, Goto, StoreOK, ProcsOK, LocalsOK
  <2> QED BY <2>1, <2>2
\* Switch, Remove and Unselect go to a label or return; the store is unchanged.
<1>3. ASSUME NEW l \in {"activate", "delete", "clear"}, Goto(p, l),
             l = "delete" => cmd[p] # "resolve", pc[p] # "idle",
             UNCHANGED <<cmd, target, mig, idx, buf>>
      PROVE  ProcsOK' /\ LocalsOK'
  <2>1. ProcsOK'
    BY <1>3 DEF Goto, ProcsOK, PC
  <2>2. LocalsOK'
    BY <1>3 DEF Goto, ProcsOK, LocalsOK
  <2> QED BY <2>1, <2>2
<1>4. CASE Switch(p)
  BY <1>4, <1>3, ReturnType DEF Switch, StoreOK, store
<1>5. CASE Remove(p)
  BY <1>5, <1>3, ReturnType DEF Remove, StoreOK, store
<1>6. CASE Unselect(p)
  BY <1>6, <1>3, ReturnType DEF Unselect, StoreOK, store
<1>7. CASE WriteActive(p)
  <2>1. StoreOK' /\ ProcsOK'
    BY <1>7 DEF WriteActive, Goto, StoreOK, ProcsOK, PC
  <2>2. LocalsOK'
    BY <1>7 DEF WriteActive, Goto, ProcsOK, LocalsOK
  <2> QED BY <2>1, <2>2
<1>8. CASE WriteActiveDone(p)
  <2>1. StoreOK'
    BY <1>8 DEF WriteActiveDone, Dest, StoreOK, ProcsOK
  <2>2. CASE mig[p] = NoOrg
    BY <1>8, <2>1, <2>2, ReturnType DEF WriteActiveDone
  <2>3. CASE mig[p] # NoOrg
    <3>1. ProcsOK'
      BY <1>8, <2>3 DEF WriteActiveDone, Goto, ProcsOK, PC
    <3>2. LocalsOK'
      BY <1>8, <2>3 DEF WriteActiveDone, Goto, ProcsOK, LocalsOK
    <3> QED BY <2>1, <3>1, <3>2
  <2> QED BY <2>2, <2>3
<1>9. CASE Enroll(p)
  <2>1. target[p] \in Orgs
    BY <1>9 DEF Enroll, LocalsOK
  <2>2. issued + 1 \in 0 .. MaxGen
    BY <1>9, StoreAssumption DEF Enroll, StoreOK
  <2>3. [org |-> target[p], gen |-> issued + 1] \in Content
    BY <2>1, <2>2 DEF Content, Identity
  <2>4. StoreOK'
    BY <1>9, <2>1, <2>2 DEF Enroll, StoreOK
  <2>5. ProcsOK'
    BY <1>9, <2>3 DEF Enroll, ProcsOK, Goto, PC
  <2>6. LocalsOK'
    BY <1>9 DEF Enroll, ProcsOK, LocalsOK, Goto
  <2> QED BY <2>4, <2>5, <2>6
<1>10. CASE WriteFile(p)
  <2>1. StoreOK'
    <3>1. CASE target[p] \in dirs
      <4>1. file' = [file EXCEPT ![target[p]][WriteOrder[idx[p]]] = Torn] /\ pc' = [pc EXCEPT ![p] = "writing"]
        BY <1>10, <3>1 DEF WriteFile, Goto
      <4>2. file' \in FileMap
        BY <4>1, ContentFacts, SetFile DEF StoreOK
      <4> QED BY <1>10, <4>2 DEF WriteFile, StoreOK
    <3>2. CASE target[p] \notin dirs
      BY <1>10, <3>2 DEF WriteFile, StoreOK
    <3> QED BY <3>1, <3>2
  <2>2. CASE target[p] \in dirs
    <3>1. ProcsOK'
      BY <1>10, <2>2 DEF WriteFile, Goto, ProcsOK, PC
    <3>2. LocalsOK'
      BY <1>10, <2>2 DEF WriteFile, Goto, ProcsOK, LocalsOK
    <3> QED BY <2>1, <3>1, <3>2
  <2>3. CASE target[p] \notin dirs
    BY <1>10, <2>1, <2>3, ReturnType DEF WriteFile
  <2> QED BY <2>2, <2>3
<1>11. CASE WriteFileDone(p)
  <2>1. buf[p] \in Content
    BY DEF ProcsOK
  <2>2. file' \in FileMap
    BY <1>11, <2>1, ContentFacts DEF WriteFileDone, Fill, StoreOK, FileMap
  <2>3. StoreOK'
    BY <1>11, <2>2 DEF WriteFileDone, StoreOK
  <2>4. ProcsOK'
    BY <1>11, MoveOrderCovers DEF WriteFileDone, Goto, ProcsOK, PC
  <2>5. LocalsOK'
    BY <1>11 DEF WriteFileDone, Goto, ProcsOK, LocalsOK
  <2> QED BY <2>3, <2>4, <2>5
<1>12. CASE SkipToken(p)
  <2>1. idx[p] \in 1 .. 5
    BY <1>12, MoveOrderCovers DEF SkipToken, WriteOrder
  <2>2. idx' \in [Procs -> 1 .. 7]
    BY <1>12, <2>1 DEF SkipToken, ProcsOK
  <2> QED BY <1>12, <2>2 DEF SkipToken, Goto, PC, StoreOK, ProcsOK, LocalsOK, store
<1>13. CASE ClearFile(p) \/ ClearRefused(p)
  <2>1. StoreOK'
    <3>1. CASE ClearFile(p)
      BY <3>1, ContentFacts, SetFile DEF ClearFile, StoreOK
    <3>2. CASE ClearRefused(p)
      BY <3>2 DEF ClearRefused, StoreOK, store
    <3> QED BY <1>13, <3>1, <3>2
  <2>2. ProcsOK'
    BY <1>13, MoveOrderCovers DEF ClearFile, ClearRefused, NextClear, Goto, ProcsOK, PC
  <2>3. LocalsOK'
    BY <1>13 DEF ClearFile, ClearRefused, NextClear, Goto, ProcsOK, LocalsOK
  <2> QED BY <2>1, <2>2, <2>3
<1>14. CASE RemoveDir(p) \/ RemoveDirFails(p)
  <2>0. target[p] \in Place
    BY <1>14 DEF RemoveDir, RemoveDirFails, LocalsOK, Place
  <2>1. file' \in FileMap
    <3>1. CASE RemoveDir(p)
      BY <3>1, ContentFacts DEF RemoveDir, StoreOK, FileMap
    <3>2. CASE RemoveDirFails(p)
      <4>1. PICK left \in SUBSET {f \in Stubborn : file[target[p]][f] # Absent} :
              file' = [file EXCEPT ![target[p]] =
                        [f \in FileName |-> IF f \in left THEN file[target[p]][f] ELSE Absent]]
        BY <3>2 DEF RemoveDirFails
      <4>2. [f \in FileName |-> IF f \in left THEN file[target[p]][f] ELSE Absent]
              \in [FileName -> Content]
        BY <2>0, ContentFacts DEF StoreOK, FileMap
      <4> QED BY <4>1, <4>2 DEF StoreOK, FileMap
    <3> QED BY <1>14, <3>1, <3>2
  <2>2. StoreOK' /\ ProcsOK'
    BY <1>14, <2>1 DEF RemoveDir, RemoveDirFails, Goto, StoreOK, ProcsOK, PC
  <2>3. LocalsOK'
    BY <1>14 DEF RemoveDir, RemoveDirFails, Goto, ProcsOK, LocalsOK
  <2> QED BY <2>2, <2>3
<1> QED BY <1>1, <1>2, <1>4, <1>5, <1>6, <1>7, <1>8, <1>9, <1>10, <1>11, <1>12, <1>13, <1>14
        DEF Body

\* What is remembered of a step is about organizations and processes.
LEMMA HistoryType ==
  ASSUME TypeOK, NEW p \in Procs,
         \/ \E c \in Command, o \in Orgs \cup {NoOrg} : Begin(p, c, o)
         \/ Advance(p)
         \/ Stop(p)
  PROVE  HistoryOK'
<1> USE DEF TypeOK, HistoryOK
<1>1. CASE SkipToken(p)
  <2>1. target[p] \in Orgs
    BY <1>1 DEF SkipToken, LocalsOK
  <2> QED BY <1>1, <2>1 DEF SkipToken
<1>2. CASE ClearRefused(p)
  <2>1. target[p] \in Orgs
    BY <1>2 DEF ClearRefused, LocalsOK
  <2> QED BY <1>2, <2>1 DEF ClearRefused
<1>3. CASE WriteFileDone(p) \/ ClearFile(p) \/ RemoveDir(p) \/ RemoveDirFails(p)
  BY <1>3 DEF WriteFileDone, ClearFile, RemoveDir, RemoveDirFails
<1>4. CASE (\E c \in Command, o \in Orgs \cup {NoOrg} : Begin(p, c, o)) \/ Stop(p)
           \/ MoveFails(p) \/ CopyUnlinkFails(p)
  BY <1>4 DEF Begin, Stop, MoveFails, CopyUnlinkFails
<1>5. CASE UNCHANGED history
  BY <1>5 DEF history
<1>6. Migrate(p) /\ ~MoveFails(p) /\ ~CopyUnlinkFails(p) => UNCHANGED history
  BY DEF Migrate, EnsureLayout, EnsureFlat, Mark, Discover, DiscoverFails, MoveAbsent,
     MoveRename, MoveCopy, CopyDone, CopyUnlink, MigrateMeta, MigrateMetaDone, Unmark
<1>7. Body(p) => \/ UNCHANGED history \/ SkipToken(p) \/ ClearRefused(p) \/ WriteFileDone(p)
                 \/ ClearFile(p) \/ RemoveDir(p) \/ RemoveDirFails(p)
  BY DEF Body, Resolve, ResolveStale, ClearActive, Switch, WriteActive, WriteActiveDone,
     Enroll, EnrollRefused, WriteFile, Remove, Unselect
<1> QED BY <1>1, <1>2, <1>3, <1>4, <1>5, <1>6, <1>7 DEF Advance

\* TypeOK is inductive.
LEMMA NextType == TypeOK /\ [Next]_vars => TypeOK'
<1> SUFFICES ASSUME TypeOK, [Next]_vars PROVE TypeOK'
  OBVIOUS
<1>1. ASSUME NEW p \in Procs, NEW c \in Command, NEW o \in Orgs \cup {NoOrg}, Begin(p, c, o)
      PROVE  StoreOK' /\ ProcsOK' /\ LocalsOK'
  <2>1. StoreOK' /\ ProcsOK'
    BY <1>1 DEF TypeOK, Begin, Goto, StoreOK, ProcsOK, PC, store
  <2>2. LocalsOK'
    BY <1>1 DEF TypeOK, Begin, Goto, ProcsOK, LocalsOK
  <2> QED BY <2>1, <2>2
<1>2. ASSUME NEW p \in Procs, Stop(p)
      PROVE  StoreOK' /\ ProcsOK' /\ LocalsOK'
  BY <1>2, ReturnType DEF TypeOK, Stop, StoreOK, store
<1>3. CASE UNCHANGED vars
  BY <1>3 DEF vars, TypeOK, StoreOK, ProcsOK, LocalsOK, HistoryOK
<1>4. ASSUME NEW p \in Procs,
             \/ \E c \in Command, o \in Orgs \cup {NoOrg} : Begin(p, c, o)
             \/ Advance(p)
             \/ Stop(p)
      PROVE  TypeOK'
  <2>1. StoreOK' /\ ProcsOK' /\ LocalsOK'
    BY <1>1, <1>2, <1>4, MigrateType, BodyType DEF Advance
  <2> QED BY <1>4, <2>1, HistoryType DEF TypeOK
<1> QED BY <1>3, <1>4 DEF Next

\* The store and the processes stay well typed, whatever the processes do.
THEOREM TypeCorrect == Spec => []TypeOK
  BY InitType, NextType, PTL DEF Spec

-----------------------------------------------------------------------------
(***************************************************************************)
(* No orphans. The invariant is not inductive by itself: a process in the  *)
(* middle of migrateFlat must have taken everything it already passed, and *)
(* the marker stays until the root is empty. A command may get past the    *)
(* layout check while another process migrates, between the two files it   *)
(* looks at; then the marker is still there.                               *)
(***************************************************************************)

Early == {"idle", "ensure", "flat", "mark", "discover"}
Moving == {"move", "copy", "unlink"}
PastMove == {"meta", "newmeta", "unmark", "activate", "activating", "body", "write", "writing"}

\* The loop over the flat names starts at the first, and every name a migrating
\* process has passed is gone from the root.
Passed ==
  \A p \in Procs :
    /\ pc[p] \in Early => idx[p] = 1 /\ mig[p] = NoOrg
    /\ pc[p] \in Moving =>
         \A k \in 1 .. 7 : k < idx[p] => file[Root][MoveOrder[k]] = Absent

\* A process that has moved the files itself sees none; where one has begun, or
\* got past the check, the marker is there until there is none.
Emptied ==
  \A p \in Procs :
    /\ pc[p] \in PastMove /\ mig[p] # NoOrg => RootEmpty
    /\ pc[p] \in PastMove \cup Moving \cup {"discover"} => marker \/ RootEmpty

OrphanInv == TypeOK /\ NoOrphans /\ Passed /\ Emptied

\* No initial store has an orphan, and no process is past anything yet.
LEMMA InitOrphans == Init => NoOrphans /\ Passed /\ Emptied
<1> SUFFICES ASSUME Init PROVE NoOrphans /\ Passed /\ Emptied
  OBVIOUS
<1>1. Passed /\ Emptied
  BY DEF Init, Passed, Emptied, Early, Moving, PastMove
<1>2. CASE EmptyStore
  BY <1>1, <1>2, ContentFacts DEF EmptyStore, Files, NoOrphans, RootEmpty
<1>3. CASE FlatStore
  <2>1. PICK o \in Orgs, extra \in {{}, {"tok"}, {"tok", "legacy"}} :
          file = [d \in Place |-> IF d = Root THEN Files(Bundle \cup extra, o) ELSE Files({}, d)]
    BY <1>3 DEF FlatStore
  <2>2. file[Root]["key"] = [org |-> o, gen |-> 0]
    BY <2>1, ContentFacts DEF Files, Bundle, FileName
  <2>3. [org |-> o, gen |-> 0] \in Identity
    BY StoreAssumption DEF Identity
  <2>4. IsFlatStore
    BY <2>2, <2>3, FileAssumption DEF IsFlatStore
  <2> QED BY <1>1, <1>3, <2>4 DEF FlatStore, NoOrphans
<1>4. CASE OrgStore
  BY <1>1, <1>4, ContentFacts, StoreAssumption DEF OrgStore, Files, NoOrphans, RootEmpty
<1> QED BY <1>2, <1>3, <1>4 DEF Init

\* Steps that leave the root, the marker and the pointer alone keep NoOrphans.
LEMMA QuietStep ==
  ASSUME NoOrphans, file'[Root] = file[Root], marker' = marker,
         active' = active \/ active' = NoOrg \/ marker \/ RootEmpty
  PROVE  NoOrphans'
  BY DEF NoOrphans, RootEmpty, IsFlatStore

\* A step of p that leaves the root and the marker alone keeps what holds of
\* every other process, so only p itself must be looked at.
LEMMA OtherProcs ==
  ASSUME Passed, Emptied, NEW p \in Procs, file'[Root] = file[Root],
         marker' = marker,
         \A q \in Procs \ {p} : pc'[q] = pc[q] /\ mig'[q] = mig[q] /\ idx'[q] = idx[q],
         pc'[p] \in Early => idx'[p] = 1 /\ mig'[p] = NoOrg,
         pc'[p] \in Moving =>
           \A k \in 1 .. 7 : k < idx'[p] => file[Root][MoveOrder[k]] = Absent,
         pc'[p] \in PastMove /\ mig'[p] # NoOrg => RootEmpty,
         pc'[p] \in PastMove \cup Moving \cup {"discover"} => marker \/ RootEmpty
  PROVE  Passed' /\ Emptied'
<1>1. Passed'
  BY DEF Passed
<1>2. RootEmpty' = RootEmpty
  BY DEF RootEmpty
<1>3. Emptied'
  BY <1>2 DEF Emptied
<1> QED BY <1>1, <1>3

\* A command that returns or stops leaves the other processes' facts alone.
LEMMA ReturnOrphans ==
  ASSUME OrphanInv, NEW p \in Procs, Return(p), file'[Root] = file[Root],
         marker' = marker, active' = active \/ active' = NoOrg \/ marker \/ RootEmpty
  PROVE  NoOrphans' /\ Passed' /\ Emptied'
<1>1. \A q \in Procs \ {p} : pc'[q] = pc[q] /\ mig'[q] = mig[q] /\ idx'[q] = idx[q]
  BY DEF OrphanInv, TypeOK, ProcsOK, Return, Goto
<1>2. pc'[p] = "idle" /\ idx'[p] = 1 /\ mig'[p] = NoOrg
  BY DEF OrphanInv, TypeOK, ProcsOK, Return, Goto
<1> QED BY <1>1, <1>2, OtherProcs, QuietStep DEF OrphanInv, Moving, PastMove

\* A process past the check keeps the invariant when it goes on past it.
LEMMA PastOrphans ==
  ASSUME OrphanInv, NEW p \in Procs, file'[Root] = file[Root], marker' = marker,
         active' = active \/ active' = NoOrg \/ marker \/ RootEmpty,
         NEW l \in PC \ (Moving \cup Early),
         Goto(p, l), mig' = mig, \A q \in Procs \ {p} : idx'[q] = idx[q],
         l \in PastMove => marker \/ RootEmpty,
         l \in PastMove /\ mig[p] # NoOrg => RootEmpty
  PROVE  NoOrphans' /\ Passed' /\ Emptied'
<1>1. \A q \in Procs \ {p} : pc'[q] = pc[q]
  BY DEF OrphanInv, TypeOK, ProcsOK, Goto
<1>2. pc'[p] = l
  BY DEF OrphanInv, TypeOK, ProcsOK, Goto
<1> QED BY <1>1, <1>2, OtherProcs, QuietStep DEF OrphanInv, Early

\* Taking one name away from the root, as the last step of its move: someone
\* still migrates, so the marker is there and no process believes in an empty
\* root.
LEMMA TakeOrphans ==
  ASSUME OrphanInv, NEW p \in Procs, pc[p] \in Moving, NextMove(p),
         file[Root][MoveOrder[idx[p]]] # Absent,
         file'[Root] = [file[Root] EXCEPT ![MoveOrder[idx[p]]] = Absent],
         marker' = marker, active' = active, mig' = mig
  PROVE  NoOrphans' /\ Passed' /\ Emptied'
<1> DEFINE g == MoveOrder[idx[p]]
<1>1. idx[p] \in 1 .. 7 /\ g \in FileName
  BY MoveOrderCovers DEF OrphanInv, TypeOK, ProcsOK
<1>2. ~RootEmpty
  BY <1>1 DEF RootEmpty
<1>3. marker
  BY <1>2 DEF OrphanInv, Emptied
<1>4. \A q \in Procs : pc[q] \in PastMove => mig[q] = NoOrg
  BY <1>2 DEF OrphanInv, Emptied
<1>5. file[Root] \in [FileName -> Content]
  BY ContentFacts DEF OrphanInv, TypeOK, StoreOK, FileMap
<1>6. \A h \in FileName : file[Root][h] = Absent \/ h = g => file'[Root][h] = Absent
  BY <1>1, <1>5
<1>7. \A q \in Procs \ {p} : pc'[q] = pc[q] /\ idx'[q] = idx[q]
  BY DEF OrphanInv, TypeOK, ProcsOK, NextMove, Goto
<1>8. \A k \in 1 .. 7 : k <= idx[p] => file'[Root][MoveOrder[k]] = Absent
  <2> SUFFICES ASSUME NEW k \in 1 .. 7, k <= idx[p]
               PROVE  file'[Root][MoveOrder[k]] = Absent
    OBVIOUS
  <2>1. MoveOrder[k] \in FileName
    BY MoveOrderCovers
  <2>2. CASE k = idx[p]
    BY <1>6, <2>1, <2>2
  <2>3. CASE k < idx[p]
    BY <1>6, <2>1, <2>3 DEF OrphanInv, Passed
  <2> QED BY <1>1, <2>2, <2>3
<1>9. CASE idx[p] < 7
  <2>1. pc'[p] = "move" /\ idx'[p] = idx[p] + 1
    BY <1>9, MoveOrderCovers DEF OrphanInv, TypeOK, ProcsOK, NextMove, Goto
  <2>2. Passed'
    <3>1. ASSUME NEW k \in 1 .. 7, k < idx'[p] PROVE file'[Root][MoveOrder[k]] = Absent
      BY <1>1, <1>8, <2>1, <3>1
    <3>2. ASSUME NEW q \in Procs \ {p}, pc'[q] \in Moving, NEW k \in 1 .. 7, k < idx'[q]
          PROVE  file'[Root][MoveOrder[k]] = Absent
      BY <1>6, <1>7, <3>2, MoveOrderCovers DEF OrphanInv, Passed
    <3>3. \A q \in Procs : pc'[q] \in Early => idx'[q] = 1 /\ mig'[q] = NoOrg
      BY <1>7, <2>1 DEF OrphanInv, Passed, Early
    <3> QED BY <3>1, <3>2, <3>3 DEF Passed
  <2>3. Emptied'
    BY <1>3, <1>4, <1>7, <2>1 DEF Emptied, PastMove
  <2> QED BY <1>3, <2>2, <2>3 DEF NoOrphans
<1>10. CASE idx[p] = 7
  <2>1. pc'[p] = "meta" /\ idx'[p] = 1
    BY <1>10, MoveOrderCovers DEF OrphanInv, TypeOK, ProcsOK, NextMove, Goto
  <2>2. RootEmpty'
    BY <1>8, <1>10, MoveOrderCovers DEF RootEmpty
  <2>3. Passed'
    <3>1. \A k \in 1 .. 7 : file'[Root][MoveOrder[k]] = Absent
      BY <1>8, <1>10
    <3>2. \A q \in Procs : pc'[q] \in Early => idx'[q] = 1 /\ mig'[q] = NoOrg
      BY <1>7, <2>1 DEF OrphanInv, Passed, Early
    <3> QED BY <3>1, <3>2 DEF Passed
  <2> QED BY <1>3, <2>2, <2>3 DEF NoOrphans, Emptied
<1> QED BY <1>1, <1>9, <1>10

\* A step of p is about the locals of p.
LEMMA OwnLocals ==
  ASSUME TypeOK, NEW p \in Procs,
         \/ \E c \in Command, o \in Orgs \cup {NoOrg} : Begin(p, c, o)
         \/ Advance(p)
         \/ Stop(p)
  PROVE  \A q \in Procs \ {p} : pc'[q] = pc[q] /\ mig'[q] = mig[q] /\ idx'[q] = idx[q]
BY DEF TypeOK, ProcsOK, Begin, Stop, Advance, Migrate, EnsureLayout, EnsureFlat, Mark, Discover,
   DiscoverFails, MoveAbsent, MoveRename, MoveCopy, MoveFails, CopyDone, CopyUnlink,
   CopyUnlinkFails, MigrateMeta, MigrateMetaDone, Unmark, Body, Resolve, ResolveStale,
   ClearActive, Switch, WriteActive, WriteActiveDone, Enroll, EnrollRefused, WriteFile,
   SkipToken, WriteFileDone, Remove, ClearFile, ClearRefused, NextClear, RemoveDir,
   RemoveDirFails, Unselect, Goto, Return, NextMove

\* Every step of the migration keeps the orphan invariant.
LEMMA MigrateOrphans ==
  ASSUME OrphanInv, NEW p \in Procs, Migrate(p)
  PROVE  NoOrphans' /\ Passed' /\ Emptied'
<1>0. \A q \in Procs : pc[q] \in PC /\ idx[q] \in 1 .. 7
  BY DEF OrphanInv, TypeOK, ProcsOK
<1>00. \A q \in Procs \ {p} : pc'[q] = pc[q] /\ mig'[q] = mig[q] /\ idx'[q] = idx[q]
  BY OwnLocals DEF OrphanInv, Advance
<1>1. CASE EnsureLayout(p)
  <2>1. pc'[p] \in {"mark", "flat"}
    BY <1>1 DEF EnsureLayout, Goto, OrphanInv, TypeOK, ProcsOK
  <2>2. pc[p] = "ensure" /\ UNCHANGED <<file, marker, active, mig, idx>>
    BY <1>1 DEF EnsureLayout, store
  <2> QED BY <1>00, <2>1, <2>2, OtherProcs, QuietStep DEF OrphanInv, Passed, Early, Moving, PastMove
<1>11. CASE EnsureFlat(p)
  <2>1. pc[p] = "flat" /\ UNCHANGED <<file, marker, active, mig, idx>>
    BY <1>11 DEF EnsureFlat, store
  <2>2. mig[p] = NoOrg /\ idx[p] = 1
    BY <2>1 DEF OrphanInv, Passed, Early
  <2>3. CASE IsFlatStore
    <3>1. pc'[p] = "mark"
      BY <1>11, <2>3 DEF EnsureFlat, Goto, OrphanInv, TypeOK, ProcsOK
    <3> QED BY <1>00, <2>1, <2>2, <3>1, OtherProcs, QuietStep DEF OrphanInv, Moving, PastMove
  <2>4. CASE ~IsFlatStore
    <3>1. marker \/ RootEmpty
      BY <2>4 DEF OrphanInv, NoOrphans
    <3>2. pc'[p] = "body"
      BY <1>11, <2>4 DEF EnsureFlat, Goto, OrphanInv, TypeOK, ProcsOK
    <3> QED BY <1>00, <2>1, <2>2, <3>1, <3>2, OtherProcs, QuietStep DEF OrphanInv, Early, Moving, PastMove
  <2> QED BY <2>3, <2>4
<1>2. CASE Mark(p)
  <2>1. pc'[p] = "discover"
    BY <1>2 DEF Mark, Goto, OrphanInv, TypeOK, ProcsOK
  <2>2. pc[p] = "mark" /\ marker' /\ UNCHANGED <<file, active, mig, idx>>
    BY <1>2 DEF Mark
  <2>3. RootEmpty' = RootEmpty
    BY <2>2 DEF RootEmpty
  <2>4. Passed'
    BY <1>00, <2>1, <2>2 DEF OrphanInv, Passed, Early, Moving
  <2>5. Emptied'
    BY <1>00, <2>1, <2>2, <2>3 DEF OrphanInv, Emptied, PastMove
  <2> QED BY <2>2, <2>4, <2>5 DEF NoOrphans
<1>3. CASE Discover(p)
  <2>1. pc'[p] = "move"
    BY <1>3 DEF Discover, Goto, OrphanInv, TypeOK, ProcsOK
  <2>2. pc[p] = "discover" /\ UNCHANGED <<file, marker, active, idx>>
    BY <1>3 DEF Discover
  <2>3. idx'[p] = 1 /\ (marker \/ RootEmpty)
    BY <2>2 DEF OrphanInv, Passed, Emptied, Early
  <2> QED BY <1>00, <2>1, <2>2, <2>3, OtherProcs, QuietStep DEF OrphanInv, Early, PastMove
<1>4. CASE DiscoverFails(p) \/ MoveFails(p) \/ CopyUnlinkFails(p)
  BY <1>4, ReturnOrphans DEF DiscoverFails, MoveFails, CopyUnlinkFails, store
<1>5. CASE MoveAbsent(p)
  <2>1. pc[p] \in Moving /\ file[Root][MoveOrder[idx[p]]] = Absent
        /\ NextMove(p) /\ UNCHANGED <<file, marker, active, mig>>
    BY <1>5 DEF MoveAbsent, Moving, store
  <2>3. \A k \in 1 .. 7 : k <= idx[p] => file[Root][MoveOrder[k]] = Absent
    BY <1>0, <2>1 DEF OrphanInv, Passed
  <2>4. marker \/ RootEmpty
    BY <2>1 DEF OrphanInv, Emptied
  <2>5. CASE idx[p] < 7
    <3>1. pc'[p] = "move" /\ idx'[p] = idx[p] + 1
      BY <2>1, <2>5, MoveOrderCovers DEF OrphanInv, TypeOK, ProcsOK, NextMove, Goto
    <3>2. \A k \in 1 .. 7 : k < idx'[p] => file[Root][MoveOrder[k]] = Absent
      BY <1>0, <2>3, <3>1
    <3> QED BY <1>00, <2>1, <2>4, <3>1, <3>2, OtherProcs, QuietStep DEF OrphanInv, Early, PastMove
  <2>6. CASE idx[p] = 7
    <3>1. pc'[p] = "meta" /\ idx'[p] = 1
      BY <2>1, <2>6, MoveOrderCovers DEF OrphanInv, TypeOK, ProcsOK, NextMove, Goto
    <3>2. RootEmpty
      BY <2>3, <2>6, MoveOrderCovers DEF RootEmpty
    <3> QED BY <1>00, <2>1, <3>1, <3>2, OtherProcs, QuietStep DEF OrphanInv, Early, Moving
  <2> QED BY <1>0, <2>5, <2>6
<1>6. CASE MoveRename(p)
  <2> DEFINE f == MoveOrder[idx[p]]
  <2>1. mig[p] \in Orgs /\ mig[p] # Root
    BY <1>6, StoreAssumption DEF MoveRename, OrphanInv, TypeOK, LocalsOK
  <2>2. file'[Root] = [file[Root] EXCEPT ![f] = Absent]
    BY <1>6, <2>1, ContentFacts DEF MoveRename, OrphanInv, TypeOK, StoreOK, FileMap
  <2> QED BY <1>6, <2>2, TakeOrphans DEF MoveRename, Moving
<1>7. CASE MoveCopy(p) \/ CopyDone(p)
  <2>1. mig[p] \in Orgs /\ mig[p] # Root
    BY <1>7, StoreAssumption DEF MoveCopy, CopyDone, OrphanInv, TypeOK, LocalsOK
  <2>2. file'[Root] = file[Root]
    BY <1>7, <2>1, ContentFacts DEF MoveCopy, CopyDone, Fill, OrphanInv, TypeOK, StoreOK, FileMap
  <2>3. pc'[p] \in {"copy", "unlink"}
    BY <1>7 DEF MoveCopy, CopyDone, Goto, OrphanInv, TypeOK, ProcsOK
  <2>4. pc[p] \in Moving /\ UNCHANGED <<marker, active, idx>>
    BY <1>7 DEF MoveCopy, CopyDone, Moving
  <2>5. marker \/ RootEmpty
    BY <2>4 DEF OrphanInv, Emptied
  <2> QED BY <1>00, <2>2, <2>3, <2>4, <2>5, OtherProcs, QuietStep DEF OrphanInv, Passed, Early, PastMove
<1>8. CASE CopyUnlink(p)
  <2>1. file'[Root] = [file[Root] EXCEPT ![MoveOrder[idx[p]]] = Absent]
    BY <1>8, ContentFacts DEF CopyUnlink, OrphanInv, TypeOK, StoreOK, FileMap
  <2> QED BY <1>8, <2>1, TakeOrphans DEF CopyUnlink, Moving
<1>9. CASE MigrateMeta(p) \/ MigrateMetaDone(p)
  <2>1. mig[p] \in Orgs /\ mig[p] # Root
    BY <1>9, StoreAssumption DEF MigrateMeta, MigrateMetaDone, OrphanInv, TypeOK, LocalsOK
  <2>2. file'[Root] = file[Root]
    BY <1>9, <2>1, ContentFacts DEF MigrateMeta, MigrateMetaDone, Fill, OrphanInv, TypeOK, StoreOK, FileMap
  <2>3. RootEmpty
    BY <1>9, <2>1, StoreAssumption DEF MigrateMeta, MigrateMetaDone, OrphanInv, Emptied, PastMove
  <2>4. PICK l \in {"newmeta", "activate"} : Goto(p, l)
    BY <1>9 DEF MigrateMeta, MigrateMetaDone
  <2>5. UNCHANGED <<marker, active, mig, idx>>
    BY <1>9 DEF MigrateMeta, MigrateMetaDone
  <2> QED BY <2>2, <2>3, <2>4, <2>5, PastOrphans DEF PC, Early, Moving
<1>10. CASE Unmark(p)
  <2>0. mig[p] # NoOrg
    BY <1>10, StoreAssumption DEF Unmark, OrphanInv, TypeOK, LocalsOK
  <2>1. RootEmpty /\ UNCHANGED <<file, active>> /\ ~marker'
    BY <1>10, <2>0 DEF Unmark, OrphanInv, Emptied, PastMove
  <2>2. RootEmpty'
    BY <2>1 DEF RootEmpty
  <2>4. pc'[p] = "body" \/ (pc'[p] = "idle" /\ idx'[p] = 1 /\ mig'[p] = NoOrg)
    BY <1>10 DEF Unmark, Return, Goto, OrphanInv, TypeOK, ProcsOK
  <2>5. \A k \in 1 .. 7 : file'[Root][MoveOrder[k]] = Absent
    BY <2>2, MoveOrderCovers DEF RootEmpty
  <2>6. Passed'
    BY <1>00, <2>4, <2>5 DEF OrphanInv, Passed, Early
  <2> QED BY <2>2, <2>6 DEF Emptied, NoOrphans
<1> QED BY <1>1, <1>11, <1>2, <1>3, <1>4, <1>5, <1>6, <1>7, <1>8, <1>9, <1>10 DEF Migrate

\* Enrolling, switching, removing and resolving leave the root alone.
LEMMA BodyLeavesRoot ==
  ASSUME TypeOK, NEW p \in Procs, Body(p)
  PROVE  file'[Root] = file[Root]
<1>1. CASE WriteFile(p) \/ WriteFileDone(p) \/ ClearFile(p) \/ RemoveDir(p) \/ RemoveDirFails(p)
  <2>1. target[p] # Root
    BY <1>1, StoreAssumption
       DEF WriteFile, WriteFileDone, ClearFile, RemoveDir, RemoveDirFails, TypeOK, LocalsOK
  <2> QED BY <1>1, <2>1, ContentFacts
          DEF WriteFile, WriteFileDone, ClearFile, RemoveDir, RemoveDirFails, Fill, TypeOK,
              StoreOK, FileMap
<1> QED BY <1>1 DEF Body, Resolve, ResolveStale, ClearActive, Switch, WriteActive,
        WriteActiveDone, Enroll, EnrollRefused, SkipToken, Remove, ClearRefused, Unselect, store

\* They keep the invariant.
LEMMA BodyOrphans ==
  ASSUME OrphanInv, NEW p \in Procs, Body(p)
  PROVE  NoOrphans' /\ Passed' /\ Emptied'
<1>1. file'[Root] = file[Root]
  BY BodyLeavesRoot DEF OrphanInv
<1> USE DEF Body, Resolve, ResolveStale, ClearActive, Switch, WriteActive,
        WriteActiveDone, Enroll, EnrollRefused, Remove, ClearRefused, NextClear, Unselect,
        WriteFile, SkipToken, WriteFileDone, ClearFile, RemoveDir, RemoveDirFails
<1>2. marker' = marker
  BY DEF store
<1>3. active' = active \/ active' = NoOrg \/ marker \/ RootEmpty
  BY DEF store, OrphanInv, Emptied, PastMove
<1>4. \/ Return(p)
      \/ /\ mig' = mig
         /\ \E l \in {"clear", "activate", "activating", "unmark", "write", "writing",
                     "delete", "rmdir", "unselect"} :
              /\ Goto(p, l)
              /\ l \in PastMove => pc[p] \in PastMove
  BY DEF PastMove
<1>5. \A q \in Procs \ {p} : idx'[q] = idx[q]
  BY OwnLocals DEF OrphanInv, Advance
<1>6. CASE Return(p)
  BY <1>1, <1>2, <1>3, <1>6, ReturnOrphans
<1>7. CASE ~Return(p)
  <2>1. PICK l \in {"clear", "activate", "activating", "unmark", "write", "writing", "delete", "rmdir", "unselect"} :
           Goto(p, l) /\ (l \in PastMove => pc[p] \in PastMove)
    BY <1>4, <1>7
  <2>2. /\ l \in PastMove => marker \/ RootEmpty
        /\ l \in PastMove /\ mig[p] # NoOrg => RootEmpty
    BY <2>1 DEF OrphanInv, Emptied
  <2>3. l \in PC \ (Moving \cup Early)
    BY DEF PC, Moving, Early
  <2>4. mig' = mig
    BY <1>4, <1>7
  <2> QED BY <1>1, <1>2, <1>3, <1>5, <2>1, <2>2, <2>3, <2>4, PastOrphans
<1> QED BY <1>6, <1>7

\* The orphan invariant is inductive.
LEMMA NextOrphans == OrphanInv /\ [Next]_vars => OrphanInv'
<1> SUFFICES ASSUME OrphanInv, [Next]_vars PROVE OrphanInv'
  OBVIOUS
<1>1. TypeOK'
  BY NextType DEF OrphanInv
<1>2. ASSUME NEW p \in Procs, NEW c \in Command, NEW o \in Orgs \cup {NoOrg}, Begin(p, c, o)
      PROVE  NoOrphans' /\ Passed' /\ Emptied'
  <2>1. pc'[p] = "ensure" /\ \A q \in Procs \ {p} : pc'[q] = pc[q]
    BY <1>2 DEF Begin, Goto, OrphanInv, TypeOK, ProcsOK
  <2>2. pc[p] = "idle" /\ UNCHANGED <<file, marker, active, mig, idx>>
    BY <1>2 DEF Begin, store
  <2> QED BY <2>1, <2>2, OtherProcs, QuietStep DEF OrphanInv, Passed, Early, Moving, PastMove
<1>3. ASSUME NEW p \in Procs, Stop(p)
      PROVE  NoOrphans' /\ Passed' /\ Emptied'
  BY <1>3, ReturnOrphans DEF Stop, store
<1>4. CASE UNCHANGED vars
  BY <1>1, <1>4 DEF vars, OrphanInv, NoOrphans, Passed, Emptied, RootEmpty, IsFlatStore
<1> QED BY <1>1, <1>2, <1>3, <1>4, MigrateOrphans, BodyOrphans DEF OrphanInv, Next, Advance

\* Whatever processes migrate, enroll, switch and remove at the same time, and
\* wherever they stop, no flat credential file is left behind unnoticed.
THEOREM NoFlatFileOrphaned == Spec => []NoOrphans
<1>1. Init => OrphanInv
  BY InitType, InitOrphans DEF OrphanInv
<1>2. OrphanInv => NoOrphans
  BY DEF OrphanInv
<1> QED BY <1>1, <1>2, NextOrphans, PTL DEF Spec

\* Nothing but a migration writes at the root, and it only takes away.
LEMMA RootStaysEmpty == TypeOK /\ RootEmpty /\ [Next]_vars => RootEmpty'
<1> SUFFICES ASSUME TypeOK, RootEmpty, [Next]_vars PROVE file'[Root] = file[Root]
  BY DEF RootEmpty
<1>1. ASSUME NEW p \in Procs, Body(p)
      PROVE  file'[Root] = file[Root]
  BY <1>1, BodyLeavesRoot
<1>2. ASSUME NEW p \in Procs, Migrate(p)
      PROVE  file'[Root] = file[Root]
  <2>1. MoveOrder[idx[p]] \in FileName
    BY MoveOrderCovers DEF TypeOK, ProcsOK
  <2>2. ~MoveRename(p) /\ ~MoveCopy(p) /\ ~CopyUnlink(p)
    BY <2>1 DEF MoveRename, MoveCopy, CopyUnlink, RootEmpty
  <2>3. CASE CopyDone(p) \/ MigrateMeta(p) \/ MigrateMetaDone(p)
    <3>1. mig[p] # Root
      BY <2>3, StoreAssumption DEF CopyDone, MigrateMeta, MigrateMetaDone, TypeOK, LocalsOK
    <3>2. file' = file \/ \E f, c : file' = [file EXCEPT ![mig[p]][f] = c]
      BY <2>3 DEF CopyDone, MigrateMeta, MigrateMetaDone, Fill
    <3> QED BY <3>1, <3>2, ContentFacts DEF TypeOK, StoreOK, FileMap
  <2> QED BY <1>2, <2>2, <2>3
          DEF Migrate, EnsureLayout, EnsureFlat, Mark, Discover, DiscoverFails, MoveAbsent,
              MoveFails, CopyUnlinkFails, Unmark, store
<1>3. CASE UNCHANGED vars
  BY <1>3 DEF vars
<1> QED BY <1>1, <1>2, <1>3 DEF Next, Advance, Begin, Stop, store

\* Once a store has neither a marker nor a key at the root - what the layout check
\* looks at - it is migrated for good: no flat file is there, and no process,
\* whatever it saw before that and however far it is, leaves or puts one there
\* again.
THEOREM MigratedForGood == Spec => [](~Pending => []RootEmpty)
<1>1. Init => OrphanInv
  BY InitType, InitOrphans DEF OrphanInv
<1>2. OrphanInv => (~Pending => RootEmpty) /\ TypeOK
  BY DEF OrphanInv, NoOrphans, Pending
<1> QED BY <1>1, <1>2, NextOrphans, RootStaysEmpty, PTL DEF Spec

-----------------------------------------------------------------------------
(* The files of the store, one by one.                                       *)

\* What one write does to every file of the store.
Sets(d, f, c) ==
  \A e \in Place, g \in FileName : file'[e][g] = IF e = d /\ g = f THEN c ELSE file[e][g]

\* What a rename of f out of the root does.
Renames(d, m, f, c) ==
  \A e \in Place, g \in FileName :
    file'[e][g] = IF e = Root /\ g = f THEN Absent
                  ELSE IF e = d /\ g = m THEN c ELSE file[e][g]

\* A write, and a write through an open descriptor.
LEMMA Written ==
  ASSUME TypeOK, NEW d \in Place, NEW f \in FileName, NEW c
  PROVE  /\ file' = [file EXCEPT ![d][f] = c] => Sets(d, f, c)
         /\ Fill(d, f, c) => Sets(d, f, IF file[d][f] = Absent THEN Absent ELSE c)
<1>1. file \in FileMap
  BY DEF TypeOK, StoreOK
<1>2. ASSUME file' = [file EXCEPT ![d][f] = c] PROVE Sets(d, f, c)
  BY <1>1, <1>2 DEF Sets, FileMap
<1>3. ASSUME Fill(d, f, c)
      PROVE  Sets(d, f, IF file[d][f] = Absent THEN Absent ELSE c)
  BY <1>1, <1>3 DEF Sets, FileMap, Fill
<1> QED BY <1>2, <1>3

\* os.Rename of a flat file to its name in an organization directory.
LEMMA Renamed ==
  ASSUME TypeOK, NEW d \in Orgs, NEW m \in FileName, NEW f \in FileName, NEW c
  PROVE  file' = [file EXCEPT ![d][m] = c, ![Root][f] = Absent] => Renames(d, m, f, c)
<1>1. file \in FileMap /\ d \in Place /\ d # Root
  BY StoreAssumption DEF TypeOK, StoreOK, Place
<1> QED BY <1>1, ContentFacts DEF FileMap, Renames

\* The names a migration meets, at the root and in the organization directory.
LEMMA MoveNames ==
  ASSUME TypeOK, NEW p \in Procs
  PROVE  /\ idx[p] \in 1 .. 7
         /\ MoveOrder[idx[p]] \in FileName
         /\ MovedName(MoveOrder[idx[p]]) \in FileName
         /\ \A f \in Bundle : f \in FileName /\ MovedName(f) = f
         /\ \A f \in FileName, g \in Bundle : MovedName(f) = g => f = g
<1>1. idx[p] \in 1 .. 7 /\ MoveOrder[idx[p]] \in FileName
  BY MoveOrderCovers DEF TypeOK, ProcsOK
<1> QED BY <1>1 DEF MovedName, FileName, Bundle

\* Only the two last steps of a move take a file from the root.
LEMMA RootSteps ==
  ASSUME TypeOK, NEW p \in Procs,
         \/ \E c \in Command, o \in Orgs \cup {NoOrg} : Begin(p, c, o)
         \/ Advance(p)
         \/ Stop(p)
  PROVE  \/ file'[Root] = file[Root]
         \/ MoveRename(p) \/ CopyUnlink(p)
<1>1. CASE (\E c \in Command, o \in Orgs \cup {NoOrg} : Begin(p, c, o)) \/ Stop(p)
  BY <1>1 DEF Begin, Stop, store
<1>2. CASE MoveCopy(p) \/ CopyDone(p) \/ MigrateMeta(p) \/ MigrateMetaDone(p)
  <2>1. mig[p] # Root
    BY <1>2, StoreAssumption DEF MoveCopy, CopyDone, MigrateMeta, MigrateMetaDone, TypeOK, LocalsOK
  <2> QED BY <1>2, <2>1, ContentFacts
          DEF MoveCopy, CopyDone, MigrateMeta, MigrateMetaDone, Fill, TypeOK, StoreOK, FileMap
<1>4. CASE Migrate(p) /\ ~(MoveCopy(p) \/ CopyDone(p) \/ MigrateMeta(p) \/ MigrateMetaDone(p))
  BY <1>4 DEF Migrate, EnsureLayout, EnsureFlat, Mark, Discover, DiscoverFails, MoveAbsent,
     MoveFails, CopyUnlinkFails, Unmark, store
<1>5. CASE Body(p)
  BY <1>5, BodyLeavesRoot
<1> QED BY <1>1, <1>2, <1>4, <1>5 DEF Advance

-----------------------------------------------------------------------------
(***************************************************************************)
(* A migration keeps the files. While any flat file is left, nobody is     *)
(* past the migration, so all there is belongs to the one organization of  *)
(* the flat store, and every process moves to that one. The copy fallback  *)
(* of moveIfExists is sound only while commands do not overlap: one would  *)
(* truncate the copy for which the other removes the original. And no      *)
(* command may have got past the check while another migrates: it would    *)
(* write where the migration moves to.                                     *)
(***************************************************************************)

\* The content of the flat store of o.
Old(o) == [org |-> o, gen |-> 0]

\* Nothing but the flat store of o, some of it moved to its directory.
MoveShape(o) ==
  /\ dirs \subseteq {o}
  /\ \A f \in FileName : /\ file[Root][f] \in {Absent, Old(o)}
                         /\ file[o][f] \in {Absent, Torn, Old(o)}
  /\ \A d \in Orgs \ {o}, f \in FileName : file[d][f] = Absent

Unmoved(o) ==
  /\ MoveShape(o)
  /\ \A p \in Procs : /\ pc[p] \in Early \cup Moving
                      /\ pc[p] \in Moving => mig[p] = o

FlatFacts == ~RootEmpty => \E o \in Orgs : Unmoved(o)

\* In the middle of a copy the original is there; before it is removed, the
\* copy is whole.
CopyFacts ==
  \A p \in Procs :
    /\ pc[p] \in {"copy", "unlink"} => RenameMayFail /\ file[Root][MoveOrder[idx[p]]] # Absent
    /\ pc[p] = "copy" => /\ buf[p] = file[Root][MoveOrder[idx[p]]]
                         /\ file[mig[p]][MovedName(MoveOrder[idx[p]])] = Torn
    /\ pc[p] = "unlink" =>
         file[mig[p]][MovedName(MoveOrder[idx[p]])] = file[Root][MoveOrder[idx[p]]]

\* No migration begins while another command is between the two files that its
\* layout check looks at. Then a command that is past the check sees no flat file.
Unraced == \A p \in Procs : pc[p] = "flat" => ~marker
Cleared == \A p \in Procs : pc[p] \in PastMove => RootEmpty

FlatInv == OrphanInv /\ Cleared /\ FlatFacts /\ CopyFacts

\* At most one process is in a command, as if commands took a lock; others may
\* have run before it, and may have stopped anywhere. At least, where files are
\* copied.
Serial == \A p, q \in Procs : pc[p] # "idle" /\ pc[q] # "idle" => p = q
CopiesAlone == RenameMayFail => Serial

\* The agent as the only process is one way to be serial.
LEMMA OneIsSerial ==
  ASSUME \A p, q \in Procs : p = q
  PROVE  Serial
BY DEF Serial

\* A step of p while commands do not overlap: everyone else is idle, before and
\* after, and keeps what it has.
LEMMA Alone ==
  ASSUME TypeOK, Serial, Serial', NEW p \in Procs,
         \/ \E c \in Command, o \in Orgs \cup {NoOrg} : Begin(p, c, o)
         \/ Advance(p)
         \/ Stop(p)
  PROVE  \A q \in Procs \ {p} :
           pc[q] = "idle" /\ pc'[q] = "idle" /\ mig'[q] = mig[q] /\ idx'[q] = idx[q]
<1>1. \A q \in Procs \ {p} : pc'[q] = pc[q] /\ mig'[q] = mig[q] /\ idx'[q] = idx[q]
  BY OwnLocals
<1>2. pc[p] # "idle" \/ pc'[p] # "idle"
  BY DEF TypeOK, ProcsOK, Begin, Stop, Advance, Migrate, EnsureLayout, EnsureFlat, Mark, Discover,
     DiscoverFails, MoveAbsent, MoveRename, MoveCopy, MoveFails, CopyDone, CopyUnlink,
     CopyUnlinkFails, MigrateMeta, MigrateMetaDone, Unmark, Body, Resolve, ResolveStale,
     ClearActive, Switch, WriteActive, WriteActiveDone, Enroll, EnrollRefused, SkipToken, WriteFile,
     WriteFileDone, Remove, ClearFile, ClearRefused, NextClear, RemoveDir, RemoveDirFails, Unselect, Goto
<1> QED BY <1>1, <1>2 DEF Serial

LEMMA OldFacts ==
  ASSUME NEW o \in Orgs
  PROVE  /\ Old(o) \in Identity /\ Old(o) \in Content
         /\ Old(o) # Absent /\ Old(o) # Torn /\ Absent # Torn
         /\ Old(o).org = o /\ Old(o).gen = 0
         /\ o \in Place /\ o # Root /\ o # NoOrg
BY StoreAssumption, FileAssumption DEF Old, Identity, Content, Place

\* discoverMigrationOrgID finds the organization of the flat store or nothing.
LEMMA DiscoverShape ==
  ASSUME TypeOK, NEW o \in Orgs, MoveShape(o), DiscoverOrg # NoOrg
  PROVE  DiscoverOrg = o
<1> DEFINE named == {file[d]["crt"].org : d \in {e \in dirs : file[e]["crt"] \in Identity}}
<1>0. "crt" \in FileName
  BY DEF FileName
<1>1. CASE file[Root]["crt"] \in Identity
  <2>1. file[Root]["crt"] = Old(o)
    BY <1>0, <1>1, FileAssumption DEF MoveShape
  <2> QED BY <1>1, <2>1, OldFacts DEF DiscoverOrg
<1>2. CASE file[Root]["crt"] \notin Identity
  <2>1. \A d \in dirs : file[d]["crt"] \in Identity => file[d]["crt"].org = o
    BY <1>0, OldFacts, FileAssumption DEF MoveShape
  <2>2. named \subseteq {o}
    BY <2>1
  <2>3. PICK x \in Orgs : named = {x}
    BY <1>2 DEF DiscoverOrg
  <2>4. x = o
    BY <2>2, <2>3
  <2>5. \A y \in Orgs : named = {y} => y = o
    BY <2>2
  <2>6. DiscoverOrg = CHOOSE y \in Orgs : named = {y}
    BY <1>2, <2>3 DEF DiscoverOrg
  <2> QED BY <2>3, <2>4, <2>5, <2>6
<1> QED BY <1>1, <1>2

\* A step of a migration into the directory of the flat store's organization
\* keeps the shape of the store.
LEMMA StepShape ==
  ASSUME TypeOK, CopyFacts, NEW o \in Orgs, MoveShape(o), NEW p \in Procs, Migrate(p),
         pc[p] \notin Early \cup {"body"} => mig[p] = o
  PROVE  MoveShape(o)'
<1> DEFINE f == MoveOrder[idx[p]]
           m == MovedName(f)
<1>1. /\ f \in FileName /\ m \in FileName /\ "meta" \in FileName
      /\ Root \in Place /\ \A d \in Orgs : d \in Place /\ d # Root
  BY MoveNames, ContentFacts, OldFacts DEF FileName
<1>2. ASSUME file' = file, dirs' \subseteq dirs \cup {o} PROVE MoveShape(o)'
  BY <1>2 DEF MoveShape
<1>3. ASSUME dirs' \subseteq dirs \cup {o}, NEW g \in FileName,
             NEW c \in {Absent, Torn, Old(o)}, Sets(o, g, c)
      PROVE  MoveShape(o)'
  <2>1. \A e \in Place, h \in FileName : file'[e][h] = IF e = o /\ h = g THEN c ELSE file[e][h]
    BY <1>3 DEF Sets
  <2>2. \A h \in FileName : file'[Root][h] = file[Root][h]
    BY <1>1, <2>1
  <2>3. \A d \in Orgs \ {o}, h \in FileName : file'[d][h] = file[d][h]
    BY <1>1, <2>1
  <2>4. \A h \in FileName : file'[o][h] \in {file[o][h], c}
    BY <1>1, <2>1
  <2> QED BY <1>3, <2>2, <2>3, <2>4 DEF MoveShape
<1>4. CASE EnsureLayout(p) \/ EnsureFlat(p) \/ Mark(p) \/ DiscoverFails(p) \/ MoveAbsent(p) \/ MoveFails(p)
           \/ CopyUnlinkFails(p) \/ Unmark(p)
  BY <1>2, <1>4 DEF EnsureLayout, EnsureFlat, Mark, DiscoverFails, MoveAbsent, MoveFails,
     CopyUnlinkFails, Unmark, store
<1>5. CASE Discover(p)
  BY <1>2, <1>5, DiscoverShape DEF Discover
<1>6. CASE MoveRename(p)
  <2>1. mig[p] = o /\ dirs' = dirs
    BY <1>6 DEF MoveRename, Early
  <2>2. file' = [file EXCEPT ![o][m] = file[Root][f], ![Root][f] = Absent]
    BY <1>6, <2>1 DEF MoveRename
  <2>3. Renames(o, m, f, file[Root][f])
    BY <1>1, <2>2, Renamed
  <2>4. file[Root][f] = Old(o)
    BY <1>1, <1>6 DEF MoveRename, MoveShape
  <2> QED BY <1>1, <2>1, <2>3, <2>4 DEF MoveShape, Renames
<1>7. CASE MoveCopy(p)
  <2>1. mig[p] = o /\ dirs' = dirs /\ file' = [file EXCEPT ![mig[p]][m] = Torn]
    BY <1>7 DEF MoveCopy, Early
  <2> QED BY <1>1, <1>3, <2>1, Written
<1>8. CASE CopyDone(p)
  <2>1. mig[p] = o /\ dirs' = dirs /\ Fill(mig[p], m, buf[p])
    BY <1>8 DEF CopyDone, Early
  <2>2. buf[p] = Old(o)
    BY <1>1, <1>8 DEF CopyDone, CopyFacts, MoveShape
  <2>3. PICK c \in {Absent, Old(o)} : Sets(o, m, c)
    BY <1>1, <2>1, <2>2, Written
  <2> QED BY <1>1, <1>3, <2>1, <2>3
<1>9. CASE CopyUnlink(p)
  <2>1. file' = [file EXCEPT ![Root][f] = Absent] /\ dirs' = dirs
    BY <1>9 DEF CopyUnlink
  <2>2. Sets(Root, f, Absent)
    BY <1>1, <2>1, Written
  <2> QED BY <1>1, <2>1, <2>2 DEF MoveShape, Sets
<1>10. CASE MigrateMeta(p)
  <2>1. mig[p] = o /\ dirs' \subseteq dirs \cup {o}
    BY <1>10 DEF MigrateMeta, Early
  <2>2. file' = file \/ file' = [file EXCEPT ![mig[p]]["meta"] = Torn]
    BY <1>10 DEF MigrateMeta
  <2> QED BY <1>1, <1>2, <1>3, <2>1, <2>2, Written
<1>11. CASE MigrateMetaDone(p)
  <2>1. mig[p] = o /\ dirs' = dirs /\ Fill(mig[p], "meta", Old(o))
    BY <1>11 DEF MigrateMetaDone, Early, Old
  <2>2. PICK c \in {Absent, Old(o)} : Sets(o, "meta", c)
    BY <1>1, <2>1, Written
  <2> QED BY <1>1, <1>3, <2>1, <2>2
<1> QED BY <1>4, <1>5, <1>6, <1>7, <1>8, <1>9, <1>10, <1>11 DEF Migrate

\* Initially either nothing is flat, or there is the flat store of one organization.
LEMMA InitShape ==
  ASSUME Init
  PROVE  RootEmpty \/ \E o \in Orgs :
           /\ MoveShape(o) /\ dirs = {} /\ active = NoOrg
           /\ \A f \in Bundle : file[Root][f] = Old(o)
           /\ \A f \in FileName : file[o][f] = Absent
<1>1. CASE EmptyStore \/ OrgStore
  BY <1>1, StoreAssumption, ContentFacts DEF EmptyStore, OrgStore, Files, RootEmpty
<1>2. CASE FlatStore
  <2>1. PICK o \in Orgs, extra \in {{}, {"tok"}, {"tok", "legacy"}} :
          /\ file = [d \in Place |-> IF d = Root THEN Files(Bundle \cup extra, o) ELSE Files({}, d)]
          /\ dirs = {}
          /\ active = NoOrg
    BY <1>2 DEF FlatStore
  <2>2. \A f \in FileName : /\ file[Root][f] \in {Absent, Old(o)}
                            /\ f \in Bundle => file[Root][f] = Old(o)
    BY <2>1, ContentFacts DEF Files, Old
  <2>3. \A d \in Orgs, f \in FileName : file[d][f] = Absent
    BY <2>1, OldFacts DEF Files
  <2> QED BY <2>1, <2>2, <2>3 DEF MoveShape, Bundle, FileName
<1> QED BY <1>1, <1>2 DEF Init

\* A migration starts with nothing in the middle of a copy.
LEMMA InitFlat == Init => FlatFacts /\ CopyFacts
<1> SUFFICES ASSUME Init PROVE FlatFacts /\ CopyFacts
  OBVIOUS
<1>1. \A p \in Procs : pc[p] = "idle"
  BY DEF Init
<1> QED BY <1>1, InitShape DEF FlatFacts, CopyFacts, Unmoved, Early, Moving

\* While commands do not overlap, and where nothing is copied, a copy that was
\* begun is there when its original is removed.
LEMMA NextCopy ==
  ASSUME FlatInv, CopiesAlone, CopiesAlone', [Next]_vars
  PROVE  CopyFacts'
<1>0. /\ file \in FileMap /\ \A d \in Orgs : d \in Place /\ d # Root
      /\ pc \in [Procs -> PC] /\ idx \in [Procs -> 1 .. 7] /\ buf \in [Procs -> Content]
      /\ Root \in Place /\ Torn # Absent
  BY OldFacts, ContentFacts, FileAssumption DEF FlatInv, OrphanInv, TypeOK, StoreOK, ProcsOK
<1>1. CASE UNCHANGED vars
  BY <1>1 DEF vars, FlatInv, CopyFacts
<1>2. ASSUME NEW p \in Procs,
             \/ \E c \in Command, o \in Orgs \cup {NoOrg} : Begin(p, c, o)
             \/ Advance(p)
             \/ Stop(p)
      PROVE  CopyFacts'
  <2> DEFINE f == MoveOrder[idx[p]]
             m == MovedName(f)
  <2>1. /\ f \in FileName /\ m \in FileName
        /\ \A q \in Procs \ {p} : pc'[q] = pc[q]
        /\ pc'[p] \in {"copy", "unlink"} => MoveCopy(p) \/ CopyDone(p)
    BY <1>0, <1>2, MoveNames
    DEF FlatInv, OrphanInv, Begin, Stop, Advance, Migrate, EnsureLayout, EnsureFlat, Mark, Discover,
        DiscoverFails, MoveAbsent, MoveRename, MoveCopy, MoveFails, CopyDone, CopyUnlink,
        CopyUnlinkFails, MigrateMeta, MigrateMetaDone, Unmark, Body, Resolve, ResolveStale,
        ClearActive, Switch, WriteActive, WriteActiveDone, Enroll, EnrollRefused, SkipToken, WriteFile,
        WriteFileDone, Remove, ClearFile, ClearRefused, NextClear, RemoveDir, RemoveDirFails, Unselect, Goto, Return,
        NextMove
  <2>2. CASE pc'[p] \notin {"copy", "unlink"}
    <3>1. ASSUME NEW q \in Procs, pc'[q] \in {"copy", "unlink"} PROVE FALSE
      <4>1. q # p /\ pc[q] \in {"copy", "unlink"} /\ RenameMayFail
        BY <2>1, <2>2, <3>1 DEF FlatInv, CopyFacts
      <4>2. pc[q] = "idle"
        BY <1>2, <4>1, Alone DEF CopiesAlone, FlatInv, OrphanInv
      <4> QED BY <4>1, <4>2
    <3> QED BY <3>1 DEF CopyFacts
  <2>3. CASE MoveCopy(p)
    <3>1. /\ RenameMayFail /\ file[Root][f] # Absent /\ pc[p] = "move"
          /\ buf' = [buf EXCEPT ![p] = file[Root][f]] /\ idx' = idx /\ mig' = mig
          /\ file' = [file EXCEPT ![mig[p]][m] = Torn]
      BY <2>3 DEF MoveCopy
    <3>2. mig[p] \in Orgs
      BY <3>1 DEF FlatInv, OrphanInv, TypeOK, LocalsOK
    <3>3. file'[mig[p]][m] = Torn /\ file'[Root][f] = file[Root][f]
      <4>1. Sets(mig[p], m, Torn)
        BY <1>0, <2>1, <3>1, <3>2, Written DEF FlatInv, OrphanInv
      <4> QED BY <1>0, <2>1, <3>2, <4>1 DEF Sets
    <3>4. pc'[p] = "copy" /\ \A q \in Procs \ {p} : pc'[q] = "idle"
      BY <1>0, <2>3, <3>1 DEF MoveCopy, Goto, CopiesAlone, Serial
    <3> QED BY <1>0, <3>1, <3>3, <3>4 DEF CopyFacts
  <2>4. CASE CopyDone(p)
    <3>1. /\ RenameMayFail /\ file[Root][f] # Absent /\ pc[p] = "copy"
          /\ buf[p] = file[Root][f] /\ file[mig[p]][m] = Torn /\ idx' = idx /\ mig' = mig
          /\ Fill(mig[p], m, buf[p])
      BY <2>4 DEF CopyDone, FlatInv, CopyFacts
    <3>2. mig[p] \in Orgs
      BY <3>1 DEF FlatInv, OrphanInv, TypeOK, LocalsOK
    <3>3. Sets(mig[p], m, buf[p])
      BY <1>0, <2>1, <3>1, <3>2, Written DEF FlatInv, OrphanInv
    <3>4. file'[mig[p]][m] = buf[p] /\ file'[Root][f] = file[Root][f]
      BY <1>0, <2>1, <3>2, <3>3 DEF Sets
    <3>5. pc'[p] = "unlink" /\ \A q \in Procs \ {p} : pc'[q] = "idle"
      BY <1>0, <2>4, <3>1 DEF CopyDone, Goto, CopiesAlone, Serial
    <3> QED BY <3>1, <3>4, <3>5 DEF CopyFacts
  <2> QED BY <2>1, <2>2, <2>3, <2>4
<1> QED BY <1>1, <1>2 DEF Next

\* A command gets past the check, or past its migration, when no flat file is left.
LEMMA NextCleared ==
  ASSUME OrphanInv, OrphanInv', Cleared, Unraced, [Next]_vars
  PROVE  Cleared'
<1>1. CASE RootEmpty
  BY <1>1, RootStaysEmpty DEF Cleared, OrphanInv
<1>2. CASE UNCHANGED vars
  BY <1>2 DEF vars, Cleared, RootEmpty
<1>3. ASSUME ~RootEmpty, NEW p \in Procs,
             \/ \E c \in Command, o \in Orgs \cup {NoOrg} : Begin(p, c, o)
             \/ Advance(p)
             \/ Stop(p),
             NEW q \in Procs, pc'[q] \in PastMove
      PROVE  RootEmpty'
  <2>1. pc[q] \notin PastMove /\ pc[p] \notin PastMove
    BY <1>3 DEF Cleared
  <2>2. q = p
    BY <1>3, <2>1, OwnLocals DEF OrphanInv
  <2>3. pc'[p] = "meta"
    <3>1. pc \in [Procs -> PC]
      BY DEF OrphanInv, TypeOK, ProcsOK
    <3>2. CASE Migrate(p) /\ ~EnsureFlat(p)
      BY <1>3, <2>1, <2>2, <3>1, <3>2
      DEF Migrate, EnsureLayout, Mark, Discover, DiscoverFails, MoveAbsent, MoveRename,
          MoveCopy, MoveFails, CopyDone, CopyUnlink, CopyUnlinkFails, MigrateMeta,
          MigrateMetaDone, Unmark, NextMove, Return, Goto, PastMove
    <3>3. CASE EnsureFlat(p)
      <4>1. ~marker /\ IsFlatStore
        BY <1>3, <3>3 DEF EnsureFlat, Unraced, OrphanInv, NoOrphans
      <4> QED BY <1>3, <2>2, <3>1, <3>3, <4>1 DEF EnsureFlat, Goto, PastMove
    <3>4. CASE Body(p)
      BY <1>3, <2>1, <2>2, <3>1, <3>4
      DEF Body, Resolve, ResolveStale, ClearActive, Switch, WriteActive, WriteActiveDone,
          Enroll, EnrollRefused, WriteFile, SkipToken, WriteFileDone, Remove, ClearFile,
          ClearRefused, NextClear, RemoveDir, RemoveDirFails, Unselect, Return, Goto, PastMove
    <3>5. CASE (\E c \in Command, o \in Orgs \cup {NoOrg} : Begin(p, c, o)) \/ Stop(p)
      BY <1>3, <2>2, <3>1, <3>5 DEF Begin, Stop, Return, Goto, PastMove
    <3> QED BY <1>3, <3>2, <3>3, <3>4, <3>5 DEF Advance
  <2> QED BY <2>3, StoreAssumption DEF OrphanInv, Emptied, TypeOK, LocalsOK, PastMove
<1> QED BY <1>1, <1>2, <1>3 DEF Next, Cleared

\* Where commands do not overlap, nobody marks between the two looks of another.
LEMMA SerialUnraced ==
  ASSUME TypeOK, Unraced, Serial, Serial', [Next]_vars
  PROVE  Unraced'
<1>1. CASE UNCHANGED vars
  BY <1>1 DEF vars, Unraced
<1>2. ASSUME NEW p \in Procs,
             \/ \E c \in Command, o \in Orgs \cup {NoOrg} : Begin(p, c, o)
             \/ Advance(p)
             \/ Stop(p)
      PROVE  Unraced'
  <2>1. \A q \in Procs \ {p} : pc'[q] = "idle"
    BY <1>2, Alone
  <2>2. pc'[p] = "flat" => EnsureLayout(p)
    BY <1>2 DEF TypeOK, ProcsOK, Begin, Stop, Advance, Migrate, EnsureLayout, EnsureFlat, Mark,
       Discover, DiscoverFails, MoveAbsent, MoveRename, MoveCopy, MoveFails, CopyDone,
       CopyUnlink, CopyUnlinkFails, MigrateMeta, MigrateMetaDone, Unmark, Body, Resolve,
       ResolveStale, ClearActive, Switch, WriteActive, WriteActiveDone, Enroll, EnrollRefused,
       WriteFile, SkipToken, WriteFileDone, Remove, ClearFile, ClearRefused, NextClear,
       RemoveDir, RemoveDirFails, Unselect, Goto, Return, NextMove
  <2>3. EnsureLayout(p) /\ pc'[p] = "flat" => ~marker'
    BY DEF EnsureLayout, Goto, TypeOK, ProcsOK, store
  <2> QED BY <2>1, <2>2, <2>3 DEF Unraced
<1> QED BY <1>1, <1>2 DEF Next

\* While a flat file is left, everything is about its organization.
LEMMA NextFlat ==
  ASSUME FlatInv, OrphanInv', Cleared', [Next]_vars
  PROVE  FlatFacts'
<1> SUFFICES ASSUME ~RootEmpty' PROVE \E o \in Orgs : Unmoved(o)'
  BY DEF FlatFacts
<1>0. /\ file \in FileMap /\ Root \in Place /\ TypeOK
      /\ pc \in [Procs -> PC] /\ mig \in [Procs -> Orgs \cup {NoOrg}]
  BY ContentFacts DEF FlatInv, OrphanInv, TypeOK, StoreOK, ProcsOK
<1>1. CASE UNCHANGED vars
  BY <1>1 DEF vars, FlatInv, FlatFacts, Unmoved, MoveShape, RootEmpty
<1>2. ASSUME NEW p \in Procs,
             \/ \E c \in Command, o \in Orgs \cup {NoOrg} : Begin(p, c, o)
             \/ Advance(p)
             \/ Stop(p)
      PROVE  \E o \in Orgs : Unmoved(o)'
  <2>1. ~RootEmpty
    <3>1. CASE file'[Root] = file[Root]
      BY <3>1 DEF RootEmpty
    <3>2. CASE MoveRename(p) \/ CopyUnlink(p)
      BY <3>2, MoveNames, <1>0 DEF MoveRename, CopyUnlink, RootEmpty
    <3> QED BY <1>0, <1>2, <3>1, <3>2, RootSteps
  <2>2. PICK o \in Orgs : Unmoved(o)
    BY <2>1 DEF FlatInv, FlatFacts
  <2>3. pc[p] \in Early \cup Moving /\ (pc[p] \in Moving => mig[p] = o)
    BY <2>2 DEF Unmoved
  <2>4. ~Body(p)
    BY <2>3 DEF Early, Moving, Body, Resolve, ResolveStale, ClearActive, Switch, WriteActive,
       WriteActiveDone, Enroll, EnrollRefused, SkipToken, WriteFile, WriteFileDone, Remove, ClearFile,
       ClearRefused, NextClear, RemoveDir, RemoveDirFails, Unselect
  <2>5. MoveShape(o)'
    <3>1. CASE Migrate(p)
      BY <1>0, <2>2, <2>3, <3>1, StepShape DEF FlatInv, Unmoved, Early, Moving
    <3>2. CASE ~Migrate(p)
      <4>1. UNCHANGED <<file, dirs>>
        BY <1>2, <2>4, <3>2 DEF Advance, Begin, Stop, store
      <4> QED BY <2>2, <4>1 DEF Unmoved, MoveShape
    <3> QED BY <3>1, <3>2
  <2>6. \A q \in Procs \ {p} : pc'[q] = pc[q] /\ mig'[q] = mig[q]
    BY <1>0, <1>2, <2>4
    DEF Begin, Stop, Advance, Migrate, EnsureLayout, EnsureFlat, Mark, Discover, DiscoverFails,
        MoveAbsent, MoveRename, MoveCopy, MoveFails, CopyDone, CopyUnlink, CopyUnlinkFails,
        MigrateMeta, MigrateMetaDone, Unmark, Goto, Return, NextMove
  <2>7. pc'[p] \in Early \cup Moving
    <3>1. pc'[p] \in Early \cup Moving \cup {"meta", "body"}
      BY <1>0, <1>2, <2>3, <2>4
      DEF Begin, Stop, Advance, Migrate, EnsureLayout, EnsureFlat, Mark, Discover, DiscoverFails,
          MoveAbsent, MoveRename, MoveCopy, MoveFails, CopyDone, CopyUnlink, CopyUnlinkFails,
          MigrateMeta, MigrateMetaDone, Unmark, Goto, Return, NextMove, Early, Moving
    <3>2. pc'[p] \notin PastMove
      BY DEF Cleared
    <3> QED BY <3>1, <3>2 DEF PastMove
  <2>8. pc'[p] \in Moving => mig'[p] = o
    <3>1. CASE Discover(p)
      BY <1>0, <2>2, <3>1, DiscoverShape DEF Discover, Unmoved
    <3>2. CASE ~Discover(p)
      BY <1>0, <1>2, <2>3, <2>4, <3>2
      DEF Begin, Stop, Advance, Migrate, EnsureLayout, EnsureFlat, Mark, DiscoverFails,
          MoveAbsent, MoveRename, MoveCopy, MoveFails, CopyDone, CopyUnlink, CopyUnlinkFails,
          MigrateMeta, MigrateMetaDone, Unmark, Goto, Return, NextMove, Early, Moving
    <3> QED BY <3>1, <3>2
  <2> QED BY <2>2, <2>5, <2>6, <2>7, <2>8 DEF Unmoved
<1> QED BY <1>1, <1>2 DEF Next

\* What is needed for MigrationKeepsFiles is an invariant.
LEMMA AlwaysFlat == Spec /\ []CopiesAlone /\ []Unraced => []FlatInv
<1>1. Init => FlatInv
  BY InitType, InitOrphans, InitFlat DEF FlatInv, OrphanInv, Init, Cleared, PastMove
<1>2. FlatInv /\ CopiesAlone /\ CopiesAlone' /\ Unraced /\ [Next]_vars => FlatInv'
  BY NextOrphans, NextCleared, NextCopy, NextFlat DEF FlatInv
<1> QED BY <1>1, <1>2, PTL DEF Spec

\* A file leaves the root whole, for the directory of its organization.
LEMMA FileKept ==
  ASSUME FlatInv, [Next]_vars, NEW f \in FileName,
         file[Root][f] \in Identity, file'[Root][f] # file[Root][f]
  PROVE  file'[file[Root][f].org][MovedName(f)] = file[Root][f]
<1>1. PICK p \in Procs : MoveRename(p) \/ CopyUnlink(p)
  BY RootSteps DEF FlatInv, OrphanInv, Next, vars
<1> DEFINE g == MoveOrder[idx[p]]
<1>2. ~RootEmpty /\ pc[p] \in Moving
  BY <1>1, FileAssumption DEF RootEmpty, MoveRename, CopyUnlink, Moving
<1>3. PICK o \in Orgs : MoveShape(o) /\ mig[p] = o
  BY <1>2 DEF FlatInv, FlatFacts, Unmoved
<1>4. file[Root][f] = Old(o) /\ file[Root][f].org = o
  BY <1>3, OldFacts, FileAssumption DEF MoveShape
<1>5. /\ TypeOK /\ g \in FileName /\ MovedName(g) \in FileName
      /\ Root \in Place /\ o \in Place /\ o # Root
  BY MoveNames, ContentFacts, OldFacts DEF FlatInv, OrphanInv
<1>6. CASE MoveRename(p)
  <2>1. Renames(o, MovedName(g), g, file[Root][g])
    BY <1>3, <1>5, <1>6, Renamed DEF MoveRename
  <2> QED BY <1>4, <1>5, <2>1 DEF Renames
<1>7. CASE CopyUnlink(p)
  <2>1. Sets(Root, g, Absent)
    BY <1>5, <1>7, Written DEF CopyUnlink
  <2>2. file[o][MovedName(g)] = file[Root][g]
    BY <1>3, <1>7 DEF CopyUnlink, FlatInv, CopyFacts
  <2> QED BY <1>4, <1>5, <2>1, <2>2 DEF Sets
<1> QED BY <1>1, <1>6, <1>7

\* Wherever processes stop, a credential that is taken from the flat store is
\* whole in the directory of its organization: while commands do not overlap,
\* and where rename works whatever the processes do, as long as no migration
\* begins between the two looks of another command's layout check. (One that
\* begins there can lose a file: the command that was looking goes on beside the
\* migration and may cut the certificate by which it is resumed.)
THEOREM MigrationLosesNothing ==
  Spec /\ []CopiesAlone /\ []Unraced => MigrationKeepsFiles
<1>1. FlatInv /\ [Next]_vars =>
        [\A f \in FileName :
           file[Root][f] \in Identity /\ file'[Root][f] # file[Root][f]
             => file'[file[Root][f].org][MovedName(f)] = file[Root][f]]_vars
  BY FileKept
<1> QED BY <1>1, AlwaysFlat, PTL DEF Spec, MigrationKeepsFiles

-----------------------------------------------------------------------------
(***************************************************************************)
(* Commands that do not overlap, stopped wherever they are. The store is   *)
(* in one of two modes: a flat store is being moved, so that all there is  *)
(* belongs to it and every file of its bundle is whole in one of the two   *)
(* places; or there is no flat file and each directory is as the write     *)
(* and clear orders leave it.                                              *)
(***************************************************************************)

MidStore(o) ==
  /\ MoveShape(o)
  /\ issued = 0
  /\ active \in {o, NoOrg}
  /\ \A f \in Bundle : file[Root][f] = Old(o) \/ (o \in dirs /\ file[o][f] = Old(o))
  /\ ~marker => dirs = {} /\ \A f \in FileName : file[o][f] = Absent

MidProc(o, p) ==
  /\ pc[p] \in Early \cup Moving \cup {"meta", "newmeta", "activate", "activating", "unmark"}
  /\ pc[p] \notin Early => mig[p] = o /\ o \in dirs
  /\ pc[p] \notin {"idle", "ensure", "flat", "mark"} => marker
  /\ pc[p] \notin Moving => idx[p] = 1
  /\ pc[p] = "unmark" => active = o
  /\ pc[p] = "idle" => mig[p] = NoOrg

Midway(o) == MidStore(o) /\ \A p \in Procs : MidProc(o, p)

\* A directory whose files are never older than those written after them, but for
\* a token that was kept, and that has no key without its certificate and CA, but
\* for a key that could not be deleted.
Whole(o) ==
  /\ \A f \in FileName : file[o][f] \in Identity =>
       file[o][f].org = o /\ file[o][f].gen <= issued
  /\ o \notin bare => Fresher(o, "tok", "ca")
  /\ Fresher(o, "ca", "crt") /\ Fresher(o, "crt", "key")
  /\ o \notin refused =>
       (file[o]["key"] # Absent => file[o]["crt"] # Absent /\ file[o]["ca"] # Absent)

\* What a process has written of its bundle b when it is at the i-th file: the
\* token may have been left as it was.
Stored(o, i, b) ==
  /\ \A k \in 2 .. 5 : k < i => file[o][WriteOrder[k]] = b
  /\ i > 1 => o \in bare \/ file[o]["tok"] \in {Absent, b}

\* The identity a process stores was just issued, and what it wrote before the
\* current file is there; a removal deletes the key first, if it can.
SettledProc(p) ==
  /\ mig[p] = NoOrg
  /\ pc[p] \notin {"mark", "discover", "meta", "newmeta", "unmark"} \cup Moving
  /\ pc[p] \notin {"write", "writing", "delete"} => idx[p] = 1
  /\ pc[p] \in {"write", "writing"} =>
       /\ idx[p] \in 1 .. 5
       /\ buf[p] = [org |-> target[p], gen |-> issued]
       /\ Stored(target[p], idx[p], buf[p])
  /\ pc[p] = "writing" => file[target[p]][WriteOrder[idx[p]]] = Torn
  /\ pc[p] \in {"activate", "activating"} => target[p] \in Usable
  /\ pc[p] = "delete" => idx[p] \in 1 .. 6
  /\ pc[p] = "rmdir" \/ (pc[p] = "delete" /\ idx[p] > 1) =>
       file[target[p]]["key"] = Absent \/ target[p] \in refused

Settled ==
  /\ RootEmpty
  /\ \A o \in Orgs : Whole(o)
  /\ \A p \in Procs : SettledProc(p)

Mode == IF Pending THEN \E o \in Orgs : Midway(o) ELSE Settled

SoloInv == FlatInv /\ Mode /\ Unraced

\* The positions of the write and clear orders.
LEMMA OrderNames ==
  /\ WriteOrder[1] = "tok" /\ WriteOrder[2] = "ca" /\ WriteOrder[3] = "crt"
  /\ WriteOrder[4] = "key" /\ WriteOrder[5] = "meta" /\ Len(WriteOrder) = 5
  /\ \A k \in 1 .. 5 : WriteOrder[k] \in FileName
  /\ \A k, l \in 1 .. 5 : WriteOrder[k] = WriteOrder[l] => k = l
  /\ ClearOrder[1] = "key" /\ Len(ClearOrder) = 6
  /\ \A k \in 1 .. 6 : ClearOrder[k] \in FileName
BY DEF WriteOrder, ClearOrder, FileName

\* The initial stores: empty and per-organization ones are settled, and a flat
\* one has everything in the root.
LEMMA InitMode == Init => Mode
<1> SUFFICES ASSUME Init PROVE Mode
  OBVIOUS
<1>1. /\ marker = FALSE /\ issued = 0
      /\ \A p \in Procs : pc[p] = "idle" /\ mig[p] = NoOrg /\ idx[p] = 1
  BY DEF Init
<1>2. CASE RootEmpty
  <2>1. ~Pending
    BY <1>1, <1>2 DEF Pending, IsFlatStore, RootEmpty, FileName
  <2>2. ASSUME NEW o \in Orgs PROVE Whole(o)
    <3>1. CASE EmptyStore \/ FlatStore
      <4>1. \A f \in FileName : file[o][f] = Absent
        BY <3>1, OldFacts DEF EmptyStore, FlatStore, Files
      <4> QED BY <4>1, FileAssumption DEF Whole, Fresher, FileName
    <3>2. CASE OrgStore
      <4>1. PICK S \in SUBSET Orgs \ {{}} :
              file = [d \in Place |-> IF d \in S THEN Files(Bundle \cup {"tok", "meta"}, d)
                                      ELSE Files({}, d)]
        BY <3>2 DEF OrgStore
      <4>2. CASE o \in S
        <5>1. /\ \A f \in FileName : file[o][f] \in {Absent, Old(o)}
              /\ file[o]["crt"] = Old(o) /\ file[o]["ca"] = Old(o)
          BY <4>1, <4>2, OldFacts DEF Files, Bundle, FileName, Old
        <5> QED BY <1>1, <5>1, OldFacts, FileAssumption DEF Whole, Fresher, FileName
      <4>3. CASE o \notin S
        <5>1. \A f \in FileName : file[o][f] = Absent
          BY <4>1, <4>3, OldFacts DEF Files
        <5> QED BY <5>1, FileAssumption DEF Whole, Fresher, FileName
      <4> QED BY <4>2, <4>3
    <3> QED BY <3>1, <3>2 DEF Init
  <2>3. \A p \in Procs : SettledProc(p)
    BY <1>1 DEF SettledProc, Moving
  <2> QED BY <1>2, <2>1, <2>2, <2>3 DEF Mode, Settled
<1>3. CASE ~RootEmpty
  <2>1. PICK o \in Orgs :
           /\ MoveShape(o) /\ dirs = {} /\ active = NoOrg
           /\ \A f \in Bundle : file[Root][f] = Old(o)
           /\ \A f \in FileName : file[o][f] = Absent
    BY <1>3, InitShape
  <2>2. Pending
    BY <2>1, OldFacts DEF Pending, IsFlatStore, Bundle
  <2>3. MidStore(o) /\ \A p \in Procs : MidProc(o, p)
    BY <1>1, <2>1 DEF MidStore, MidProc, Early, Moving
  <2> QED BY <2>2, <2>3 DEF Mode, Midway
<1> QED BY <1>2, <1>3

\* In the middle of a migration, no file of the bundle is without a whole copy.
LEMMA BundleKept ==
  ASSUME FlatInv, NEW o \in Orgs, MidStore(o), NEW p \in Procs, MidProc(o, p), Migrate(p)
  PROVE  \A g \in Bundle : file'[Root][g] = Old(o) \/ (o \in dirs' /\ file'[o][g] = Old(o))
<1> DEFINE f == MoveOrder[idx[p]]
           m == MovedName(f)
           Kept == \A g \in Bundle : file'[Root][g] = Old(o) \/ (o \in dirs' /\ file'[o][g] = Old(o))
<1>1. /\ f \in FileName /\ m \in FileName /\ "meta" \in FileName /\ "meta" \notin Bundle
      /\ \A g \in Bundle : g \in FileName /\ MovedName(g) = g /\ (m = g => f = g)
      /\ Root \in Place /\ o \in Place /\ o # Root /\ TypeOK
      /\ Old(o) # Torn /\ Old(o) # Absent /\ Torn # Absent
  BY MoveNames, ContentFacts, OldFacts DEF FileName, Bundle, FlatInv, OrphanInv
<1>2. /\ \A g \in Bundle : file[Root][g] = Old(o) \/ (o \in dirs /\ file[o][g] = Old(o))
      /\ \A g \in FileName : file[Root][g] \in {Absent, Old(o)}
  BY DEF MidStore, MoveShape
<1>3. pc[p] \notin Early => mig[p] = o /\ o \in dirs
  BY DEF MidProc
<1>4. CASE EnsureLayout(p) \/ EnsureFlat(p) \/ Mark(p) \/ Discover(p) \/ DiscoverFails(p) \/ MoveAbsent(p)
           \/ MoveFails(p) \/ CopyUnlinkFails(p) \/ Unmark(p)
  <2>1. file' = file /\ dirs \subseteq dirs'
    BY <1>4 DEF EnsureLayout, EnsureFlat, Mark, Discover, DiscoverFails, MoveAbsent, MoveFails,
       CopyUnlinkFails, Unmark, store
  <2> QED BY <1>2, <2>1
<1>5. CASE MoveRename(p)
  <2>1. o \in dirs' /\ Renames(o, m, f, Old(o))
    BY <1>1, <1>2, <1>3, <1>5, Renamed DEF MoveRename, Early
  <2> QED BY <1>1, <1>2, <2>1 DEF Renames
<1>6. CASE MoveCopy(p)
  <2>1. mig[p] = o /\ dirs' = dirs /\ file[Root][f] # Absent
        /\ file' = [file EXCEPT ![mig[p]][m] = Torn]
    BY <1>3, <1>6 DEF MoveCopy, Early
  <2>2. Sets(o, m, Torn)
    BY <1>1, <2>1, Written
  <2> QED BY <1>1, <1>2, <2>1, <2>2 DEF Sets
<1>7. CASE CopyDone(p)
  <2>1. mig[p] = o /\ dirs' = dirs /\ o \in dirs /\ Fill(o, m, buf[p])
    BY <1>3, <1>7 DEF CopyDone, Early
  <2>2. buf[p] = Old(o) /\ file[o][m] = Torn
    BY <1>1, <1>2, <1>7, <2>1 DEF CopyDone, FlatInv, CopyFacts
  <2>3. Sets(o, m, Old(o))
    BY <1>1, <2>1, <2>2, Written
  <2> QED BY <1>1, <1>2, <2>1, <2>3 DEF Sets
<1>8. CASE CopyUnlink(p)
  <2>1. /\ mig[p] = o /\ dirs' = dirs /\ o \in dirs /\ pc[p] = "unlink"
        /\ file' = [file EXCEPT ![Root][f] = Absent]
    BY <1>3, <1>8 DEF CopyUnlink, Early
  <2>2. file[o][m] = file[Root][f] /\ file[Root][f] # Absent
    BY <2>1 DEF FlatInv, CopyFacts
  <2>3. Sets(Root, f, Absent)
    BY <1>1, <2>1, Written
  <2> QED BY <1>1, <1>2, <2>1, <2>2, <2>3 DEF Sets
<1>9. CASE MigrateMeta(p)
  <2>1. (mig[p] = o /\ dirs' = dirs \cup {o}) \/ dirs' = dirs
    BY <1>3, <1>9 DEF MigrateMeta, Early
  <2>2. file' = file \/ Sets(o, "meta", Torn)
    <3>1. mig[p] = o /\ (file' = file \/ file' = [file EXCEPT ![mig[p]]["meta"] = Torn])
      BY <1>3, <1>9 DEF MigrateMeta, Early
    <3> QED BY <1>1, <3>1, Written
  <2> QED BY <1>1, <1>2, <2>1, <2>2 DEF Sets
<1>10. CASE MigrateMetaDone(p)
  <2>1. mig[p] = o /\ dirs' = dirs /\ Fill(o, "meta", Old(o))
    BY <1>3, <1>10 DEF MigrateMetaDone, Early, Old
  <2>2. PICK c : Sets(o, "meta", c)
    BY <1>1, <2>1, Written
  <2> QED BY <1>1, <1>2, <2>1, <2>2 DEF Sets
<1> QED BY <1>4, <1>5, <1>6, <1>7, <1>8, <1>9, <1>10 DEF Migrate

\* The process that has just removed the marker leaves a settled store.
LEMMA MidwayEnds ==
  ASSUME Serial, FlatInv, NEW o \in Orgs, Midway(o), NEW p \in Procs, Unmark(p)
  PROVE  ~Pending' /\ Settled' /\ active' = o /\ Usable' = {o}
<1>1. /\ pc[p] = "unmark" /\ marker /\ ~marker' /\ UNCHANGED <<file, dirs, active, issued, idx>>
      /\ Goto(p, "body") /\ mig' = [mig EXCEPT ![p] = NoOrg] /\ active = o /\ idx[p] = 1
      /\ issued = 0
  BY DEF Unmark, Midway, MidProc, MidStore, Moving
<1>2. RootEmpty
  BY <1>1 DEF FlatInv, Cleared, PastMove
<1>3. RootEmpty' /\ ~Pending'
  BY <1>1, <1>2 DEF RootEmpty, Pending, IsFlatStore, FileName
<1>4. /\ \A f \in FileName : file[o][f] \in {Absent, Torn, Old(o)}
      /\ \A d \in Orgs \ {o}, f \in FileName : file[d][f] = Absent
      /\ file[o]["crt"] = Old(o) /\ file[o]["ca"] = Old(o) /\ file[o]["key"] = Old(o)
  BY <1>2, OldFacts DEF Midway, MidStore, MoveShape, RootEmpty, Bundle, FileName
<1>5. ASSUME NEW d \in Orgs PROVE Whole(d)'
  <2>1. CASE d = o
    BY <1>1, <1>4, <2>1, OldFacts, FileAssumption DEF Whole, Fresher, FileName
  <2>2. CASE d # o
    BY <1>1, <1>4, <2>2, FileAssumption DEF Whole, Fresher, FileName
  <2> QED BY <2>1, <2>2
<1>6. Usable' = {o}
  <2>1. o \in Usable
    BY <1>4, OldFacts DEF Usable, Loadable
  <2>2. ASSUME NEW d \in Orgs \ {o} PROVE d \notin Usable
    BY <1>4, FileAssumption DEF Usable, Loadable, FileName
  <2> QED BY <1>1, <2>1, <2>2 DEF Usable, Loadable
<1>7. \A q \in Procs : SettledProc(q)'
  <2>1. pc'[p] = "body" /\ mig'[p] = NoOrg /\ idx'[p] = 1
    BY <1>1 DEF Goto, FlatInv, OrphanInv, TypeOK, ProcsOK
  <2>2. \A q \in Procs \ {p} : pc'[q] = "idle" /\ mig'[q] = NoOrg /\ idx'[q] = 1
    BY <1>1 DEF Serial, Goto, FlatInv, OrphanInv, TypeOK, ProcsOK, Midway, MidProc, Moving
  <2> QED BY <2>1, <2>2 DEF SettledProc, Moving
<1> QED BY <1>1, <1>3, <1>5, <1>6, <1>7 DEF Settled

\* Any other step in the middle of a migration leaves it in the middle.
LEMMA MidwayStep ==
  ASSUME Serial, Serial', FlatInv, Unraced, OrphanInv', NEW o \in Orgs, Midway(o), Pending,
         NEW p \in Procs,
         \/ \E c \in Command, d \in Orgs \cup {NoOrg} : Begin(p, c, d)
         \/ Advance(p)
         \/ Stop(p),
         ~Unmark(p)
  PROVE  Pending' /\ Midway(o)'
<1>0. /\ TypeOK /\ MidStore(o) /\ MidProc(o, p)
      /\ pc \in [Procs -> PC] /\ mig \in [Procs -> Orgs \cup {NoOrg}] /\ idx \in [Procs -> 1 .. 7]
  BY DEF FlatInv, OrphanInv, TypeOK, ProcsOK, Midway
<1> USE DEF Early, Moving
<1>1. ~Body(p) \/ WriteActive(p) \/ WriteActiveDone(p)
  BY <1>0 DEF MidProc, Body, Resolve, ResolveStale, ClearActive, Switch, Enroll, EnrollRefused,
     SkipToken, WriteFile, WriteFileDone, Remove, ClearFile, ClearRefused, NextClear, RemoveDir, RemoveDirFails, Unselect
<1>2. \/ (\E c \in Command, d \in Orgs \cup {NoOrg} : Begin(p, c, d)) \/ Stop(p)
      \/ WriteActive(p) \/ WriteActiveDone(p)
      \/ Migrate(p)
  BY <1>1 DEF Advance
<1>3. marker' = marker \/ marker'
  BY <1>2 DEF Begin, Stop, WriteActive, WriteActiveDone, Migrate, EnsureLayout, EnsureFlat, Mark, Discover,
     DiscoverFails, MoveAbsent, MoveRename, MoveCopy, MoveFails, CopyDone, CopyUnlink,
     CopyUnlinkFails, MigrateMeta, MigrateMetaDone, store
<1>4. ~marker => /\ UNCHANGED <<file, dirs>>
                 /\ pc[p] \in {"idle", "ensure", "flat", "mark"}
  BY <1>0, <1>2 DEF MidProc, Begin, Stop, WriteActive, WriteActiveDone, Migrate, EnsureLayout, EnsureFlat,
     Mark, Discover, DiscoverFails, MoveAbsent, MoveRename, MoveCopy, MoveFails, CopyDone,
     CopyUnlink, CopyUnlinkFails, MigrateMeta, MigrateMetaDone, store
<1>5. Pending'
  BY <1>3, <1>4 DEF Pending, IsFlatStore
<1>6. MidStore(o)'
  <2>1. MoveShape(o)'
    <3>1. CASE Migrate(p)
      BY <1>0, <3>1, StepShape DEF FlatInv, MidStore, MidProc
    <3>2. CASE ~Migrate(p)
      BY <1>0, <1>2, <3>2 DEF Begin, Stop, WriteActive, WriteActiveDone, store, MidStore, MoveShape
    <3> QED BY <3>1, <3>2
  <2>2. \A f \in Bundle : file'[Root][f] = Old(o) \/ (o \in dirs' /\ file'[o][f] = Old(o))
    <3>1. CASE Migrate(p)
      BY <1>0, <3>1, BundleKept
    <3>2. CASE ~Migrate(p)
      BY <1>0, <1>2, <3>2 DEF Begin, Stop, WriteActive, WriteActiveDone, store, MidStore
    <3> QED BY <3>1, <3>2
  <2>3. issued' = issued
    BY <1>2 DEF Begin, Stop, WriteActive, WriteActiveDone, Migrate, EnsureLayout, EnsureFlat, Mark, Discover,
       DiscoverFails, MoveAbsent, MoveRename, MoveCopy, MoveFails, CopyDone, CopyUnlink,
       CopyUnlinkFails, MigrateMeta, MigrateMetaDone, store
  <2>4. active' \in {o, NoOrg}
    <3>1. CASE WriteActiveDone(p)
      BY <1>0, <3>1, OldFacts DEF WriteActiveDone, MidProc, Dest
    <3>2. CASE ~WriteActiveDone(p)
      BY <1>0, <1>2, <3>2 DEF Begin, Stop, WriteActive, Migrate, EnsureLayout, EnsureFlat, Mark, Discover,
         DiscoverFails, MoveAbsent, MoveRename, MoveCopy, MoveFails, CopyDone, CopyUnlink,
         CopyUnlinkFails, MigrateMeta, MigrateMetaDone, store, MidStore
    <3> QED BY <3>1, <3>2
  <2> QED BY <1>0, <1>3, <1>4, <2>1, <2>2, <2>3, <2>4 DEF MidStore
<1>7. MidProc(o, p)'
  <2>1. CASE (\E c \in Command, d \in Orgs \cup {NoOrg} : Begin(p, c, d)) \/ EnsureLayout(p) \/ EnsureFlat(p) \/ Mark(p)
    <3>1. CASE EnsureLayout(p) \/ EnsureFlat(p)
      BY <1>0, <3>1 DEF EnsureLayout, EnsureFlat, Goto, Pending, MidProc, Unraced
    <3>2. CASE ~EnsureLayout(p) /\ ~EnsureFlat(p)
      BY <1>0, <2>1, <3>2 DEF Begin, Mark, Goto, MidProc
    <3> QED BY <3>1, <3>2
  <2>2. CASE Return(p)
    BY <1>0, <2>2 DEF Return, Goto, MidProc
  <2>3. CASE Discover(p)
    <3>1. DiscoverOrg = o
      BY <1>0, <2>3, DiscoverShape DEF Discover, MidStore
    <3>2. /\ pc'[p] = "move" /\ mig'[p] = o /\ o \in dirs' /\ marker'
      BY <1>0, <2>3, <3>1 DEF Discover, Goto, MidProc
    <3> QED BY <3>2 DEF MidProc
  <2>4. CASE MoveAbsent(p) \/ MoveRename(p) \/ CopyUnlink(p)
    <3>1. pc[p] \in Moving /\ NextMove(p) /\ UNCHANGED <<dirs, marker, mig>>
      BY <2>4 DEF MoveAbsent, MoveRename, CopyUnlink, store
    <3>2. pc'[p] \in {"move", "meta"} /\ (pc'[p] = "meta" => idx'[p] = 1)
      BY <1>0, <3>1, MoveOrderCovers DEF NextMove, Goto
    <3> QED BY <1>0, <3>1, <3>2 DEF MidProc
  <2>5. CASE MoveCopy(p) \/ CopyDone(p)
    BY <1>0, <2>5 DEF MoveCopy, CopyDone, Goto, MidProc
  <2>6. CASE MigrateMeta(p) \/ MigrateMetaDone(p) \/ WriteActive(p)
    BY <1>0, <2>6 DEF MigrateMeta, MigrateMetaDone, WriteActive, Goto, MidProc
  <2>7. CASE WriteActiveDone(p)
    BY <1>0, <2>7, OldFacts DEF WriteActiveDone, Goto, MidProc, Dest
  <2>8. Stop(p) \/ DiscoverFails(p) \/ MoveFails(p) \/ CopyUnlinkFails(p) => Return(p)
    BY DEF Stop, DiscoverFails, MoveFails, CopyUnlinkFails
  <2> QED BY <1>2, <2>1, <2>2, <2>3, <2>4, <2>5, <2>6, <2>7, <2>8 DEF Migrate
<1>8. ASSUME NEW q \in Procs \ {p} PROVE MidProc(o, q)'
  <2>1. pc[q] = "idle" /\ pc'[q] = "idle" /\ mig'[q] = mig[q] /\ idx'[q] = idx[q]
    BY <1>0, Alone
  <2>2. MidProc(o, q)
    BY DEF Midway
  <2> QED BY <2>1, <2>2 DEF MidProc
<1> QED BY <1>5, <1>6, <1>7, <1>8 DEF Midway

\* A file written in its turn keeps the directory whole: what comes after it is
\* not newer, and the key only comes after the certificate and the CA.
LEMMA WriteKeepsWhole ==
  ASSUME TypeOK, NEW o \in Orgs, Whole(o), NEW i \in 1 .. 5, NEW b,
         b = [org |-> o, gen |-> issued],
         Stored(o, i, b),
         NEW c \in {Torn, b}, Sets(o, WriteOrder[i], c), issued' = issued,
         bare' = bare \/ (i = 1 /\ c = b /\ bare' = bare \ {o}),
         refused' = refused \/ (i = 4 /\ refused' = refused \ {o})
  PROVE  Whole(o)' /\ Stored(o, i, b)'
<1>1. /\ issued \in Nat /\ Torn \notin Identity /\ Torn # Absent /\ Absent \notin Identity
      /\ b \in Identity /\ b.org = o /\ b.gen = issued /\ b # Absent /\ o \in Place
      /\ \A f \in FileName : file[o][f] \in Identity => file[o][f].gen \in Nat
  BY StoreAssumption, FileAssumption, OldFacts DEF TypeOK, StoreOK, Identity
<1>2. \A g \in FileName : file'[o][g] = IF g = WriteOrder[i] THEN c ELSE file[o][g]
  BY <1>1 DEF Sets
<1>3. Stored(o, i, b)'
  BY <1>2, OrderNames DEF Stored, FileName
<1>4. \A f \in FileName : file'[o][f] \in Identity =>
        file'[o][f].org = o /\ file'[o][f].gen <= issued
  BY <1>1, <1>2 DEF Whole
<1>5. /\ \A f, g \in FileName : (g # WriteOrder[i] /\ f # WriteOrder[i] /\ Fresher(o, f, g)) => Fresher(o, f, g)'
      /\ \A g \in FileName : WriteOrder[i] # g => Fresher(o, WriteOrder[i], g)'
      /\ \A f \in FileName : f # WriteOrder[i] /\ file[o][f] = b => Fresher(o, f, WriteOrder[i])'
  BY <1>1, <1>2, OrderNames DEF Fresher, Whole
<1>6. /\ o \notin bare' => Fresher(o, "tok", "ca")'
      /\ Fresher(o, "ca", "crt")' /\ Fresher(o, "crt", "key")'
  <2>1. CASE i = 1 \/ i = 5
    BY <1>5, <2>1, OrderNames DEF Whole, FileName
  <2>2. CASE i = 2
    <3>1. o \in bare \/ file[o]["tok"] \in {Absent, b}
      BY <2>2 DEF Stored
    <3>2. o \notin bare' => Fresher(o, "tok", "ca")'
      BY <1>1, <1>2, <1>5, <2>2, <3>1, OrderNames DEF Fresher, FileName
    <3> QED BY <1>5, <2>2, <3>2, OrderNames DEF Whole, FileName
  <2>3. CASE i = 3
    <3>1. file[o]["ca"] = b
      BY <2>3, OrderNames DEF Stored
    <3> QED BY <1>5, <2>3, <3>1, OrderNames DEF Whole, FileName
  <2>4. CASE i = 4
    <3>1. file[o]["crt"] = b
      BY <2>4, OrderNames DEF Stored
    <3> QED BY <1>5, <2>4, <3>1, OrderNames DEF Whole, FileName
  <2> QED BY <2>1, <2>2, <2>3, <2>4
<1>7. o \notin refused' =>
        (file'[o]["key"] # Absent => file'[o]["crt"] # Absent /\ file'[o]["ca"] # Absent)
  <2>1. CASE i = 4
    <3>1. file[o]["ca"] = b /\ file[o]["crt"] = b
      BY <2>1, OrderNames DEF Stored
    <3> QED BY <1>1, <1>2, <2>1, <3>1, OrderNames DEF FileName
  <2>2. CASE i # 4
    BY <1>1, <1>2, <2>2, OrderNames DEF Whole, FileName
  <2> QED BY <2>1, <2>2
<1> QED BY <1>3, <1>4, <1>6, <1>7 DEF Whole

\* So does a file that is deleted in its turn.
LEMMA ClearKeepsWhole ==
  ASSUME TypeOK, NEW o \in Orgs, Whole(o), NEW i \in 1 .. 6,
         i > 1 => file[o]["key"] = Absent \/ o \in refused,
         Sets(o, ClearOrder[i], Absent), issued' = issued,
         bare' = IF ClearOrder[i] = "tok" THEN bare \ {o} ELSE bare,
         refused' = IF ClearOrder[i] = "key" THEN refused \ {o} ELSE refused
  PROVE  Whole(o)' /\ (file'[o]["key"] = Absent \/ o \in refused')
<1>1. \A g \in FileName : file'[o][g] = IF g = ClearOrder[i] THEN Absent ELSE file[o][g]
  BY OldFacts DEF Sets
<1>2. file'[o]["key"] = Absent \/ o \in refused'
  BY <1>1, OrderNames DEF FileName
<1>3. \A f \in FileName : file'[o][f] \in Identity => file'[o][f] = file[o][f]
  BY <1>1, FileAssumption
<1>4. \A f, g \in FileName : Fresher(o, f, g) => Fresher(o, f, g)'
  BY <1>3 DEF Fresher
<1>5. o \notin bare' => Fresher(o, "tok", "ca")'
  <2>1. CASE o \notin bare
    BY <1>4, <2>1 DEF Whole, FileName
  <2>2. CASE o \in bare
    BY <1>1, <2>2, FileAssumption DEF Fresher, FileName
  <2> QED BY <2>1, <2>2
<1> QED BY <1>2, <1>3, <1>4, <1>5 DEF Whole, FileName

\* Nothing changed in a directory.
LEMMA UntouchedWhole ==
  ASSUME TypeOK, NEW o \in Orgs, Whole(o), issued' \in Nat, issued' >= issued,
         o \in bare => o \in bare', o \in refused => o \in refused',
         \A f \in FileName : file'[o][f] = file[o][f]
  PROVE  Whole(o)'
<1>1. /\ issued \in Nat /\ \A f \in FileName : file[o][f] \in Identity => file[o][f].gen \in Nat
      /\ "tok" \in FileName /\ "ca" \in FileName /\ "crt" \in FileName /\ "key" \in FileName
  BY StoreAssumption DEF TypeOK, StoreOK, Identity, FileName
<1>2. \A f \in FileName : file'[o][f] \in Identity =>
        file'[o][f].org = o /\ file'[o][f].gen <= issued'
  BY <1>1 DEF Whole
<1>3. \A f, g \in FileName : Fresher(o, f, g) => Fresher(o, f, g)'
  BY DEF Fresher
<1> QED BY <1>1, <1>2, <1>3 DEF Whole

\* While commands do not overlap, the processes that wait stay as they are in a
\* settled store.
LEMMA IdleSettled ==
  ASSUME Serial, Serial', TypeOK, Settled, NEW p \in Procs,
         \/ \E c \in Command, o \in Orgs \cup {NoOrg} : Begin(p, c, o)
         \/ Advance(p)
         \/ Stop(p)
  PROVE  \A q \in Procs \ {p} : SettledProc(q)'
<1> SUFFICES ASSUME NEW q \in Procs \ {p} PROVE SettledProc(q)'
  OBVIOUS
<1>1. pc[q] = "idle" /\ pc'[q] = "idle" /\ mig'[q] = mig[q] /\ idx'[q] = idx[q]
  BY Alone
<1>2. SettledProc(q)
  BY DEF Settled
<1> QED BY <1>1, <1>2 DEF SettledProc, Moving

\* A settled store has no process that is migrating, and stays settled: the
\* layout check finds nothing to do.
LEMMA SettledLayout ==
  ASSUME Serial, Serial', SoloInv, ~Pending, NEW p \in Procs,
         \/ \E c \in Command, d \in Orgs \cup {NoOrg} : Begin(p, c, d)
         \/ Migrate(p)
         \/ Stop(p)
  PROVE  Settled' /\ UNCHANGED store
<1>1. /\ Settled /\ SettledProc(p) /\ TypeOK
      /\ pc \in [Procs -> PC] /\ mig \in [Procs -> Orgs \cup {NoOrg}] /\ idx \in [Procs -> 1 .. 7]
  BY DEF SoloInv, Mode, Settled, FlatInv, OrphanInv, TypeOK, ProcsOK
<1>2. \/ \E c \in Command, d \in Orgs \cup {NoOrg} : Begin(p, c, d)
      \/ EnsureLayout(p) \/ EnsureFlat(p) \/ Return(p)
  BY <1>1 DEF SettledProc, Moving, Migrate, Mark, Discover, DiscoverFails, MoveAbsent,
     MoveRename, MoveCopy, MoveFails, CopyDone, CopyUnlink, CopyUnlinkFails, MigrateMeta,
     MigrateMetaDone, Unmark, Stop
<1>3. UNCHANGED <<store, bare, refused>>
  BY <1>1 DEF SettledProc, Moving, Migrate, EnsureLayout, EnsureFlat, Mark, Discover, DiscoverFails,
     MoveAbsent, MoveRename, MoveCopy, MoveFails, CopyDone, CopyUnlink, CopyUnlinkFails,
     MigrateMeta, MigrateMetaDone, Unmark, Begin, Stop, history
<1>4. /\ pc'[p] \in {"ensure", "flat", "body", "idle"}
      /\ mig'[p] = NoOrg /\ idx'[p] = 1
  BY <1>1, <1>2 DEF SettledProc, Begin, EnsureLayout, EnsureFlat, Return, Goto, Pending
<1>5. SettledProc(p)' /\ \A q \in Procs \ {p} : SettledProc(q)'
  <2>1. SettledProc(p)'
    BY <1>4 DEF SettledProc, Moving
  <2>2. \A q \in Procs \ {p} : SettledProc(q)'
    BY <1>1, IdleSettled DEF Advance
  <2> QED BY <2>1, <2>2
<1>6. RootEmpty' /\ \A o \in Orgs : Whole(o)'
  BY <1>1, <1>3 DEF store, Settled, RootEmpty, Whole, Fresher
<1> QED BY <1>1, <1>3, <1>5, <1>6 DEF Settled

\* What a step of a command does to a settled store: it writes or deletes files
\* of its organization, or it moves the pointer, to an organization with a whole
\* bundle of its own or to none.
OneOrgStep(t) ==
  /\ active' = active
  /\ \A d \in Orgs \ {t}, f \in FileName : file'[d][f] = file[d][f]
PointerStep ==
  /\ file' = file
  /\ active' \in {active, NoOrg} \cup Usable

\* Every step of a command keeps the store settled.
LEMMA SettledBody ==
  ASSUME Serial, Serial', SoloInv, ~Pending, NEW p \in Procs, Body(p)
  PROVE  /\ Settled'
         /\ PointerStep \/ (OneOrgStep(target[p]) /\ target[p] \in Orgs)
         /\ marker' = marker /\ file'[Root] = file[Root]
<1> DEFINE t == target[p]
<1>0. /\ Settled /\ SettledProc(p) /\ TypeOK
      /\ pc \in [Procs -> PC] /\ mig \in [Procs -> Orgs \cup {NoOrg}] /\ idx \in [Procs -> 1 .. 7]
      /\ target \in [Procs -> Orgs \cup {NoOrg}] /\ buf \in [Procs -> Content]
      /\ issued \in Nat /\ RootEmpty /\ (\A o \in Orgs : Whole(o)) /\ Torn # Absent
      /\ \A o \in Orgs : o \in Place
  BY StoreAssumption, FileAssumption, OldFacts
  DEF SoloInv, Mode, Settled, FlatInv, OrphanInv, TypeOK, ProcsOK, StoreOK
<1>9. \A q \in Procs \ {p} : SettledProc(q)'
  BY <1>0, IdleSettled DEF Advance
<1>1. marker' = marker /\ file'[Root] = file[Root]
  <2>1. ~MoveRename(p) /\ ~CopyUnlink(p)
    BY <1>0 DEF MoveRename, CopyUnlink, SettledProc, Moving
  <2>2. file'[Root] = file[Root]
    BY <1>0, <2>1, RootSteps DEF Advance
  <2>3. marker' = marker
    BY DEF Body, Resolve, ResolveStale, ClearActive, Switch, WriteActive,
       WriteActiveDone, Enroll, EnrollRefused, Remove, ClearRefused, Unselect, store,
       WriteFile, SkipToken, WriteFileDone, ClearFile, RemoveDir, RemoveDirFails
  <2> QED BY <2>2, <2>3
<1>2. RootEmpty'
  BY <1>0, <1>1 DEF RootEmpty
<1> DEFINE Goal == /\ Settled'
                   /\ PointerStep \/ (OneOrgStep(t) /\ t \in Orgs)
<1> SUFFICES Goal
  BY <1>1
<1>3. ASSUME file' = file, issued' = issued \/ issued' = issued + 1,
             active' \in {active, NoOrg} \cup Usable, SettledProc(p)',
             bare \subseteq bare', refused \subseteq refused'
      PROVE  Goal
  <2>1. \A o \in Orgs : Whole(o)'
    <3>1. issued' \in Nat /\ issued' >= issued
      BY <1>0, <1>3
    <3> QED BY <1>0, <1>3, <3>1, UntouchedWhole
  <2>2. \A q \in Procs : SettledProc(q)'
    BY <1>3, <1>9
  <2>3. PointerStep
    BY <1>3 DEF PointerStep
  <2> QED BY <1>2, <2>1, <2>2, <2>3 DEF Settled
<1>4. ASSUME NEW f \in FileName, NEW c, t \in Orgs, Sets(t, f, c), issued' = issued,
             active' = active, target' = target, Whole(t)', SettledProc(p)',
             bare' = bare \/ bare' = bare \ {t}, refused' = refused \/ refused' = refused \ {t}
      PROVE  Goal
  <2>0. \A e \in Place, g \in FileName : file'[e][g] = IF e = t /\ g = f THEN c ELSE file[e][g]
    BY <1>4 DEF Sets
  <2>1. \A d \in Orgs \ {t}, g \in FileName : file'[d][g] = file[d][g]
    <3> HIDE DEF t
    <3> QED BY <1>0, <2>0
  <2>2. ASSUME NEW o \in Orgs, o # t PROVE Whole(o)'
    <3>1. issued' \in Nat /\ issued' >= issued
      BY <1>0, <1>4
    <3>2. Whole(o) /\ \A g \in FileName : file'[o][g] = file[o][g]
      BY <1>0, <2>1, <2>2
    <3>3. (o \in bare => o \in bare') /\ (o \in refused => o \in refused')
      <4> HIDE DEF t
      <4> QED BY <1>4, <2>2
    <3> QED BY <1>0, <3>1, <3>2, <3>3, UntouchedWhole
  <2>3. \A o \in Orgs : Whole(o)'
    BY <1>4, <2>2
  <2>4. \A q \in Procs : SettledProc(q)'
    BY <1>4, <1>9
  <2>5. OneOrgStep(t)
    BY <1>4, <2>1 DEF OneOrgStep
  <2> QED BY <1>2, <1>4, <2>3, <2>4, <2>5 DEF Settled
<1>5. ASSUME Return(p) PROVE SettledProc(p)'
  BY <1>0, <1>5 DEF Return, Goto, SettledProc, Moving
<1>6. ASSUME NEW l \in {"clear", "delete", "unselect"}, Goto(p, l), mig' = mig, idx'[p] = 1
      PROVE  SettledProc(p)'
  BY <1>0, <1>6 DEF Goto, SettledProc, Moving
<1>7. CASE Resolve(p) \/ EnrollRefused(p) \/ ClearActive(p)
  <2>1. /\ Return(p) /\ file' = file /\ issued' = issued
        /\ active' = active \/ active' = NoOrg
        /\ bare' = bare /\ refused' = refused
    BY <1>7 DEF Resolve, EnrollRefused, ClearActive, store, history
  <2> QED BY <1>3, <1>5, <2>1
<1>8. CASE ResolveStale(p) \/ Remove(p) \/ Unselect(p)
  <2>1. file' = file /\ issued' = issued /\ active' = active /\ bare' = bare /\ refused' = refused
    BY <1>8 DEF ResolveStale, Remove, Unselect, store, history
  <2>2. \/ Return(p)
        \/ /\ mig' = mig /\ idx'[p] = 1
           /\ Goto(p, "clear") \/ Goto(p, "delete")
    <3>1. idx[p] = 1
      BY <1>0, <1>8 DEF ResolveStale, Remove, Unselect, SettledProc
    <3> QED BY <1>0, <1>8, <3>1 DEF ResolveStale, Remove, Unselect
  <2>3. SettledProc(p)'
    BY <1>5, <1>6, <2>2
  <2> QED BY <1>3, <2>1, <2>3
<1>11. CASE Switch(p)
  <2>1. file' = file /\ issued' = issued /\ active' = active /\ bare' = bare /\ refused' = refused
    BY <1>11 DEF Switch, store, history
  <2>2. CASE Return(p)
    BY <1>3, <1>5, <2>1, <2>2
  <2>3. CASE ~Return(p)
    <3>1. /\ Loadable(t) /\ Goto(p, "activate") /\ UNCHANGED <<target, mig, idx>>
          /\ pc[p] = "body" /\ cmd[p] = "switch"
      BY <1>11, <2>3 DEF Switch
    <3>2. t \in Orgs
      BY <1>0, <3>1 DEF TypeOK, LocalsOK
    <3>3. t \in Usable
      BY <1>0, <3>1, <3>2 DEF Usable, Loadable, Whole, FileName
    <3>4. Usable' = Usable
      BY <2>1 DEF Usable, Loadable
    <3>5. pc'[p] = "activate" /\ mig'[p] = NoOrg /\ idx'[p] = 1 /\ target'[p] \in Usable'
      BY <1>0, <3>1, <3>3, <3>4 DEF Goto, SettledProc
    <3>6. SettledProc(p)'
      BY <3>5 DEF SettledProc, Moving
    <3> QED BY <1>3, <2>1, <3>6
  <2> QED BY <2>2, <2>3
<1>12. CASE WriteActive(p)
  <2>1. /\ file' = file /\ issued' = issued /\ active' = NoOrg /\ UNCHANGED <<bare, refused>>
        /\ pc[p] = "activate" /\ Goto(p, "activating") /\ UNCHANGED <<target, mig, idx>>
    BY <1>12 DEF WriteActive, history
  <2>2. Usable' = Usable
    BY <2>1 DEF Usable, Loadable
  <2>3. pc'[p] = "activating" /\ mig'[p] = NoOrg /\ idx'[p] = 1 /\ target'[p] \in Usable'
    BY <1>0, <2>1, <2>2 DEF Goto, SettledProc
  <2>4. SettledProc(p)'
    BY <2>3 DEF SettledProc, Moving
  <2> QED BY <1>3, <2>1, <2>4
<1>13. CASE WriteActiveDone(p)
  <2>1. mig[p] = NoOrg /\ t \in Usable
    BY <1>0, <1>13 DEF WriteActiveDone, SettledProc
  <2>2. /\ active' = t /\ Return(p) /\ file' = file /\ issued' = issued
        /\ UNCHANGED <<bare, refused>>
    BY <1>13, <2>1 DEF WriteActiveDone, Dest, history
  <2> QED BY <1>3, <1>5, <2>1, <2>2
<1>14. CASE Enroll(p)
  <2>1. /\ file' = file /\ issued' = issued + 1 /\ active' = active
        /\ pc[p] = "body" /\ Goto(p, "write") /\ UNCHANGED <<target, mig, idx>>
        /\ buf' = [buf EXCEPT ![p] = [org |-> target[p], gen |-> issued + 1]]
        /\ UNCHANGED <<bare, refused>>
    BY <1>14 DEF Enroll, history
  <2>2. /\ pc'[p] = "write" /\ mig'[p] = NoOrg /\ idx'[p] = 1
        /\ buf'[p] = [org |-> target'[p], gen |-> issued']
    BY <1>0, <2>1 DEF Goto, SettledProc
  <2>3. SettledProc(p)'
    BY <2>2 DEF SettledProc, Stored, Moving
  <2> QED BY <1>3, <2>1, <2>3
<1>15. CASE WriteFile(p)
  <2>1. CASE t \notin dirs
    BY <1>3, <1>5, <1>15, <2>1 DEF WriteFile, history
  <2>2. CASE t \in dirs
    <3> DEFINE f == WriteOrder[idx[p]]
    <3>1. /\ t \in Orgs /\ f \in FileName /\ idx[p] \in 1 .. 5
          /\ buf[p] = [org |-> t, gen |-> issued] /\ Stored(t, idx[p], buf[p])
      BY <1>0, <1>15, OrderNames DEF WriteFile, SettledProc, TypeOK, LocalsOK
    <3>2. /\ file' = [file EXCEPT ![target[p]][f] = Torn] /\ UNCHANGED <<issued, active, target, mig, idx, buf>>
          /\ pc[p] = "write" /\ Goto(p, "writing") /\ UNCHANGED <<bare, refused>>
      BY <1>15, <2>2 DEF WriteFile, history
    <3>3. Sets(t, f, Torn)
      BY <1>0, <3>1, <3>2, Written
    <3>4. Whole(t)' /\ Stored(target[p], idx[p], buf[p])'
      <4>1. Whole(t)' /\ \A i, b : i = idx[p] /\ b = buf[p] => Stored(t, i, b)'
        BY <1>0, <3>1, <3>2, <3>3, WriteKeepsWhole
      <4> QED BY <3>2, <4>1 DEF Stored
    <3>5. file'[t][f] = Torn
      BY <1>0, <3>1, <3>3 DEF Sets
    <3>6. SettledProc(p)'
      BY <1>0, <3>1, <3>2, <3>4, <3>5 DEF SettledProc, Goto, Moving
    <3> QED BY <1>4, <3>1, <3>2, <3>3, <3>4, <3>6
  <2> QED BY <2>1, <2>2
<1>16. CASE WriteFileDone(p)
  <2> DEFINE f == WriteOrder[idx[p]]
  <2>1. /\ t \in Orgs /\ f \in FileName /\ idx[p] \in 1 .. 5 /\ file[t][f] = Torn
        /\ buf[p] = [org |-> t, gen |-> issued] /\ Stored(t, idx[p], buf[p])
    BY <1>0, <1>16, OrderNames DEF WriteFileDone, SettledProc, TypeOK, LocalsOK
  <2>2. /\ Fill(target[p], f, buf[p]) /\ UNCHANGED <<issued, active, target, mig, buf>>
        /\ pc[p] = "writing"
        /\ bare' = bare \/ (idx[p] = 1 /\ bare' = bare \ {t})
        /\ refused' = refused \/ (idx[p] = 4 /\ refused' = refused \ {t})
    BY <1>16, <2>1, OrderNames DEF WriteFileDone
  <2>3. Sets(t, f, buf[p])
    BY <1>0, <2>1, <2>2, Written
  <2>4. /\ Whole(t)'
        /\ \A k \in 2 .. 5 : k < idx[p] => file'[t][WriteOrder[k]] = buf[p]
        /\ idx[p] > 1 => t \in bare' \/ file'[t]["tok"] \in {Absent, buf[p]}
    BY <1>0, <2>1, <2>2, <2>3, WriteKeepsWhole DEF Stored
  <2>5. file'[t][f] = buf[p]
    BY <1>0, <2>1, <2>3 DEF Sets
  <2>6. /\ \A k \in 2 .. 5 : k < idx[p] + 1 => file'[t][WriteOrder[k]] = buf[p]
        /\ t \in bare' \/ file'[t]["tok"] \in {Absent, buf[p]}
    BY <2>1, <2>4, <2>5, OrderNames
  <2>7. SettledProc(p)'
    <3>1. CASE idx[p] < 5
      <4>1. Goto(p, "write") /\ idx'[p] = idx[p] + 1
        BY <1>0, <1>16, <3>1, OrderNames DEF WriteFileDone
      <4>2. pc'[p] = "write" /\ idx'[p] \in 1 .. 5
        BY <1>0, <2>1, <3>1, <4>1 DEF Goto
      <4>3. Stored(target[p], idx[p], buf[p])'
        BY <2>2, <2>6, <4>1 DEF Stored
      <4> QED BY <1>0, <2>1, <2>2, <4>2, <4>3 DEF SettledProc, Moving
    <3>2. CASE idx[p] = 5
      <4>1. pc'[p] = "activate" /\ idx'[p] = 1
        BY <1>0, <1>16, <3>2, OrderNames DEF WriteFileDone, Goto
      <4>2. buf[p] \in Identity /\ buf[p].org = t
        BY <1>0, <2>1 DEF Identity, TypeOK, StoreOK
      <4>3. file'[t]["ca"] = buf[p] /\ file'[t]["crt"] = buf[p] /\ file'[t]["key"] = buf[p]
        BY <2>6, <3>2, OrderNames
      <4>4. t \in Usable'
        BY <2>1, <4>2, <4>3 DEF Usable, Loadable
      <4> QED BY <1>0, <2>2, <4>1, <4>4 DEF SettledProc, Moving
    <3> QED BY <2>1, <3>1, <3>2
  <2> QED BY <1>4, <2>1, <2>2, <2>3, <2>4, <2>7
<1>17. CASE ClearFile(p)
  <2> DEFINE f == ClearOrder[idx[p]]
  <2>1. /\ t \in Orgs /\ f \in FileName /\ idx[p] \in 1 .. 6
        /\ idx[p] > 1 => file[t]["key"] = Absent \/ t \in refused
    BY <1>0, <1>17, OrderNames DEF ClearFile, SettledProc, TypeOK, LocalsOK
  <2>2. /\ file' = [file EXCEPT ![target[p]][f] = Absent]
        /\ UNCHANGED <<issued, active, target, mig>>
        /\ bare' = IF f = "tok" THEN bare \ {t} ELSE bare
        /\ refused' = IF f = "key" THEN refused \ {t} ELSE refused
    BY <1>17 DEF ClearFile
  <2>3. Sets(t, f, Absent)
    BY <1>0, <2>1, <2>2, Written
  <2>4. Whole(t)' /\ (file'[t]["key"] = Absent \/ t \in refused')
    BY <1>0, <2>1, <2>2, <2>3, ClearKeepsWhole
  <2>5. SettledProc(p)'
    <3>1. CASE idx[p] < 6
      <4>1. pc'[p] = "delete" /\ idx'[p] = idx[p] + 1
        BY <1>0, <1>17, <3>1, OrderNames DEF ClearFile, NextClear, Goto
      <4>2. idx'[p] \in 1 .. 6
        BY <2>1, <3>1, <4>1
      <4> QED BY <1>0, <2>2, <2>4, <4>1, <4>2 DEF SettledProc, Moving
    <3>2. CASE ~(idx[p] < 6)
      <4>1. pc'[p] = "rmdir" /\ idx'[p] = 1
        BY <1>0, <1>17, <3>2, OrderNames DEF ClearFile, NextClear, Goto
      <4> QED BY <1>0, <2>2, <2>4, <4>1 DEF SettledProc, Moving
    <3> QED BY <3>1, <3>2
  <2> QED BY <1>4, <2>1, <2>2, <2>3, <2>4, <2>5
<1>18. CASE ClearRefused(p)
  <2>1. /\ file' = file /\ issued' = issued /\ active' = active /\ UNCHANGED <<target, mig, bare>>
        /\ refused' = IF ClearOrder[idx[p]] = "key" THEN refused \cup {t} ELSE refused
        /\ pc[p] = "delete" /\ NextClear(p)
    BY <1>18 DEF ClearRefused, store
  <2>2. idx[p] \in 1 .. 6 /\ (file[t]["key"] = Absent \/ t \in refused')
    BY <1>0, <2>1, OrderNames DEF SettledProc
  <2>3. \/ pc'[p] = "delete" /\ idx'[p] \in 1 .. 6
        \/ pc'[p] = "rmdir" /\ idx'[p] = 1
    BY <1>0, <2>1, <2>2, OrderNames DEF NextClear, Goto
  <2>4. SettledProc(p)'
    BY <1>0, <2>1, <2>2, <2>3 DEF SettledProc, Moving
  <2> QED BY <1>3, <2>1, <2>4
<1>19. CASE SkipToken(p)
  <2>1. /\ file' = file /\ issued' = issued /\ active' = active
        /\ UNCHANGED <<target, mig, buf, refused>>
        /\ bare' = IF file[t]["tok"] = Absent THEN bare ELSE bare \cup {t}
        /\ pc[p] = "write" /\ pc'[p] = "write" /\ idx'[p] = idx[p] + 1
        /\ WriteOrder[idx[p]] = "tok"
    BY <1>0, <1>19 DEF SkipToken, store, Goto
  <2>2. idx[p] = 1 /\ idx'[p] = 2 /\ buf[p] = [org |-> t, gen |-> issued]
    BY <1>0, <2>1, OrderNames DEF SettledProc
  <2>3. Stored(target[p], idx[p], buf[p])'
    BY <2>1, <2>2 DEF Stored
  <2>4. SettledProc(p)'
    BY <1>0, <2>1, <2>2, <2>3 DEF SettledProc, Moving
  <2> QED BY <1>3, <2>1, <2>4
<1>20. CASE RemoveDir(p) \/ RemoveDirFails(p)
  <2>1. PICK left \in SUBSET FileName :
          /\ file' = [file EXCEPT ![t] =
                        [f \in FileName |-> IF f \in left THEN file[t][f] ELSE Absent]]
          /\ bare' = IF "tok" \in left THEN bare ELSE bare \ {t}
          /\ refused' = IF "key" \in left THEN refused ELSE refused \ {t}
    <3>1. CASE RemoveDir(p)
      <4>1. /\ file' = [file EXCEPT ![t] = [f \in FileName |-> Absent]]
            /\ bare' = bare \ {t} /\ refused' = refused \ {t}
        BY <3>1 DEF RemoveDir
      <4>2. [f \in FileName |-> Absent]
              = [f \in FileName |-> IF f \in {} THEN file[t][f] ELSE Absent]
        OBVIOUS
      <4> WITNESS {} \in SUBSET FileName
      <4> QED BY <4>1, <4>2
    <3>2. CASE RemoveDirFails(p)
      <4>1. PICK left \in SUBSET {f \in Stubborn : file[t][f] # Absent} :
              /\ file' = [file EXCEPT ![t] =
                            [f \in FileName |-> IF f \in left THEN file[t][f] ELSE Absent]]
              /\ bare' = IF "tok" \in left THEN bare ELSE bare \ {t}
              /\ refused' = IF "key" \in left THEN refused ELSE refused \ {t}
        BY <3>2 DEF RemoveDirFails
      <4>2. \A f \in FileName : f \in left <=> f \in left \cap FileName
        OBVIOUS
      <4>3. /\ [f \in FileName |-> IF f \in left THEN file[t][f] ELSE Absent]
                = [f \in FileName |-> IF f \in left \cap FileName THEN file[t][f] ELSE Absent]
            /\ "tok" \in FileName /\ "key" \in FileName
        BY <4>2 DEF FileName
      <4> WITNESS left \cap FileName \in SUBSET FileName
      <4> QED BY <4>1, <4>3
    <3> QED BY <1>20, <3>1, <3>2
  <2>2. /\ issued' = issued /\ active' = active /\ mig' = mig /\ idx' = idx
        /\ pc[p] = "rmdir" /\ Goto(p, "unselect")
    BY <1>20 DEF RemoveDir, RemoveDirFails
  <2>3. t \in Orgs /\ idx[p] = 1
    BY <1>0, <2>2 DEF SettledProc, TypeOK, LocalsOK
  <2>4. \A d \in Orgs, g \in FileName :
          file'[d][g] = IF d = t /\ g \notin left THEN Absent ELSE file[d][g]
    BY <1>0, <2>1 DEF TypeOK, StoreOK, FileMap
  <2>5. ASSUME NEW o \in Orgs PROVE Whole(o)'
    <3>1. CASE o = t
      <4>1. \A g \in FileName : file'[t][g] = IF g \notin left THEN Absent ELSE file[t][g]
        BY <2>3, <2>4
      <4>2. \A f \in FileName : file'[t][f] \in Identity => file'[t][f] = file[t][f]
        BY <4>1, FileAssumption
      <4>3. \A f, g \in FileName : Fresher(t, f, g) => Fresher(o, f, g)'
        BY <3>1, <4>2 DEF Fresher
      <4>4. o \notin bare' => Fresher(o, "tok", "ca")'
        <5>1. CASE o \notin bare
          BY <1>0, <3>1, <4>3, <5>1 DEF Whole, FileName
        <5>2. CASE "tok" \notin left
          <6>1. file'[o]["tok"] = Absent
            BY <3>1, <4>1, <5>2 DEF FileName
          <6> QED BY <6>1, FileAssumption DEF Fresher
        <5> QED BY <2>1, <5>1, <5>2
      <4>5. o \notin refused' => file'[o]["key"] = Absent
        BY <1>0, <2>1, <2>2, <3>1, <4>1 DEF SettledProc, FileName
      <4> QED BY <1>0, <2>2, <3>1, <4>2, <4>3, <4>4, <4>5 DEF Whole, FileName
    <3>2. CASE o # t
      <4>1. issued' \in Nat /\ issued' >= issued
        BY <1>0, <2>2
      <4>2. (o \in bare => o \in bare') /\ (o \in refused => o \in refused')
        BY <2>1, <3>2
      <4> QED BY <1>0, <2>4, <3>2, <4>1, <4>2, UntouchedWhole
    <3> QED BY <3>1, <3>2
  <2>6. SettledProc(p)'
    BY <1>6, <2>2, <2>3
  <2>7. OneOrgStep(t)
    BY <2>2, <2>4 DEF OneOrgStep
  <2>8. \A q \in Procs : SettledProc(q)'
    BY <1>9, <2>6
  <2> QED BY <1>2, <2>3, <2>5, <2>7, <2>8 DEF Settled
<1> QED BY <1>1, <1>7, <1>8, <1>11, <1>12, <1>13, <1>14, <1>15, <1>16, <1>17, <1>18, <1>19, <1>20
        DEF Body

\* A store that is migrated and settled stays so.
LEMMA SettledStays ==
  ASSUME Serial, Serial', SoloInv, ~Pending, NEW p \in Procs,
         \/ \E c \in Command, d \in Orgs \cup {NoOrg} : Begin(p, c, d)
         \/ Advance(p)
         \/ Stop(p)
  PROVE  ~Pending' /\ Settled'
<1>1. Settled' /\ marker' = marker /\ file'[Root] = file[Root]
  <2>1. CASE Body(p)
    BY <2>1, SettledBody
  <2>2. CASE ~Body(p)
    BY <2>2, SettledLayout DEF Advance, store
  <2> QED BY <2>1, <2>2
<1> QED BY <1>1 DEF Pending, IsFlatStore

\* Every step keeps the store in a mode, and only the removal of the marker leads
\* from one to the other.
LEMMA NextMode ==
  ASSUME Serial, Serial', SoloInv, OrphanInv', [Next]_vars
  PROVE  Mode'
<1>1. CASE vars' = vars
  <2>1. Pending' = Pending /\ Settled' = Settled
    BY <1>1 DEF vars, Pending, IsFlatStore, Settled, RootEmpty, Whole, Fresher, SettledProc,
       Stored, Usable, Loadable
  <2>2. \A o \in Orgs : Midway(o)' = Midway(o)
    BY <1>1 DEF vars, Midway, MidStore, MidProc, MoveShape
  <2> QED BY <2>1, <2>2 DEF SoloInv, Mode
<1>2. ASSUME NEW p \in Procs,
             \/ \E c \in Command, d \in Orgs \cup {NoOrg} : Begin(p, c, d)
             \/ Advance(p)
             \/ Stop(p)
      PROVE  Mode'
  <2>1. CASE Pending
    <3>1. PICK o \in Orgs : Midway(o)
      BY <2>1 DEF SoloInv, Mode
    <3>2. CASE Unmark(p)
      <4>1. ~Pending' /\ Settled'
        BY <3>1, <3>2, MidwayEnds DEF SoloInv
      <4> QED BY <4>1 DEF Mode
    <3>3. CASE ~Unmark(p)
      <4>1. Pending' /\ Midway(o)'
        BY <1>2, <2>1, <3>1, <3>3, MidwayStep DEF SoloInv
      <4> QED BY <4>1 DEF Mode
    <3> QED BY <3>2, <3>3
  <2>2. CASE ~Pending
    BY <1>2, <2>2, SettledStays DEF Mode
  <2> QED BY <2>1, <2>2
<1> QED BY <1>1, <1>2 DEF Next

\* Commands that do not overlap, wherever they stop, leave the store in a mode.
LEMMA AlwaysSolo == Spec /\ []Serial => []SoloInv
<1>1. Init => SoloInv
  <2> SUFFICES ASSUME Init PROVE SoloInv
    OBVIOUS
  <2>1. \A p \in Procs : pc[p] = "idle"
    BY DEF Init
  <2> QED BY <2>1, InitType, InitOrphans, InitFlat, InitMode
          DEF SoloInv, FlatInv, OrphanInv, Cleared, Unraced, PastMove
<1>2. SoloInv /\ Serial /\ Serial' /\ [Next]_vars => SoloInv'
  <2> SUFFICES ASSUME SoloInv, Serial, Serial', [Next]_vars PROVE SoloInv'
    OBVIOUS
  <2>1. OrphanInv' /\ Cleared' /\ CopyFacts'
    BY NextOrphans, NextCleared, NextCopy DEF SoloInv, FlatInv, CopiesAlone
  <2>2. FlatFacts' /\ Mode'
    BY <2>1, NextFlat, NextMode DEF SoloInv, FlatInv
  <2>3. Unraced'
    BY SerialUnraced DEF SoloInv, FlatInv, OrphanInv
  <2> QED BY <2>1, <2>2, <2>3 DEF SoloInv, FlatInv
<1> QED BY <1>1, <1>2, PTL DEF Spec

\* In both modes a key has its certificate and its CA beside it.
LEMMA ModeKey == ASSUME Mode PROVE KeyNeverAlone
<1>1. "key" \in FileName
  BY DEF FileName
<1>2. ASSUME NEW o \in Orgs, Midway(o), ~marker, NEW d \in Orgs
      PROVE  file[d]["key"] = Absent
  BY <1>1, <1>2 DEF Midway, MidStore, MoveShape
<1> QED BY <1>2 DEF Mode, Settled, Whole, KeyNeverAlone

\* In both modes what was written first is not older.
LEMMA ModeToken == ASSUME Mode PROVE TokenFirst
<1>1. ASSUME NEW o \in Orgs, Midway(o), NEW d \in Orgs, NEW f \in FileName, NEW g \in FileName
      PROVE  Fresher(d, f, g)
  <2>1. \A h \in FileName : file[d][h] \in Identity => file[d][h] = Old(o)
    BY <1>1, FileAssumption DEF Midway, MidStore, MoveShape
  <2> QED BY <1>1, <2>1, OldFacts DEF Fresher
<1> QED BY <1>1 DEF Mode, Settled, Whole, TokenFirst, FileName

\* The certificate of the flat store is whole at the root or in the only
\* directory, so that a migration that was cut finds its organization again.
LEMMA ModeDiscover == ASSUME Mode PROVE Resumable
<1> SUFFICES ASSUME marker PROVE DiscoverOrg # NoOrg
  BY DEF Resumable
<1>1. PICK o \in Orgs : MidStore(o)
  BY DEF Mode, Pending, Midway
<1> DEFINE named == {file[d]["crt"].org : d \in {e \in dirs : file[e]["crt"] \in Identity}}
<1>2. /\ MoveShape(o) /\ "crt" \in Bundle /\ "crt" \in FileName
      /\ file[Root]["crt"] = Old(o) \/ (o \in dirs /\ file[o]["crt"] = Old(o))
  BY <1>1 DEF MidStore, Bundle, FileName
<1>3. CASE file[Root]["crt"] \in Identity
  <2>1. file[Root]["crt"] = Old(o)
    BY <1>2, <1>3, FileAssumption DEF MoveShape
  <2> QED BY <1>3, <2>1, OldFacts DEF DiscoverOrg
<1>4. CASE file[Root]["crt"] \notin Identity
  <2>1. o \in dirs /\ file[o]["crt"] = Old(o) /\ dirs = {o}
    BY <1>2, <1>4, OldFacts DEF MoveShape
  <2>2. named = {o}
    BY <2>1, OldFacts
  <2>3. DiscoverOrg = CHOOSE x \in Orgs : named = {x}
    BY <1>4, <2>2 DEF DiscoverOrg
  <2> QED BY <2>2, <2>3, OldFacts
<1> QED BY <1>3, <1>4

\* Commands that do not overlap, stopped between any two file operations, with any
\* deletions refused: a private key is never in an organization directory without
\* its certificate and CA, outside a migration, unless it is a key that could not
\* be deleted itself.
THEOREM KeyHasCertificate == Spec /\ []Serial => []KeyNeverAlone
BY AlwaysSolo, ModeKey, PTL DEF SoloInv

\* Commands that do not overlap, stopped between any two file operations and
\* enrolling again: a certificate is never newer than the CA and the token
\* beside it, unless the token was kept because the last bundle had none.
THEOREM TokenNeverOlder == Spec /\ []Serial => []TokenFirst
BY AlwaysSolo, ModeToken, PTL DEF SoloInv

\* Commands that do not overlap, stopped anywhere in migrateFlat: the organization
\* of the pending migration is found again, by whichever process comes next.
THEOREM MigrationResumes == Spec /\ []Serial => []Resumable
BY AlwaysSolo, ModeDiscover, PTL DEF SoloInv

\* Commands that do not overlap, wherever they stop: a store that is migrated is
\* never taken for a flat one again, and no marker comes back.
THEOREM MigratesOnce == Spec /\ []Serial => [](~Pending => []~Pending)
<1>1. SoloInv /\ Serial /\ Serial' /\ ~Pending /\ [Next]_vars => ~Pending'
  <2>1. UNCHANGED vars => Pending' = Pending
    BY DEF vars, Pending, IsFlatStore
  <2> QED BY <2>1, SettledStays DEF Next
<1> QED BY <1>1, AlwaysSolo, PTL DEF Spec

-----------------------------------------------------------------------------
(***************************************************************************)
(* Serial commands implement Enrollments. While a flat store is pending    *)
(* the agent is shown nothing and every step stutters; the removal of the  *)
(* marker shows the migrated organization, selected; a step on a settled   *)
(* store changes the bundle of one organization, or moves the pointer.     *)
(***************************************************************************)

\* A store starts with nothing to show, or with usable bundles only.
LEMMA InitContract == Init => Contract!Init
<1> SUFFICES ASSUME Init PROVE Contract!Init
  OBVIOUS
<1>1. CASE Pending
  BY <1>1 DEF Contract!Init
<1>2. CASE ~Pending
  <2>1. active \in Usable \cup {NoOrg}
    <3>1. CASE active = NoOrg
      BY <3>1
    <3>2. CASE active # NoOrg
      <4>1. OrgStore
        BY <3>2 DEF Init, EmptyStore, FlatStore
      <4>2. PICK S \in SUBSET Orgs \ {{}} :
              /\ file = [d \in Place |-> IF d \in S THEN Files(Bundle \cup {"tok", "meta"}, d)
                                         ELSE Files({}, d)]
              /\ active \in S \cup {NoOrg}
        BY <4>1 DEF OrgStore
      <4>3. active \in S /\ active \in Orgs
        BY <3>2, <4>2
      <4>4. \A f \in Bundle : file[active][f] = Old(active)
        BY <4>2, <4>3, OldFacts DEF Files, Bundle, FileName, Old
      <4> QED BY <4>3, <4>4, OldFacts DEF Usable, Loadable, Bundle
    <3> QED BY <3>1, <3>2
  <2> QED BY <1>2, <2>1 DEF Contract!Init, Usable
<1> QED BY <1>1, <1>2

\* What a step on a settled store is for the rest of the agent.
LEMMA SettledStep ==
  ASSUME PointerStep \/ (\E t \in Orgs : OneOrgStep(t)), ~Pending, ~Pending'
  PROVE  [Contract!Next]_<<IF Pending THEN {} ELSE Usable, IF Pending THEN NoOrg ELSE active>>
<1>1. CASE PointerStep
  <2>1. Usable' = Usable
    BY <1>1 DEF PointerStep, Usable, Loadable
  <2>2. CASE active' = active
    BY <2>1, <2>2
  <2>3. CASE active' = NoOrg
    <3>1. Contract!Deselect
      BY <2>1, <2>3 DEF Contract!Deselect
    <3> QED BY <3>1 DEF Contract!Next
  <2>4. CASE active' \in Usable
    <3>1. PICK o \in Orgs : o \in Usable /\ active' = o
      BY <2>4 DEF Usable
    <3>2. Contract!Select(o)
      BY <2>1, <3>1 DEF Contract!Select
    <3> QED BY <3>2 DEF Contract!Next
  <2> QED BY <1>1, <2>2, <2>3, <2>4 DEF PointerStep
<1>2. ASSUME NEW t \in Orgs, OneOrgStep(t)
      PROVE  Contract!Next
  <2>1. active' = active
    BY <1>2 DEF OneOrgStep
  <2>2. \A d \in Orgs \ {t} : d \in Usable' <=> d \in Usable
    BY <1>2 DEF OneOrgStep, Usable, Loadable, FileName
  <2>3. Usable \subseteq Orgs /\ Usable' \subseteq Orgs
    BY DEF Usable
  <2>4. CASE t \in Usable'
    <3>1. Usable' = Usable \cup {t}
      BY <2>2, <2>3, <2>4
    <3>2. Contract!Put(t)
      BY <2>1, <3>1 DEF Contract!Put
    <3> QED BY <3>2 DEF Contract!Next
  <2>5. CASE t \notin Usable'
    <3>1. Usable' = Usable \ {t}
      BY <2>2, <2>3, <2>5
    <3>2. Contract!Take(t)
      BY <2>1, <3>1 DEF Contract!Take
    <3> QED BY <3>2 DEF Contract!Next
  <2> QED BY <2>4, <2>5
<1> QED BY <1>1, <1>2

\* While commands do not overlap, every step is one of the contract, or changes
\* nothing in it.
LEMMA NextContract ==
  ASSUME Serial, Serial', SoloInv, OrphanInv', [Next]_vars
  PROVE  [Contract!Next]_<<IF Pending THEN {} ELSE Usable, IF Pending THEN NoOrg ELSE active>>
<1>1. CASE vars' = vars
  BY <1>1 DEF vars, Pending, IsFlatStore, Usable, Loadable
<1>2. ASSUME NEW p \in Procs,
             \/ \E c \in Command, d \in Orgs \cup {NoOrg} : Begin(p, c, d)
             \/ Advance(p)
             \/ Stop(p)
      PROVE  [Contract!Next]_<<IF Pending THEN {} ELSE Usable, IF Pending THEN NoOrg ELSE active>>
  <2>1. CASE Pending
    <3>1. PICK o \in Orgs : Midway(o)
      BY <2>1 DEF SoloInv, Mode
    <3>2. CASE Unmark(p)
      <4>1. ~Pending' /\ active' = o /\ Usable' = {o}
        BY <3>1, <3>2, MidwayEnds DEF SoloInv
      <4>2. Contract!Put(o)
        BY <2>1, <4>1 DEF Contract!Put
      <4> QED BY <4>2 DEF Contract!Next
    <3>3. CASE ~Unmark(p)
      <4>1. Pending'
        BY <1>2, <2>1, <3>1, <3>3, MidwayStep DEF SoloInv
      <4> QED BY <2>1, <4>1
    <3> QED BY <3>2, <3>3
  <2>2. CASE ~Pending /\ Body(p)
    <3>1. /\ PointerStep \/ (\E t \in Orgs : OneOrgStep(t))
          /\ marker' = marker /\ file'[Root] = file[Root]
      BY <2>2, SettledBody
    <3>2. ~Pending'
      BY <2>2, <3>1 DEF Pending, IsFlatStore
    <3> QED BY <2>2, <3>1, <3>2, SettledStep
  <2>3. CASE ~Pending /\ ~Body(p)
    <3>1. UNCHANGED store
      BY <1>2, <2>3, SettledLayout DEF Advance
    <3> QED BY <3>1 DEF store, Pending, IsFlatStore, Usable, Loadable
  <2> QED BY <2>1, <2>2, <2>3
<1> QED BY <1>1, <1>2 DEF Next

\* Commands that do not overlap, stopped between any two file operations, keep
\* the contract of the store: a migration appears at once with its organization
\* selected, a step is about one organization, and an organization is selected
\* only when its CA, certificate and key load and the certificate names it.
THEOREM ImplementsEnrollments == Spec /\ []Serial => KeepsContract
<1>1. Init => Contract!Init
  BY InitContract
<1>2. SoloInv /\ OrphanInv' /\ Serial /\ Serial' /\ [Next]_vars =>
        [Contract!Next]_<<IF Pending THEN {} ELSE Usable, IF Pending THEN NoOrg ELSE active>>
  BY NextContract
<1>3. SoloInv => OrphanInv
  BY DEF SoloInv, FlatInv
<1> QED BY <1>1, <1>2, <1>3, AlwaysSolo, PTL DEF Spec, KeepsContract, Contract!Spec

-----------------------------------------------------------------------------
(***************************************************************************)
(* No command goes round in circles, however many others it meets.         *)
(***************************************************************************)

\* A bound on the file operations that are left of a command that is at l, at the
\* i-th name of its list, and migrates to m.
Weight(l, i, m) ==
  CASE l = "ensure" -> 50
    [] l = "flat" -> 49
    [] l = "mark" -> 48
    [] l = "discover" -> 47
    [] l = "move" -> 49 - 3 * i
    [] l = "copy" -> 48 - 3 * i
    [] l = "unlink" -> 47 - 3 * i
    [] l = "meta" -> 25
    [] l = "newmeta" -> 24
    [] l = "activate" -> IF m = NoOrg THEN 2 ELSE 23
    [] l = "activating" -> IF m = NoOrg THEN 1 ELSE 22
    [] l = "unmark" -> 21
    [] l = "body" -> 20
    [] l = "write" -> 20 - 2 * i
    [] l = "writing" -> 19 - 2 * i
    [] l = "delete" -> 12 - i
    [] l = "rmdir" -> 4
    [] l = "unselect" -> 3
    [] l = "clear" -> 2
    [] OTHER -> 0

CommandLeft(p) == Weight(pc[p], idx[p], mig[p])

\* Only a process that is migrating has somewhere to move files to.
Bound ==
  \A p \in Procs :
    pc[p] \in {"idle", "ensure", "flat", "mark", "discover", "body", "write", "writing"}
      => mig[p] = NoOrg

\* How a step of a migration moves its process: forward, or to the end.
LEMMA MigrateGoes ==
  ASSUME TypeOK, Bound, NEW p \in Procs, Migrate(p)
  PROVE  /\ CommandLeft(p)' < CommandLeft(p)
         /\ pc'[p] \in {"idle", "ensure", "flat", "mark", "discover", "body", "write", "writing"}
              => mig'[p] = NoOrg
<1>0. /\ idx[p] \in 1 .. 7 /\ Len(MoveOrder) = 7
      /\ pc \in [Procs -> PC] /\ mig \in [Procs -> Orgs \cup {NoOrg}] /\ idx \in [Procs -> 1 .. 7]
  BY DEF TypeOK, ProcsOK, MoveOrder
<1>1. CASE EnsureLayout(p) \/ EnsureFlat(p) \/ Mark(p)
  <2>1. /\ mig'[p] = NoOrg
        /\ \/ pc[p] = "ensure" /\ pc'[p] \in {"mark", "flat"}
           \/ pc[p] = "flat" /\ pc'[p] \in {"mark", "body"}
           \/ pc[p] = "mark" /\ pc'[p] = "discover"
    BY <1>0, <1>1 DEF EnsureLayout, EnsureFlat, Mark, Goto, Bound
  <2> QED BY <2>1 DEF CommandLeft, Weight
<1>2. CASE DiscoverFails(p) \/ MoveFails(p) \/ CopyUnlinkFails(p)
  <2>1. pc[p] \in {"discover", "move", "unlink"} /\ pc'[p] = "idle" /\ mig'[p] = NoOrg
    BY <1>0, <1>2 DEF DiscoverFails, MoveFails, CopyUnlinkFails, Return, Goto
  <2> QED BY <1>0, <2>1 DEF CommandLeft, Weight
<1>3. CASE Discover(p) \/ MoveCopy(p) \/ CopyDone(p)
  <2>1. /\ idx'[p] = idx[p]
        /\ \/ pc[p] = "discover" /\ pc'[p] = "move"
           \/ pc[p] = "move" /\ pc'[p] = "copy"
           \/ pc[p] = "copy" /\ pc'[p] = "unlink"
    BY <1>0, <1>3 DEF Discover, MoveCopy, CopyDone, Goto
  <2> QED BY <1>0, <2>1 DEF CommandLeft, Weight
<1>4. CASE MoveAbsent(p) \/ MoveRename(p) \/ CopyUnlink(p)
  <2>1. /\ pc[p] \in {"move", "unlink"}
        /\ \/ idx[p] < 7 /\ pc'[p] = "move" /\ idx'[p] = idx[p] + 1
           \/ pc'[p] = "meta"
    BY <1>0, <1>4 DEF MoveAbsent, MoveRename, CopyUnlink, NextMove, Goto
  <2> QED BY <1>0, <2>1 DEF CommandLeft, Weight
<1>5. CASE MigrateMeta(p) \/ MigrateMetaDone(p)
  <2>1. \/ pc[p] = "meta" /\ pc'[p] \in {"newmeta", "activate"}
        \/ pc[p] = "newmeta" /\ pc'[p] = "activate"
    BY <1>0, <1>5 DEF MigrateMeta, MigrateMetaDone, Goto
  <2> QED BY <2>1 DEF CommandLeft, Weight
<1>6. CASE Unmark(p)
  <2>1. pc[p] = "unmark" /\ pc'[p] \in {"body", "idle"} /\ mig'[p] = NoOrg
    BY <1>0, <1>6 DEF Unmark, Return, Goto
  <2> QED BY <2>1 DEF CommandLeft, Weight
<1> QED BY <1>1, <1>2, <1>3, <1>4, <1>5, <1>6 DEF Migrate

\* So it is with the commands themselves, which write the pointer like a migration.
LEMMA BodyGoes ==
  ASSUME TypeOK, Bound, NEW p \in Procs, Body(p)
  PROVE  /\ CommandLeft(p)' < CommandLeft(p)
         /\ pc'[p] \in {"idle", "ensure", "flat", "mark", "discover", "body", "write", "writing"}
              => mig'[p] = NoOrg
<1>0. /\ idx[p] \in 1 .. 7
      /\ pc \in [Procs -> PC] /\ mig \in [Procs -> Orgs \cup {NoOrg}] /\ idx \in [Procs -> 1 .. 7]
  BY DEF TypeOK, ProcsOK
<1>1. CASE Return(p)
  <2>1. pc'[p] = "idle" /\ mig'[p] = NoOrg
    BY <1>0, <1>1 DEF Return, Goto
  <2>2. pc[p] \in {"body", "clear", "activating", "write", "unselect"}
    BY <1>0, <1>1, <2>1
    DEF Body, Resolve, ResolveStale, ClearActive, Switch, WriteActive, WriteActiveDone, Enroll,
        EnrollRefused, WriteFile, SkipToken, WriteFileDone, Remove, ClearFile, ClearRefused,
        NextClear, RemoveDir, RemoveDirFails, Unselect, Goto
  <2> QED BY <1>0, <2>1, <2>2 DEF CommandLeft, Weight
<1>2. CASE WriteActive(p) \/ (WriteActiveDone(p) /\ ~Return(p))
  <2>1. /\ mig'[p] = mig[p]
        /\ \/ pc[p] = "activate" /\ pc'[p] = "activating"
           \/ pc[p] = "activating" /\ pc'[p] = "unmark" /\ mig[p] # NoOrg
    BY <1>0, <1>2 DEF WriteActive, WriteActiveDone, Goto
  <2> QED BY <2>1 DEF CommandLeft, Weight
<1>3. CASE ~Return(p) /\ (ResolveStale(p) \/ Switch(p) \/ Enroll(p) \/ Remove(p))
  <2>1. /\ pc[p] = "body" /\ mig'[p] = NoOrg /\ idx'[p] = idx[p]
        /\ pc'[p] \in {"clear", "activate", "write", "delete"}
    BY <1>0, <1>3 DEF ResolveStale, Switch, Enroll, Remove, Goto, Bound
  <2> QED BY <1>0, <2>1 DEF CommandLeft, Weight
<1>4. CASE ~Return(p) /\ (WriteFile(p) \/ SkipToken(p) \/ WriteFileDone(p))
  <2>1. /\ mig[p] = NoOrg /\ mig'[p] = NoOrg
        /\ \/ pc[p] = "write" /\ pc'[p] = "writing" /\ idx'[p] = idx[p]
           \/ pc[p] = "write" /\ pc'[p] = "write" /\ idx'[p] = idx[p] + 1
           \/ pc[p] = "writing" /\ pc'[p] = "write" /\ idx'[p] = idx[p] + 1
           \/ pc[p] = "writing" /\ pc'[p] = "activate"
    BY <1>0, <1>4 DEF WriteFile, SkipToken, WriteFileDone, Goto, Bound
  <2> QED BY <1>0, <2>1 DEF CommandLeft, Weight
<1>5. CASE ~Return(p) /\ (ClearFile(p) \/ ClearRefused(p) \/ RemoveDir(p) \/ RemoveDirFails(p)
                          \/ Unselect(p))
  <2>1. \/ pc[p] = "delete" /\ pc'[p] = "delete" /\ idx'[p] = idx[p] + 1
        \/ pc[p] = "delete" /\ pc'[p] = "rmdir"
        \/ pc[p] = "rmdir" /\ pc'[p] = "unselect"
        \/ pc[p] = "unselect" /\ pc'[p] = "clear"
    BY <1>0, <1>5 DEF ClearFile, ClearRefused, NextClear, RemoveDir, RemoveDirFails, Unselect, Goto
  <2> QED BY <1>0, <2>1 DEF CommandLeft, Weight
<1> QED BY <1>1, <1>2, <1>3, <1>4, <1>5 DEF Body, Resolve, ClearActive, EnrollRefused

\* The invariant behind it, which Begin and Return keep, too.
LEMMA NextBound == TypeOK /\ Bound /\ [Next]_vars => Bound'
<1> SUFFICES ASSUME TypeOK, Bound, [Next]_vars PROVE Bound'
  OBVIOUS
<1>1. ASSUME NEW p \in Procs,
             \/ \E c \in Command, o \in Orgs \cup {NoOrg} : Begin(p, c, o)
             \/ Advance(p)
             \/ Stop(p)
      PROVE  Bound'
  <2>1. pc'[p] \in {"idle", "ensure", "flat", "mark", "discover", "body", "write", "writing"}
          => mig'[p] = NoOrg
    <3>1. CASE \E c \in Command, o \in Orgs \cup {NoOrg} : Begin(p, c, o)
      BY <3>1 DEF Begin, Bound
    <3>2. CASE Stop(p)
      BY <3>2 DEF Stop, Return, TypeOK, ProcsOK
    <3> QED BY <1>1, <3>1, <3>2, MigrateGoes, BodyGoes DEF Advance
  <2> QED BY <1>1, <2>1, OwnLocals DEF Bound
<1>2. CASE UNCHANGED vars
  BY <1>2 DEF vars, Bound
<1> QED BY <1>1, <1>2 DEF Next

\* A command takes at most 50 file operations, the migration it may begin with
\* among them: each of its steps leaves fewer, and nothing that other processes
\* do to the store sends it back to an earlier one.
THEOREM CommandsCountDown ==
  Spec => [][\A p \in Procs :
               /\ CommandLeft(p) \in 0 .. 50
               /\ Advance(p) => CommandLeft(p)' < CommandLeft(p)
               /\ pc[p] # "idle" => CommandLeft(p)' <= CommandLeft(p)]_vars
<1>1. ASSUME TypeOK, NEW p \in Procs
      PROVE  CommandLeft(p) \in 0 .. 50
  <2>1. idx[p] \in 1 .. 7
    BY <1>1 DEF TypeOK, ProcsOK
  <2> QED BY <2>1 DEF CommandLeft, Weight
<1>2. ASSUME TypeOK', NEW p \in Procs
      PROVE  CommandLeft(p)' \in 0 .. 50
  <2>1. idx'[p] \in 1 .. 7
    BY <1>2 DEF TypeOK, ProcsOK
  <2> QED BY <2>1 DEF CommandLeft, Weight
<1>3. ASSUME TypeOK, TypeOK', Bound, Next, NEW p \in Procs
      PROVE  /\ CommandLeft(p) \in 0 .. 50
             /\ Advance(p) => CommandLeft(p)' < CommandLeft(p)
             /\ pc[p] # "idle" => CommandLeft(p)' <= CommandLeft(p)
  <2>1. CommandLeft(p) \in 0 .. 50 /\ CommandLeft(p)' \in 0 .. 50
    BY <1>1, <1>2, <1>3
  <2>2. Advance(p) => CommandLeft(p)' < CommandLeft(p)
    BY <1>3, MigrateGoes, BodyGoes DEF Advance
  <2>3. CASE Stop(p)
    <3>1. pc'[p] = "idle"
      BY <1>3, <2>3 DEF Stop, Return, Goto, TypeOK, ProcsOK
    <3>2. CommandLeft(p)' = 0
      BY <3>1 DEF CommandLeft, Weight
    <3> QED BY <2>1, <2>2, <3>2
  <2>4. CASE pc[p] # "idle" /\ ~Advance(p) /\ ~Stop(p)
    <3>1. PICK q \in Procs : \/ \E c \in Command, o \in Orgs \cup {NoOrg} : Begin(q, c, o)
                             \/ Advance(q)
                             \/ Stop(q)
      BY <1>3 DEF Next
    <3>2. q # p
      BY <2>4, <3>1 DEF Begin
    <3>3. pc'[p] = pc[p] /\ mig'[p] = mig[p] /\ idx'[p] = idx[p]
      BY <1>3, <3>1, <3>2, OwnLocals
    <3>4. CommandLeft(p)' = CommandLeft(p)
      BY <3>3 DEF CommandLeft
    <3> QED BY <2>1, <2>4, <3>4
  <2> QED BY <2>1, <2>2, <2>3, <2>4
<1>4. TypeOK /\ TypeOK' /\ Bound /\ [Next]_vars =>
        [\A p \in Procs :
           /\ CommandLeft(p) \in 0 .. 50
           /\ Advance(p) => CommandLeft(p)' < CommandLeft(p)
           /\ pc[p] # "idle" => CommandLeft(p)' <= CommandLeft(p)]_vars
  BY <1>3
<1>5. Init => Bound
  BY DEF Init, Bound
<1> QED BY <1>4, <1>5, NextBound, TypeCorrect, PTL DEF Spec
=============================================================================
