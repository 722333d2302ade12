---------------------------- MODULE UnenrollProofs ----------------------------
(***************************************************************************)
(* Proofs about Unenroll, for any organizations and enrollments: whatever  *)
(* is lost, killed, renewed, selected or enrolled meanwhile, `agent        *)
(* unenroll` deletes a bundle only after the worker revoked the agent it   *)
(* loaded the token of, and only the bundle its prompt was about; and it   *)
(* takes no selection away that it had the time to see.                    *)
(***************************************************************************)
EXTENDS Unenroll, TLAPS

USE DEF disk, worker, command

\* Past its resolution the command is about what it asked for, and it comes to
\* the removal through the worker or with --local-only. While it is about to
\* clear the pointer, that names what it read, or another command wrote since;
\* and it has no result before its end.
Guarded ==
  /\ pc \notin {"idle", "list", "resolve", "deselect"} => target = asked
  /\ pc = "remove" /\ "localOnly" \notin flags => <<target, token>> \in revoked
  /\ pc = "clear" => active = target \/ late
  /\ pc = "deselect" => active \notin Enrolled \/ late
  /\ pc # "idle" => result = "none"

\* The inductive invariant.
IInv == TypeOK /\ Guarded

-----------------------------------------------------------------------------
\* The initial states satisfy the invariant.
LEMMA InitIInv == Init => IInv
<1> SUFFICES ASSUME Init PROVE IInv
  OBVIOUS
<1>1. 0 \in Gen /\ 0 .. 1 \subseteq Gen
  BY UnenrollAssumption DEF Gen
<1>2. have \in [Orgs -> Gen] /\ issued \in [Orgs -> Gen]
  BY <1>1 DEF Init
<1>3. bare \subseteq Enrolled /\ active \in Orgs \cup {NoOrg}
  BY DEF Init, Enrolled
<1> QED
  BY <1>1, <1>2, <1>3 DEF Init, IInv, TypeOK, Guarded, PC, Result

\* An exit is typed, and leaves nothing to guard.
LEMMA ExitIInv ==
  ASSUME IInv, NEW r \in Result, Exit(r),
         UNCHANGED <<bare, have, picked, late, issued, stale>>,
         active' \in Orgs \cup {NoOrg}, revoked' \subseteq Orgs \X Gen
  PROVE  IInv'
<1>1. 0 \in Gen
  BY UnenrollAssumption DEF Gen
<1> QED
  BY <1>1 DEF IInv, TypeOK, Guarded, Exit, PC, Enrolled

\* The steps of the command keep the invariant.
LEMMA CommandIInv ==
  ASSUME IInv, Command \/ Stop
  PROVE  IInv'
<1> USE DEF IInv
<1>1. CASE ListOrgs
  BY <1>1 DEF ListOrgs, Goto, TypeOK, Guarded, PC, Enrolled
<1>2. CASE ResolveTarget
  <2>1. target' \in Orgs
    BY <1>2 DEF ResolveTarget, TypeOK
  <2> QED
    BY <1>2, <2>1 DEF ResolveTarget, Goto, TypeOK, Guarded, PC, Enrolled
<1>3. CASE \/ ResolveFails \/ NotConfirmed \/ LoadFails \/ RevokeRefused \/ RevokeUnreached
           \/ NotSelected \/ PointerUnread \/ PointerStays \/ Stop
  BY <1>3, ExitIInv
     DEF ResolveFails, NotConfirmed, LoadFails, RevokeRefused, RevokeUnreached,
         NotSelected, PointerUnread, PointerStays, Stop, Outcome, TypeOK, Result
<1>4. CASE Confirmed \/ LocalOnly
  BY <1>4 DEF Confirmed, LocalOnly, Goto, TypeOK, Guarded, PC, Enrolled
<1>5. CASE LoadToken
  BY <1>5 DEF LoadToken, Goto, TypeOK, Guarded, PC, Enrolled
<1>6. CASE Revoked
  BY <1>6 DEF Revoked, Goto, TypeOK, Guarded, PC, Enrolled
<1>7. CASE RevokedUnheard
  BY <1>7, ExitIInv DEF RevokedUnheard, TypeOK, Result
<1>8. CASE RemoveFiles
  <2>1. 0 \in Gen /\ target \in Orgs
    BY <1>8, UnenrollAssumption DEF RemoveFiles, TypeOK, Gen
  <2>2. have' \in [Orgs -> Gen] /\ bare' \subseteq {o \in Orgs : have'[o] # 0}
    BY <1>8, <2>1 DEF RemoveFiles, TypeOK, Enrolled
  <2> QED
    BY <1>8, <2>1, <2>2 DEF RemoveFiles, Goto, TypeOK, Guarded, PC, Enrolled
<1>9. CASE FilesStay
  BY <1>9 DEF FilesStay, Goto, TypeOK, Guarded, PC, Enrolled
<1>10. CASE ResolveStale \/ Selected
  BY <1>10 DEF ResolveStale, Selected, Goto, TypeOK, Guarded, PC, Enrolled
<1>11. CASE ClearStale \/ ClearPointer
  <2>1. active' \in Orgs \cup {NoOrg}
    BY <1>11 DEF ClearStale, ClearPointer, TypeOK
  <2> QED
    BY <1>11, <2>1, ExitIInv DEF ClearStale, ClearPointer, Outcome, TypeOK, Result
<1> QED
  BY <1>1, <1>2, <1>3, <1>4, <1>5, <1>6, <1>7, <1>8, <1>9, <1>10, <1>11 DEF Command

\* So do the other processes.
LEMMA OthersIInv ==
  ASSUME IInv, Renew \/ Select \/ SelectFails \/ \E o \in Orgs : Switch(o) \/ Reenroll(o)
  PROVE  IInv'
<1> USE DEF IInv
<1>1. CASE Renew \/ Select \/ SelectFails
  BY <1>1 DEF Renew, Select, SelectFails, TypeOK, Guarded, Enrolled
<1>2. ASSUME NEW o \in Orgs, Switch(o)
      PROVE  IInv'
  BY <1>2 DEF Switch, TypeOK, Guarded, Enrolled
<1>3. ASSUME NEW o \in Orgs, Reenroll(o)
      PROVE  IInv'
  <2>1. issued[o] + 1 \in Gen /\ issued[o] + 1 # 0
    BY <1>3, UnenrollAssumption DEF Reenroll, TypeOK, Gen
  <2>2. /\ have' \in [Orgs -> Gen] /\ issued' \in [Orgs -> Gen]
        /\ bare' \subseteq {u \in Orgs : have'[u] # 0}
    BY <1>3, <2>1 DEF Reenroll, TypeOK, Enrolled
  <2> QED
    BY <1>3, <2>2 DEF Reenroll, TypeOK, Guarded, Enrolled
<1> QED
  BY <1>1, <1>2, <1>3

\* Every step keeps the invariant.
LEMMA NextIInv == IInv /\ [Next]_vars => IInv'
<1> SUFFICES ASSUME IInv, [Next]_vars PROVE IInv'
  OBVIOUS
<1>1. ASSUME NEW q \in Orgs \cup {NoOrg}, NEW f \in SUBSET {"yes", "localOnly", "tty"},
             Begin(q, f)
      PROVE  IInv'
  BY <1>1 DEF IInv, TypeOK, Guarded, Begin, PC, Result, Enrolled
<1>2. CASE Command \/ Stop
  BY <1>2, CommandIInv
<1>3. CASE Renew \/ Select \/ SelectFails \/ \E o \in Orgs : Switch(o) \/ Reenroll(o)
  BY <1>3, OthersIInv
<1>4. CASE UNCHANGED vars
  BY <1>4 DEF IInv, TypeOK, Guarded, vars, Enrolled
<1> QED
  BY <1>1, <1>2, <1>3, <1>4 DEF Next

\* The invariant holds throughout.
LEMMA Invariance == Spec => []IInv
BY InitIInv, NextIInv, PTL DEF Spec

\* Only the removal takes an enrollment away.
LEMMA OnlyRemove ==
  ASSUME IInv, [Next]_vars, NEW o \in Orgs, have[o] # 0, have'[o] = 0
  PROVE  RemoveFiles /\ o = target
<1> USE DEF IInv, TypeOK
<1>1. ~(\E u \in Orgs : Switch(u) \/ Reenroll(u))
  BY UnenrollAssumption DEF Switch, Reenroll, Gen
<1>2. have' # have
  OBVIOUS
<1>3. RemoveFiles
  BY <1>1, <1>2 DEF Next, vars, Command, Begin, Stop, Renew, Select, SelectFails,
     ListOrgs, ResolveTarget, ResolveFails, ResolveStale, ClearStale, Confirmed,
     NotConfirmed, LocalOnly, LoadToken, LoadFails, Revoked, RevokedUnheard,
     RevokeRefused, RevokeUnreached, FilesStay, Selected, NotSelected, PointerUnread,
     ClearPointer, PointerStays
<1>4. o = target
  BY <1>3 DEF RemoveFiles
<1> QED
  BY <1>3, <1>4

\* Only RemoveOrg reports success, when it is through with the pointer.
LEMMA OnlyRemoveOrg ==
  ASSUME IInv, [Next]_vars, pc # "idle", result' = "ok"
  PROVE  NotSelected \/ PointerUnread \/ ClearPointer \/ result = "ok"
<1>1. ASSUME NEW q \in Orgs \cup {NoOrg}, NEW f \in SUBSET {"yes", "localOnly", "tty"},
             Begin(q, f)
      PROVE  FALSE
  BY <1>1 DEF Begin
<1>2. CASE Command
  BY <1>2 DEF Command, ListOrgs, ResolveTarget, ResolveFails, ResolveStale, ClearStale,
     Confirmed, NotConfirmed, LocalOnly, LoadToken, LoadFails, Revoked, RevokedUnheard,
     RevokeRefused, RevokeUnreached, RemoveFiles, FilesStay, Selected, PointerStays,
     Exit, Goto
<1>3. CASE Stop
  BY <1>3 DEF Stop, Exit
<1>4. CASE \/ UNCHANGED vars \/ Renew \/ Select \/ SelectFails
           \/ \E o \in Orgs : Switch(o) \/ Reenroll(o)
  BY <1>4 DEF vars, Renew, Select, SelectFails, Switch, Reenroll
<1> QED
  BY <1>1, <1>2, <1>3, <1>4 DEF Next

\* Only two steps clear the pointer: the end of RemoveOrg, and ResolveActiveDir
\* for a directory that is gone.
LEMMA OnlyClear ==
  ASSUME IInv, [Next]_vars, active # NoOrg, active' = NoOrg
  PROVE  ClearPointer \/ ClearStale
<1>1. ~(\E o \in Orgs : Switch(o) \/ Reenroll(o))
  BY DEF Switch, Reenroll
<1>2. ~Select
  BY DEF Select
<1> QED
  BY <1>1, <1>2 DEF Next, vars, Command, Begin, Stop, Renew, SelectFails,
     ListOrgs, ResolveTarget, ResolveFails, ResolveStale, Confirmed,
     NotConfirmed, LocalOnly, LoadToken, LoadFails, Revoked, RevokedUnheard,
     RevokeRefused, RevokeUnreached, RemoveFiles, FilesStay, Selected, NotSelected,
     PointerUnread, PointerStays

\* Values are of their kinds, and the command has a target once it resolved one.
THEOREM TypeCorrect == Spec => []TypeOK
<1>1. IInv => TypeOK
  BY DEF IInv
<1> QED
  BY <1>1, Invariance, PTL

\* A bundle is only deleted after the worker has revoked the agent it was loaded
\* for, unless --local-only.
THEOREM RemovalIsRevoked == Spec => RemovesRevoked
<1>1. IInv /\ [Next]_vars =>
        [\A o \in Orgs :
           have[o] # 0 /\ have'[o] = 0 /\ "localOnly" \notin flags
             => <<o, token>> \in revoked]_vars
  <2> SUFFICES ASSUME IInv, [Next]_vars, NEW o \in Orgs,
                      have[o] # 0, have'[o] = 0, "localOnly" \notin flags
               PROVE  <<o, token>> \in revoked
    OBVIOUS
  <2> QED
    BY OnlyRemove DEF RemoveFiles, IInv, Guarded
<1> QED
  BY <1>1, Invariance, PTL DEF Spec, RemovesRevoked

\* Only the bundle the prompt was about is deleted, and an unenrollment that
\* reports success does not leave it selected, if the pointer could be read.
THEOREM RemovalIsConfirmed == Spec => RemovesConfirmed
<1>1. IInv /\ [Next]_vars =>
        [/\ \A o \in Orgs : have[o] # 0 /\ have'[o] = 0 => o = asked
         /\ pc # "idle" /\ result' = "ok" /\ ~PointerUnread => active' # target]_vars
  <2> SUFFICES ASSUME IInv, [Next]_vars
               PROVE  /\ \A o \in Orgs : have[o] # 0 /\ have'[o] = 0 => o = asked
                      /\ pc # "idle" /\ result' = "ok" /\ ~PointerUnread => active' # target
    OBVIOUS
  <2>1. ASSUME NEW o \in Orgs, have[o] # 0, have'[o] = 0
        PROVE  o = asked
    <3>1. RemoveFiles /\ o = target
      BY <2>1, OnlyRemove
    <3> QED
      BY <3>1 DEF RemoveFiles, IInv, Guarded
  <2>2. ASSUME pc # "idle", result' = "ok", ~PointerUnread
        PROVE  active' # target
    <3>1. NotSelected \/ ClearPointer \/ result = "ok"
      BY <2>2, OnlyRemoveOrg
    <3>2. CASE NotSelected
      BY <3>2 DEF NotSelected
    <3>3. CASE ClearPointer
      BY <3>3, UnenrollAssumption DEF ClearPointer, IInv, TypeOK
    <3>4. result # "ok"
      BY <2>2 DEF IInv, Guarded
    <3> QED
      BY <3>1, <3>2, <3>3, <3>4
  <2> QED
    BY <2>1, <2>2
<1> QED
  BY <1>1, Invariance, PTL DEF Spec, RemovesConfirmed

\* The selection of another organization that is enrolled is only lost to
\* unenroll if another command wrote it between the read of the pointer and its
\* deletion: no other order of the two takes it away.
THEOREM SelectionIsKept == Spec => SelectionKept
<1>1. IInv /\ [Next]_vars =>
        [(active \in Enrolled /\ active' = NoOrg) => (active = asked \/ late)]_vars
  <2> SUFFICES ASSUME IInv, [Next]_vars, active \in Enrolled, active' = NoOrg
               PROVE  active = asked \/ late
    OBVIOUS
  <2>1. active # NoOrg
    BY UnenrollAssumption DEF Enrolled
  <2>2. ClearPointer \/ ClearStale
    BY <2>1, OnlyClear
  <2> QED
    BY <2>2 DEF ClearPointer, ClearStale, IInv, Guarded
<1> QED
  BY <1>1, Invariance, PTL DEF Spec, SelectionKept
=============================================================================
