--------------------------- MODULE ConnectLoopProofs ---------------------------
(***************************************************************************)
(* Proofs about ConnectLoop, for any set of organizations: the type        *)
(* invariant, the bound on dials without a wait, the ladder, and - unless  *)
(* another process wrote to the store since Run last read it - that only   *)
(* the credentials of a revoked organization are deleted, that the last    *)
(* log line says so correctly, and that placement keeps a revoked          *)
(* organization from being dialed again; and that a cancelled Run has at   *)
(* most seven steps left.                                                  *)
(***************************************************************************)
EXTENDS ConnectLoop, TLAPS

USE DEF disk, env, ladder, session, verdict, removal

\* The waits of the ladder, and zero: no failure yet.
Ladder == 0 .. MaxBackoff

-----------------------------------------------------------------------------
(* The two functions of the retry ladder. *)

\* NextBackoff stays on the ladder and never goes down.
LEMMA NextBackoffLadder ==
  ASSUME NEW b \in Ladder
  PROVE  NextBackoff(b) \in Ladder /\ NextBackoff(b) >= b
BY LoopAssumption DEF Ladder, NextBackoff, MinBackoff

\* nextSessionRetry waits exactly when the free retry is used up, and only a
\* healthy session puts the ladder back to zero.
LEMMA SessionRetryLadder ==
  ASSUME NEW b \in Ladder, NEW h \in BOOLEAN, NEW f \in BOOLEAN
  PROVE  /\ SessionRetry(b, h, f).next \in Ladder
         /\ h \/ SessionRetry(b, h, f).next >= b
         /\ h \/ ~f => SessionRetry(b, h, f).immediate = TRUE
         /\ ~h /\ f => SessionRetry(b, h, f).immediate = FALSE
         /\ SessionRetry(b, h, f).free = SessionRetry(b, h, f).immediate
<1>1. CASE h
  BY <1>1, LoopAssumption DEF SessionRetry, Ladder
<1>2. CASE ~h /\ ~f
  <2>1. SessionRetry(b, h, f) = [next |-> b, immediate |-> TRUE, free |-> TRUE]
    BY <1>2, Zenon DEF SessionRetry
  <2> QED
    BY <1>2, <2>1 DEF Ladder
<1>3. CASE ~h /\ f
  BY <1>3, NextBackoffLadder DEF SessionRetry
<1> QED
  BY <1>1, <1>2, <1>3

-----------------------------------------------------------------------------
(* Types. *)

\* A failure that is not terminal keeps the ladder and the place of Run typed.
LEMMA FailAndSleepType ==
  ASSUME TypeOK, FailAndSleep
  PROVE  pc' \in PC /\ backoff' \in Ladder /\ usedFree' \in BOOLEAN
BY NextBackoffLadder DEF TypeOK, FailAndSleep, PC, Ladder

\* The initial states are typed.
LEMMA InitType == Init => TypeOK
<1> SUFFICES ASSUME Init PROVE TypeOK
  OBVIOUS
<1>1. /\ have \subseteq Orgs /\ active \in Orgs \cup {NoOrg}
      /\ dead \subseteq Orgs /\ acked \subseteq Reasons
  BY DEF Init
<1>2. pc \in PC /\ backoff \in Ladder /\ told \in Told /\ burst \in Nat
  BY LoopAssumption DEF Init, PC, Ladder, Told
<1>3. /\ org \in Orgs \cup {NoOrg} /\ cause \in Orgs \cup {NoOrg}
      /\ slot \in Reasons \cup {NoReason} /\ conn \in {"none", "open", "closed"}
  BY DEF Init
<1>4. /\ ctxDone \in BOOLEAN /\ pinned \in BOOLEAN
      /\ usedFree \in BOOLEAN /\ healthy \in BOOLEAN /\ others \in BOOLEAN
      /\ revokeAcked \subseteq Orgs /\ meddled \in BOOLEAN /\ botched \in BOOLEAN
      /\ doomed \in Orgs \cup {NoOrg} /\ unread \subseteq {"count", "remove"}
  BY DEF Init
<1> QED
  BY <1>1, <1>2, <1>3, <1>4 DEF TypeOK, Ladder

\* Settling goes from the count to the wait, and only touches the store and what
\* it has to say of it.
LEMMA SettleFrame ==
  ASSUME SettleStep
  PROVE  /\ UNCHANGED <<env, org, ladder, session, cause, meddled>>
         /\ pc \in {"settle", "remove", "delete", "pointer", "clear"}
         /\ pc' \in {"remove", "delete", "pointer", "clear", "dormant"}
BY DEF SettleStep, CountOthers, CountMisses, RemoveActive, RemoveNothing, RemoveMisses,
   DeleteFiles, FilesStay, Selected, NotSelected, PointerUnread, ClearPointer,
   PointerStays, Settled

\* What settling writes is of its kind.
LEMMA SettleType ==
  ASSUME TypeOK, SettleStep
  PROVE  TypeOK'
<1> USE DEF TypeOK
<1>1. pc' \in PC
  BY SettleFrame DEF PC
<1>2. UNCHANGED <<env, org, ladder, session, cause, meddled>>
  BY SettleFrame
<1>3. told' \in Told
  BY DEF SettleStep, CountOthers, CountMisses, RemoveActive, RemoveNothing, RemoveMisses,
     DeleteFiles, FilesStay, Selected, NotSelected, PointerUnread, ClearPointer,
     PointerStays, Settled, Message, Told
<1>4. others' \in BOOLEAN
  BY Zenon DEF SettleStep, CountOthers, CountMisses, RemoveActive, RemoveNothing,
     RemoveMisses, DeleteFiles, FilesStay, Selected, NotSelected, PointerUnread,
     ClearPointer, PointerStays, Settled
<1>5. /\ have' \subseteq Orgs /\ active' \in Orgs \cup {NoOrg}
      /\ botched' \in BOOLEAN /\ doomed' \in Orgs \cup {NoOrg}
      /\ unread' \subseteq {"count", "remove"}
  BY DEF SettleStep, CountOthers, CountMisses, RemoveActive, RemoveNothing, RemoveMisses,
     DeleteFiles, FilesStay, Selected, NotSelected, PointerUnread, ClearPointer,
     PointerStays, Settled
<1> QED
  BY <1>1, <1>2, <1>3, <1>4, <1>5

\* The steps of Run keep the types.
LEMMA RunType == TypeOK /\ RunStep => TypeOK'
<1> SUFFICES ASSUME TypeOK, RunStep PROVE TypeOK'
  OBVIOUS
<1> USE DEF TypeOK, PC, Told, Ladder
<1>0. CASE LoopTop
  <2>1. org' \in Orgs \cup {NoOrg} /\ meddled' \in BOOLEAN /\ pc' \in PC
    BY <1>0, Zenon DEF LoopTop, Resolved
  <2> QED
    BY <1>0, <2>1 DEF LoopTop
<1>1. CASE Start \/ Sleep \/ Dormant
  <2>1. pc' \in PC /\ burst' \in Nat
    BY <1>1 DEF Start, Sleep, Dormant
  <2>2. UNCHANGED <<disk, env, org, backoff, usedFree, session, verdict>>
    BY <1>1 DEF Start, Sleep, Dormant
  <2> QED
    BY <2>1, <2>2
<1>2. CASE RenewPasses \/ RenewDead \/ RenewSkew
  <2>1. pc' \in PC /\ told' \in Told /\ {org', cause'} \subseteq Orgs \cup {NoOrg}
    BY <1>2 DEF RenewPasses, RenewDead, RenewSkew
  <2>2. UNCHANGED <<disk, env, ladder, session, others, meddled, removal>>
    BY <1>2 DEF RenewPasses, RenewDead, RenewSkew
  <2> QED
    BY <2>1, <2>2
<1>3. CASE PlaceSkipped \/ Placed \/ PlaceDead
  <2>1. pc' \in PC /\ told' \in Told /\ cause' \in Orgs \cup {NoOrg}
    BY <1>3 DEF PlaceSkipped, Placed, PlaceDead, Resolved
  <2>2. UNCHANGED <<disk, env, org, ladder, session, others, meddled, removal>>
    BY <1>3 DEF PlaceSkipped, Placed, PlaceDead
  <2> QED
    BY <2>1, <2>2
<1>4. CASE PlaceFails
  BY <1>4, FailAndSleepType DEF PlaceFails
<1>5. CASE DialOk
  <2>1. org' \in Orgs \cup {NoOrg} /\ burst' \in Nat /\ acked' \subseteq Reasons
    BY <1>5 DEF DialOk, Resolved
  <2> QED
    BY <1>5, <2>1 DEF DialOk
<1>6. CASE DialFails
  BY <1>6, FailAndSleepType DEF DialFails
<1>7. CASE DialSkew \/ SessionCancelled
  BY <1>7 DEF DialSkew, SessionCancelled, EndSession
<1>8. CASE SessionRejected
  BY <1>8, NextBackoffLadder DEF SessionRejected, EndSession
<1>9. CASE SessionClosed
  <2> DEFINE retry == SessionRetry(backoff, healthy, usedFree)
  <2>1. retry.next \in Ladder /\ retry.free \in BOOLEAN
    BY SessionRetryLadder
  <2>2. backoff' = retry.next /\ usedFree' = retry.free
    BY <1>9 DEF SessionClosed
  <2>3. pc' \in PC /\ burst' \in Nat /\ conn' = "none"
    BY <1>9 DEF SessionClosed, EndSession
  <2> QED
    BY <1>9, <2>1, <2>2, <2>3 DEF SessionClosed, EndSession
<1>10. CASE SettleStep
  BY <1>10, SettleType
<1> QED
  BY <1>0, <1>1, <1>2, <1>3, <1>4, <1>5, <1>6, <1>7, <1>8, <1>9, <1>10
     DEF RunStep

\* What happens inside a session keeps the types.
LEMMA SessionType == TypeOK /\ SessionStep => TypeOK'
<1> SUFFICES ASSUME TypeOK, SessionStep PROVE TypeOK'
  OBVIOUS
<1> USE DEF TypeOK, NoReason
<1>1. CASE SessionLives \/ ConnCloses \/ RenewLoopDrops
  <2>1. healthy' \in BOOLEAN /\ conn' \in {"none", "open", "closed"}
    BY <1>1 DEF SessionLives, ConnCloses, RenewLoopDrops
  <2>2. UNCHANGED <<disk, env, pc, org, ladder, acked, slot, revokeAcked, verdict>>
    BY <1>1 DEF SessionLives, ConnCloses, RenewLoopDrops
  <2> QED
    BY <2>1, <2>2
<1>2. ASSUME NEW r \in Reasons, ControlAck(r) PROVE TypeOK'
  BY <1>2 DEF ControlAck
<1>3. ASSUME NEW r \in Reasons, ControlPush(r) PROVE TypeOK'
  BY <1>3 DEF ControlPush
<1>4. CASE ClearStale
  BY <1>4 DEF ClearStale
<1> QED
  BY <1>1, <1>2, <1>3, <1>4 DEF SessionStep

\* The service, the clock, the user and systemd keep the types.
LEMMA EnvType == TypeOK /\ EnvStep => TypeOK'
<1> SUFFICES ASSUME TypeOK, EnvStep PROVE TypeOK'
  OBVIOUS
<1> USE DEF TypeOK
<1>1. CASE Restart
  BY <1>1 DEF Restart, PC
<1>2. CASE Cancel
  <2>1. ctxDone' \in BOOLEAN
    BY <1>2 DEF Cancel
  <2> QED
    BY <1>2, <2>1 DEF Cancel
<1>3. CASE CLIClears
  BY <1>3 DEF CLIClears
<1>4. ASSUME NEW o \in Orgs, Revoke(o) PROVE TypeOK'
  BY <1>4 DEF Revoke
<1>5. ASSUME NEW o \in Orgs, CLISwitch(o) \/ CLIUnenroll(o) \/ CLIEnroll(o) PROVE TypeOK'
  BY <1>5 DEF CLISwitch, CLIUnenroll, CLIEnroll
<1> QED
  BY <1>1, <1>2, <1>3, <1>4, <1>5 DEF EnvStep

\* Every step, and every stuttering step, keeps the types.
LEMMA NextType == TypeOK /\ [Next]_vars => TypeOK'
<1>1. TypeOK /\ UNCHANGED vars => TypeOK'
  BY DEF TypeOK, vars
<1> QED
  BY <1>1, RunType, SessionType, EnvType DEF Next, Terminated

\* The variables of the loop always hold values of their kinds; `backoff` is
\* one of the waits of the ladder, never one in between or above the ceiling.
THEOREM TypeCorrect == Spec => []TypeOK
<1>1. Init => TypeOK
  BY InitType
<1>2. TypeOK /\ [Next]_vars => TypeOK'
  BY NextType
<1> QED
  BY <1>1, <1>2, PTL DEF Spec

-----------------------------------------------------------------------------
(* The ladder. *)

\* A step either keeps or lengthens the next wait, or ends a healthy session.
LEMMA NextLadder ==
  TypeOK /\ [Next]_vars => backoff' >= backoff \/ (pc = "session" /\ healthy)
<1> SUFFICES ASSUME TypeOK, [Next]_vars
             PROVE  backoff' >= backoff \/ (pc = "session" /\ healthy)
  OBVIOUS
<1> backoff \in Ladder /\ healthy \in BOOLEAN /\ usedFree \in BOOLEAN
  BY DEF TypeOK, Ladder
<1>1. backoff >= backoff /\ NextBackoff(backoff) >= backoff
  BY NextBackoffLadder DEF Ladder
<1>2. CASE SessionClosed
  BY <1>2, SessionRetryLadder DEF SessionClosed
<1>3. CASE SessionRejected
  BY <1>1, <1>3 DEF SessionRejected
<1>4. CASE PlaceFails \/ DialFails
  BY <1>1, <1>4 DEF PlaceFails, DialFails, FailAndSleep
<1>5. CASE RunStep /\ ~SessionClosed /\ ~SessionRejected /\ ~PlaceFails /\ ~DialFails
  BY <1>1, <1>5, SettleFrame DEF RunStep, Start, LoopTop, RenewPasses, RenewDead, RenewSkew,
     PlaceSkipped, Placed, PlaceDead, DialOk, DialSkew, SessionCancelled, Sleep,
     Dormant
<1>6. CASE SessionStep
  BY <1>1, <1>6 DEF SessionStep, SessionLives, ControlAck, ControlPush, ConnCloses,
     RenewLoopDrops, ClearStale
<1>7. CASE EnvStep
  BY <1>1, <1>7 DEF EnvStep, Restart, Cancel, CLIClears, Revoke, CLISwitch,
     CLIUnenroll, CLIEnroll
<1>8. CASE Terminated \/ UNCHANGED vars
  BY <1>1, <1>8 DEF Terminated, vars
<1> QED
  BY <1>2, <1>3, <1>4, <1>5, <1>6, <1>7, <1>8 DEF Next

\* LadderKept of the runs, for every set of organizations.
THEOREM LadderOnlyUp == Spec => LadderKept
<1>1. TypeOK /\ [Next]_vars => [backoff' >= backoff \/ (pc = "session" /\ healthy)]_vars
  BY NextLadder
<1> QED
  BY <1>1, TypeCorrect, PTL DEF Spec, LadderKept

-----------------------------------------------------------------------------
(* No dial storm. The bound of a session depends on whether the free retry   *)
(* was used: that is what makes NoRetryStorm inductive.                      *)

\* Between two waits: one dial before the free retry, one after it.
Burst ==
  /\ pc \in {"start", "failed"} => burst = 0
  /\ pc \in {"loop", "renew", "place", "dial"} => burst <= IF usedFree THEN 1 ELSE 0
  /\ pc = "session" => burst <= IF usedFree THEN 2 ELSE 1
  /\ burst <= 2

StormInv == TypeOK /\ Burst

\* The steps of Run keep the number of dials within the bound of their place.
LEMMA RunBurst == TypeOK /\ Burst /\ RunStep => Burst'
<1> SUFFICES ASSUME TypeOK, Burst, RunStep PROVE Burst'
  OBVIOUS
<1> burst \in Nat /\ usedFree \in BOOLEAN /\ healthy \in BOOLEAN /\ backoff \in Ladder
  BY DEF TypeOK, Ladder
<1> USE DEF Burst
<1>1. CASE Start \/ LoopTop \/ Sleep \/ Dormant
  BY <1>1 DEF Start, LoopTop, Sleep, Dormant
<1>2. CASE RenewPasses \/ RenewDead \/ RenewSkew
  BY <1>2 DEF RenewPasses, RenewDead, RenewSkew
<1>3. CASE PlaceSkipped \/ Placed \/ PlaceDead
  BY <1>3 DEF PlaceSkipped, Placed, PlaceDead
<1>4. CASE PlaceFails
  BY <1>4 DEF PlaceFails, FailAndSleep
<1>5. CASE DialOk
  BY <1>5 DEF DialOk
<1>6. CASE DialFails
  BY <1>6 DEF DialFails, FailAndSleep
<1>7. CASE DialSkew \/ SessionCancelled
  BY <1>7 DEF DialSkew, SessionCancelled
<1>8. CASE SessionRejected
  BY <1>8 DEF SessionRejected
<1>9. CASE SessionClosed
  <2> DEFINE retry == SessionRetry(backoff, healthy, usedFree)
  <2>1. /\ usedFree' = retry.free
        /\ pc' = IF retry.immediate THEN "loop" ELSE "sleep"
        /\ burst' = IF healthy THEN 0 ELSE burst
    BY <1>9 DEF SessionClosed
  <2>2. burst <= IF usedFree THEN 2 ELSE 1
    BY <1>9 DEF SessionClosed
  <2>3. CASE healthy \/ ~usedFree
    <3>1. retry.immediate = TRUE /\ retry.free = TRUE
      BY <2>3, SessionRetryLadder
    <3> QED
      BY <2>1, <2>2, <2>3, <3>1
  <2>4. CASE ~healthy /\ usedFree
    <3>1. retry.immediate = FALSE
      BY <2>4, SessionRetryLadder
    <3> QED
      BY <2>1, <2>2, <2>4, <3>1
  <2> QED
    BY <2>3, <2>4
<1>10. CASE SettleStep
  BY <1>10, SettleFrame
<1> QED
  BY <1>1, <1>2, <1>3, <1>4, <1>5, <1>6, <1>7, <1>8, <1>9, <1>10 DEF RunStep

\* Only Run dials and waits; a restart begins with no dial at all.
LEMMA NextBurst == TypeOK /\ Burst /\ [Next]_vars => Burst'
<1> SUFFICES ASSUME TypeOK, Burst, [Next]_vars PROVE Burst'
  OBVIOUS
<1>1. CASE SessionStep
  BY <1>1 DEF Burst, SessionStep, SessionLives, ControlAck, ControlPush, ConnCloses,
     RenewLoopDrops, ClearStale
<1>2. CASE Restart
  BY <1>2 DEF Burst, Restart
<1>3. CASE EnvStep /\ ~Restart
  BY <1>3 DEF Burst, EnvStep, Cancel, CLIClears, Revoke, CLISwitch, CLIUnenroll,
     CLIEnroll
<1>4. CASE Terminated \/ UNCHANGED vars
  BY <1>4 DEF Burst, Terminated, vars
<1> QED
  BY <1>1, <1>2, <1>3, <1>4, RunBurst DEF Next

\* Run dials at most twice without a wait or a healthy session in between.
THEOREM NoDialStorm == Spec => []NoRetryStorm
<1>1. Init => StormInv
  BY InitType DEF StormInv, Burst, Init
<1>2. StormInv /\ [Next]_vars => StormInv'
  BY NextType, NextBurst DEF StormInv
<1>3. StormInv => NoRetryStorm
  BY DEF StormInv, Burst, NoRetryStorm
<1> QED
  BY <1>1, <1>2, <1>3, PTL DEF Spec

-----------------------------------------------------------------------------
(* The terminal verdicts, unless another process wrote to the store.         *)

\* A "revoked" frame only ever reaches a session of a revoked organization.
Frames == pc = "session" /\ "revoked" \in acked \cup {slot} => org \in dead

\* As long as nobody meddled, Run works for the selected organization, and a
\* verdict is about that one; what is counted, deleted and cleared is as it says,
\* or something was logged, or an error of reading the store was dropped.
Verdict ==
  ~meddled =>
    /\ pc = "renew" => org \in {active, NoOrg}
    /\ pc = "session" => org = active /\ active \in have
    /\ pc \in {"settle", "remove", "delete", "pointer", "clear"} =>
         active = cause /\ cause \in dead /\ told \in {"revoked", "dead"}
    /\ pc \in {"remove", "delete", "pointer", "clear"} =>
         others = (have \ {cause} # {}) \/ "count" \in unread
    /\ pc \in {"delete", "pointer", "clear"} => doomed = cause
    /\ pc \in {"pointer", "clear"} => cause \notin have \/ botched

\* A pointer to what is gone was left by a removal: of a revoked organization, or
\* one that Run is about to finish or has finished.
Stale ==
  /\ doomed # NoOrg => pc \in {"delete", "pointer", "clear"}
  /\ active \in Orgs \ have =>
       active \in dead \/ pc \in {"delete", "pointer", "clear", "dormant", "returned"}

VerdictInv == TypeOK /\ Frames /\ Verdict /\ Stale /\ RemovedAsTold

\* The relay sends "revoked" for revoked organizations only, a dial empties the
\* channel, and nothing revives a revoked organization.
LEMMA NextFrames == TypeOK /\ Frames /\ [Next]_vars => Frames'
<1> SUFFICES ASSUME TypeOK, Frames, [Next]_vars PROVE Frames'
  OBVIOUS
<1> USE DEF Frames
<1>1. CASE DialOk
  BY <1>1 DEF DialOk, NoReason
<1>2. CASE RunStep /\ ~DialOk
  <2>1. pc' # "session"
    BY <1>2, SettleFrame DEF RunStep, Start, LoopTop, RenewPasses, RenewDead, RenewSkew,
       PlaceSkipped, Placed, PlaceFails, PlaceDead, DialFails, DialSkew, FailAndSleep,
       SessionCancelled, SessionRejected, SessionClosed, Sleep, Dormant
  <2> QED
    BY <2>1
<1>3. CASE SessionStep
  BY <1>3 DEF SessionStep, SessionLives, ControlAck, ControlPush, ConnCloses,
     RenewLoopDrops, ClearStale, Reasons
<1>4. CASE EnvStep
  BY <1>4 DEF EnvStep, Restart, Cancel, CLIClears, Revoke, CLISwitch, CLIUnenroll,
     CLIEnroll
<1>5. CASE Terminated \/ UNCHANGED vars
  BY <1>5 DEF Terminated, vars
<1> QED
  BY <1>1, <1>2, <1>3, <1>4, <1>5 DEF Next

\* Settling keeps to the verdict.
LEMMA SettleVerdict ==
  ASSUME TypeOK, Verdict, SettleStep
  PROVE  Verdict'
<1> SUFFICES ASSUME ~meddled PROVE Verdict'
  BY SettleFrame DEF Verdict
<1> /\ have \subseteq Orgs /\ NoOrg \notin Orgs /\ dead \subseteq Orgs
    /\ botched \in BOOLEAN
  BY LoopAssumption DEF TypeOK
<1> USE DEF Verdict
<1>1. CASE CountOthers
  <2>1. others' = (have' \ {cause'} # {})
    BY <1>1, Zenon DEF CountOthers
  <2> QED
    BY <1>1, <2>1 DEF CountOthers
<1>2. CASE CountMisses
  BY <1>2 DEF CountMisses
<1>3. CASE RemoveActive \/ RemoveNothing \/ RemoveMisses
  BY <1>3 DEF RemoveActive, RemoveNothing, RemoveMisses, Settled
<1>4. CASE DeleteFiles
  <2>1. have' \ {cause'} = have \ {cause} /\ cause' \notin have'
    BY <1>4 DEF DeleteFiles
  <2> QED
    BY <1>4, <2>1 DEF DeleteFiles
<1>5. CASE FilesStay
  BY <1>5 DEF FilesStay
<1>6. CASE Selected \/ NotSelected \/ PointerUnread \/ ClearPointer \/ PointerStays
  BY <1>6 DEF Selected, NotSelected, PointerUnread, ClearPointer, PointerStays, Settled
<1> QED
  BY <1>1, <1>2, <1>3, <1>4, <1>5, <1>6 DEF SettleStep

\* The steps of Run establish and keep the verdict.
LEMMA RunVerdict == TypeOK /\ Frames /\ Verdict /\ RunStep => Verdict'
<1> SUFFICES ASSUME TypeOK, Frames, Verdict, RunStep PROVE Verdict'
  OBVIOUS
<1> /\ have \subseteq Orgs /\ active \in Orgs \cup {NoOrg} /\ NoOrg \notin Orgs
    /\ meddled \in BOOLEAN
  BY LoopAssumption DEF TypeOK
<1> USE DEF Verdict
<1>1. CASE Start \/ LoopTop \/ Sleep \/ Dormant
  BY <1>1 DEF Start, LoopTop, Sleep, Dormant
<1>2. CASE RenewPasses \/ RenewDead \/ RenewSkew
  BY <1>2 DEF RenewPasses, RenewDead, RenewSkew
<1>3. CASE PlaceSkipped \/ Placed \/ PlaceDead
  BY <1>3 DEF PlaceSkipped, Placed, PlaceDead
<1>4. CASE PlaceFails \/ DialFails
  BY <1>4 DEF PlaceFails, DialFails, FailAndSleep
<1>5. CASE DialOk
  BY <1>5 DEF DialOk, Resolved
<1>6. CASE DialSkew \/ SessionCancelled
  BY <1>6 DEF DialSkew, SessionCancelled
<1>7. CASE SessionRejected
  BY <1>7 DEF SessionRejected, Frames
<1>8. CASE SessionClosed
  <2>1. pc' \in {"loop", "sleep"}
    BY <1>8 DEF SessionClosed
  <2> QED
    BY <2>1
<1>9. CASE SettleStep
  BY <1>9, SettleVerdict
<1> QED
  BY <1>1, <1>2, <1>3, <1>4, <1>5, <1>6, <1>7, <1>8, <1>9 DEF RunStep

\* Whoever else selects an organization or removes one has meddled.
LEMMA NextVerdict == TypeOK /\ Frames /\ Verdict /\ [Next]_vars => Verdict'
<1> SUFFICES ASSUME TypeOK, Frames, Verdict, [Next]_vars PROVE Verdict'
  OBVIOUS
<1>1. CASE SessionStep
  BY <1>1 DEF Verdict, SessionStep, SessionLives, ControlAck, ControlPush, ConnCloses,
     RenewLoopDrops, ClearStale
<1>2. CASE EnvStep
  BY <1>2 DEF Verdict, EnvStep, Restart, Cancel, CLIClears, Revoke, CLISwitch,
     CLIUnenroll, CLIEnroll
<1>3. CASE Terminated \/ UNCHANGED vars
  BY <1>3 DEF Verdict, Terminated, vars
<1> QED
  BY <1>1, <1>2, <1>3, RunVerdict DEF Next

\* Only a removal leaves the pointer on what is gone.
LEMMA NextStale == TypeOK /\ Stale /\ [Next]_vars => Stale'
<1> SUFFICES ASSUME TypeOK, Stale, [Next]_vars PROVE Stale'
  OBVIOUS
<1> /\ have \subseteq Orgs /\ active \in Orgs \cup {NoOrg} /\ NoOrg \notin Orgs
    /\ dead \subseteq Orgs /\ doomed \in Orgs \cup {NoOrg}
  BY LoopAssumption DEF TypeOK
<1> USE DEF Stale
<1>1. CASE SettleStep
  BY <1>1 DEF SettleStep, CountOthers, CountMisses, RemoveActive, RemoveNothing,
     RemoveMisses, DeleteFiles, FilesStay, Selected, NotSelected, PointerUnread,
     ClearPointer, PointerStays, Settled
<1>2. CASE RunStep /\ ~SettleStep
  <2>1. /\ UNCHANGED <<disk, dead, doomed>>
        /\ pc \in {"dormant", "returned"} => pc' \in {"dormant", "returned"}
        /\ pc \notin {"delete", "pointer", "clear"}
    BY <1>2 DEF RunStep, Start, LoopTop, RenewPasses, RenewDead, RenewSkew, PlaceSkipped,
       Placed, PlaceFails, PlaceDead, DialOk, DialFails, DialSkew, SessionCancelled,
       SessionRejected, SessionClosed, Sleep, Dormant
  <2> QED
    BY <2>1
<1>3. CASE SessionStep
  BY <1>3 DEF SessionStep, SessionLives, ControlAck, ControlPush, ConnCloses,
     RenewLoopDrops, ClearStale
<1>4. CASE EnvStep
  BY <1>4 DEF EnvStep, Restart, Cancel, CLIClears, Revoke, CLISwitch, CLIUnenroll,
     CLIEnroll
<1>5. CASE Terminated \/ UNCHANGED vars
  BY <1>5 DEF Terminated, vars
<1> QED
  BY <1>1, <1>2, <1>3, <1>4, <1>5 DEF Next

\* Settling takes the credentials and the selection of the verdict away, and
\* `agent unenroll` those it has revoked; nothing else takes any.
LEMMA VerdictRemoves ==
  ASSUME TypeOK, Verdict, Stale, [Next]_vars, ~meddled
  PROVE  /\ \A o \in have \ have' : o \in dead'
         /\ active # NoOrg /\ active' = NoOrg => active \in dead'
<1> /\ have \subseteq Orgs /\ active \in Orgs \cup {NoOrg} /\ NoOrg \notin Orgs
  BY LoopAssumption DEF TypeOK
<1>1. CASE SettleStep
  BY <1>1 DEF SettleStep, CountOthers, CountMisses, RemoveActive, RemoveNothing,
     RemoveMisses, DeleteFiles, FilesStay, Selected, NotSelected, PointerUnread,
     ClearPointer, PointerStays, Settled, Verdict
<1>2. CASE RunStep /\ ~SettleStep
  <2>1. UNCHANGED disk
    BY <1>2 DEF RunStep, Start, LoopTop, RenewPasses, RenewDead, RenewSkew, PlaceSkipped,
       Placed, PlaceFails, PlaceDead, DialOk, DialFails, DialSkew, SessionCancelled,
       SessionRejected, SessionClosed, Sleep, Dormant
  <2> QED
    BY <2>1
<1>4. CASE SessionStep
  BY <1>4 DEF SessionStep, SessionLives, ControlAck, ControlPush, ConnCloses,
     RenewLoopDrops, ClearStale, Stale
<1>5. CASE EnvStep
  BY <1>5 DEF EnvStep, Restart, Cancel, CLIClears, Revoke, CLISwitch, CLIUnenroll,
     CLIEnroll, Stale, Verdict
<1>6. CASE Terminated \/ UNCHANGED vars
  BY <1>6 DEF Terminated, vars
<1> QED
  BY <1>1, <1>2, <1>4, <1>5, <1>6 DEF Next

\* The last step of settling makes its line true, or one of its excuses.
LEMMA SettleTold ==
  ASSUME TypeOK, Verdict, SettleStep
  PROVE  RemovedAsTold'
<1> SUFFICES ASSUME ~meddled, pc' = "dormant"
             PROVE  /\ (cause' \notin have' /\ active' # cause') \/ botched' \/ "remove" \in unread'
                    /\ \/ told' \in {"revokedOrg", "deadOrg"} <=> have' \ {cause'} # {}
                       \/ "count" \in unread'
  BY SettleFrame DEF RemovedAsTold
<1> /\ have \subseteq Orgs /\ NoOrg \notin Orgs /\ dead \subseteq Orgs
    /\ botched \in BOOLEAN /\ others \in BOOLEAN
  BY LoopAssumption DEF TypeOK
<1>1. /\ RemoveNothing \/ RemoveMisses \/ NotSelected \/ PointerUnread \/ ClearPointer \/ PointerStays
      /\ Settled
  BY DEF SettleStep, CountOthers, CountMisses, RemoveActive, RemoveNothing, RemoveMisses,
     DeleteFiles, FilesStay, Selected, NotSelected, PointerUnread, ClearPointer,
     PointerStays
<1>2. /\ have' = have
      /\ cause' = cause
      /\ "count" \in unread => "count" \in unread'
      /\ pc \in {"remove", "pointer", "clear"}
  BY <1>1 DEF RemoveNothing, RemoveMisses, NotSelected, PointerUnread, ClearPointer,
     PointerStays, Settled
<1>3. /\ active = cause /\ cause \in dead /\ told \in {"revoked", "dead"}
      /\ others = (have \ {cause} # {}) \/ "count" \in unread
      /\ pc # "remove" => doomed = cause /\ (cause \notin have \/ botched)
  BY <1>2 DEF Verdict
<1>4. told' \in {"revokedOrg", "deadOrg"} <=> others = TRUE
  BY <1>1, <1>3 DEF Settled, Message
<1>5. (cause' \notin have' /\ active' # cause') \/ botched' \/ "remove" \in unread'
  <2>1. CASE RemoveNothing \/ NotSelected
    BY <1>2, <1>3, <2>1 DEF RemoveNothing, NotSelected
  <2>2. CASE RemoveMisses \/ PointerUnread \/ PointerStays
    BY <2>2 DEF RemoveMisses, PointerUnread, PointerStays
  <2>3. CASE ClearPointer
    BY <1>2, <1>3, <2>3 DEF ClearPointer
  <2> QED
    BY <1>1, <2>1, <2>2, <2>3
<1>6. CASE others = (have \ {cause} # {})
  <2>1. told' \in {"revokedOrg", "deadOrg"} <=> have' \ {cause'} # {}
    BY <1>2, <1>4, <1>6
  <2> QED
    BY <1>5, <2>1
<1>7. CASE "count" \in unread
  BY <1>2, <1>5, <1>7
<1> QED
  BY <1>3, <1>6, <1>7

\* What was logged stays true of the disk.
LEMMA NextTold ==
  TypeOK /\ Verdict /\ RemovedAsTold /\ [Next]_vars => RemovedAsTold'
<1> SUFFICES ASSUME TypeOK, Verdict, RemovedAsTold, [Next]_vars
             PROVE  RemovedAsTold'
  OBVIOUS
<1>1. CASE SettleStep
  BY <1>1, SettleTold
<1>2. CASE SessionRejected \/ RenewSkew \/ DialSkew
  BY <1>2 DEF SessionRejected, RenewSkew, DialSkew, RemovedAsTold
<1>3. CASE RunStep /\ ~SettleStep /\ ~SessionRejected /\ ~RenewSkew /\ ~DialSkew
  <2>1. pc' # "dormant"
    BY <1>3 DEF RunStep, Start, LoopTop, RenewPasses, RenewDead, PlaceSkipped, Placed,
       PlaceFails, PlaceDead, DialOk, DialFails, FailAndSleep, SessionCancelled,
       SessionClosed, Sleep, Dormant
  <2> QED
    BY <2>1 DEF RemovedAsTold
<1>5. CASE SessionStep
  <2>1. pc # "dormant" /\ pc' = pc
    BY <1>5 DEF SessionStep, SessionLives, ControlAck, ControlPush, ConnCloses,
       RenewLoopDrops, ClearStale
  <2> QED
    BY <2>1 DEF RemovedAsTold
<1>6. CASE EnvStep
  BY <1>6 DEF EnvStep, Restart, Cancel, CLIClears, Revoke, CLISwitch, CLIUnenroll,
     CLIEnroll, RemovedAsTold
<1>7. CASE Terminated \/ UNCHANGED vars
  BY <1>7 DEF Terminated, vars, RemovedAsTold
<1> QED
  BY <1>1, <1>2, <1>3, <1>5, <1>6, <1>7 DEF Next

\* Initially there is no session and no verdict, so VerdictInv is an invariant.
LEMMA AlwaysVerdict == Spec => []VerdictInv
<1>1. Init => VerdictInv
  BY InitType, LoopAssumption DEF Init, VerdictInv, Frames, Verdict, Stale, RemovedAsTold
<1>2. VerdictInv /\ [Next]_vars => VerdictInv'
  BY NextType, NextFrames, NextVerdict, NextStale, NextTold DEF VerdictInv
<1> QED
  BY <1>1, <1>2, PTL DEF Spec

\* Unless another process wrote to the store since Run last read it, connect
\* takes the credentials and the selection of a revoked organization away, and
\* those of no other.
THEOREM OnlyRevokedRemoved == Spec => UndisturbedRemoval
<1>1. VerdictInv /\ [Next]_vars =>
        [~meddled => /\ \A o \in have \ have' : o \in dead'
                     /\ active # NoOrg /\ active' = NoOrg => active \in dead']_vars
  BY VerdictRemoves DEF VerdictInv
<1> QED
  BY <1>1, AlwaysVerdict, PTL DEF Spec, UndisturbedRemoval

\* Under the same condition the last line of a settled agent is true, unless an
\* error of reading the store was dropped or the line before says what failed.
THEOREM ToldTruly == Spec => []RemovedAsTold
<1>1. VerdictInv => RemovedAsTold
  BY DEF VerdictInv
<1> QED
  BY <1>1, AlwaysVerdict, PTL

-----------------------------------------------------------------------------
(* A revocation the relay has an answer for.                                 *)

\* Only a revoked organization is told so, and what is revoked stays revoked.
Answered == revokeAcked \subseteq dead

RedialInv == TypeOK /\ Answered /\ RevokedNeverRedials

\* The relay sends "revoked" in a session of a revoked organization only.
LEMMA NextAnswered == Answered /\ [Next]_vars => Answered'
<1> SUFFICES ASSUME Answered, [Next]_vars PROVE Answered'
  OBVIOUS
<1> USE DEF Answered
<1>1. CASE RunStep
  <2>1. revokeAcked' = revokeAcked /\ dead' = dead
    BY <1>1, SettleFrame DEF RunStep, Start, LoopTop, RenewPasses, RenewDead, RenewSkew,
       PlaceSkipped, Placed, PlaceFails, PlaceDead, DialOk, DialFails, DialSkew, SessionCancelled,
       SessionRejected, SessionClosed, Sleep, Dormant
  <2> QED
    BY <2>1
<1>2. CASE SessionStep
  BY <1>2 DEF SessionStep, SessionLives, ControlAck, ControlPush, ConnCloses,
     RenewLoopDrops, ClearStale
<1>3. CASE EnvStep
  BY <1>3 DEF EnvStep, Restart, Cancel, CLIClears, Revoke, CLISwitch, CLIUnenroll,
     CLIEnroll
<1>4. CASE Terminated \/ UNCHANGED vars
  BY <1>4 DEF Terminated, vars
<1> QED
  BY <1>1, <1>2, <1>3, <1>4 DEF Next

\* A dial is only reached by way of placement, which refuses what is revoked;
\* between the two, only another process changes the selection.
LEMMA NextNeverRedials ==
  TypeOK /\ Answered /\ RevokedNeverRedials /\ [Next]_vars => RevokedNeverRedials'
<1> SUFFICES ASSUME TypeOK, Answered, RevokedNeverRedials, [Next]_vars
             PROVE  RevokedNeverRedials'
  OBVIOUS
<1> NoOrg \notin revokeAcked
  BY LoopAssumption DEF Answered, TypeOK
<1> USE DEF Answered, RevokedNeverRedials
<1>1. CASE Placed \/ PlaceSkipped
  BY <1>1 DEF Placed, PlaceSkipped
<1>2. CASE RunStep /\ ~Placed /\ ~PlaceSkipped
  <2>1. pc' # "dial"
    BY <1>2, SettleFrame DEF RunStep, Start, LoopTop, RenewPasses, RenewDead, RenewSkew, PlaceFails,
       PlaceDead, DialOk, DialFails, DialSkew, FailAndSleep, SessionCancelled,
       SessionRejected, SessionClosed, Sleep, Dormant
  <2> QED
    BY <2>1
<1>3. CASE SessionStep
  BY <1>3 DEF SessionStep, SessionLives, ControlAck, ControlPush, ConnCloses,
     RenewLoopDrops, ClearStale
<1>4. CASE EnvStep
  BY <1>4 DEF EnvStep, Restart, Cancel, CLIClears, Revoke, CLISwitch, CLIUnenroll,
     CLIEnroll
<1>5. CASE Terminated \/ UNCHANGED vars
  BY <1>5 DEF Terminated, vars
<1> QED
  BY <1>1, <1>2, <1>3, <1>4, <1>5 DEF Next

\* Once the relay has a 204 for a revocation, the agent does not dial for that
\* organization again, also if the reason was dropped on the way to Run: not
\* with placement, and not unless another process changed the selection.
THEOREM NoRedialAfterRevoke == Spec => []RevokedNeverRedials
<1>1. Init => RedialInv
  BY InitType DEF RedialInv, Init, Answered, RevokedNeverRedials
<1>2. RedialInv /\ [Next]_vars => RedialInv'
  BY NextType, NextAnswered, NextNeverRedials DEF RedialInv
<1>3. RedialInv => RevokedNeverRedials
  BY DEF RedialInv
<1> QED
  BY <1>1, <1>2, <1>3, PTL DEF Spec

-----------------------------------------------------------------------------
(* The end of Run, once its context is cancelled.                            *)

\* How many steps of Run, the closing of its connection among them, are left.
Distance ==
  CASE pc \in {"returned", "failed"} -> 0
    [] pc = "renew" -> 7
    [] pc = "settle" -> 6
    [] pc = "remove" -> 5
    [] pc = "delete" -> 4
    [] pc = "pointer" -> 3
    [] pc \in {"start", "place", "clear"} -> 2
    [] pc = "session" /\ conn # "closed" -> 2
    [] OTHER -> 1

\* The steps of Run that remain all lead towards its end.
LEMMA RunNearer == TypeOK /\ ctxDone /\ RunStep => Distance' < Distance
<1> SUFFICES ASSUME TypeOK, ctxDone, RunStep PROVE Distance' < Distance
  OBVIOUS
<1>1. /\ pc = "renew" /\ pc' \in {"place", "settle", "dormant"}
      => Distance' < Distance
  BY DEF Distance
<1>2. /\ pc \in {"place", "start"} /\ pc' \in {"dial", "loop", "returned", "failed"}
      => Distance' < Distance
  BY DEF Distance
<1>3. /\ \/ pc = "settle" /\ pc' = "remove"
         \/ pc = "remove" /\ pc' \in {"delete", "dormant"}
         \/ pc = "delete" /\ pc' = "pointer"
         \/ pc = "pointer" /\ pc' \in {"clear", "dormant"}
         \/ pc = "clear" /\ pc' = "dormant"
      => Distance' < Distance
  BY DEF Distance
<1>4. /\ \/ pc \in {"loop", "dial", "sleep", "dormant"}
         \/ pc = "session" /\ conn = "closed"
      /\ pc' = "returned"
      => Distance' < Distance
  BY DEF Distance
<1>5. CASE RenewPasses \/ RenewDead \/ RenewSkew
  BY <1>1, <1>5 DEF RenewPasses, RenewDead, RenewSkew
<1>6. CASE Start \/ PlaceSkipped \/ Placed \/ PlaceDead
  BY <1>2, <1>6 DEF Start, PlaceSkipped, Placed, PlaceDead
<1>7. CASE PlaceFails \/ DialFails
  BY <1>2, <1>4, <1>7 DEF PlaceFails, DialFails, FailAndSleep
<1>8. CASE SettleStep
  BY <1>3, <1>8 DEF SettleStep, CountOthers, CountMisses, RemoveActive, RemoveNothing,
     RemoveMisses, DeleteFiles, FilesStay, Selected, NotSelected, PointerUnread,
     ClearPointer, PointerStays, Settled
<1>9. CASE LoopTop \/ SessionCancelled \/ Sleep \/ Dormant
  BY <1>4, <1>9 DEF LoopTop, SessionCancelled, Sleep, Dormant
<1>10. ~DialOk /\ ~DialSkew /\ ~SessionRejected /\ ~SessionClosed
  BY DEF DialOk, DialSkew, SessionRejected, SessionClosed
<1> QED
  BY <1>5, <1>6, <1>7, <1>8, <1>9, <1>10 DEF RunStep

\* Inside a session only its end moves anything, and nobody else moves Run at all.
LEMMA OthersNoFarther ==
  TypeOK /\ ctxDone /\ [Next]_vars /\ ~RunStep => Distance' <= Distance /\ ctxDone'
<1> SUFFICES ASSUME TypeOK, ctxDone, [Next]_vars, ~RunStep
             PROVE  Distance' <= Distance /\ ctxDone'
  OBVIOUS
<1>1. UNCHANGED <<pc, conn>> => Distance' <= Distance
  BY DEF Distance
<1>2. CASE ConnCloses \/ RenewLoopDrops
  <2>1. pc = "session" /\ conn = "open" /\ pc' = "session" /\ conn' = "closed" /\ ctxDone'
    BY <1>2 DEF ConnCloses, RenewLoopDrops
  <2> QED
    BY <2>1 DEF Distance
<1>3. CASE SessionStep /\ ~ConnCloses /\ ~RenewLoopDrops
  BY <1>1, <1>3 DEF SessionStep, SessionLives, ControlAck, ControlPush, ClearStale
<1>4. CASE EnvStep
  <2>1. UNCHANGED <<pc, conn>> /\ ctxDone'
    BY <1>4 DEF EnvStep, Restart, Cancel, CLIClears, Revoke, CLISwitch, CLIUnenroll,
       CLIEnroll
  <2> QED
    BY <1>1, <2>1
<1>5. CASE Terminated \/ UNCHANGED vars
  BY <1>1, <1>5 DEF Terminated, vars
<1> QED
  BY <1>2, <1>3, <1>4, <1>5 DEF Next

\* Run keeps its context cancelled.
LEMMA RunStaysCancelled == ctxDone /\ RunStep => ctxDone'
BY SettleFrame DEF RunStep, Start, LoopTop, RenewPasses, RenewDead, RenewSkew, PlaceSkipped,
   Placed, PlaceFails, PlaceDead, DialOk, DialFails, DialSkew, SessionCancelled, SessionRejected,
   SessionClosed, Sleep, Dormant

\* After a cancellation at most seven steps of Run are left, whatever the relay,
\* the clock and other processes do in between: each of them brings the end
\* nearer, and no step of anyone revives the context or moves the end away. No
\* dial, no new wait and no new round of the loop is among them.
THEOREM CancelCountsDown ==
  Spec => [][ctxDone => /\ ctxDone' /\ Distance \in 0 .. 7 /\ Distance' <= Distance
                        /\ RunStep => Distance' < Distance]_vars
<1>1. Distance \in 0 .. 7 /\ Distance' \in 0 .. 7
  BY DEF Distance
<1>2. TypeOK /\ [Next]_vars =>
        [ctxDone => /\ ctxDone' /\ Distance \in 0 .. 7 /\ Distance' <= Distance
                    /\ RunStep => Distance' < Distance]_vars
  <2> SUFFICES ASSUME TypeOK, [Next]_vars, ctxDone
               PROVE  /\ ctxDone' /\ Distance' <= Distance
                      /\ RunStep => Distance' < Distance
    BY <1>1
  <2>1. CASE RunStep
    <3>1. Distance' < Distance /\ ctxDone'
      BY <2>1, RunNearer, RunStaysCancelled
    <3> QED
      BY <1>1, <3>1
  <2>2. CASE ~RunStep
    BY <2>2, OthersNoFarther
  <2> QED
    BY <2>1, <2>2
<1> QED
  BY <1>2, TypeCorrect, PTL DEF Spec
=============================================================================
