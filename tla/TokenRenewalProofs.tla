-------------------------- MODULE TokenRenewalProofs --------------------------
(***************************************************************************)
(* Proofs about TokenRenewal, for any number of session loops and tokens.  *)
(* As long as no session ended while its renewal was in flight, there is   *)
(* one renewer at a time; then the write order keeps the certificate from  *)
(* being newer than the token, whatever is lost, killed or not written.    *)
(* A credential that was given up then stays gone. While nothing of this   *)
(* happened, only a revoked credential is deleted.                         *)
(* The last section is about one of these loops, the goroutine of          *)
(* RenewLoop, whose constants and variables are declared there.            *)
(***************************************************************************)
EXTENDS TokenRenewal, TLAPS

USE DEF disk, outside, local

-----------------------------------------------------------------------------
(* The write order. *)

\* WriteClientDir writes four files, the token first.
LEMMA WriteOrderNames ==
  /\ Len(WriteOrder) = 4
  /\ WriteOrder[1] = "tok" /\ WriteOrder[2] = "ca"
  /\ WriteOrder[3] = "crt" /\ WriteOrder[4] = "key"
BY DEF WriteOrder

\* After the token, nothing writes the token again.
LEMMA TokenWrittenFirst ==
  ASSUME NEW i \in 1 .. Len(WriteOrder)
  PROVE  /\ WriteOrder[i] \in FileName
         /\ WriteOrder[i] = "tok" <=> i = 1
         /\ WriteOrder[i] = "crt" <=> i = 3
<1>1. i \in 1 .. 4
  BY WriteOrderNames
<1>2. i = 1 \/ i = 2 \/ i = 3 \/ i = 4
  BY <1>1
<1> QED
  BY <1>2, WriteOrderNames DEF FileName

-----------------------------------------------------------------------------
(* Types. *)

\* The initial states are typed.
LEMMA InitType == Init => TypeOK
<1> SUFFICES ASSUME Init PROVE TypeOK
  OBVIOUS
<1> 0 \in Gen /\ MaxGen \in Nat
  BY RenewalAssumption DEF Gen
<1>1. /\ file \in [FileName -> Content] /\ cur \in Gen /\ aged \in Gen
      /\ mishaps \subseteq Mishap
  BY DEF Init, Content, Gen
<1>2. dir \in BOOLEAN /\ chain \in {"good", "reused", "revoked"}
  BY DEF Init
<1>3. /\ step \in [Renewers -> Step]
      /\ tok \in [Renewers -> Gen \cup {None}]
      /\ out \in [Renewers -> Gen]
      /\ idx \in [Renewers -> 1 .. Len(WriteOrder)]
  BY WriteOrderNames DEF Init, Step
<1>4. run = "down" /\ live = None
  BY DEF Init
<1> QED
  BY <1>1, <1>2, <1>3, <1>4 DEF TypeOK, DiskOK, RenewersOK

\* MaybeRenew returns: Run and the renewers stay typed.
LEMMA FinishType ==
  ASSUME TypeOK, NEW r \in Renewers, Finish(r)
  PROVE  /\ run' \in {"down", "renew", "place", "session", "settle", "settled"}
         /\ live' \in Loops \cup {None}
         /\ step' \in [Renewers -> Step]
BY DEF TypeOK, RenewersOK, Finish, Step

\* One step of a renewal keeps the types.
LEMMA RenewType ==
  ASSUME TypeOK, NEW r \in Renewers, Renew(r)
  PROVE  TypeOK'
<1> USE DEF TypeOK, DiskOK, RenewersOK
<1>1. CASE LoadDue(r)
  BY <1>1 DEF LoadDue, TokenOnDisk, Step
<1>2. CASE LoadSkips(r) \/ RequestFails(r) \/ ResponseLost(r) \/ OpenFails(r) \/ WriteFails(r)
  BY <1>2, FinishType DEF LoadSkips, RequestFails, ResponseLost, OpenFails, WriteFails, Mishap
<1>3. CASE Rotate(r)
  <2>1. cur + 1 \in Gen
    BY <1>3, RenewalAssumption DEF Rotate, Gen
  <2> QED
    BY <1>3, <2>1 DEF Rotate, Step
<1>4. CASE Reuse(r) \/ RefuseDead(r)
  BY <1>4 DEF Reuse, RefuseDead, Step
<1>5. CASE Receive(r)
  BY <1>5, WriteOrderNames DEF Receive, Step
<1>6. CASE WriteFile(r)
  BY <1>6, TokenWrittenFirst DEF WriteFile, Step, Content
<1>7. CASE WriteFileDone(r)
  <2> DEFINE f == WriteOrder[idx[r]]
  <2>1. f \in FileName /\ file[f] \in Content /\ out[r] \in Content /\ Absent \in Content
    BY TokenWrittenFirst DEF Content
  <2>2. file' = [file EXCEPT ![f] = IF @ = Absent THEN Absent ELSE out[r]]
    BY <1>7 DEF WriteFileDone
  <2>3. file' \in [FileName -> Content]
    BY <2>1, <2>2
  <2>4. CASE idx[r] < Len(WriteOrder)
    <3>1. idx[r] + 1 \in 1 .. Len(WriteOrder)
      BY <2>4, WriteOrderNames
    <3> QED
      BY <1>7, <2>3, <2>4, <3>1 DEF WriteFileDone, Step
  <2>5. CASE ~(idx[r] < Len(WriteOrder))
    BY <1>7, <2>3, <2>5, FinishType DEF WriteFileDone
  <2> QED
    BY <2>4, <2>5
<1>8. CASE Refused(r)
  BY <1>8 DEF Refused, Step
<1> QED
  BY <1>1, <1>2, <1>3, <1>4, <1>5, <1>6, <1>7, <1>8 DEF Renew

\* The steps of Run keep the types.
LEMMA RunType == TypeOK /\ RunStep => TypeOK'
<1> SUFFICES ASSUME TypeOK, RunStep PROVE TypeOK'
  OBVIOUS
<1> USE DEF TypeOK, DiskOK, RenewersOK, Renewers, Step
<1>1. CASE StartRun
  BY <1>1 DEF StartRun
<1>2. ASSUME NEW l \in Loops, SessionStarts(l) PROVE TypeOK'
  BY <1>2 DEF SessionStarts
<1>3. CASE PlaceDead \/ PlaceFails
  BY <1>3 DEF PlaceDead, PlaceFails
<1>4. CASE Settle
  BY <1>4 DEF Settle, Content
<1>5. CASE SettleFails
  BY <1>5 DEF SettleFails, Content, Mishap
<1> QED
  BY <1>1, <1>2, <1>3, <1>4, <1>5 DEF RunStep

\* Every step keeps the types.
LEMMA NextType == TypeOK /\ [Next]_vars => TypeOK'
<1> SUFFICES ASSUME TypeOK, [Next]_vars PROVE TypeOK'
  OBVIOUS
<1>1. ASSUME NEW l \in Loops, Tick(l) PROVE TypeOK'
  BY <1>1 DEF TypeOK, DiskOK, RenewersOK, Tick, Renewers, Step
<1>2. CASE Age
  BY <1>2, RenewalAssumption DEF TypeOK, DiskOK, RenewersOK, Age, Gen
<1>3. CASE Revoke
  BY <1>3 DEF TypeOK, DiskOK, RenewersOK, Revoke
<1>4. CASE Crash
  BY <1>4 DEF TypeOK, DiskOK, RenewersOK, Crash, Step, Mishap
<1>5. CASE StartFails \/ Settled \/ UNCHANGED vars
  BY <1>5 DEF TypeOK, DiskOK, RenewersOK, StartFails, Settled, vars
<1>6. CASE SessionEnds
  BY <1>6 DEF TypeOK, DiskOK, RenewersOK, Renewers, Step, SessionEnds, Mishap
<1> QED
  BY <1>1, <1>2, <1>3, <1>4, <1>5, <1>6, RenewType, RunType DEF Next

\* The bundle, the worker and the renewers always hold values of their kinds.
THEOREM TypeCorrect == Spec => []TypeOK
<1>1. TypeOK /\ [Next]_vars => TypeOK'
  BY NextType
<1> QED
  BY <1>1, InitType, PTL DEF Spec

-----------------------------------------------------------------------------
(* What has gone wrong stays on record.                                      *)

\* No step forgets a mishap.
LEMMA Recorded == [Next]_vars => mishaps \subseteq mishaps'
BY DEF Next, vars, Renew, RunStep, Finish, LoadDue, LoadSkips, RequestFails, Rotate, Reuse,
   RefuseDead, ResponseLost, Receive, WriteFile, OpenFails, WriteFileDone, WriteFails,
   Refused, StartRun, SessionStarts, PlaceDead, PlaceFails, SessionEnds, Settle,
   SettleFails, Tick, Age, Revoke, Crash, StartFails, Settled

-----------------------------------------------------------------------------
(* One renewer at a time.                                                    *)

\* Run renews only between sessions, and only the loop of the session renews
\* during one: nothing else is left over from an earlier session.
Alone ==
  /\ run # "renew" => step[Main] = "off"
  /\ run # "session" => live = None /\ \A l \in Loops : step[l] = "off"
  /\ run = "session" => live \in Loops /\ \A l \in Loops \ {live} : step[l] = "off"

\* Two renewers are never at work together.
LEMMA OnlyOne ==
  ASSUME TypeOK, Alone, NEW r \in Renewers, step[r] # "off"
  PROVE  /\ \A q \in Renewers \ {r} : step[q] = "off"
         /\ r = Main => run = "renew" /\ live = None
         /\ r # Main => run = "session" /\ live = r /\ r \in Loops
BY RenewalAssumption DEF Alone, Renewers, TypeOK, RenewersOK

\* The renewer that works stays the only one when its renewal returns.
LEMMA FinishAlone ==
  ASSUME TypeOK, Alone, NEW r \in Renewers, step[r] # "off", Finish(r)
  PROVE  Alone'
BY OnlyOne, RenewalAssumption DEF Finish, Alone, Renewers, TypeOK, RenewersOK

\* A renewal does not start another one.
LEMMA RenewAlone ==
  ASSUME TypeOK, Alone, NEW r \in Renewers, Renew(r)
  PROVE  Alone'
<1>1. step[r] # "off"
  BY DEF Renew, LoadDue, LoadSkips, RequestFails, Rotate, Reuse, RefuseDead, ResponseLost,
     Receive, WriteFile, OpenFails, WriteFileDone, WriteFails, Refused
<1>2. ASSUME run' = run, live' = live, NEW s, step' = [step EXCEPT ![r] = s]
      PROVE  Alone'
  BY <1>1, <1>2, OnlyOne, RenewalAssumption DEF Alone, Renewers, TypeOK, RenewersOK
<1>3. ASSUME Finish(r) PROVE Alone'
  BY <1>1, <1>3, FinishAlone
<1>4. CASE LoadDue(r) \/ Rotate(r) \/ Reuse(r) \/ RefuseDead(r) \/ Receive(r) \/ WriteFile(r)
  BY <1>2, <1>4 DEF LoadDue, Rotate, Reuse, RefuseDead, Receive, WriteFile
<1>5. CASE LoadSkips(r) \/ RequestFails(r) \/ ResponseLost(r) \/ OpenFails(r) \/ WriteFails(r)
  BY <1>3, <1>5 DEF LoadSkips, RequestFails, ResponseLost, OpenFails, WriteFails
<1>6. CASE WriteFileDone(r)
  BY <1>2, <1>3, <1>6 DEF WriteFileDone
<1>7. CASE Refused(r)
  BY <1>1, <1>7, OnlyOne, RenewalAssumption DEF Refused, Alone, Renewers, TypeOK, RenewersOK
<1> QED
  BY <1>4, <1>5, <1>6, <1>7 DEF Renew

\* If no session ends during a renewal, there is always at most one renewer.
LEMMA NextAlone ==
  ASSUME "overlap" \notin mishaps', TypeOK, Alone, [Next]_vars
  PROVE  Alone'
<1> USE RenewalAssumption DEF Alone, Renewers, TypeOK, RenewersOK
<1>1. ASSUME NEW r \in Renewers, Renew(r) PROVE Alone'
  BY <1>1, RenewAlone
<1>2. CASE StartRun \/ PlaceDead \/ PlaceFails \/ Settle \/ SettleFails
  BY <1>2 DEF StartRun, PlaceDead, PlaceFails, Settle, SettleFails
<1>3. ASSUME NEW l \in Loops, SessionStarts(l) PROVE Alone'
  BY <1>3 DEF SessionStarts
<1>4. CASE SessionEnds
  BY <1>4 DEF SessionEnds
<1>5. ASSUME NEW l \in Loops, Tick(l) PROVE Alone'
  BY <1>5 DEF Tick
<1>6. CASE Age \/ Revoke \/ Crash
  BY <1>6 DEF Age, Revoke, Crash
<1>7. CASE StartFails \/ Settled \/ UNCHANGED vars
  BY <1>7 DEF StartFails, Settled, vars
<1> QED
  BY <1>1, <1>2, <1>3, <1>4, <1>5, <1>6, <1>7 DEF Next, RunStep

-----------------------------------------------------------------------------
(* The token is never behind.                                                *)

\* Nothing on disk is newer than what the worker issued; the only renewer that
\* can hold an answer holds the newest; and from the moment it writes anything
\* but the token, the token on disk is the newest one.
Ordered ==
  /\ \A f \in FileName : file[f] \in Gen => file[f] <= cur
  /\ \A r \in Renewers :
       /\ step[r] \in {"answered", "write", "writing"} => out[r] = cur
       /\ step[r] \in {"write", "writing"} /\ idx[r] # 1 => file["tok"] = cur
       /\ step[r] = "writing" => file[WriteOrder[idx[r]]] = Torn

InOrder == TypeOK /\ Alone /\ Ordered /\ NotBehind

\* The invariant: no session ended during its renewal, or all bets are off.
OrderInv == TypeOK /\ ("overlap" \notin mishaps => InOrder)

\* What a renewal writes is never behind the token.
LEMMA RenewOrdered ==
  ASSUME TypeOK, Alone, Ordered, NotBehind, NEW r \in Renewers, Renew(r)
  PROVE  Ordered' /\ NotBehind'
<1> USE DEF Ordered, NotBehind
<1>0. /\ step[r] # "off"
      /\ step[r] # "off" => \A q \in Renewers \ {r} : step[q] = "off"
  BY OnlyOne DEF Renew, LoadDue, LoadSkips, RequestFails, Rotate, Reuse, RefuseDead,
     ResponseLost, Receive, WriteFile, OpenFails, WriteFileDone, WriteFails, Refused
<1>1. /\ file \in [FileName -> Content] /\ cur \in Gen /\ step \in [Renewers -> Step]
      /\ out \in [Renewers -> Gen] /\ idx \in [Renewers -> 1 .. Len(WriteOrder)]
      /\ Gen \subseteq Nat /\ Torn \notin Nat /\ Absent \notin Nat /\ Torn # Absent
      /\ "tok" \in FileName /\ "crt" \in FileName
  BY RenewalAssumption DEF TypeOK, DiskOK, RenewersOK, Gen, FileName
<1>2. ASSUME file' = file, cur' = cur, out' = out, idx' = idx,
             \A q \in Renewers : step'[q] \notin {"answered", "write", "writing"}
      PROVE  Ordered' /\ NotBehind'
  BY <1>2
<1>3. ASSUME Finish(r)
      PROVE  \A q \in Renewers : step'[q] \notin {"answered", "write", "writing"}
  BY <1>0, <1>1, <1>3 DEF Finish
<1>4. CASE LoadDue(r) \/ Reuse(r) \/ RefuseDead(r)
  BY <1>0, <1>1, <1>2, <1>4 DEF LoadDue, Reuse, RefuseDead
<1>5. CASE LoadSkips(r) \/ RequestFails(r) \/ ResponseLost(r) \/ OpenFails(r) \/ WriteFails(r)
  BY <1>2, <1>3, <1>5 DEF LoadSkips, RequestFails, ResponseLost, OpenFails, WriteFails
<1>6. CASE Refused(r)
  BY <1>0, <1>1, <1>2, <1>6 DEF Refused
<1>7. CASE Rotate(r)
  <2>1. /\ file' = file /\ cur' = cur + 1 /\ idx' = idx
        /\ out' = [out EXCEPT ![r] = cur + 1] /\ step' = [step EXCEPT ![r] = "answered"]
    BY <1>7 DEF Rotate
  <2>2. ASSUME NEW f \in FileName, file'[f] \in Gen PROVE file'[f] <= cur'
    <3>1. file[f] \in Nat /\ cur \in Nat /\ file[f] <= cur
      BY <1>1, <2>1, <2>2
    <3> QED
      BY <2>1, <3>1
  <2>3. \A q \in Renewers : step'[q] \in {"answered", "write", "writing"} => q = r
    BY <1>0, <1>1, <2>1
  <2>4. step'[r] = "answered" /\ out'[r] = cur'
    BY <1>1, <2>1
  <2> QED
    BY <2>1, <2>2, <2>3, <2>4
<1>8. CASE Receive(r)
  BY <1>0, <1>1, <1>8 DEF Receive
<1>9. CASE WriteFile(r)
  BY <1>0, <1>1, <1>9, TokenWrittenFirst DEF WriteFile
<1>10. CASE WriteFileDone(r)
  <2> DEFINE f == WriteOrder[idx[r]]
  <2>1. /\ file' = [file EXCEPT ![f] = out[r]] /\ cur' = cur /\ out' = out
        /\ f \in FileName /\ out[r] = cur
    BY <1>1, <1>10, TokenWrittenFirst DEF WriteFileDone
  <2>2. file'["tok"] = cur
    BY <1>1, <1>10, <2>1, TokenWrittenFirst DEF WriteFileDone
  <2>3. \A g \in FileName : file'[g] \in Gen => file'[g] <= cur
    BY <1>1, <2>1
  <2>4. CASE idx[r] < Len(WriteOrder)
    BY <1>0, <1>1, <1>10, <2>1, <2>2, <2>3, <2>4 DEF WriteFileDone
  <2>5. CASE ~(idx[r] < Len(WriteOrder))
    BY <1>1, <1>3, <1>10, <2>1, <2>2, <2>3, <2>5 DEF WriteFileDone
  <2> QED
    BY <2>4, <2>5
<1> QED
  BY <1>4, <1>5, <1>6, <1>7, <1>8, <1>9, <1>10 DEF Renew

\* Everything else leaves the files alone, or removes them.
LEMMA NextOrdered ==
  ASSUME TypeOK, Alone, Ordered, NotBehind, [Next]_vars
  PROVE  Ordered' /\ NotBehind'
<1> USE DEF Ordered, NotBehind
<1>1. ASSUME NEW r \in Renewers, Renew(r) PROVE Ordered' /\ NotBehind'
  BY <1>1, RenewOrdered
<1>2. CASE StartRun \/ PlaceDead \/ PlaceFails \/ SessionEnds
  BY <1>2, RenewalAssumption
  DEF StartRun, PlaceDead, PlaceFails, SessionEnds, TypeOK, RenewersOK, Renewers, Step
<1>3. ASSUME NEW l \in Loops, SessionStarts(l) \/ Tick(l) PROVE Ordered' /\ NotBehind'
  BY <1>3 DEF SessionStarts, Tick, TypeOK, RenewersOK, Renewers, Step
<1>4. CASE Settle \/ SettleFails
  <2>1. \A r \in Renewers : step'[r] = "off"
    BY <1>4 DEF Settle, SettleFails, Alone, Renewers
  <2>2. cur' = cur /\ \A f \in FileName : file'[f] \in Gen => file'[f] = file[f]
    BY <1>4, RenewalAssumption DEF Settle, SettleFails, Gen
  <2> QED
    BY <2>1, <2>2 DEF FileName
<1>5. CASE Age \/ Revoke \/ Crash
  BY <1>5 DEF Age, Revoke, Crash
<1>6. CASE StartFails \/ Settled \/ UNCHANGED vars
  BY <1>6 DEF StartFails, Settled, vars
<1> QED
  BY <1>1, <1>2, <1>3, <1>4, <1>5, <1>6 DEF Next, RunStep

\* The initial states: one bundle, no renewer at work.
LEMMA InitOrder == Init => InOrder
<1> SUFFICES ASSUME Init PROVE InOrder
  OBVIOUS
<1>1. TypeOK
  BY InitType
<1>2. Alone
  BY DEF Init, Alone, Renewers
<1>3. \A f \in FileName : file[f] \in {0, Absent}
  BY DEF Init
<1>4. Ordered /\ NotBehind
  BY <1>3, RenewalAssumption DEF Init, Ordered, NotBehind, Gen, FileName
<1> QED
  BY <1>1, <1>2, <1>4 DEF InOrder

\* Every step keeps the order, unless it ends a session during its renewal.
LEMMA NextInOrder ==
  ASSUME OrderInv, [Next]_vars
  PROVE  OrderInv'
<1>1. TypeOK'
  BY NextType DEF OrderInv
<1>2. ASSUME "overlap" \notin mishaps' PROVE InOrder'
  <2>1. InOrder
    BY <1>2, Recorded DEF OrderInv
  <2> QED
    BY <1>1, <1>2, <2>1, NextAlone, NextOrdered DEF InOrder
<1> QED
  BY <1>1, <1>2 DEF OrderInv

\* As long as no session ended while its renewal was in flight, the certificate
\* on disk is never newer than the token beside it: not when answers are lost,
\* not when the process is killed between two writes, not when a write fails.
THEOREM TokenFirstOnDisk == Spec => []TokenNotBehind
<1>1. Init => OrderInv
  BY InitOrder DEF OrderInv, InOrder
<1>2. OrderInv /\ [Next]_vars => OrderInv'
  BY NextInOrder
<1>3. OrderInv => TokenNotBehind
  BY DEF OrderInv, InOrder, TokenNotBehind
<1> QED
  BY <1>1, <1>2, <1>3, PTL DEF Spec

-----------------------------------------------------------------------------
(* A settled credential stays gone.                                          *)

\* Once Run has settled, and the removal did not fail, the directory of the
\* organization is not there.
Gone == run = "settled" /\ "kept" \notin mishaps => ~dir

GoneInv == OrderInv /\ ("overlap" \notin mishaps => Gone)

\* Only a renewal that got an answer makes the directory again, and none is
\* left when Run settles.
LEMMA NextGone ==
  ASSUME TypeOK, Alone, Gone, [Next]_vars
  PROVE  Gone'
<1> USE DEF Gone
<1>1. ASSUME NEW r \in Renewers, Renew(r) PROVE Gone'
  <2>1. step[r] # "off"
    BY <1>1 DEF Renew, LoadDue, LoadSkips, RequestFails, Rotate, Reuse, RefuseDead,
       ResponseLost, Receive, WriteFile, OpenFails, WriteFileDone, WriteFails, Refused
  <2>2. run \in {"renew", "session"}
    BY <2>1, OnlyOne
  <2>3. run' \in {run, "place", "settle", "renew"}
    BY <1>1 DEF Renew, Finish, LoadDue, LoadSkips, RequestFails, Rotate, Reuse, RefuseDead,
       ResponseLost, Receive, WriteFile, OpenFails, WriteFileDone, WriteFails, Refused
  <2> QED
    BY <2>2, <2>3
<1>2. CASE StartRun \/ PlaceDead \/ PlaceFails \/ SessionEnds \/ Settle \/ SettleFails
  BY <1>2 DEF StartRun, PlaceDead, PlaceFails, SessionEnds, Settle, SettleFails
<1>3. ASSUME NEW l \in Loops, SessionStarts(l) \/ Tick(l) PROVE Gone'
  BY <1>3 DEF SessionStarts, Tick
<1>4. CASE Age \/ Revoke \/ Crash
  BY <1>4 DEF Age, Revoke, Crash
<1>5. CASE StartFails \/ Settled \/ UNCHANGED vars
  BY <1>5 DEF StartFails, Settled, vars
<1> QED
  BY <1>1, <1>2, <1>3, <1>4, <1>5 DEF Next, RunStep

\* The message of a settled Run stays true: unless the removal failed or a session
\* ended while its renewal was in flight, nothing brings the credential back.
THEOREM SettledStaysGone == Spec => []SettledIsGone
<1>1. Init => GoneInv
  <2>1. Init => Gone
    BY DEF Init, Gone
  <2> QED
    BY <2>1, InitOrder DEF GoneInv, OrderInv, InOrder
<1>2. GoneInv /\ [Next]_vars => GoneInv'
  <2> SUFFICES ASSUME GoneInv, [Next]_vars PROVE GoneInv'
    OBVIOUS
  <2>1. OrderInv'
    BY NextInOrder DEF GoneInv
  <2>2. ASSUME "overlap" \notin mishaps' PROVE Gone'
    <3>1. InOrder /\ Gone
      BY <2>2, Recorded DEF GoneInv, OrderInv
    <3> QED
      BY <3>1, NextGone DEF InOrder
  <2> QED
    BY <2>1, <2>2 DEF GoneInv
<1>3. GoneInv => SettledIsGone
  BY DEF GoneInv, Gone, SettledIsGone, Loadable
<1> QED
  BY <1>1, <1>2, <1>3, PTL DEF Spec

-----------------------------------------------------------------------------
(* While nothing went wrong, only a revoked credential is deleted.           *)

\* A renewal whose answer is not on disk yet.
Pending(r) == step[r] = "answered" \/ (step[r] \in {"write", "writing"} /\ idx[r] = 1)

\* The disk keeps up with the worker: except while an answer is being stored,
\* the token on disk is the newest, so nothing superseded is ever presented.
KeepsUp ==
  /\ chain # "reused"
  /\ run \in {"settle", "settled"} => chain = "revoked"
  /\ run # "settled" => dir
  /\ \A r \in Renewers :
       /\ step[r] = "refused" => chain = "revoked"
       /\ step[r] = "sent" => tok[r] \in {cur, None}
  /\ (\A r \in Renewers : ~Pending(r)) => file["tok"] \in {cur, Absent}

QuietInv == OrderInv /\ (mishaps = {} => KeepsUp)

\* A renewal that meets no fault stores what it was given.
LEMMA RenewKeepsUp ==
  ASSUME mishaps' = {}, InOrder, KeepsUp, NEW r \in Renewers, Renew(r)
  PROVE  KeepsUp'
<1>0. /\ step[r] # "off"
      /\ \A q \in Renewers \ {r} : step[q] = "off"
      /\ run \in {"renew", "session"} /\ dir
      /\ r # Main => live = r
  BY OnlyOne DEF InOrder, KeepsUp, Renew, LoadDue, LoadSkips, RequestFails, Rotate, Reuse,
     RefuseDead, ResponseLost, Receive, WriteFile, OpenFails, WriteFileDone, WriteFails, Refused
<1>1. /\ step \in [Renewers -> Step] /\ idx \in [Renewers -> 1 .. Len(WriteOrder)]
      /\ tok \in [Renewers -> Gen \cup {None}] /\ file \in [FileName -> Content]
      /\ chain \in {"good", "reused", "revoked"} /\ None \notin Gen /\ Absent \notin Gen
  BY RenewalAssumption DEF InOrder, TypeOK, DiskOK, RenewersOK, Gen
<1>2. ASSUME Finish(r)
      PROVE  /\ \A q \in Renewers : step'[q] \in {"off", "idle"}
             /\ run' \in {"place", "session", "renew"}
  BY <1>0, <1>1, <1>2 DEF Finish
<1>3. CASE LoadDue(r)
  <2>1. tok'[r] \in {cur, None}
    BY <1>0, <1>1, <1>3 DEF LoadDue, KeepsUp, Pending, TokenOnDisk
  <2> QED
    BY <1>0, <1>1, <1>3, <2>1 DEF LoadDue, KeepsUp, Pending
<1>4. CASE LoadSkips(r) \/ RequestFails(r)
  BY <1>0, <1>1, <1>2, <1>4 DEF LoadSkips, RequestFails, KeepsUp, Pending
<1>5. CASE Rotate(r)
  BY <1>0, <1>1, <1>5 DEF Rotate, KeepsUp, Pending
<1>6. CASE Reuse(r)
  BY <1>6 DEF Reuse, KeepsUp
<1>7. CASE RefuseDead(r)
  BY <1>0, <1>1, <1>7 DEF RefuseDead, KeepsUp, Pending
<1>8. CASE Receive(r)
  BY <1>0, <1>1, <1>8 DEF Receive, KeepsUp, Pending
<1>9. CASE WriteFile(r)
  <2>1. WriteOrder[idx[r]] = "tok" => Pending(r)'
    BY <1>1, <1>9, TokenWrittenFirst DEF WriteFile, Pending
  <2>2. WriteOrder[idx[r]] # "tok" => file'["tok"] = file["tok"]
    BY <1>1, <1>9 DEF WriteFile
  <2>3. idx[r] # 1 => ~Pending(r)
    BY <1>9 DEF WriteFile, Pending
  <2>4. idx[r] # 1 => file["tok"] = cur
    BY <1>9 DEF WriteFile, InOrder, Ordered
  <2> QED
    BY <1>0, <1>1, <1>9, <2>1, <2>2, <2>4, TokenWrittenFirst DEF WriteFile, KeepsUp
<1>10. CASE WriteFileDone(r)
  <2>1. file'["tok"] = cur
    BY <1>1, <1>10, TokenWrittenFirst, RenewalAssumption
    DEF WriteFileDone, InOrder, Ordered, FileName
  <2>2. /\ cur' = cur /\ chain' = chain /\ dir' = dir /\ run' \notin {"settle", "settled"}
        /\ \A q \in Renewers : step'[q] \notin {"sent", "refused"}
    BY <1>0, <1>1, <1>2, <1>10 DEF WriteFileDone
  <2> QED
    BY <1>0, <2>1, <2>2 DEF KeepsUp
<1>11. CASE Refused(r)
  <2>1. chain = "revoked" /\ chain' = chain /\ dir' = dir /\ file' = file /\ cur' = cur
    BY <1>11 DEF Refused, KeepsUp
  <2>2. \A q \in Renewers : step'[q] \in {"off", "load"} /\ ~Pending(q)
    BY <1>0, <1>11 DEF Refused, Pending
  <2>3. run' # "settled"
    BY <1>0, <1>11 DEF Refused
  <2> QED
    BY <1>0, <2>1, <2>2, <2>3 DEF KeepsUp
<1>12. CASE ResponseLost(r) \/ OpenFails(r) \/ WriteFails(r)
  BY <1>0, <1>12 DEF ResponseLost, OpenFails, WriteFails
<1> QED
  BY <1>3, <1>4, <1>5, <1>6, <1>7, <1>8, <1>9, <1>10, <1>11, <1>12 DEF Renew

\* Placement presents the token on disk, which is the newest one.
LEMMA NextKeepsUp ==
  ASSUME mishaps' = {}, InOrder, KeepsUp, [Next]_vars
  PROVE  KeepsUp'
<1>0. /\ step \in [Renewers -> Step] /\ Renewers = Loops \cup {Main} /\ Main \notin Loops
      /\ chain \in {"good", "reused", "revoked"}
  BY RenewalAssumption DEF InOrder, TypeOK, DiskOK, RenewersOK, Renewers
<1>1. ASSUME NEW r \in Renewers, Renew(r) PROVE KeepsUp'
  BY <1>1, RenewKeepsUp
<1>2. CASE StartRun \/ PlaceFails \/ SessionEnds
  BY <1>0, <1>2 DEF StartRun, PlaceFails, SessionEnds, KeepsUp, Pending, InOrder, Alone
<1>3. CASE PlaceDead
  <2>1. \A r \in Renewers : step[r] = "off"
    BY <1>0, <1>3 DEF PlaceDead, InOrder, Alone
  <2>2. file["tok"] \in {cur, Absent}
    BY <2>1 DEF KeepsUp, Pending
  <2>3. chain = "revoked"
    BY <1>0, <1>3, <2>2, RenewalAssumption DEF PlaceDead, TokenOnDisk, KeepsUp, Gen
  <2> QED
    BY <1>3, <2>3 DEF PlaceDead, KeepsUp, Pending
<1>4. CASE Settle \/ SettleFails
  BY <1>4 DEF Settle, SettleFails, KeepsUp, Pending, FileName
<1>5. ASSUME NEW l \in Loops, SessionStarts(l) \/ Tick(l) PROVE KeepsUp'
  BY <1>0, <1>5 DEF SessionStarts, Tick, KeepsUp, Pending
<1>6. CASE Age \/ Revoke \/ Crash
  BY <1>6 DEF Age, Revoke, Crash, KeepsUp, Pending
<1>7. CASE StartFails \/ Settled \/ UNCHANGED vars
  BY <1>7 DEF StartFails, Settled, vars, KeepsUp, Pending
<1> QED
  BY <1>1, <1>2, <1>3, <1>4, <1>5, <1>6, <1>7 DEF Next, RunStep

\* As long as nothing went wrong, an agent gives up its credential only if it
\* was revoked: its own renewals, by Run and by its sessions, never look like
\* token reuse.
THEOREM KeepsGoodCredential == Spec => []SettlesOnlyRevoked
<1>1. Init => QuietInv
  <2> SUFFICES ASSUME Init PROVE KeepsUp
    BY InitOrder DEF QuietInv, OrderInv, InOrder
  <2>1. file["tok"] \in {cur, Absent}
    BY DEF Init, FileName
  <2>2. chain = "good" /\ run = "down" /\ dir = TRUE
    BY DEF Init
  <2>3. \A r \in Renewers : step[r] = "off"
    BY DEF Init
  <2> QED
    BY <2>1, <2>2, <2>3 DEF KeepsUp
<1>2. QuietInv /\ [Next]_vars => QuietInv'
  <2> SUFFICES ASSUME QuietInv, [Next]_vars, mishaps' = {} PROVE KeepsUp'
    BY NextInOrder DEF QuietInv
  <2>1. InOrder /\ KeepsUp
    BY Recorded DEF QuietInv, OrderInv
  <2> QED
    BY <2>1, NextKeepsUp
<1>3. QuietInv => SettlesOnlyRevoked
  BY DEF QuietInv, KeepsUp, SettlesOnlyRevoked
<1> QED
  BY <1>1, <1>2, <1>3, PTL DEF Spec

-----------------------------------------------------------------------------
(***************************************************************************)
(* The goroutine of a session that renews, for any intervals, timeout and  *)
(* sleeps (RenewLoop; a session is one of the Loops above). A tick that is *)
(* due is at most one interval away, and a loop that waits for it notices  *)
(* a long sleep then, but takes no late tick for one.                      *)
(***************************************************************************)

CONSTANTS
  Orgs, NoOrg, Ping, RenewEvery, MaxCall, Naps    \* those of RenewLoop

VARIABLES
  pc, pingIn, pingReady, renewIn, renewReady, since, act, todo, call, left, due, dead,
  cancelled, woke, waited, fooled, odd            \* those of RenewLoop

Loop == INSTANCE RenewLoop

\* After a long sleep the gap stays visible, and the tick that shows it is due
\* within what is left of one interval.
Noticed ==
  woke => /\ since > 2 * Ping
          /\ waited <= Ping
          /\ pingReady \/ waited + pingIn <= Ping

\* A loop that waits, and was not disturbed, has seen at most two intervals go
\* by when its tick comes: one of the ticker, one in a round.
OnTime ==
  pc = "select" /\ ~odd => /\ since <= 2 * Ping
                           /\ pingReady \/ since + pingIn <= 2 * Ping

LoopInv == Loop!TypeOK /\ Noticed /\ OnTime

\* The intervals, and the cap, which is above the threshold of IsWakeEvent.
LEMMA Bounds ==
  ASSUME Loop!LoopAssumption
  PROVE  /\ Ping \in Nat /\ Ping >= 1 /\ RenewEvery \in Nat /\ RenewEvery >= 1 /\ MaxCall \in Nat
         /\ Loop!Cap \in Nat /\ Loop!Cap > 2 * Ping /\ NoOrg \notin Orgs /\ Naps \subseteq Nat
BY DEF Loop!LoopAssumption, Loop!Cap

\* A gap that is capped is still one that IsWakeEvent takes for a sleep.
LEMMA Capped ==
  ASSUME Loop!LoopAssumption, NEW t \in Nat
  PROVE  /\ Loop!AtMostCap(t) \in 0 .. Loop!Cap
         /\ Loop!AtMostCap(t) <= t
         /\ t > 2 * Ping => Loop!AtMostCap(t) > 2 * Ping
BY Bounds DEF Loop!AtMostCap

\* A loop starts in a select, with nothing in flight.
LEMMA InitLoop == ASSUME Loop!LoopAssumption, Loop!Init PROVE LoopInv
<1>1. Loop!TypeOK
  <2>1. /\ pingIn \in 1 .. Ping /\ renewIn \in 1 .. RenewEvery /\ since \in 0 .. Loop!Cap
        /\ left \in 0 .. MaxCall /\ waited \in Nat
    BY Bounds DEF Loop!Init
  <2> QED BY <2>1 DEF Loop!Init, Loop!TypeOK
<1>2. Noticed /\ OnTime
  BY Bounds DEF Loop!Init, Noticed, OnTime
<1> QED BY <1>1, <1>2 DEF LoopInv

\* A tick that is read begins a round only when the gap says so.
LEMMA SelectLoop ==
  ASSUME Loop!LoopAssumption, LoopInv, Loop!SelectDone \/ Loop!SelectPing \/ Loop!SelectRenew
  PROVE  LoopInv'
<1>0. Loop!TypeOK /\ Noticed /\ OnTime
  BY DEF LoopInv
<1>1. Loop!TypeOK'
  <2>1. CASE Loop!SelectDone
    BY <1>0, <2>1
    DEF Loop!SelectDone, Loop!TypeOK, Loop!timers, Loop!round, Loop!outside, Loop!wake
  <2>2. CASE Loop!SelectPing \/ Loop!SelectRenew
    <3>1. pc = "select" /\ call = NoOrg
      BY <1>0, <2>2 DEF Loop!SelectPing, Loop!SelectRenew, Loop!TypeOK
    <3>2. /\ since' = 0 /\ fooled' = FALSE /\ odd' = FALSE
          /\ pingReady' \in BOOLEAN /\ renewReady' \in BOOLEAN
          /\ UNCHANGED <<pingIn, renewIn, due, dead, cancelled, call, left>>
          /\ Loop!BeginRound \/ UNCHANGED <<pc, act, todo, woke, waited>>
      BY <1>0, <2>2
      DEF Loop!SelectPing, Loop!SelectRenew, Loop!Sample, Loop!BeginRound, Loop!TypeOK,
          Loop!round, Loop!outside
    <3>3. /\ pc' \in {"select", "round"} /\ act' \in Orgs \cup {NoOrg} /\ todo' \subseteq Orgs
          /\ woke' \in BOOLEAN /\ waited' \in Nat
      <4>1. CASE Loop!BeginRound
        BY <4>1 DEF Loop!BeginRound
      <4>2. CASE UNCHANGED <<pc, act, todo, woke, waited>>
        BY <1>0, <3>1, <4>2 DEF Loop!TypeOK
      <4> QED BY <3>2, <4>1, <4>2
    <3>4. since' \in 0 .. Loop!Cap /\ left' \in 0 .. MaxCall
      BY <1>0, <3>2, Bounds DEF Loop!TypeOK
    <3> QED BY <1>0, <3>1, <3>2, <3>3, <3>4 DEF Loop!TypeOK
  <2> QED BY <2>1, <2>2
<1>2. Noticed'
  <2>1. CASE Loop!SelectDone
    BY <1>0, <2>1 DEF Loop!SelectDone, Noticed, Loop!timers, Loop!wake
  <2>2. CASE Loop!SelectPing
    <3>1. ~woke'
      BY <1>0, <2>2 DEF Loop!SelectPing, Loop!BeginRound, Loop!IsWakeEvent, Noticed
    <3> QED BY <3>1 DEF Noticed
  <2>3. CASE Loop!SelectRenew
    BY <2>3 DEF Loop!SelectRenew, Loop!BeginRound, Noticed
  <2> QED BY <2>1, <2>2, <2>3
<1>3. OnTime'
  <2>1. CASE Loop!SelectDone
    BY <2>1 DEF Loop!SelectDone, OnTime
  <2>2. CASE Loop!SelectPing \/ Loop!SelectRenew
    <3>1. since' = 0 /\ pingIn' = pingIn
      BY <2>2 DEF Loop!SelectPing, Loop!SelectRenew, Loop!Sample
    <3>2. pingIn \in 1 .. Ping
      BY <1>0 DEF Loop!TypeOK
    <3> QED BY <3>1, <3>2, Bounds DEF OnTime
  <2> QED BY <2>1, <2>2
<1> QED BY <1>1, <1>2, <1>3 DEF LoopInv

\* A round does its organizations one by one and says when it took too long.
LEMMA RoundLoop == ASSUME Loop!LoopAssumption, LoopInv, Loop!Round PROVE LoopInv'
<1>0. Loop!TypeOK /\ Noticed /\ OnTime /\ pc = "round"
  BY DEF LoopInv, Loop!Round, Loop!Skip, Loop!Call, Loop!Renewed, Loop!Fails, Loop!Refused,
      Loop!RoundEnds, Loop!TypeOK
<1>1. ASSUME NEW o \in Orgs, Loop!Skip(o) \/ Loop!Call(o) \/ Loop!Renewed(o) PROVE Loop!TypeOK'
  BY <1>0, <1>1, Bounds
  DEF Loop!Skip, Loop!Call, Loop!Renewed, Loop!NextOrg, Loop!TypeOK, Loop!timers, Loop!outside,
      Loop!wake
<1>2. ASSUME Loop!Fails \/ Loop!Refused PROVE Loop!TypeOK'
  <2>1. /\ pc' \in {"round", "returned"} /\ call' = NoOrg /\ left' = 0 /\ todo' = todo \ {call}
        /\ UNCHANGED <<Loop!timers, since, act, Loop!outside, Loop!wake, odd>>
    BY <1>0, <1>2 DEF Loop!Fails, Loop!Refused, Loop!NextOrg
  <2>2. left' \in 0 .. MaxCall /\ todo' \subseteq Orgs
    BY <1>0, <2>1, Bounds DEF Loop!TypeOK
  <2> QED BY <1>0, <2>1, <2>2 DEF Loop!TypeOK, Loop!timers, Loop!outside, Loop!wake
<1>3. Loop!TypeOK'
  <2>1. CASE Loop!RoundEnds
    <3>1. odd' \in BOOLEAN
      BY <2>1 DEF Loop!RoundEnds
    <3> QED BY <1>0, <2>1, <3>1
            DEF Loop!RoundEnds, Loop!TypeOK, Loop!timers, Loop!outside, Loop!wake
  <2>2. CASE \E o \in Orgs : Loop!Skip(o) \/ Loop!Call(o) \/ Loop!Renewed(o)
    BY <1>1, <2>2
  <2> QED BY <1>2, <2>1, <2>2 DEF Loop!Round
<1>4. UNCHANGED <<pingIn, pingReady, since, woke, waited>>
  BY DEF Loop!Round, Loop!Skip, Loop!Call, Loop!Renewed, Loop!Fails, Loop!Refused,
      Loop!RoundEnds, Loop!timers, Loop!wake
<1>5. pc' = "select" /\ ~odd' => ~(since > Ping)
  BY <1>0
  DEF Loop!Round, Loop!Skip, Loop!Call, Loop!Renewed, Loop!Fails, Loop!Refused, Loop!RoundEnds
<1>6. Noticed'
  BY <1>0, <1>4 DEF Noticed
<1>7. OnTime'
  <2>1. pingIn \in 1 .. Ping /\ since \in Nat
    BY <1>0, Bounds DEF Loop!TypeOK
  <2> QED BY <1>4, <1>5, <2>1, Bounds DEF OnTime
<1> QED BY <1>3, <1>6, <1>7 DEF LoopInv

\* What the gap gains in a unit of time, the next tick is nearer.
LEMMA OneUnit ==
  ASSUME NEW gap \in Nat, NEW gap1 \in Nat, NEW next \in Nat, NEW bound \in Nat,
         next >= 1, gap1 <= gap + 1, gap + next <= 2 * bound
  PROVE  gap1 <= 2 * bound /\ gap1 + (next - 1) <= 2 * bound
OBVIOUS

\* Awake, every unit brings the tick nearer; asleep, only the gap grows.
LEMMA TimeLoop ==
  ASSUME Loop!LoopAssumption, LoopInv,
         Loop!Tick \/ Loop!SetClock \/ (\E t \in Naps : Loop!Sleep(t))
  PROVE  LoopInv'
<1>0. /\ Loop!TypeOK /\ Noticed /\ OnTime /\ since \in Nat /\ waited \in Nat
      /\ pingIn \in 1 .. Ping /\ Ping \in Nat
  BY Bounds DEF LoopInv, Loop!TypeOK
<1>1. CASE Loop!Tick
  <2>1. /\ since' \in 0 .. Loop!Cap /\ since' <= since + 1
        /\ since > 2 * Ping => since' > 2 * Ping
    <3>1. since + 1 \in Nat /\ since' = Loop!AtMostCap(since + 1)
      BY <1>0, <1>1 DEF Loop!Tick
    <3> QED BY <1>0, <3>1, Capped, Bounds
  <2>2. Loop!TypeOK'
    BY <1>0, <1>1, <2>1, Bounds DEF Loop!Tick, Loop!TypeOK, Loop!outside
  <2>3. /\ pc' = pc /\ woke' = woke /\ odd' = odd
        /\ pingIn' = IF pingIn = 1 THEN Ping ELSE pingIn - 1
        /\ pingReady' <=> pingReady \/ pingIn = 1
        /\ pc = "select" => ~pingReady
        /\ pc # "select" => waited' = waited
        /\ woke => waited' \in {waited, waited + 1}
    BY <1>0, <1>1 DEF Loop!Tick, Loop!TypeOK
  <2>4. Noticed'
    BY <1>0, <2>1, <2>3 DEF Noticed
  <2>5. OnTime'
    <3> SUFFICES ASSUME pc = "select", ~odd
                 PROVE  since' <= 2 * Ping /\ (pingReady' \/ since' + pingIn' <= 2 * Ping)
      BY <2>3 DEF OnTime
    <3>1. since + pingIn <= 2 * Ping
      BY <1>0, <2>3 DEF OnTime
    <3>2. /\ pingIn \in Nat /\ pingIn >= 1 /\ Ping \in Nat /\ since \in Nat
          /\ since' \in Nat /\ since' <= since + 1
      BY <1>0, <2>1, Bounds
    <3>3. CASE pingIn = 1
      <4>1. pingReady'
        BY <2>3, <3>3
      <4> QED BY <1>0, <3>1, <3>2, <3>3, <4>1
    <3>4. CASE pingIn # 1
      <4>1. pingIn' = pingIn - 1
        BY <2>3, <3>4
      <4>2. since' <= 2 * Ping /\ since' + (pingIn - 1) <= 2 * Ping
        BY <3>1, <3>2, OneUnit
      <4> QED BY <4>1, <4>2
    <3> QED BY <3>3, <3>4
  <2> QED BY <2>2, <2>4, <2>5 DEF LoopInv
<1>2. CASE Loop!SetClock
  <2>1. Loop!TypeOK'
    BY <1>0, <1>2 DEF Loop!SetClock, Loop!TypeOK, Loop!timers, Loop!round, Loop!outside
  <2>2. ~woke' /\ odd'
    BY <1>2 DEF Loop!SetClock
  <2> QED BY <2>1, <2>2 DEF LoopInv, Noticed, OnTime
<1>3. ASSUME NEW t \in Naps, Loop!Sleep(t) PROVE LoopInv'
  <2>1. /\ since' \in 0 .. Loop!Cap
        /\ since > 2 * Ping \/ t > 2 * Ping => since' > 2 * Ping
    <3>1. t \in Nat /\ since + t \in Nat /\ since' = Loop!AtMostCap(since + t)
      BY <1>0, <1>3, Bounds DEF Loop!Sleep
    <3> QED BY <1>0, <3>1, Capped
  <2>2. Loop!TypeOK'
    BY <1>0, <1>3, <2>1, Bounds DEF Loop!Sleep, Loop!TypeOK, Loop!timers, Loop!round, Loop!outside
  <2>3. Noticed'
    <3>1. /\ UNCHANGED <<pingIn, pingReady>> /\ waited' = IF t > 2 * Ping THEN 0 ELSE waited
          /\ woke' => woke \/ t > 2 * Ping
      BY <1>3 DEF Loop!Sleep, Loop!timers
    <3>2. CASE t > 2 * Ping
      BY <1>0, <2>1, <3>1, <3>2 DEF Noticed
    <3>3. CASE ~(t > 2 * Ping)
      BY <1>0, <2>1, <3>1, <3>3 DEF Noticed
    <3> QED BY <3>2, <3>3
  <2>4. OnTime'
    BY <1>3 DEF Loop!Sleep, OnTime
  <2> QED BY <2>2, <2>3, <2>4 DEF LoopInv
<1> QED BY <1>1, <1>2, <1>3

\* Every step of the goroutine and of the world around it.
LEMMA NextLoop == ASSUME Loop!LoopAssumption, LoopInv, [Loop!Next]_(Loop!vars) PROVE LoopInv'
<1>1. CASE Loop!Loop
  BY <1>1, SelectLoop, RoundLoop DEF Loop!Loop
<1>2. CASE Loop!Tick \/ Loop!SetClock \/ \E t \in Naps : Loop!Sleep(t)
  BY <1>2, TimeLoop
<1>3. CASE (\E o \in Orgs : Loop!HalfLife(o) \/ Loop!Revoke(o)) \/ Loop!Cancel
  <2>1. Loop!TypeOK'
    BY <1>3
    DEF Loop!HalfLife, Loop!Revoke, Loop!Cancel, LoopInv, Loop!TypeOK, Loop!timers, Loop!round,
        Loop!wake
  <2>2. Noticed' /\ OnTime'
    BY <1>3
    DEF Loop!HalfLife, Loop!Revoke, Loop!Cancel, LoopInv, Noticed, OnTime, Loop!timers,
        Loop!round, Loop!wake
  <2> QED BY <2>1, <2>2 DEF LoopInv
<1>4. CASE UNCHANGED Loop!vars
  BY <1>4 DEF Loop!vars, LoopInv, Loop!TypeOK, Noticed, OnTime
<1>5. CASE Loop!Returned
  BY <1>4, <1>5 DEF Loop!Returned
<1> QED BY <1>1, <1>2, <1>3, <1>4, <1>5 DEF Loop!Next

\* The goroutine keeps its invariant.
LEMMA AlwaysLoop == ASSUME Loop!LoopAssumption PROVE Loop!Spec => []LoopInv
BY InitLoop, NextLoop, PTL DEF Loop!Spec

\* Only a tick of wakeTicker that finds a gap begins a round this way.
LEMMA WakeRound ==
  ASSUME LoopInv, [Loop!Next]_(Loop!vars), pc = "select", pc' = "round", pingReady # pingReady',
         Loop!LoopAssumption
  PROVE  odd
<1>1. Loop!SelectPing /\ Loop!IsWakeEvent(since) /\ pingReady
  BY DEF Loop!Next, Loop!Loop, Loop!SelectDone, Loop!SelectPing, Loop!SelectRenew, Loop!Round,
     Loop!Skip, Loop!Call, Loop!Renewed, Loop!Fails, Loop!Refused, Loop!RoundEnds, Loop!Tick,
     Loop!SetClock, Loop!Sleep, Loop!HalfLife, Loop!Revoke, Loop!Cancel, Loop!Returned,
     Loop!vars, Loop!timers, Loop!round, LoopInv, Loop!TypeOK
<1> QED BY <1>1, Bounds DEF LoopInv, Loop!TypeOK, OnTime, Loop!IsWakeEvent

\* The values are of their kinds, and no call is in flight outside of a round:
\* none is left behind when the goroutine returns.
THEOREM LoopTyped == ASSUME Loop!LoopAssumption PROVE Loop!Spec => []Loop!TypeOK
BY AlwaysLoop, PTL DEF LoopInv

\* After a long sleep of the machine a round begins within one interval of the
\* wake ticker, for any interval and wherever the loop was when it fell asleep:
\* waiting, or in the middle of a renewal.
THEOREM WakeIsNoticed == ASSUME Loop!LoopAssumption PROVE Loop!Spec => []Loop!WakeRenews
<1>1. LoopInv => Loop!WakeRenews
  BY DEF LoopInv, Noticed, Loop!WakeRenews
<1> QED BY <1>1, AlwaysLoop, PTL

\* The wake ticker begins no round unless the machine slept, its clock was set or
\* a round took longer than the interval: a tick that comes late, because the
\* loop was busy or the channel was full, is not taken for a wake-up.
THEOREM LateTickIsNoWake == ASSUME Loop!LoopAssumption PROVE Loop!Spec => Loop!NoFalseWake
<1>1. LoopInv /\ [Loop!Next]_(Loop!vars) =>
        [pc = "select" /\ pc' = "round" /\ pingReady # pingReady' => odd]_(Loop!vars)
  BY WakeRound
<1> QED BY <1>1, AlwaysLoop, PTL DEF Loop!Spec, Loop!NoFalseWake
=============================================================================
