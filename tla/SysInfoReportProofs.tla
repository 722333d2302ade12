-------------------------- MODULE SysInfoReportProofs --------------------------
(***************************************************************************)
(* Proofs about SysInfoReport, for any metadata, interval and number of    *)
(* enrollments: attempts keep the floor as long as their record is not     *)
(* disturbed, and the change detection compares with what the worker has.  *)
(***************************************************************************)
EXTENDS SysInfoReport, TLAPS

USE DEF host, enrollment, local, history

\* An undisturbed record is at most as old as the attempt, rounded to its second.
Recorded ==
  ~disturbed => IF snap.age = Never THEN gap = Cap ELSE snap.age <= gap + 1

\* What the steps before the answer know of the agent and of the snapshot: a token
\* that is not stale is that of the newest agent, the record about to be written
\* repeats the one that was read, and what was accepted is what was collected.
Truthful ==
  /\ snap.agent <= agent /\ prev.agent <= agent /\ mine <= agent
  /\ pc # "idle" => mine \in Agents /\ report \in Infos
  /\ pc # "idle" /\ ~stale => mine = agent
  /\ pc = "mark" /\ ~unsure /\ prev.agent = agent => prev.sent = known
  /\ pc = "sent" /\ mine = agent => known = report

\* The inductive invariant.
IInv == TypeOK /\ Recorded /\ Truthful /\ SentIsTrue

-----------------------------------------------------------------------------
(* Ages and snapshots. *)

\* The ages a clock without a step back can show.
LEMMA Ages ==
  /\ Cap \in Age /\ Never \in Age /\ Never < 0
  /\ \A h \in 0 .. Second - 1 : h \in Age /\ h # Never /\ h <= 1
  /\ \A g \in 0 .. Cap : g = Cap \/ g + 1 \in 0 .. Cap
BY ReportAssumption DEF Cap, Never, Age, Second

\* A record that grows older stays an age, and is never taken for no record.
LEMMA OlderAge ==
  ASSUME NEW a \in Age
  PROVE  /\ Older(a) \in Age
         /\ Older(a) = Never <=> a = Never
         /\ a # Cap => Older(a) <= a + 1
         /\ Older(a) <= Cap
BY ReportAssumption DEF Older, Age, Cap, Never

\* The empty snapshot is one, of no agent.
LEMMA EmptySnapshot == Empty \in Snapshot /\ Empty.agent = 0
BY Ages DEF Empty, Snapshot

\* A snapshot with another age is one.
LEMMA SnapshotAge ==
  ASSUME NEW s \in Snapshot, NEW a \in Age
  PROVE  /\ [s EXCEPT !.age = a] \in Snapshot
         /\ [s EXCEPT !.age = a].agent = s.agent
         /\ [s EXCEPT !.age = a].sent = s.sent
         /\ [s EXCEPT !.age = a].age = a
BY DEF Snapshot

-----------------------------------------------------------------------------
\* The initial states satisfy the invariant.
LEMMA InitIInv == Init => IInv
<1> SUFFICES ASSUME Init PROVE IInv
  OBVIOUS
<1>1. 1 \in Agents /\ Cap \in 0 .. Cap
  BY ReportAssumption DEF Agents, Cap
<1>2. TypeOK
  BY <1>1, EmptySnapshot DEF Init, TypeOK, PC
<1>3. Recorded
  BY DEF Init, Recorded, Empty
<1>4. Truthful /\ SentIsTrue
  BY EmptySnapshot DEF Init, Truthful, SentIsTrue
<1> QED
  BY <1>2, <1>3, <1>4 DEF IInv

\* MaybeReport up to its request keeps the invariant.
LEMMA BeforePost ==
  ASSUME IInv, Load \/ Decide \/ DecideNot \/ ReadFails \/ Mark \/ MarkFails
  PROVE  IInv'
<1> USE DEF IInv
<1>0. snap \in Snapshot /\ prev \in Snapshot /\ agent \in Nat /\ agent # 0
  BY DEF TypeOK, Agents
<1>1. CASE Load
  <2>1. TypeOK' /\ Recorded'
    BY <1>1 DEF Load, TypeOK, Recorded, PC
  <2>2. Truthful' /\ SentIsTrue'
    BY <1>1, <1>0 DEF Load, TypeOK, Truthful, SentIsTrue
  <2> QED
    BY <2>1, <2>2
<1>2. CASE Decide
  <2>1. TypeOK' /\ Recorded'
    BY <1>2 DEF Decide, TypeOK, Recorded, PC
  <2>2. Truthful' /\ SentIsTrue'
    BY <1>2 DEF Decide, Truthful, SentIsTrue
  <2> QED
    BY <2>1, <2>2
<1>3. CASE DecideNot
  <2>1. TypeOK' /\ Recorded'
    BY <1>3, EmptySnapshot DEF DecideNot, Return, TypeOK, Recorded, PC
  <2>2. Truthful' /\ SentIsTrue'
    BY <1>3, <1>0, EmptySnapshot DEF DecideNot, Return, Truthful, SentIsTrue
  <2> QED
    BY <2>1, <2>2
<1>4. CASE Mark
  <2>1. half \in Age /\ half # Never /\ half <= 1
    BY Ages DEF TypeOK
  <2>2. /\ snap' \in Snapshot /\ snap'.age = half
        /\ snap'.agent = prev.agent /\ snap'.sent = prev.sent
    BY <1>0, <1>4, <2>1, SnapshotAge DEF Mark
  <2>3. 0 \in 0 .. Cap
    BY ReportAssumption DEF Cap
  <2>4. TypeOK'
    BY <1>4, <2>2, <2>3, EmptySnapshot DEF Mark, TypeOK, PC
  <2>5. Recorded'
    BY <1>4, <2>1, <2>2 DEF Mark, Recorded
  <2>6. Truthful' /\ SentIsTrue'
    BY <1>4, <1>0, <2>2, EmptySnapshot DEF Mark, Truthful, SentIsTrue
  <2> QED
    BY <2>4, <2>5, <2>6
<1>5. CASE MarkFails
  <2>1. 0 \in 0 .. Cap
    BY ReportAssumption DEF Cap
  <2>2. TypeOK' /\ Recorded'
    BY <1>5, <2>1, EmptySnapshot DEF MarkFails, TypeOK, Recorded, PC
  <2>3. Truthful' /\ SentIsTrue'
    BY <1>5, <1>0, EmptySnapshot DEF MarkFails, Truthful, SentIsTrue
  <2> QED
    BY <2>2, <2>3
<1>6. CASE ReadFails
  <2>1. TypeOK' /\ Recorded'
    BY <1>6, EmptySnapshot DEF ReadFails, Return, TypeOK, Recorded, PC
  <2>2. Truthful' /\ SentIsTrue'
    BY <1>6, <1>0, EmptySnapshot DEF ReadFails, Return, Truthful, SentIsTrue
  <2> QED
    BY <2>1, <2>2
<1> QED
  BY <1>1, <1>2, <1>3, <1>4, <1>5, <1>6

\* So do the request and what follows it.
LEMMA FromPost ==
  ASSUME IInv, Accepted \/ AnswerLost \/ PostFails \/ MarkSent \/ MarkSentFails
  PROVE  IInv'
<1> USE DEF IInv
<1>0. snap \in Snapshot /\ prev \in Snapshot /\ agent \in Nat /\ agent # 0
  BY DEF TypeOK, Agents
<1>1. CASE Accepted
  <2>1. TypeOK' /\ Recorded'
    BY <1>1 DEF Accepted, TypeOK, Recorded, PC
  <2>2. Truthful' /\ SentIsTrue'
    BY <1>1 DEF Accepted, Truthful, SentIsTrue
  <2> QED
    BY <2>1, <2>2
<1>2. CASE AnswerLost \/ PostFails
  <2>1. TypeOK' /\ Recorded'
    BY <1>2, EmptySnapshot DEF AnswerLost, PostFails, Return, TypeOK, Recorded, PC
  <2>2. Truthful' /\ SentIsTrue'
    BY <1>2, <1>0, EmptySnapshot DEF AnswerLost, PostFails, Return, Truthful, SentIsTrue
  <2> QED
    BY <2>1, <2>2
<1>3. CASE MarkSent
  <2>1. half \in Age /\ half # Never /\ half <= 1
    BY Ages DEF TypeOK
  <2>2. /\ snap' \in Snapshot /\ snap'.age = half
        /\ snap'.agent = mine /\ snap'.sent = report
    BY <1>3, <2>1 DEF MarkSent, Truthful, Snapshot
  <2>3. TypeOK'
    BY <1>3, <2>2, EmptySnapshot DEF MarkSent, Return, TypeOK, PC
  <2>4. Recorded'
    BY <1>3, <2>1, <2>2, ReportAssumption DEF MarkSent, Recorded, TypeOK, Cap
  <2>5. Truthful' /\ SentIsTrue'
    BY <1>3, <1>0, <2>2, EmptySnapshot DEF MarkSent, Return, Truthful, SentIsTrue
  <2> QED
    BY <2>3, <2>4, <2>5
<1>4. CASE MarkSentFails
  <2>1. TypeOK' /\ Recorded'
    BY <1>4, EmptySnapshot DEF MarkSentFails, Return, TypeOK, Recorded, PC
  <2>2. Truthful' /\ SentIsTrue'
    BY <1>4, <1>0, EmptySnapshot DEF MarkSentFails, Return, Truthful, SentIsTrue
  <2> QED
    BY <2>1, <2>2
<1> QED
  BY <1>1, <1>2, <1>3, <1>4

\* Time keeps the record no older than the attempt; a clock that is set disturbs it.
LEMMA TimeIInv ==
  ASSUME IInv, Tick \/ SetClock
  PROVE  IInv'
<1> USE DEF IInv
<1>0. snap \in Snapshot /\ snap.age \in Age
  BY DEF TypeOK, Snapshot
<1>1. CASE Tick
  <2>1. /\ snap' \in Snapshot /\ snap'.age = Older(snap.age)
        /\ snap'.agent = snap.agent /\ snap'.sent = snap.sent
    BY <1>0, <1>1, SnapshotAge, OlderAge DEF Tick
  <2>2. half' \in 0 .. Second - 1
    BY <1>1 DEF Tick, TypeOK, Second
  <2>3. gap' \in 0 .. Cap
    BY <1>1, Ages DEF Tick, TypeOK
  <2>4. TypeOK'
    BY <1>1, <2>1, <2>2, <2>3 DEF Tick, TypeOK
  <2>5. Recorded'
    <3> SUFFICES ASSUME ~disturbed
                 PROVE  IF snap'.age = Never THEN gap' = Cap ELSE snap'.age <= gap' + 1
      BY <1>1 DEF Tick, Recorded
    <3>1. CASE snap.age = Never
      BY <1>0, <1>1, <2>1, <3>1, OlderAge DEF Tick, Recorded
    <3>2. CASE snap.age # Never
      <4>1. snap.age \in Int /\ gap \in Int /\ Cap \in Int /\ Older(snap.age) \in Int
        BY <1>0, OlderAge, ReportAssumption DEF TypeOK, Age, Cap, Never
      <4>2. Older(snap.age) # Never /\ Older(snap.age) <= Cap /\ snap.age <= gap + 1
        BY <1>0, <3>2, OlderAge DEF Recorded
      <4>3. CASE gap = Cap
        BY <1>1, <2>1, <4>1, <4>2, <4>3 DEF Tick
      <4>4. CASE gap # Cap
        <5>1. gap' = gap + 1
          BY <1>1, <4>4 DEF Tick
        <5>2. Older(snap.age) <= snap.age + 1
          BY <4>1 DEF Older
        <5> QED
          BY <2>1, <4>1, <4>2, <5>1, <5>2, OlderAge, <1>0
      <4> QED
        BY <4>3, <4>4
    <3> QED
      BY <3>1, <3>2
  <2>6. Truthful' /\ SentIsTrue'
    BY <1>1, <2>1 DEF Tick, Truthful, SentIsTrue
  <2> QED
    BY <2>4, <2>5, <2>6
<1>2. CASE SetClock
  <2>1. snap' \in Snapshot /\ snap'.agent = snap.agent /\ snap'.sent = snap.sent
    <3>1. CASE snap.age = Never
      BY <1>0, <1>2, <3>1 DEF SetClock
    <3>2. CASE snap.age # Never
      <4>1. PICK a \in Age : snap' = [snap EXCEPT !.age = a]
        BY <1>2, <3>2 DEF SetClock
      <4> QED
        BY <1>0, <4>1, SnapshotAge
    <3> QED
      BY <3>1, <3>2
  <2>2. TypeOK' /\ Recorded'
    BY <1>2, <2>1 DEF SetClock, TypeOK, Recorded
  <2>3. Truthful' /\ SentIsTrue'
    BY <1>2, <2>1 DEF SetClock, Truthful, SentIsTrue
  <2> QED
    BY <2>2, <2>3
<1> QED
  BY <1>1, <1>2

\* The host and the other processes keep the invariant.
LEMMA OthersIInv ==
  ASSUME IInv, HostChanges \/ Rotate \/ Unenroll \/ Enroll \/ Crash
  PROVE  IInv'
<1> USE DEF IInv
<1>0. snap \in Snapshot /\ prev \in Snapshot /\ agent \in Nat /\ agent # 0
  BY DEF TypeOK, Agents
<1>1. CASE HostChanges \/ Rotate
  <2>1. TypeOK' /\ Recorded'
    BY <1>1 DEF HostChanges, Rotate, TypeOK, Recorded
  <2>2. Truthful' /\ SentIsTrue'
    BY <1>1 DEF HostChanges, Rotate, Truthful, SentIsTrue
  <2> QED
    BY <2>1, <2>2
<1>2. CASE Unenroll
  <2>1. TypeOK' /\ Recorded'
    BY <1>2, EmptySnapshot DEF Unenroll, TypeOK, Recorded
  <2>2. pc # "idle" /\ ~stale' => mine = agent
    BY <1>2 DEF Unenroll, Truthful
  <2>3. Truthful'
    BY <1>2, <1>0, <2>2, EmptySnapshot DEF Unenroll, Truthful
  <2>4. SentIsTrue'
    BY <1>2, <1>0, EmptySnapshot DEF Unenroll, SentIsTrue
  <2> QED
    BY <2>1, <2>3, <2>4
<1>3. CASE Enroll
  <2>1. agent' = agent + 1 /\ agent' \in Agents
    BY <1>3, <1>0, ReportAssumption DEF Enroll, Agents
  <2>2. TypeOK' /\ Recorded'
    BY <1>3, <2>1 DEF Enroll, TypeOK, Recorded
  <2>3. snap.agent \in Nat /\ prev.agent \in Nat /\ mine \in Nat
    BY <1>0 DEF TypeOK, Agents, Snapshot
  <2>4. snap.agent < agent' /\ prev.agent < agent' /\ mine < agent'
    BY <1>0, <2>1, <2>3 DEF Truthful
  <2>5. pc # "idle" => stale'
    BY <1>3 DEF Enroll
  <2>6. Truthful'
    BY <1>3, <1>0, <2>1, <2>3, <2>4, <2>5 DEF Enroll, Truthful
  <2>7. SentIsTrue'
    BY <1>3, <1>0, <2>1, <2>3, <2>4 DEF Enroll, SentIsTrue
  <2> QED
    BY <2>2, <2>6, <2>7
<1>4. CASE Crash
  <2>1. snap' = snap \/ snap' = Empty
    BY <1>4 DEF Crash
  <2>2. TypeOK'
    BY <1>4, <2>1, EmptySnapshot DEF Crash, Return, TypeOK, PC
  <2>3. Recorded'
    BY <1>4, <2>1 DEF Crash, Recorded
  <2>4. Truthful'
    BY <1>4, <1>0, <2>1, EmptySnapshot DEF Crash, Return, Truthful
  <2>5. pc = "sent" => unsure'
    BY <1>4 DEF Crash
  <2>6. ~unsure' => ~unsure
    BY <1>4 DEF Crash
  <2>7. known' = known /\ agent' = agent
    BY <1>4 DEF Crash
  <2>8. SentIsTrue'
    BY <1>0, <2>1, <2>5, <2>6, <2>7, EmptySnapshot DEF SentIsTrue
  <2> QED
    BY <2>2, <2>3, <2>4, <2>8
<1> QED
  BY <1>1, <1>2, <1>3, <1>4

\* Every step keeps the invariant.
LEMMA NextIInv == IInv /\ [Next]_vars => IInv'
<1> SUFFICES ASSUME IInv, [Next]_vars PROVE IInv'
  OBVIOUS
<1>1. CASE Next
  BY <1>1, BeforePost, FromPost, TimeIInv, OthersIInv DEF Next, Report, Attempt
<1>2. CASE UNCHANGED vars
  BY <1>2 DEF IInv, vars, TypeOK, Recorded, Truthful, SentIsTrue
<1> QED
  BY <1>1, <1>2

\* The invariant holds throughout.
LEMMA Invariance == Spec => []IInv
BY InitIInv, NextIInv, PTL DEF Spec

\* The variables hold values of their kinds.
THEOREM TypeCorrect == Spec => []TypeOK
<1>1. IInv => TypeOK
  BY DEF IInv
<1> QED
  BY <1>1, Invariance, PTL

\* What the snapshot says was sent for this agent is what the worker knows.
THEOREM SnapshotIsTrue == Spec => []SentIsTrue
<1>1. IInv => SentIsTrue
  BY DEF IInv
<1> QED
  BY <1>1, Invariance, PTL

\* Two attempts are an interval apart, less the second the record loses, unless
\* the clock or the record was disturbed.
THEOREM FloorIsKept == Spec => FloorKept
<1>1. IInv /\ [Next]_vars =>
        [pc = "decide" /\ pc' = "mark" /\ ~disturbed => gap > RetryInterval - Second]_vars
  <2> SUFFICES ASSUME IInv, [Next]_vars, pc = "decide", pc' = "mark", ~disturbed
               PROVE  gap > RetryInterval - Second
    OBVIOUS
  <2>1. Decide
    BY DEF Next, Report, Attempt, Load, DecideNot, ReadFails, Mark, MarkFails, Accepted, AnswerLost, PostFails,
       MarkSent, MarkSentFails, Return, Tick, SetClock, HostChanges, Rotate, Unenroll,
       Enroll, Crash, vars
  <2>2. snap.age = Never \/ snap.age >= RetryInterval
    BY <2>1 DEF Decide, ShouldSend
  <2>3. snap.age \in Int /\ gap \in Int /\ RetryInterval \in Nat
    BY ReportAssumption DEF IInv, TypeOK, Snapshot, Age, Never, Cap
  <2>4. gap = Cap \/ RetryInterval <= gap + 1
    BY <2>2, <2>3 DEF IInv, Recorded
  <2> QED
    BY <2>3, <2>4 DEF Cap, Second
<1> QED
  BY <1>1, Invariance, PTL DEF Spec, FloorKept
=============================================================================
