---------------------------- MODULE SysInfoReport ----------------------------
(***************************************************************************)
(* The report of host metadata that every iteration of connect.Run may     *)
(* send: change detection against a snapshot on disk, and a floor between  *)
(* attempts that is recorded before the request (internal/sysinfo).        *)
(*                                                                         *)
(* Abstraction: a unit of time is half a second, so that the truncation of *)
(* the recorded time to seconds shows. The snapshot keeps its age instead  *)
(* of a time; setting the clock changes the age. A torn, missing or empty  *)
(* snapshot reads as the empty one.                                        *)
(***************************************************************************)
EXTENDS Integers

CONSTANTS
  Infos,         \* host metadata
  NoInfo,        \* nothing was sent
  RetryInterval, \* units of time between two attempts
  MaxBack,       \* bound: how far the clock is set back
  MaxAgent       \* bound: enrollments of this organization

ASSUME ReportAssumption ==
  /\ NoInfo \notin Infos
  /\ RetryInterval \in Nat \ {0}
  /\ MaxBack \in Nat
  /\ MaxAgent \in Nat \ {0}

Second == 2
Cap == RetryInterval + 1     \* ages above it are alike
Never == -MaxBack - 1        \* last_attempt_unix is zero

VARIABLES
  info,      \* what Collect finds on this host
  half,      \* position of the clock within a second
  agent,     \* the newest enrollment
  present,   \* its credentials are on disk
  known,     \* what the worker knows of it
  snap,      \* system-info.json
  pc,        \* where MaybeReport is
  mine,      \* the agent whose material it loaded
  report,    \* the metadata it collected
  prev,      \* the snapshot it read
  stale,     \* the token it loaded was superseded or revoked since
  gap,       \* history: time since an attempt was last recorded
  disturbed, \* history: the recorded time is not that of the last attempt
  unsure     \* history: the worker took a report that is not in the snapshot

host == <<info, half>>
enrollment == <<agent, present>>
local == <<mine, report, prev, stale>>
history == <<gap, disturbed, unsure>>
vars == <<info, half, agent, present, known, snap, pc, mine, report, prev, stale,
          gap, disturbed, unsure>>

Agents == 1 .. MaxAgent
Age == Never .. Cap
Snapshot == [agent: Agents \cup {0}, sent: Infos \cup {NoInfo}, age: Age]
Empty == [agent |-> 0, sent |-> NoInfo, age |-> Never]
PC == {"idle", "decide", "mark", "post", "sent"}

Init ==
  /\ info \in Infos
  /\ half \in 0 .. Second - 1
  /\ agent = 1
  /\ present = TRUE
  /\ known = NoInfo
  /\ snap = Empty
  /\ pc = "idle"
  /\ mine = 0
  /\ report = NoInfo
  /\ prev = Empty
  /\ stale = FALSE
  /\ gap = Cap
  /\ disturbed = FALSE
  /\ unsure = FALSE

-----------------------------------------------------------------------------
(* MaybeReport. *)

\* The function returns, with or without an error, and its locals are gone.
Return ==
  /\ pc' = "idle"
  /\ mine' = 0
  /\ report' = NoInfo
  /\ prev' = Empty
  /\ stale' = FALSE

\* Mutant: the agent the snapshot is about is not compared.
ShouldSendAnyAgent(s, a, i) ==
  /\ s.sent # i
  /\ s.age = Never \/ s.age >= RetryInterval

ShouldSend(s, a, i) ==
  /\ ~(s.agent = a /\ s.sent = i)
  /\ s.age = Never \/ s.age >= RetryInterval

\* Without credentials (or their token) there is nothing to report.
Load ==
  /\ pc = "idle"
  /\ present
  /\ pc' = "decide"
  /\ mine' = agent
  /\ report' = info
  /\ stale' = FALSE
  /\ UNCHANGED <<host, enrollment, known, snap, prev, history>>

Decide ==
  /\ pc = "decide"
  /\ ShouldSend(snap, mine, report)
  /\ prev' = snap
  /\ pc' = "mark"
  /\ UNCHANGED <<host, enrollment, known, snap, mine, report, stale, history>>

DecideNot ==
  /\ pc = "decide"
  /\ ~ShouldSend(snap, mine, report)
  /\ Return
  /\ UNCHANGED <<host, enrollment, known, snap, history>>

\* The snapshot is there and cannot be read.
ReadFails ==
  /\ pc = "decide"
  /\ Return
  /\ UNCHANGED <<host, enrollment, known, snap, history>>

\* Mutant: only a report that was sent is recorded.
MarkNothing ==
  /\ pc = "mark"
  /\ prev' = Empty
  /\ pc' = "post"
  /\ gap' = 0
  /\ UNCHANGED <<host, enrollment, known, snap, mine, report, stale, disturbed, unsure>>

\* The directory is made again if another process removed it.
Mark ==
  /\ pc = "mark"
  /\ snap' = [prev EXCEPT !.age = half]
  /\ gap' = 0
  /\ disturbed' = FALSE
  /\ prev' = Empty
  /\ pc' = "post"
  /\ UNCHANGED <<host, enrollment, known, mine, report, stale, unsure>>

\* A failed write is logged, and the report is sent all the same. The file is as
\* it was, or truncated.
MarkFails ==
  /\ pc = "mark"
  /\ snap' \in {snap, Empty}
  /\ gap' = 0
  /\ disturbed' = TRUE
  /\ prev' = Empty
  /\ pc' = "post"
  /\ UNCHANGED <<host, enrollment, known, mine, report, stale, unsure>>

\* The worker takes the report of the agent whose token is current.
Accepted ==
  /\ pc = "post"
  /\ ~stale
  /\ known' = report
  /\ pc' = "sent"
  /\ UNCHANGED <<host, enrollment, snap, local, history>>

AnswerLost ==
  /\ pc = "post"
  /\ ~stale
  /\ known' = report
  /\ unsure' = TRUE
  /\ Return
  /\ UNCHANGED <<host, enrollment, snap, gap, disturbed>>

\* 401 for a token that was just rotated, a rate limit, the network: the error
\* goes to Run, which logs it.
PostFails ==
  /\ pc = "post"
  /\ Return
  /\ UNCHANGED <<host, enrollment, known, snap, history>>

\* Mutant: the metadata is collected again for the snapshot.
MarkSentAnew ==
  /\ pc = "sent"
  /\ snap' = [agent |-> mine, sent |-> info, age |-> half]
  /\ disturbed' = FALSE
  /\ unsure' = (unsure /\ mine # agent)
  /\ Return
  /\ UNCHANGED <<host, enrollment, known, gap>>

MarkSent ==
  /\ pc = "sent"
  /\ snap' = [agent |-> mine, sent |-> report, age |-> half]
  /\ disturbed' = FALSE
  /\ unsure' = (unsure /\ mine # agent)
  /\ Return
  /\ UNCHANGED <<host, enrollment, known, gap>>

MarkSentFails ==
  /\ pc = "sent"
  /\ snap' \in {snap, Empty}
  /\ disturbed' = TRUE
  /\ unsure' = TRUE
  /\ Return
  /\ UNCHANGED <<host, enrollment, known, gap>>

-----------------------------------------------------------------------------
(* Time, the host, and the other processes. *)

Older(a) == IF a = Never \/ a = Cap THEN a ELSE a + 1

Tick ==
  /\ half' = (half + 1) % Second
  /\ snap' = [snap EXCEPT !.age = Older(@)]
  /\ gap' = IF gap = Cap THEN gap ELSE gap + 1
  /\ UNCHANGED <<info, enrollment, known, pc, local, disturbed, unsure>>

\* Someone sets the clock, forward or back.
SetClock ==
  /\ half' \in 0 .. Second - 1
  /\ IF snap.age = Never
     THEN snap' = snap
     ELSE \E a \in Age \ {Never} : snap' = [snap EXCEPT !.age = a]
  /\ disturbed' = TRUE
  /\ UNCHANGED <<info, enrollment, known, pc, local, gap, unsure>>

HostChanges ==
  /\ info' \in Infos
  /\ UNCHANGED <<half, enrollment, known, snap, pc, local, history>>

\* A renewal elsewhere (a session that has ended) supersedes the token.
Rotate ==
  /\ pc # "idle"
  /\ stale' = TRUE
  /\ UNCHANGED <<host, enrollment, known, snap, pc, mine, report, prev, history>>

\* `agent unenroll`: the agent is revoked, except with --local-only.
Unenroll ==
  /\ present
  /\ present' = FALSE
  /\ snap' = Empty
  /\ stale' \in {stale, pc # "idle"}
  /\ disturbed' = TRUE
  /\ UNCHANGED <<host, agent, known, pc, mine, report, prev, gap, unsure>>

\* A new agent, in a directory that may hold the snapshot of the old one.
Enroll ==
  /\ agent < MaxAgent
  /\ agent' = agent + 1
  /\ present' = TRUE
  /\ known' = NoInfo
  /\ stale' = (pc # "idle")
  /\ unsure' = FALSE
  /\ UNCHANGED <<host, snap, pc, mine, report, prev, gap, disturbed>>

\* The process is killed, perhaps in the middle of a write.
Crash ==
  /\ pc # "idle"
  /\ Return
  /\ snap' \in IF pc \in {"mark", "sent"} THEN {snap, Empty} ELSE {snap}
  /\ disturbed' = (disturbed \/ snap' # snap)
  /\ unsure' = (unsure \/ pc = "sent")
  /\ UNCHANGED <<host, enrollment, known, gap>>

-----------------------------------------------------------------------------
\* What follows on Load: a call of MaybeReport until it returns.
Attempt ==
  \/ Decide \/ DecideNot \/ ReadFails \/ Mark \/ MarkFails
  \/ Accepted \/ AnswerLost \/ PostFails
  \/ MarkSent \/ MarkSentFails

Report == Load \/ Attempt

Next ==
  \/ Report
  \/ Tick \/ SetClock \/ HostChanges
  \/ Rotate \/ Unenroll \/ Enroll \/ Crash

Spec == Init /\ [][Next]_vars

\* A report that began goes on (the request has a timeout), one that is tried again
\* and again is taken some time, the snapshot can be read some time, and kills do
\* not hit the process at the same place every time. Nothing makes a report begin:
\* Run gets to it once per round of its loop, and a session may last for ever.
Fairness ==
  /\ WF_vars(Attempt)
  /\ WF_vars(Tick)
  /\ SF_vars(Decide) /\ SF_vars(Mark \/ MarkFails) /\ SF_vars(Accepted)

FairSpec == Spec /\ Fairness

-----------------------------------------------------------------------------
(* Properties. *)

\* The variables hold values of their kinds.
TypeOK ==
  /\ info \in Infos
  /\ half \in 0 .. Second - 1
  /\ agent \in Agents
  /\ present \in BOOLEAN
  /\ known \in Infos \cup {NoInfo}
  /\ snap \in Snapshot
  /\ pc \in PC
  /\ mine \in Agents \cup {0}
  /\ report \in Infos \cup {NoInfo}
  /\ prev \in Snapshot
  /\ stale \in BOOLEAN
  /\ gap \in 0 .. Cap
  /\ disturbed \in BOOLEAN
  /\ unsure \in BOOLEAN

\* A reconnect loop cannot hammer the worker (the comment on RetryInterval):
\* whatever became of the last attempt - refused, lost, the process killed - and
\* whoever is enrolled now, the next one is decided a full interval later, less
\* the second that the recorded time loses. Only a clock that was set or a
\* record that was not written or was removed makes it earlier.
FloorKept ==
  [][pc = "decide" /\ pc' = "mark" /\ ~disturbed => gap > RetryInterval - Second]_vars

\* What the snapshot says was sent for this agent is what the worker knows of
\* it; else the change detection would keep back a report that is needed. Only
\* a report that was taken without the agent learning of it makes it wrong.
SentIsTrue ==
  pc # "sent" /\ ~unsure /\ snap.agent = agent => snap.sent = known

\* The snapshot says that i was sent, although the worker was sent something else
\* since: the record of a report that it took is missing.
Misled(i) == unsure /\ snap.agent = agent /\ snap.sent = i

\* If Run comes back to the report again and again - its sessions end - and from
\* some point on the clock is left alone and the token is not taken away during a
\* report, the worker learns what this host is: also for a new agent in the
\* directory of an old one, however often the process is killed, the floor holds a
\* report back or an answer is lost. Only a host that changes back to what the
\* snapshot says, after a report whose record is missing, may stay unreported.
ReportArrives ==
  []<><<Load>>_vars /\ <>[][~(SetClock /\ ~Tick) /\ ~Rotate]_vars
    => \A i \in Infos :
         (present /\ info = i) ~> (known = i \/ info # i \/ ~present \/ Misled(i))
=============================================================================
