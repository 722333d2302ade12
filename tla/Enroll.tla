-------------------------------- MODULE Enroll --------------------------------
(***************************************************************************)
(* `agent enroll`: the device flow, in which the user approves in the      *)
(* browser and types a code while the agent polls (runDevice), and the     *)
(* one-time token of scripts (RunToken), both of internal/enroll/run.go.   *)
(*                                                                         *)
(* The enrollment worker and the user are external. The worker answers a   *)
(* poll from the state of the device session; a certificate is only issued *)
(* for a CSR that names the agent of an approved session, once.            *)
(*                                                                         *)
(* Abstraction: time is counted in the five seconds of the poll interval.  *)
(* What is stored, and how, is CertStore's Enroll.                         *)
(***************************************************************************)
EXTENDS Naturals

CONSTANTS
  MaxTime,      \* expires_in of the device session
  MaxInterval   \* bound: the poll interval after slow_down

ASSUME EnrollAssumption ==
  /\ MaxTime \in Nat \ {0}
  /\ MaxInterval \in Nat \ {0}

VARIABLES
  pc,         \* where the command is
  session,    \* worker: "new", "pending", "approved", "denied", "expired", "issued"
  left,       \* time until the deadline, 0 when it has passed
  interval,   \* what the loop sleeps between two polls
  code,       \* the code it presents: "none", "right" or "wrong"
  agentID,    \* the worker has named the agent, so the poll carries a CSR
  stored,     \* the enrollment is on disk
  result,     \* how the command ended
  polls       \* history: polls since the loop slept or the user typed, but for those
              \* that bring a CSR and are answered without a certificate

input == <<code, agentID>>
vars == <<pc, session, left, interval, code, agentID, stored, result, polls>>

PC == {"begin", "top", "read", "poll", "sleep", "start", "complete", "persist", "confirm",
       "done"}
Result == {"none", "enrolled", "notStored", "notConfirmed", "needsTTY", "badCode", "expired",
           "denied", "failed"}

Init ==
  /\ pc = "begin"
  /\ session = "new"
  /\ left = MaxTime
  /\ interval = 1
  /\ code = "none"
  /\ agentID = FALSE
  /\ stored = FALSE
  /\ result = "none"
  /\ polls = 0

Exit(r) == pc' = "done" /\ result' = r
Goto(l) == pc' = l /\ UNCHANGED result

-----------------------------------------------------------------------------
(* runDevice. *)

\* Without a terminal, and without -no-tty, nobody could type the code.
NeedsTTY ==
  /\ pc = "begin"
  /\ Exit("needsTTY")
  /\ UNCHANGED <<session, left, interval, input, stored, polls>>

\* The worker names the deadline and the interval; both have a default.
DeviceStart ==
  /\ pc = "begin"
  /\ session' = "pending"
  /\ interval' \in 1 .. MaxInterval
  /\ Goto("top")
  /\ UNCHANGED <<left, input, stored, polls>>

\* No answer, an error of the worker, or an answer that lacks a field.
CallFails ==
  /\ pc \in {"begin", "poll", "start", "complete"}
  /\ Exit("failed")
  /\ UNCHANGED <<session, left, interval, input, stored, polls>>

\* Mutant: the deadline is not looked at.
DeadlineUnseen ==
  /\ pc = "top"
  /\ left = 0
  /\ Goto(IF code = "none" THEN "read" ELSE "poll")
  /\ UNCHANGED <<session, left, interval, input, stored, polls>>

\* The deadline is looked at here, and nowhere else.
Deadline ==
  /\ pc = "top"
  /\ left = 0
  /\ Exit("expired")
  /\ UNCHANGED <<session, left, interval, input, stored, polls>>

Top ==
  /\ pc = "top"
  /\ left > 0
  /\ Goto(IF code = "none" THEN "read" ELSE "poll")
  /\ UNCHANGED <<session, left, interval, input, stored, polls>>

\* ReadUserCode blocks until a line comes.
ReadCode(c) ==
  /\ pc = "read"
  /\ code' = c
  /\ polls' = 0
  /\ Goto("poll")
  /\ UNCHANGED <<session, left, interval, agentID, stored>>

\* Not eight characters, or the end of stdin.
ReadFails ==
  /\ pc = "read"
  /\ Exit("badCode")
  /\ UNCHANGED <<session, left, interval, input, stored, polls>>

Polled == pc = "poll" /\ polls' = polls + 1

PollInvalid ==
  /\ Polled
  /\ code = "wrong"
  /\ code' = "none"
  /\ Goto("top")
  /\ UNCHANGED <<session, left, interval, agentID, stored>>

\* The worker may name a new interval.
PollPending(n) ==
  /\ Polled
  /\ code = "right"
  /\ session = "pending"
  /\ interval' = n
  /\ Goto("sleep")
  /\ UNCHANGED <<session, left, input, stored>>

PollSlowDown ==
  /\ Polled
  /\ code = "right"
  /\ session = "pending"
  /\ interval < MaxInterval
  /\ interval' = interval + 1
  /\ Goto("sleep")
  /\ UNCHANGED <<session, left, input, stored>>

PollEnded ==
  /\ Polled
  /\ code = "right"
  /\ session \in {"denied", "expired"}
  /\ Exit(session)
  /\ UNCHANGED <<session, left, interval, input, stored>>

\* Mutant: the agent the worker named is forgotten.
PollApprovedForgets ==
  /\ pc = "poll"
  /\ polls' = IF agentID THEN polls ELSE polls + 1
  /\ code = "right"
  /\ session = "approved"
  /\ Goto("top")
  /\ UNCHANGED <<session, left, interval, input, stored>>

\* Approved, without a certificate: the worker names the agent, and the next poll
\* carries a CSR. Nothing keeps the worker from answering so again, or the loop
\* from polling again at once.
PollApproved ==
  /\ pc = "poll"
  /\ polls' = IF agentID THEN polls ELSE polls + 1
  /\ code = "right"
  /\ session = "approved"
  /\ agentID' = TRUE
  /\ Goto("top")
  /\ UNCHANGED <<session, left, interval, code, stored>>

\* Mutant: the loop goes on once more after the certificate came.
PollIssuedAgain ==
  /\ Polled
  /\ code = "right"
  /\ session = "approved"
  /\ agentID
  /\ session' = "issued"
  /\ Goto("top")
  /\ UNCHANGED <<left, interval, input, stored>>

PollIssued ==
  /\ Polled
  /\ code = "right"
  /\ session = "approved"
  /\ agentID
  /\ session' = "issued"
  /\ Goto("persist")
  /\ UNCHANGED <<left, interval, input, stored>>

\* The certificate was issued and the answer is lost.
PollLost ==
  /\ Polled
  /\ code = "right"
  /\ session = "approved"
  /\ agentID
  /\ session' = "issued"
  /\ Exit("failed")
  /\ UNCHANGED <<left, interval, input, stored>>

Sleep ==
  /\ pc = "sleep"
  /\ left' = IF left > interval THEN left - interval ELSE 0
  /\ polls' = 0
  /\ Goto("top")
  /\ UNCHANGED <<session, interval, input, stored>>

-----------------------------------------------------------------------------
(* RunToken: two calls, no retry. *)

TokenBegin ==
  /\ pc = "begin"
  /\ session' = "approved"
  /\ Goto("start")
  /\ UNCHANGED <<left, interval, input, stored, polls>>

TokenStart ==
  /\ pc = "start"
  /\ session = "approved"
  /\ agentID' = TRUE
  /\ Goto("complete")
  /\ UNCHANGED <<session, left, interval, code, stored, polls>>

TokenComplete ==
  /\ pc = "complete"
  /\ session = "approved"
  /\ session' = "issued"
  /\ \/ Goto("persist")
     \/ Exit("failed")
  /\ UNCHANGED <<left, interval, input, stored, polls>>

-----------------------------------------------------------------------------
(* persistEnrollment, then confirmStore. *)

Persist ==
  /\ pc = "persist"
  /\ stored' = TRUE
  /\ Goto("confirm")
  /\ UNCHANGED <<session, left, interval, input, polls>>

\* Mutant: an error of the store is dropped.
PersistFailsUnseen ==
  /\ pc = "persist"
  /\ Goto("confirm")
  /\ UNCHANGED <<session, left, interval, input, stored, polls>>

PersistFails ==
  /\ pc = "persist"
  /\ Exit("notStored")
  /\ UNCHANGED <<session, left, interval, input, stored, polls>>

Confirm ==
  /\ pc = "confirm"
  /\ Exit("enrolled")
  /\ UNCHANGED <<session, left, interval, input, stored, polls>>

\* Another process selected or removed something meanwhile, or the certificate
\* names no agent or organization.
ConfirmFails ==
  /\ pc = "confirm"
  /\ Exit("notConfirmed")
  /\ UNCHANGED <<session, left, interval, input, stored, polls>>

-----------------------------------------------------------------------------
(* The user in the browser, the worker, and time. *)

Approve ==
  /\ session = "pending"
  /\ session' = "approved"
  /\ UNCHANGED <<pc, left, interval, input, stored, result, polls>>

SessionEnds(s) ==
  /\ session \in {"pending", "approved"}
  /\ session' = s
  /\ UNCHANGED <<pc, left, interval, input, stored, result, polls>>

Tick ==
  /\ left > 0
  /\ pc \in PC \ {"begin", "done"}
  /\ left' = left - 1
  /\ UNCHANGED <<pc, session, interval, input, stored, result, polls>>

Done == pc = "done" /\ UNCHANGED vars

-----------------------------------------------------------------------------
Device ==
  \/ NeedsTTY \/ DeviceStart
  \/ Deadline \/ Top
  \/ PollInvalid \/ PollSlowDown \/ PollEnded \/ PollApproved \/ PollIssued \/ PollLost
  \/ \E n \in 1 .. MaxInterval : PollPending(n)
  \/ Sleep

Token == TokenBegin \/ TokenStart \/ TokenComplete

Agent == Device \/ Token \/ CallFails \/ Persist \/ PersistFails \/ Confirm \/ ConfirmFails

User == ReadFails \/ \E c \in {"right", "wrong"} : ReadCode(c)

Next ==
  \/ Agent \/ User
  \/ Approve
  \/ \E s \in {"denied", "expired"} : SessionEnds(s)
  \/ Tick
  \/ Done

Spec == Init /\ [][Next]_vars

\* Calls return (the client has a timeout) and time passes. A user who is asked
\* for the code may take as long as they like.
FairSpec == Spec /\ WF_vars(Agent) /\ WF_vars(Tick)

-----------------------------------------------------------------------------
(* Properties. *)

\* Values are of their kinds.
TypeOK ==
  /\ pc \in PC
  /\ session \in {"new", "pending", "approved", "denied", "expired", "issued"}
  /\ left \in 0 .. MaxTime
  /\ interval \in 1 .. MaxInterval
  /\ code \in {"none", "right", "wrong"}
  /\ agentID \in BOOLEAN /\ stored \in BOOLEAN
  /\ result \in Result
  /\ polls \in Nat

\* Without the loop sleeping or the user typing, the worker is polled at most
\* twice, and once more for each CSR that it leaves without a certificate: the
\* loop itself never polls at once but for an approval, and remembers the agent.
PollsAreSpaced == polls <= 2

\* Once the worker has issued the certificate, it is stored or the command
\* fails: the session, now consumed, is not polled again, and the user is never
\* told that the enrollment expired or was denied.
IssuedIsFinal ==
  session = "issued" =>
    \/ pc \in {"persist", "confirm"}
    \/ pc = "done" /\ result \in {"enrolled", "notStored", "notConfirmed", "failed"}

\* What the command says is so: success only after the worker issued a
\* certificate and the store has it; and nothing else is ever stored.
SuccessIsStored ==
  /\ result = "enrolled" => stored
  /\ stored => session = "issued"

\* The deadline of the device session ends the command, whatever the worker and
\* the user do, unless it stays at the prompt for the code, which does not know
\* the deadline.
DeadlineEnds == (pc = "top" ~> pc = "done") \/ <>[](pc = "read")
=============================================================================
