----------------------------- MODULE EnrollProofs -----------------------------
(***************************************************************************)
(* Proofs about Enroll, for any deadline and any interval: polls are       *)
(* spaced, a certificate that was issued ends the command, what the        *)
(* command says of its success is so, and the deadline leaves it at most   *)
(* four steps.                                                             *)
(***************************************************************************)
EXTENDS Enroll, TLAPS

USE DEF input

\* A poll follows another at once only when the agent was named in between.
Spaced ==
  /\ polls <= 2
  /\ pc = "begin" => code = "none"
  /\ pc \in {"top", "poll"} /\ code # "none" => polls <= IF agentID THEN 1 ELSE 0

\* What is stored was issued, and is confirmed only once it is stored.
Stored ==
  /\ pc \in {"persist", "confirm"} => session = "issued"
  /\ pc = "confirm" => stored

\* The inductive invariant.
IInv == TypeOK /\ Spaced /\ Stored /\ IssuedIsFinal /\ SuccessIsStored

-----------------------------------------------------------------------------
\* The initial states satisfy the invariant.
LEMMA InitIInv == Init => IInv
<1> SUFFICES ASSUME Init PROVE IInv
  OBVIOUS
<1>1. MaxTime \in 0 .. MaxTime /\ 1 \in 1 .. MaxInterval
  BY EnrollAssumption
<1>2. TypeOK
  BY <1>1 DEF Init, TypeOK, PC, Result
<1>3. Spaced /\ Stored /\ IssuedIsFinal /\ SuccessIsStored
  BY DEF Init, Spaced, Stored, IssuedIsFinal, SuccessIsStored
<1> QED
  BY <1>2, <1>3 DEF IInv

\* The steps of the device flow keep the invariant.
LEMMA DeviceIInv ==
  ASSUME IInv, Device
  PROVE  IInv'
<1> USE EnrollAssumption DEF IInv, TypeOK, Spaced, Stored, IssuedIsFinal, SuccessIsStored,
        PC, Result, Goto, Exit, Polled
<1>1. CASE NeedsTTY \/ DeviceStart
  <2>1. interval' \in 1 .. MaxInterval
    BY <1>1 DEF NeedsTTY, DeviceStart
  <2>2. ~stored /\ session # "issued" /\ result # "enrolled"
    BY <1>1 DEF NeedsTTY, DeviceStart
  <2>3. TypeOK'
    BY <1>1, <2>1 DEF NeedsTTY, DeviceStart
  <2>4. Spaced' /\ Stored' /\ IssuedIsFinal' /\ SuccessIsStored'
    BY <1>1, <2>2 DEF NeedsTTY, DeviceStart
  <2> QED
    BY <2>3, <2>4
<1>2. CASE Deadline \/ Top
  BY <1>2 DEF Deadline, Top
<1>3. CASE PollInvalid \/ PollSlowDown
  BY <1>3 DEF PollInvalid, PollSlowDown
<1>4. CASE PollEnded \/ PollApproved
  <2>1. CASE PollEnded
    BY <1>4, <2>1 DEF PollEnded
  <2>2. CASE PollApproved /\ agentID
    BY <1>4, <2>2 DEF PollApproved
  <2>3. CASE PollApproved /\ ~agentID
    BY <1>4, <2>3 DEF PollApproved
  <2> QED
    BY <1>4, <2>1, <2>2, <2>3
<1>5. CASE PollIssued \/ PollLost
  BY <1>5 DEF PollIssued, PollLost
<1>6. ASSUME NEW n \in 1 .. MaxInterval, PollPending(n)
      PROVE  IInv'
  BY <1>6 DEF PollPending
<1>7. CASE Sleep
  BY <1>7 DEF Sleep
<1> QED
  BY <1>1, <1>2, <1>3, <1>4, <1>5, <1>6, <1>7 DEF Device

\* So do the one-time token, the store and the user.
LEMMA RestIInv ==
  ASSUME IInv, Token \/ CallFails \/ Persist \/ PersistFails \/ Confirm \/ ConfirmFails \/ User
  PROVE  IInv'
<1> USE EnrollAssumption DEF IInv, TypeOK, Spaced, Stored, IssuedIsFinal, SuccessIsStored,
        PC, Result, Goto, Exit
<1>1. CASE Token
  <2>1. CASE TokenBegin
    BY <2>1 DEF TokenBegin
  <2>2. CASE TokenStart
    BY <2>2 DEF TokenStart
  <2>3. CASE TokenComplete
    BY <2>3 DEF TokenComplete
  <2> QED
    BY <1>1, <2>1, <2>2, <2>3 DEF Token
<1>2. CASE CallFails
  BY <1>2 DEF CallFails
<1>3. CASE Persist \/ PersistFails
  BY <1>3 DEF Persist, PersistFails
<1>4. CASE Confirm \/ ConfirmFails
  BY <1>4 DEF Confirm, ConfirmFails
<1>5. CASE User
  BY <1>5 DEF User, ReadFails, ReadCode
<1> QED
  BY <1>1, <1>2, <1>3, <1>4, <1>5

\* Every step keeps the invariant.
LEMMA NextIInv == IInv /\ [Next]_vars => IInv'
<1> SUFFICES ASSUME IInv, [Next]_vars PROVE IInv'
  OBVIOUS
<1>1. CASE Agent \/ User
  BY <1>1, DeviceIInv, RestIInv DEF Agent
<1>2. CASE Approve \/ (\E s \in {"denied", "expired"} : SessionEnds(s)) \/ Tick
  BY <1>2, EnrollAssumption
     DEF IInv, TypeOK, Spaced, Stored, IssuedIsFinal, SuccessIsStored, PC, Approve,
         SessionEnds, Tick
<1>3. CASE UNCHANGED vars
  BY <1>3 DEF IInv, TypeOK, Spaced, Stored, IssuedIsFinal, SuccessIsStored, vars
<1> QED
  BY <1>1, <1>2, <1>3 DEF Next, Done

\* The invariant holds throughout.
LEMMA Invariance == Spec => []IInv
BY InitIInv, NextIInv, PTL DEF Spec

\* Values are of their kinds.
THEOREM TypeCorrect == Spec => []TypeOK
<1>1. IInv => TypeOK
  BY DEF IInv
<1> QED
  BY <1>1, Invariance, PTL

\* The worker is polled at most twice without a pause of the loop or the user,
\* and once more for each CSR that it leaves without a certificate.
THEOREM PollingIsSpaced == Spec => []PollsAreSpaced
<1>1. IInv => PollsAreSpaced
  BY DEF IInv, Spaced, PollsAreSpaced
<1> QED
  BY <1>1, Invariance, PTL

\* A certificate that was issued ends the command, and never as an expiry.
THEOREM IssueEnds == Spec => []IssuedIsFinal
<1>1. IInv => IssuedIsFinal
  BY DEF IInv
<1> QED
  BY <1>1, Invariance, PTL

\* Success is only said of an enrollment that was issued and is stored.
THEOREM SaidIsStored == Spec => []SuccessIsStored
<1>1. IInv => SuccessIsStored
  BY DEF IInv
<1> QED
  BY <1>1, Invariance, PTL

-----------------------------------------------------------------------------
(* The end of the command, once the deadline has passed.                     *)

\* Steps of the command, and of the user, that are left then.
StepsLeft ==
  CASE pc = "done" -> 0
    [] pc \in {"top", "confirm"} -> 1
    [] pc \in {"sleep", "persist"} -> 2
    [] pc \in {"poll", "complete"} -> 3
    [] OTHER -> 4

\* The deadline lies ahead when the command begins.
Begun == pc = "begin" => left > 0

LEMMA NextBegun == TypeOK /\ Begun /\ [Next]_vars => Begun'
<1> SUFFICES ASSUME TypeOK, Begun, [Next]_vars PROVE Begun'
  OBVIOUS
<1>1. CASE Agent \/ User
  <2>1. pc' # "begin"
    BY <1>1 DEF Agent, User, Device, Token, NeedsTTY, DeviceStart, Deadline, Top,
       PollInvalid, PollSlowDown, PollEnded, PollApproved, PollIssued, PollLost, PollPending,
       Sleep, TokenBegin, TokenStart, TokenComplete, CallFails, Persist, PersistFails,
       Confirm, ConfirmFails, ReadFails, ReadCode, Goto, Exit
  <2> QED
    BY <2>1 DEF Begun
<1>2. CASE Approve \/ (\E s \in {"denied", "expired"} : SessionEnds(s)) \/ Tick
  BY <1>2 DEF Begun, Approve, SessionEnds, Tick
<1>3. CASE UNCHANGED vars
  BY <1>3 DEF Begun, vars
<1> QED
  BY <1>1, <1>2, <1>3 DEF Next, Done

\* Each step of the command goes to a place nearer to its end: from the top of
\* the loop there is no other way.
LEMMA StepsFewer ==
  TypeOK /\ Begun /\ left = 0 /\ (Agent \/ User) => StepsLeft' < StepsLeft /\ left' = 0
<1> SUFFICES ASSUME TypeOK, Begun, left = 0, Agent \/ User
             PROVE  StepsLeft' < StepsLeft /\ left' = 0
  OBVIOUS
<1>1. /\ pc # "done" /\ pc' = "done" => StepsLeft' < StepsLeft
      /\ pc = "poll" /\ pc' \in {"sleep", "top", "persist"} => StepsLeft' < StepsLeft
      /\ pc = "read" /\ pc' = "poll" => StepsLeft' < StepsLeft
      /\ pc = "sleep" /\ pc' = "top" => StepsLeft' < StepsLeft
      /\ pc = "start" /\ pc' = "complete" => StepsLeft' < StepsLeft
      /\ pc = "complete" /\ pc' = "persist" => StepsLeft' < StepsLeft
      /\ pc = "persist" /\ pc' = "confirm" => StepsLeft' < StepsLeft
  BY DEF StepsLeft, TypeOK, PC
<1>2. ~(0 > 0)
  OBVIOUS
<1> USE <1>1, <1>2 DEF Goto, Exit, Begun
<1>3. CASE Deadline \/ Top \/ NeedsTTY \/ DeviceStart
  BY <1>3 DEF Deadline, Top, NeedsTTY, DeviceStart
<1>4. CASE PollInvalid \/ PollSlowDown \/ PollEnded \/ PollApproved
  BY <1>4 DEF PollInvalid, PollSlowDown, PollEnded, PollApproved, Polled, TypeOK
<1>5. CASE PollIssued \/ PollLost \/ \E n \in 1 .. MaxInterval : PollPending(n)
  BY <1>5 DEF PollIssued, PollLost, PollPending, Polled
<1>6. CASE Sleep
  BY <1>6 DEF Sleep, TypeOK
<1>7. CASE Token
  BY <1>7 DEF Token, TokenBegin, TokenStart, TokenComplete
<1>8. CASE CallFails \/ Persist \/ PersistFails \/ Confirm \/ ConfirmFails
  BY <1>8 DEF CallFails, Persist, PersistFails, Confirm, ConfirmFails
<1>9. CASE User
  BY <1>9 DEF User, ReadFails, ReadCode
<1> QED
  BY <1>3, <1>4, <1>5, <1>6, <1>7, <1>8, <1>9 DEF Agent, Device

\* Once the deadline has passed, at most four steps of the command are left,
\* whatever the worker answers: a loop that is polling or asleep polls at most
\* once more. A user at the prompt holds it up, and is not overtaken by time.
THEOREM DeadlineCountsDown ==
  Spec => [][left = 0 => /\ left' = 0 /\ StepsLeft \in 0 .. 4 /\ StepsLeft' <= StepsLeft
                         /\ Agent \/ User => StepsLeft' < StepsLeft]_vars
<1>1. StepsLeft \in 0 .. 4 /\ StepsLeft' \in 0 .. 4
  BY DEF StepsLeft
<1>2. TypeOK /\ Begun /\ [Next]_vars =>
        [left = 0 => /\ left' = 0 /\ StepsLeft \in 0 .. 4 /\ StepsLeft' <= StepsLeft
                     /\ Agent \/ User => StepsLeft' < StepsLeft]_vars
  <2> SUFFICES ASSUME TypeOK, Begun, [Next]_vars, left = 0
               PROVE  /\ left' = 0 /\ StepsLeft' <= StepsLeft
                      /\ Agent \/ User => StepsLeft' < StepsLeft
    BY <1>1
  <2>1. CASE Agent \/ User
    BY <1>1, <2>1, StepsFewer
  <2>2. CASE ~(Agent \/ User)
    <3>1. pc' = pc /\ left' = left
      BY <2>2 DEF Next, Approve, SessionEnds, Tick, Done, vars
    <3> QED
      BY <1>1, <2>2, <3>1 DEF StepsLeft
  <2> QED
    BY <2>1, <2>2
<1>3. Init => Begun
  BY EnrollAssumption DEF Init, Begun
<1> QED
  BY <1>2, <1>3, NextBegun, TypeCorrect, PTL DEF Spec
=============================================================================
