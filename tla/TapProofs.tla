------------------------------- MODULE TapProofs -------------------------------
(***************************************************************************)
(* Proofs about Tap, for any number of taps and renewals: a tap that       *)
(* outlives its command was announced, and a command is only refused if a  *)
(* renewal overtook it or was lost.                                        *)
(***************************************************************************)
EXTENDS Tap, TLAPS

USE DEF token, start, stop

\* A live tap was created by its command, which is past that; the disk is behind
\* only during a renewal or after a lost one, and a command holds an old token
\* only if a renewal overtook it or the disk was behind.
Known ==
  /\ \A t \in live : pc[t] \in {"wait", "stop", "done"}
  /\ spc # "idle" => sres = "none"
  /\ disk # cur => renewing \/ lost
  /\ spc \in Calls /\ sheld # cur => sold \/ lost

\* The inductive invariant.
IInv == TypeOK /\ Known /\ LingerIsTold /\ CommandIsFresh

-----------------------------------------------------------------------------
\* The initial states satisfy the invariant.
LEMMA InitIInv == Init => IInv
<1> SUFFICES ASSUME Init PROVE IInv
  OBVIOUS
<1>1. TypeOK
  <2>1. 0 \in Gen
    BY TapAssumption DEF Gen
  <2>2. /\ \A t \in Taps : pc[t] = "begin"
        /\ pc \in [Taps -> PC] /\ told \in [Taps -> Told] /\ held \in [Taps -> Gen]
    BY <2>1 DEF Init, PC, Told
  <2>3. /\ eof \in [Taps -> BOOLEAN] /\ signal \in [Taps -> BOOLEAN]
        /\ mode \in [Taps -> {"tty", "headless", "script"}]
    BY DEF Init
  <2> QED
    BY <2>1, <2>2, <2>3 DEF Init, TypeOK
<1>2. Known /\ LingerIsTold /\ CommandIsFresh
  BY DEF Init, Known, LingerIsTold, CommandIsFresh, Calls
<1> QED
  BY <1>1, <1>2 DEF IInv

\* A step of `agent tap` keeps the types.
LEMMA StartType ==
  ASSUME TypeOK, NEW t \in Taps, Start(t)
  PROVE  TypeOK'
<1> USE DEF TypeOK, PC, Told, Goto, Tell
<1>1. CASE BadArguments(t)
  <2>1. \A u \in Taps : pc'[u] \notin {"begin", "done"} => mode[u] # "script"
    BY <1>1 DEF BadArguments
  <2>2. pc' \in [Taps -> PC] /\ told' \in [Taps -> Told]
    BY <1>1 DEF BadArguments
  <2> QED
    BY <1>1, <2>1, <2>2 DEF BadArguments
<1>0. CASE CheckTTY(t)
  <2>1. CASE mode[t] = "script"
    BY <1>0, <2>1 DEF CheckTTY
  <2>2. CASE mode[t] # "script"
    BY <1>0, <2>2 DEF CheckTTY
  <2> QED
    BY <2>1, <2>2
<1>2. CASE LoadToken(t) \/ LoadFails(t)
  BY <1>2 DEF LoadToken, LoadFails
<1>3. CASE Create(t)
  <2>1. pc' \in [Taps -> PC] /\ told' \in [Taps -> Told]
    BY <1>3 DEF Create
  <2>2. \A u \in Taps : pc'[u] \notin {"begin", "done"} => mode[u] # "script"
    BY <1>3 DEF Create
  <2> QED
    BY <1>3, <2>1, <2>2 DEF Create
<1>4. CASE CreateFails(t)
  BY <1>4 DEF CreateFails
<1>5. CASE WaitEnds(t) \/ StopOk(t)
  BY <1>5 DEF WaitEnds, StopOk
<1>6. CASE StopFails(t)
  BY <1>6 DEF StopFails
<1> QED
  BY <1>0, <1>1, <1>2, <1>3, <1>4, <1>5, <1>6 DEF Start

\* A step of `agent tap` that leaves its tap alive says so when it ends.
LEMMA StartLinger ==
  ASSUME IInv, NEW t \in Taps, Start(t)
  PROVE  Known' /\ LingerIsTold' /\ CommandIsFresh'
<1> USE DEF IInv, TypeOK, Known, LingerIsTold, CommandIsFresh, Goto, Tell
<1>1. CASE BadArguments(t) \/ CheckTTY(t)
  BY <1>1 DEF BadArguments, CheckTTY
<1>2. CASE LoadToken(t) \/ LoadFails(t)
  BY <1>2 DEF LoadToken, LoadFails
<1>3. CASE Create(t)
  BY <1>3 DEF Create
<1>4. CASE CreateFails(t)
  BY <1>4 DEF CreateFails
<1>5. CASE WaitEnds(t) \/ StopOk(t)
  BY <1>5 DEF WaitEnds, StopOk
<1>6. CASE StopFails(t)
  BY <1>6 DEF StopFails
<1> QED
  BY <1>1, <1>2, <1>3, <1>4, <1>5, <1>6 DEF Start

\* The other commands keep the invariant: what they hold was read from the disk
\* before the last renewal, or `sold` says otherwise.
LEMMA CommandIInv ==
  ASSUME IInv, Command
  PROVE  IInv'
<1> USE DEF IInv, SGoto, SExit, Calls
<1>1. TypeOK'
  <2> USE DEF TypeOK
  <2>1. CASE SLoad
    BY <2>1 DEF SLoad, FirstCall
  <2>2. CASE SLoadFails \/ STargets \/ SListed \/ SRename
    BY <2>2 DEF SLoadFails, STargets, SListed, SRename
  <2>3. CASE SListOne \/ SListFails
    BY <2>3 DEF SListOne, SListFails
  <2>4. CASE SStop
    BY <2>4 DEF SStop
  <2>5. CASE SRefused \/ SUnreached
    BY <2>5 DEF SRefused, SUnreached
  <2> QED
    BY <2>1, <2>2, <2>3, <2>4, <2>5 DEF Command
<1>2. Known' /\ LingerIsTold' /\ CommandIsFresh'
  <2> USE DEF Known, LingerIsTold, CommandIsFresh
  <2>1. CASE SLoad
    BY <2>1 DEF SLoad
  <2>2. CASE SLoadFails \/ STargets \/ SListed \/ SRename
    BY <2>2 DEF SLoadFails, STargets, SListed, SRename
  <2>3. CASE SListOne \/ SListFails
    BY <2>3 DEF SListOne, SListFails
  <2>4. CASE SStop
    BY <2>4 DEF SStop
  <2>5. CASE SRefused \/ SUnreached
    BY <2>5 DEF SRefused, SUnreached
  <2> QED
    BY <2>1, <2>2, <2>3, <2>4, <2>5 DEF Command
<1> QED
  BY <1>1, <1>2

\* Every step keeps the invariant.
LEMMA NextIInv == IInv /\ [Next]_vars => IInv'
<1> SUFFICES ASSUME IInv, [Next]_vars PROVE IInv'
  OBVIOUS
<1>1. ASSUME NEW t \in Taps, Start(t) PROVE IInv'
  BY <1>1, StartType, StartLinger DEF IInv
<1>2. ASSUME NEW t \in Taps, Expire(t) \/ CloseStdin(t) \/ Signal(t)
      PROVE  IInv'
  <2>1. TypeOK'
    BY <1>2 DEF IInv, TypeOK, Expire, CloseStdin, Signal
  <2>2. Known' /\ LingerIsTold' /\ CommandIsFresh'
    BY <1>2 DEF IInv, Known, LingerIsTold, CommandIsFresh, Expire, CloseStdin, Signal
  <2> QED
    BY <2>1, <2>2 DEF IInv
<1>3. ASSUME NEW c \in {"stop", "list", "rename"}, NEW id \in Taps \cup {None}, SBegin(c, id)
      PROVE  IInv'
  <2>1. TypeOK'
    BY <1>3 DEF IInv, TypeOK, SBegin
  <2>2. Known' /\ LingerIsTold' /\ CommandIsFresh'
    BY <1>3 DEF IInv, Known, LingerIsTold, CommandIsFresh, SBegin, Calls
  <2> QED
    BY <2>1, <2>2 DEF IInv
<1>4. CASE Command
  BY <1>4, CommandIInv
<1>5. CASE Renew \/ WriteToken \/ RenewalLost
  <2>1. TypeOK'
    <3>1. CASE Renew
      BY <3>1, TapAssumption DEF IInv, TypeOK, Renew, Gen
    <3>2. CASE WriteToken \/ RenewalLost
      BY <3>2 DEF IInv, TypeOK, WriteToken, RenewalLost
    <3> QED
      BY <1>5, <3>1, <3>2
  <2>2. Known' /\ LingerIsTold' /\ CommandIsFresh'
    BY <1>5 DEF IInv, Known, LingerIsTold, CommandIsFresh, Renew, WriteToken, RenewalLost
  <2> QED
    BY <2>1, <2>2 DEF IInv
<1>6. CASE UNCHANGED vars
  BY <1>6 DEF IInv, vars, TypeOK, Known, LingerIsTold, CommandIsFresh
<1> QED
  BY <1>1, <1>2, <1>3, <1>4, <1>5, <1>6 DEF Next

\* The invariant holds throughout.
LEMMA Invariance == Spec => []IInv
BY InitIInv, NextIInv, PTL DEF Spec

\* Values are of their kinds, and only a command that somebody can end waits.
THEOREM TypeCorrect == Spec => []TypeOK
<1>1. IInv => TypeOK
  BY DEF IInv
<1> QED
  BY <1>1, Invariance, PTL

\* A tap that outlives `agent tap` was announced as lingering, or as not created.
THEOREM LingeringIsTold == Spec => []LingerIsTold
<1>1. IInv => LingerIsTold
  BY DEF IInv
<1> QED
  BY <1>1, Invariance, PTL

\* A command that loads the token is only refused it if a renewal is under way
\* between its load and its call, or one was lost before.
THEOREM CommandsAreFresh == Spec => []CommandIsFresh
<1>1. IInv => CommandIsFresh
  BY DEF IInv
<1> QED
  BY <1>1, Invariance, PTL
=============================================================================
