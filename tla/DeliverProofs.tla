----------------------------- MODULE DeliverProofs -----------------------------
(***************************************************************************)
(* Proofs about Deliver, for bodies of any length: what the relay takes    *)
(* for a success is one, and the failures it is told of are real. The      *)
(* argument counts: what was copied is at most what the service sent, and  *)
(* what the transport read at most what the relay sent; once the status    *)
(* went out, both are known to be all there is, or something was cut off.  *)
(* The same counts bound the steps that the handler has left.              *)
(***************************************************************************)
EXTENDS Deliver, TLAPS

USE DEF request, body, service, faults, answer

\* The counts never pass one another, and an end that was reached is the end.
Counts ==
  /\ up <= will
  /\ declared > 0 => will <= declared
  /\ rsent <= rlen
  /\ down <= rsent
  /\ hpc = "write" => down < rsent
  /\ status = "empty" => rlen = 0
  /\ status = None => rend = "open" /\ rlen = 0
  /\ rend = "complete" /\ ~head => rsent = rlen

\* What handleDeliver has said fits where it is, and what the service said.
Answered ==
  /\ local \in {"dialing", "refused"} => status = None /\ (up = 0 \/ hops > 0)
  /\ hpc \in {"start", "do", "judge"} => seen = None /\ code = None /\ fin = "open"
  /\ hpc \in {"judge", "copy", "write"} => status # None
  /\ hpc \in {"copy", "write"} =>
       /\ seen = status
       /\ fin = "open"
       /\ code = IF status = "bad" THEN "local_error" ELSE None
       /\ status # "bad" /\ declared > 0 => up = declared

\* The inductive invariant.
IInv == TypeOK /\ Counts /\ Answered /\ SuccessIsWhole /\ FailuresAreReal

-----------------------------------------------------------------------------
\* Of the headers of the service, X-Hd-Error is not passed on.
LEMMA CopyHeadersStrips ==
  ASSUME NEW headers, NEW named
  PROVE  "X-Hd-Error" \notin CopyHeaders(headers, named)
BY DEF CopyHeaders

\* The initial states satisfy the invariant.
LEMMA InitIInv == Init => IInv
<1> SUFFICES ASSUME Init PROVE IInv
  OBVIOUS
<1>1. TypeOK
  <2>1. 0 \in Size /\ 0 \in 0 .. MaxHops
    BY DeliverAssumption DEF Size
  <2>2. declared \in Size /\ will \in Size
    BY <2>1 DEF Init
  <2> QED
    BY <2>1, <2>2 DEF Init, TypeOK
<1>2. Counts
  <2>1. will \in Nat /\ (declared = 0 \/ declared >= will)
    BY DeliverAssumption DEF Init, Size
  <2>2. 0 <= will /\ (declared > 0 => will <= declared)
    BY <2>1
  <2>3. /\ up = 0 /\ rlen = 0 /\ rsent = 0 /\ down = 0
        /\ hpc = "start" /\ status = None /\ rend = "open"
    BY DEF Init
  <2> QED
    BY <2>2, <2>3 DEF Counts, None
<1>3. Answered
  BY DEF Init, Answered, None
<1>4. SuccessIsWhole /\ FailuresAreReal
  BY DEF Init, SuccessIsWhole, FailuresAreReal, None
<1> QED
  BY <1>1, <1>2, <1>3, <1>4 DEF IInv

\* An answer of the agent's own keeps the invariant, if `local_refused` is true
\* or a word of a URL was misread.
LEMMA RefuseIInv ==
  ASSUME IInv, NEW c \in Code, Refuse(c),
         c = "local_refused" => local = "refused" \/ wordy
  PROVE  IInv'
<1>1. TypeOK'
  BY DEF IInv, TypeOK, Refuse
<1>2. Counts'
  BY DEF IInv, Counts, Refuse
<1>3. Answered'
  BY DEF IInv, Answered, Refuse
<1>4. SuccessIsWhole'
  BY DEF SuccessIsWhole, Refuse
<1>5. FailuresAreReal'
  BY DEF IInv, Answered, FailuresAreReal, Refuse
<1> QED
  BY <1>1, <1>2, <1>3, <1>4, <1>5 DEF IInv

\* The status goes out: what was read of the body is all of it.
LEMMA JudgePassesIInv ==
  ASSUME IInv, JudgePasses
  PROVE  IInv'
<1> USE DEF IInv
<1>1. code' = IF status = "bad" THEN "local_error" ELSE None
  BY CopyHeadersStrips DEF JudgePasses
<1>2. status # "bad" /\ declared > 0 => up = declared
  <2> SUFFICES ASSUME status # "bad", declared > 0 PROVE up = declared
    OBVIOUS
  <2>1. PICK written \in Written : ~Mismatch(written)
    BY DEF JudgePasses
  <2>2. written = declared /\ up <= declared
    BY <2>1, DeliverAssumption DEF Mismatch, TypeOK, Counts, Size
  <2> QED
    BY <2>1, <2>2, DeliverAssumption DEF Written, TypeOK, Size
<1>3. TypeOK'
  BY <1>1, Zenon DEF TypeOK, JudgePasses, Answered, Code
<1>4. Counts'
  BY DEF Counts, JudgePasses
<1>5. Answered'
  BY <1>1, <1>2 DEF Answered, JudgePasses
<1>6. SuccessIsWhole' /\ FailuresAreReal'
  BY <1>1 DEF Answered, SuccessIsWhole, FailuresAreReal, JudgePasses, None
<1> QED
  BY <1>3, <1>4, <1>5, <1>6

\* A response is passed on to its end, unless something was cut off.
LEMMA CopyEndsIInv ==
  ASSUME IInv, CopyEnds
  PROVE  IInv'
<1> USE DEF IInv, CopyEnds
<1>1. TypeOK'
  BY DEF TypeOK
<1>2. Counts' /\ Answered'
  BY DEF Counts, Answered
<1>3. SuccessIsWhole'
  <2> SUFFICES ASSUME fin' = "clean", status \in {"ok", "empty"}
               PROVE  SuccessIsWhole'
    BY DEF SuccessIsWhole, Answered
  <2>1. framing # "close" /\ ~head => down = rlen
    BY DEF BodyEOF, ShortBody, Counts, TypeOK, Size, Framing
  <2> QED
    BY <2>1 DEF SuccessIsWhole, Answered, None
<1>4. FailuresAreReal'
  <2>1. code # "local_refused"
    BY DEF Answered, None
  <2>2. ASSUME fin' = "reset", ~reset, rend # "cut"
        PROVE  \/ rlen = 0 /\ framing # "length" /\ status # "empty"
               \/ head /\ HasBody
    BY <2>2 DEF BodyEOF, ShortBody, HasBody, Counts, TypeOK, Size, Framing
  <2>3. HasBody' = HasBody
    BY DEF HasBody
  <2> QED
    BY <2>1, <2>2, <2>3 DEF FailuresAreReal
<1> QED
  BY <1>1, <1>2, <1>3, <1>4

\* The steps of the handler keep the invariant.
LEMMA HandlerIInv ==
  ASSUME IInv, Handler \/ CopyWrite
  PROVE  IInv'
<1>1. CASE BadPort \/ WriteFails \/ DoRefused \/ DoTimesOut \/ DoBreaks \/ JudgeIncomplete
  BY <1>1, RefuseIInv
     DEF BadPort, WriteFails, DoRefused, DoTimesOut, DoBreaks, JudgeIncomplete, Code,
         Classified
<1>2. CASE StartDo \/ DoReturns \/ CopyRead
  <2> USE <1>2 DEF IInv, StartDo, DoReturns, CopyRead
  <2>1. TypeOK'
    BY DEF TypeOK
  <2>2. Counts' /\ Answered'
    BY DEF Counts, Answered
  <2>3. SuccessIsWhole' /\ FailuresAreReal'
    BY DEF SuccessIsWhole, FailuresAreReal, HasBody
  <2> QED
    BY <2>1, <2>2, <2>3
<1>3. CASE JudgePasses
  BY <1>3, JudgePassesIInv
<1>4. CASE CopyEnds
  BY <1>4, CopyEndsIInv
<1>5. CASE CopyFails
  <2> USE <1>5 DEF IInv, CopyFails
  <2>1. TypeOK'
    BY DEF TypeOK
  <2>2. Counts' /\ Answered'
    BY DEF Counts, Answered
  <2>3. SuccessIsWhole' /\ FailuresAreReal'
    BY DEF SuccessIsWhole, FailuresAreReal, BodyError, Answered, None
  <2> QED
    BY <2>1, <2>2, <2>3
<1>6. CASE CopyWrite
  <2> USE <1>6 DEF IInv, CopyWrite
  <2>1. TypeOK'
    BY DeliverAssumption DEF TypeOK, Counts, Size
  <2>2. Counts' /\ Answered'
    BY DEF Counts, Answered, TypeOK, Size
  <2>3. SuccessIsWhole' /\ FailuresAreReal'
    BY DEF SuccessIsWhole, FailuresAreReal, Answered
  <2> QED
    BY <2>1, <2>2, <2>3
<1> QED
  BY <1>1, <1>2, <1>3, <1>4, <1>5, <1>6 DEF Handler

\* The transport only reads what is there.
LEMMA TransportIInv ==
  ASSUME IInv, Transport
  PROVE  IInv'
<1> USE DEF IInv
<1>1. CASE ReadBody
  <2> USE <1>1 DEF ReadBody
  <2>1. TypeOK'
    BY DeliverAssumption DEF TypeOK, Counts, Size
  <2>2. Counts' /\ Answered'
    BY DEF Counts, Answered, TypeOK, Size, Busy, Reading
  <2>3. SuccessIsWhole' /\ FailuresAreReal'
    BY DEF SuccessIsWhole, FailuresAreReal, Answered, Busy, None, HasBody
  <2> QED
    BY <2>1, <2>2, <2>3
<1>2. CASE BodyEnds \/ ChunkedBodyCut
  <2> USE <1>2 DEF BodyEnds, ChunkedBodyCut
  <2>1. TypeOK'
    BY DEF TypeOK
  <2>2. Counts' /\ Answered'
    BY DEF Counts, Answered
  <2>3. SuccessIsWhole' /\ FailuresAreReal'
    BY DEF SuccessIsWhole, FailuresAreReal, HasBody
  <2> QED
    BY <2>1, <2>2, <2>3
<1> QED
  BY <1>1, <1>2 DEF Transport

\* So do the steps of the local service.
LEMMA LocalIInv ==
  ASSUME IInv, Local
  PROVE  IInv'
<1> USE DEF IInv
<1>1. ASSUME NEW result \in {"up", "refused"}, Dial(result)
      PROVE  IInv'
  <2> USE <1>1 DEF Dial
  <2>1. TypeOK'
    BY DEF TypeOK
  <2>2. Counts' /\ Answered'
    BY DEF Counts, Answered
  <2>3. SuccessIsWhole' /\ FailuresAreReal'
    BY DEF SuccessIsWhole, FailuresAreReal, HasBody
  <2> QED
    BY <2>1, <2>2, <2>3
<1>2. ASSUME NEW s \in Status, NEW n \in Size, LocalAnswers(s, n)
      PROVE  IInv'
  <2> USE <1>2 DEF LocalAnswers
  <2>1. TypeOK'
    BY DEF TypeOK
  <2>2. Counts'
    BY DeliverAssumption DEF Counts, TypeOK, Size, Status, None
  <2>3. Answered'
    BY DEF Answered
  <2>4. SuccessIsWhole' /\ FailuresAreReal'
    BY DEF SuccessIsWhole, FailuresAreReal, Answered, None
  <2> QED
    BY <2>1, <2>2, <2>3, <2>4
<1>3. CASE LocalSends
  <2> USE <1>3 DEF LocalSends
  <2>1. TypeOK'
    BY DeliverAssumption DEF TypeOK, Counts, Size
  <2>2. Counts' /\ Answered'
    BY DEF Counts, Answered, TypeOK, Size
  <2>3. SuccessIsWhole' /\ FailuresAreReal'
    BY DEF SuccessIsWhole, FailuresAreReal, HasBody
  <2> QED
    BY <2>1, <2>2, <2>3
<1>4. CASE LocalRedirects
  <2> USE <1>4 DEF LocalRedirects
  <2>1. hops \in 0 .. MaxHops /\ hops' \in 0 .. MaxHops /\ hops' > 0
    BY DeliverAssumption DEF TypeOK
  <2>2. TypeOK'
    BY <2>1 DEF TypeOK
  <2>3. Counts' /\ Answered'
    BY <2>1 DEF Counts, Answered
  <2>4. SuccessIsWhole' /\ FailuresAreReal'
    BY DEF SuccessIsWhole, FailuresAreReal, Answered, None
  <2> QED
    BY <2>2, <2>3, <2>4
<1>5. CASE LocalDies
  <2> USE <1>5 DEF LocalDies
  <2>1. TypeOK'
    BY DEF TypeOK
  <2>2. Counts' /\ Answered'
    BY DEF Counts, Answered
  <2>3. SuccessIsWhole' /\ FailuresAreReal'
    BY DEF SuccessIsWhole, FailuresAreReal, HasBody
  <2> QED
    BY <2>1, <2>2, <2>3
<1> QED
  BY <1>1, <1>2, <1>3, <1>4, <1>5 DEF Local

\* Every step keeps the invariant.
LEMMA NextIInv == IInv /\ [Next]_vars => IInv'
<1> SUFFICES ASSUME IInv, [Next]_vars PROVE IInv'
  OBVIOUS
<1>1. CASE Handler \/ CopyWrite
  BY <1>1, HandlerIInv
<1>2. CASE Transport
  BY <1>2, TransportIInv
<1>3. CASE Local
  BY <1>3, LocalIInv
<1>4. CASE Timeout \/ RelayResets
  <2> USE <1>4 DEF IInv, Timeout, RelayResets
  <2>1. expired' \in BOOLEAN /\ reset' \in BOOLEAN
    BY DEF TypeOK
  <2>4. TypeOK'
    BY <2>1 DEF TypeOK
  <2>2. Counts' /\ Answered'
    BY DEF Counts, Answered
  <2>3. SuccessIsWhole' /\ FailuresAreReal'
    BY DEF SuccessIsWhole, FailuresAreReal, HasBody
  <2> QED
    BY <2>2, <2>3, <2>4
<1>5. CASE UNCHANGED vars
  <2> USE <1>5 DEF IInv, vars
  <2>1. TypeOK'
    BY DEF TypeOK
  <2>2. Counts' /\ Answered'
    BY DEF Counts, Answered
  <2>3. SuccessIsWhole' /\ FailuresAreReal'
    BY DEF SuccessIsWhole, FailuresAreReal, HasBody
  <2> QED
    BY <2>1, <2>2, <2>3
<1> QED
  BY <1>1, <1>2, <1>3, <1>4, <1>5, Zenon DEF Next, Done

\* The invariant holds throughout.
LEMMA Invariance == Spec => []IInv
BY InitIInv, NextIInv, PTL DEF Spec

\* Counts, ends and answers are of their kinds in every reachable state.
THEOREM TypeCorrect == Spec => []TypeOK
<1>1. IInv => TypeOK
  BY DEF IInv
<1> QED
  BY <1>1, Invariance, PTL

\* What handleDeliver passes on as a 2xx was read in full by the service and
\* copied in full to the relay, and carries no error code.
THEOREM SuccessesAreWhole == Spec => []SuccessIsWhole
<1>1. IInv => SuccessIsWhole
  BY DEF IInv
<1> QED
  BY <1>1, Invariance, PTL

\* `local_refused` stands for a delivery that was not answered, and of which the
\* service saw nothing unless it redirected it, or for a misread word of a URL;
\* and an aborted stream for one of the cuts that handleDeliver may have met.
THEOREM FailuresHappened == Spec => []FailuresAreReal
<1>1. IInv => FailuresAreReal
  BY DEF IInv
<1> QED
  BY <1>1, Invariance, PTL

-----------------------------------------------------------------------------
(* The end of a delivery.                                                    *)

\* A bound on the steps of the handler that are left. Once the service answered,
\* it is the length of the response that counts.
StepsLeft ==
  CASE hpc = "start" -> 2 * MaxLen + 5
    [] hpc = "do" -> 2 * MaxLen + 4
    [] hpc = "judge" -> 2 * rlen + 3
    [] hpc = "copy" -> 2 * (rlen - down) + 2
    [] hpc = "write" -> 2 * (rlen - down) + 1
    [] OTHER -> 0

\* The counts are numbers, and no more is copied than the response has.
LEMMA CountsLeft ==
  ASSUME IInv
  PROVE  /\ MaxLen \in Nat /\ rlen \in Nat /\ down \in Nat
         /\ down <= rlen /\ rlen <= MaxLen
         /\ StepsLeft \in Nat
<1>1. /\ MaxLen \in Nat /\ rlen \in Nat /\ down \in Nat
      /\ down <= rlen /\ rlen <= MaxLen
  BY DeliverAssumption DEF IInv, TypeOK, Counts, Size
<1> QED
  BY <1>1 DEF StepsLeft

\* Every step of the handler leaves fewer: a round of copyDeliverBody takes one
\* chunk of those that are left.
LEMMA HandlerNearer == IInv /\ (Handler \/ CopyWrite) => StepsLeft' < StepsLeft
<1> SUFFICES ASSUME IInv, Handler \/ CopyWrite PROVE StepsLeft' < StepsLeft
  OBVIOUS
<1>0. /\ MaxLen \in Nat /\ rlen \in Nat /\ down \in Nat
      /\ down <= rlen /\ rlen <= MaxLen
      /\ hpc \in {"start", "do", "judge", "copy", "write", "done"}
  BY CountsLeft DEF IInv, TypeOK
<1>1. hpc # "done" /\ hpc' = "done" => StepsLeft' < StepsLeft
  BY <1>0 DEF StepsLeft
<1>2. CASE StartDo \/ DoReturns
  BY <1>0, <1>2 DEF StartDo, DoReturns, StepsLeft
<1>3. CASE JudgePasses
  <2>1. hpc = "judge" /\ hpc' = "copy" /\ rlen' = rlen /\ down' = down
    BY <1>3 DEF JudgePasses
  <2> QED
    BY <1>0, <2>1 DEF StepsLeft
<1>4. CASE CopyRead \/ CopyWrite
  BY <1>0, <1>4 DEF CopyRead, CopyWrite, StepsLeft
<1>5. CASE BadPort \/ WriteFails \/ DoRefused \/ DoTimesOut \/ DoBreaks \/ JudgeIncomplete
  BY <1>1, <1>5 DEF BadPort, WriteFails, DoRefused, DoTimesOut, DoBreaks, JudgeIncomplete, Refuse,
     Classified
<1>6. CASE CopyEnds \/ CopyFails
  BY <1>1, <1>6 DEF CopyEnds, CopyFails
<1> QED
  BY <1>2, <1>3, <1>4, <1>5, <1>6 DEF Handler

\* Nobody else adds any: the length of the response is fixed by its headers.
LEMMA OthersNoFarther ==
  IInv /\ [Next]_vars /\ ~(Handler \/ CopyWrite) => StepsLeft' = StepsLeft
<1> SUFFICES ASSUME [Next]_vars, ~(Handler \/ CopyWrite) PROVE StepsLeft' = StepsLeft
  OBVIOUS
<1>1. /\ hpc' = hpc /\ down' = down
      /\ rlen' = rlen \/ hpc = "do"
  BY DEF Next, Transport, ReadBody, BodyEnds, ChunkedBodyCut, Local, Dial, LocalRedirects,
     LocalAnswers, LocalSends, LocalDies, Timeout, RelayResets, Done, vars
<1> QED
  BY <1>1 DEF StepsLeft

\* A delivery does not run for ever by itself: each step of the handler takes one
\* off what is left, and neither the service, the transport, the timer nor the
\* relay adds one. Beyond its first steps the length of the response bounds it.
THEOREM DeliveryCountsDown ==
  Spec => [][/\ StepsLeft \in Nat /\ StepsLeft' \in Nat /\ StepsLeft' <= StepsLeft
             /\ Handler \/ CopyWrite => StepsLeft' < StepsLeft]_vars
<1>1. IInv /\ IInv' /\ [Next]_vars =>
        [/\ StepsLeft \in Nat /\ StepsLeft' \in Nat /\ StepsLeft' <= StepsLeft
         /\ Handler \/ CopyWrite => StepsLeft' < StepsLeft]_vars
  <2> SUFFICES ASSUME IInv, IInv', [Next]_vars
               PROVE  /\ StepsLeft \in Nat /\ StepsLeft' \in Nat /\ StepsLeft' <= StepsLeft
                      /\ Handler \/ CopyWrite => StepsLeft' < StepsLeft
    OBVIOUS
  <2>1. StepsLeft \in Nat
    BY CountsLeft
  <2>2. StepsLeft' \in Nat
    <3>1. /\ MaxLen \in Nat /\ rlen' \in Nat /\ down' \in Nat /\ down' <= rlen'
      BY DeliverAssumption DEF IInv, TypeOK, Counts, Size
    <3> QED
      BY <3>1 DEF StepsLeft
  <2>3. CASE Handler \/ CopyWrite
    <3>1. StepsLeft' < StepsLeft
      BY <2>3, HandlerNearer
    <3> QED
      BY <2>1, <2>2, <3>1
  <2>4. CASE ~(Handler \/ CopyWrite)
    <3>1. StepsLeft' = StepsLeft
      BY <2>4, OthersNoFarther
    <3> QED
      BY <2>1, <2>2, <2>4, <3>1
  <2> QED
    BY <2>3, <2>4
<1> QED
  BY <1>1, Invariance, PTL DEF Spec
=============================================================================
