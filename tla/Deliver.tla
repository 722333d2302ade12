-------------------------------- MODULE Deliver --------------------------------
(***************************************************************************)
(* One delivery through a session: handleDeliver, the HTTP transport that  *)
(* reads the request body in its own goroutine, the local service, and the *)
(* copy of its response back to the relay (internal/connect/deliver.go).   *)
(*                                                                         *)
(* Abstraction: bodies are counted in chunks. The transport and the local  *)
(* service are external: a response may begin before the request body was  *)
(* read, either side may be cut off, and the timer may fire at any point.  *)
(* Of the headers only X-Hd-Error, Connection and one other matter to what *)
(* the relay makes of an answer. A redirect that http.DefaultClient follows*)
(* (301, 302 or 303 with a Location) is a second request, without a body;  *)
(* one it does not follow (307 or 308, as the body cannot be read again)   *)
(* is an answer like any other that is not 2xx.                            *)
(***************************************************************************)
EXTENDS Naturals

CONSTANTS
  MaxLen,   \* bound: chunks of a body
  MaxHops   \* redirects that are followed: ten in net/http

ASSUME DeliverAssumption == MaxLen \in Nat \ {0} /\ MaxHops \in Nat

Size == 0 .. MaxLen
None == "none"
Status == {"ok", "empty", "bad"}           \* 2xx, a 2xx without a body, other
Framing == {"length", "chunked", "close"}  \* how the end of a response is known
Code == {"invalid_target_port", "write_failed", "local_refused", "local_timeout",
         "incomplete_payload", "local_error"}
Header == {"X-Hd-Error", "Connection", "Other"}

VARIABLES
  declared,  \* Content-Length of the request, 0 when it is unknown
  will,      \* chunks the relay gets to send before its stream ends
  portOK,    \* parseTargetPort accepts the header
  head,      \* the method is HEAD: the response comes without its body
  wordy,     \* a URL requested has a word that classifyLocalErr looks for
  hops,      \* redirects followed so far
  up,        \* counted.n: chunks the transport has read
  upEnd,     \* how the request body ended: "open", "eof", "error"
  local,     \* the service of the last request: "dialing", "up", "refused", "gone"
  status,    \* the status it answered
  framing,   \* of its response
  rlen,      \* the length its response should have
  rsent,     \* chunks of it that were sent
  rend,      \* how the response ended: "open", "complete", "cut"
  expired,   \* localDeliverTimeout has passed
  reset,     \* the relay gave up the stream, or the session is gone
  hpc,       \* where handleDeliver is
  seen,      \* the status the relay has been sent: of the service, or "error"
  code,      \* the x-hd-error header
  down,      \* chunks copied to the relay
  fin        \* how the stream to the relay ended: "open", "clean", "reset"

request == <<declared, will, portOK, head, wordy>>
body == <<up, upEnd>>
service == <<hops, local, status, framing, rlen, rsent, rend>>
faults == <<expired, reset>>
answer == <<seen, code, down, fin>>
vars == <<declared, will, portOK, head, wordy, hops, up, upEnd, local, status,
          framing, rlen, rsent, rend, expired, reset, hpc, seen, code, down, fin>>

Init ==
  /\ will \in Size
  /\ declared \in {0} \cup {n \in Size : n > 0 /\ n >= will}
  /\ portOK \in BOOLEAN
  /\ head \in BOOLEAN
  /\ wordy \in BOOLEAN
  /\ hops = 0
  /\ up = 0
  /\ upEnd = "open"
  /\ local = "dialing"
  /\ status = None
  /\ framing \in Framing
  /\ rlen = 0
  /\ rsent = 0
  /\ rend = "open"
  /\ expired = FALSE
  /\ reset = FALSE
  /\ hpc = "start"
  /\ seen = None
  /\ code = None
  /\ down = 0
  /\ fin = "open"

\* The values counted.n may be seen to have. Nothing orders this read after the
\* transport's last write while the transport is at work.
Written == IF upEnd = "open" THEN 0 .. up ELSE {up}

\* Mutant: only a body of which nothing was read counts as incomplete.
MismatchNothing(written) == declared > 0 /\ written = 0

Mismatch(written) == declared > 0 /\ written # declared

\* Mutant: a declared length of zero is taken for a missing body.
HasBodyAlways == status # "empty"

\* bodylessStatus and the ContentLength of the response.
HasBody == status # "empty" /\ (framing # "length" \/ rlen > 0)

-----------------------------------------------------------------------------
(* handleDeliver. *)

\* writeDeliverErr: a whole answer of its own.
Refuse(c) ==
  /\ hpc' = "done"
  /\ seen' = "error"
  /\ code' = c
  /\ fin' = IF reset THEN "reset" ELSE "clean"
  /\ UNCHANGED <<request, body, service, faults, down>>

BadPort ==
  /\ hpc = "start"
  /\ ~portOK
  /\ Refuse("invalid_target_port")

\* The request to the service cannot be made.
WriteFails ==
  /\ hpc = "start"
  /\ portOK
  /\ Refuse("write_failed")

StartDo ==
  /\ hpc = "start"
  /\ portOK
  /\ hpc' = "do"
  /\ UNCHANGED <<request, body, service, faults, answer>>

\* What classifyLocalErr makes of the errors of Do. It looks for words in the
\* message, which quotes the URL: "timeout" or "connectex" may come from there. A
\* mismatch only replaces codes other than these two, and there is no third but
\* itself. The end of the deadline is recognized before the words are.
Classified(c) ==
  \/ Refuse(c)
  \/ wordy /\ \E d \in {"local_timeout", "local_refused"} : Refuse(d)

\* The dial fails: that of the service, or of the address it redirected to.
DoRefused ==
  /\ hpc = "do"
  /\ local = "refused"
  /\ Classified("local_refused")

DoTimesOut ==
  /\ hpc = "do"
  /\ expired
  /\ Refuse("local_timeout")

\* Either connection breaks, or a redirect leads nowhere: its Location is not a
\* URL of HTTP, or it is one too many.
DoBreaks ==
  /\ hpc = "do"
  /\ \/ upEnd = "error" /\ hops = 0
     \/ local \in {"up", "gone"} /\ status = None
     \/ reset
  /\ Classified("incomplete_payload")

\* The response headers are there; the transport may still be reading the body.
DoReturns ==
  /\ hpc = "do"
  /\ status # None
  /\ hpc' = "judge"
  /\ UNCHANGED <<request, body, service, faults, answer>>

\* counted.n is read now. A 2xx for a body that was not read in full is not
\* passed on.
JudgeIncomplete ==
  /\ hpc = "judge"
  /\ \E written \in Written : Mismatch(written)
  /\ status \in {"ok", "empty"}
  /\ Refuse("incomplete_payload")

\* copyHeaders: what of the service's headers is passed on, when its Connection
\* header names `named`. Transport metadata and hop-by-hop headers are not.
CopyHeaders(headers, named) ==
  (headers \ {"X-Hd-Error", "Connection"}) \ (IF "Connection" \in headers THEN named ELSE {})

\* The status goes out, and can no longer be changed. The agent's own code is
\* set after the headers of the service were copied.
JudgePasses ==
  /\ hpc = "judge"
  /\ status = "bad" \/ \E written \in Written : ~Mismatch(written)
  /\ seen' = status
  /\ \E headers \in SUBSET Header, named \in SUBSET Header :
       code' = CASE status = "bad" -> "local_error"
                 [] status # "bad" /\ "X-Hd-Error" \in CopyHeaders(headers, named) -> "of the service"
                 [] OTHER -> None
  /\ hpc' = "copy"
  /\ UNCHANGED <<request, body, service, faults, down, fin>>

\* One round of copyDeliverBody: a chunk is read from the service, then written
\* to the relay. The timer does not bound the write, which waits for the relay
\* to take the chunk (flow control) or to give up the stream.
CopyRead ==
  /\ hpc = "copy"
  /\ down < rsent
  /\ ~head
  /\ hpc' = "write"
  /\ UNCHANGED <<request, body, service, faults, answer>>

CopyWrite ==
  /\ hpc = "write"
  /\ ~reset
  /\ hpc' = "copy"
  /\ down' = down + 1
  /\ UNCHANGED <<request, body, service, faults, seen, code, fin>>

\* The end of resp.Body as copyDeliverBody sees it.
BodyEOF ==
  \/ head
  \/ status = "empty"
  \/ framing = "length" /\ down = rlen
  \/ down = rsent /\ rend = "complete"
  \/ down = rsent /\ rend = "cut" /\ framing = "close"


BodyError == expired \/ reset \/ (down = rsent /\ rend = "cut" /\ ~BodyEOF)

\* localResponseTruncated, after the copy without an error.
ShortBody ==
  \/ status # "empty" /\ framing = "length" /\ down < rlen
  \/ down = 0 /\ HasBody

CopyEnds ==
  /\ hpc = "copy"
  /\ BodyEOF
  /\ fin' = IF ShortBody \/ reset THEN "reset" ELSE "clean"
  /\ hpc' = "done"
  /\ UNCHANGED <<request, body, service, faults, seen, code, down>>

\* panic(http.ErrAbortHandler) becomes a reset of the stream.
CopyFails ==
  /\ \/ hpc = "copy" /\ BodyError
     \/ hpc = "write" /\ reset
  /\ fin' = "reset"
  /\ hpc' = "done"
  /\ UNCHANGED <<request, body, service, faults, seen, code, down>>

-----------------------------------------------------------------------------
(* The transport reads the request body until the handler returns. *)

Busy == {"do", "judge", "copy", "write"}

\* The first request went out. Its body is read until the connection is given up,
\* and a read that waits for the relay then is not cut short.
Reading == upEnd = "open" /\ (hops > 0 \/ local \in {"up", "gone"})

ReadBody ==
  /\ hpc \in Busy
  /\ Reading
  /\ up < will
  /\ ~reset
  /\ up' = up + 1
  /\ UNCHANGED <<request, upEnd, service, faults, hpc, answer>>

\* The relay's stream ends: as declared, cut short, or reset.
BodyEnds ==
  /\ hpc \in Busy
  /\ Reading
  /\ up = will \/ reset
  /\ upEnd' = IF reset \/ (declared > 0 /\ up < declared) THEN "error" ELSE "eof"
  /\ UNCHANGED <<request, up, service, faults, hpc, answer>>

\* A body of unknown length may also be cut short.
ChunkedBodyCut ==
  /\ hpc \in Busy
  /\ declared = 0
  /\ Reading
  /\ upEnd' = "error"
  /\ UNCHANGED <<request, up, service, faults, hpc, answer>>

-----------------------------------------------------------------------------
(* The local service and the relay. *)

Dial(result) ==
  /\ hpc = "do"
  /\ local = "dialing"
  /\ local' = result
  /\ UNCHANGED <<request, hops, body, status, framing, rlen, rsent, rend, faults, hpc, answer>>

\* It redirects, and the client dials again for a request without the body.
LocalRedirects ==
  /\ local = "up"
  /\ status = None
  /\ hpc = "do"
  /\ hops < MaxHops
  /\ hops' = hops + 1
  /\ local' = "dialing"
  /\ UNCHANGED <<request, body, status, framing, rlen, rsent, rend, faults, hpc, answer>>

\* It may answer as soon as it has the headers of the request.
LocalAnswers(s, n) ==
  /\ local = "up"
  /\ status = None
  /\ hpc = "do"
  /\ s = "empty" => n = 0
  /\ status' = s
  /\ rlen' = n
  /\ UNCHANGED <<request, hops, body, local, framing, rsent, rend, faults, hpc, answer>>

LocalSends ==
  /\ local = "up"
  /\ status # None
  /\ hpc # "done"
  /\ rend = "open"
  /\ IF rsent < rlen /\ ~head THEN rsent' = rsent + 1 /\ UNCHANGED rend
                              ELSE rend' = "complete" /\ UNCHANGED rsent
  /\ UNCHANGED <<request, hops, body, local, status, framing, rlen, faults, hpc, answer>>

LocalDies ==
  /\ local = "up"
  /\ hpc # "done"
  /\ local' = "gone"
  /\ rend' = IF status # None /\ rend = "open" THEN "cut" ELSE rend
  /\ UNCHANGED <<request, hops, body, status, framing, rlen, rsent, faults, hpc, answer>>

Timeout ==
  /\ hpc \in Busy
  /\ ~expired
  /\ expired' = TRUE
  /\ UNCHANGED <<request, body, service, reset, hpc, answer>>

RelayResets ==
  /\ hpc # "done"
  /\ ~reset
  /\ reset' = TRUE
  /\ UNCHANGED <<request, body, service, expired, hpc, answer>>

Done == hpc = "done" /\ UNCHANGED vars

-----------------------------------------------------------------------------
Handler ==
  \/ BadPort \/ WriteFails \/ StartDo
  \/ DoRefused \/ DoTimesOut \/ DoBreaks \/ DoReturns
  \/ JudgeIncomplete \/ JudgePasses
  \/ CopyRead \/ CopyEnds \/ CopyFails

Transport == ReadBody \/ BodyEnds \/ ChunkedBodyCut

Local ==
  \/ \E result \in {"up", "refused"} : Dial(result)
  \/ LocalRedirects
  \/ \E s \in Status, n \in Size : LocalAnswers(s, n)
  \/ LocalSends
  \/ LocalDies

Next == Handler \/ CopyWrite \/ Transport \/ Local \/ Timeout \/ RelayResets \/ Done

Spec == Init /\ [][Next]_vars

\* The handler runs and its timer fires. Nothing is assumed of the local service,
\* the transport or the relay.
FairSpec == Spec /\ WF_vars(Handler) /\ WF_vars(Timeout)

-----------------------------------------------------------------------------
(* Properties. *)

\* Counts, ends and answers are of their kinds.
TypeOK ==
  /\ declared \in Size /\ will \in Size /\ portOK \in BOOLEAN /\ head \in BOOLEAN
  /\ wordy \in BOOLEAN /\ hops \in 0 .. MaxHops
  /\ up \in Size /\ upEnd \in {"open", "eof", "error"}
  /\ local \in {"dialing", "up", "refused", "gone"}
  /\ status \in Status \cup {None} /\ framing \in Framing
  /\ rlen \in Size /\ rsent \in Size /\ rend \in {"open", "complete", "cut"}
  /\ expired \in BOOLEAN /\ reset \in BOOLEAN
  /\ hpc \in {"start", "do", "judge", "copy", "write", "done"}
  /\ seen \in Status \cup {"error", None} /\ code \in Code \cup {None}
  /\ down \in Size /\ fin \in {"open", "clean", "reset"}

\* What the relay takes for a success is one: it carries no error, of the agent
\* or of the service's invention; the service, or the address it redirected to,
\* answered 2xx after the declared body had been read in full, and all of its
\* response - unless the method asks for none of it, or only the end of the
\* connection ends it - has been passed on.
SuccessIsWhole ==
  fin = "clean" /\ seen \in {"ok", "empty"} =>
    /\ code = None
    /\ status = seen
    /\ declared > 0 => up = declared
    /\ framing # "close" /\ ~head => down = rlen

\* A failure the relay is told of is a real one. `local_refused` stands for a
\* delivery that was not answered, and that the service saw nothing of unless it
\* redirected it, or the URL has a word that is taken for that of a failed dial;
\* and a stream is only aborted after its status went out if something was cut
\* off, if a response that had to have a body ended without one - or if the method
\* is HEAD: the length such a response states is taken for a body that is missing.
FailuresAreReal ==
  /\ code = "local_refused" => wordy \/ (status = None /\ (up = 0 \/ hops > 0))
  /\ fin = "reset" =>
       \/ reset \/ expired \/ rend = "cut"
       \/ rlen = 0 /\ framing # "length" /\ status # "empty"
       \/ head /\ HasBody

=============================================================================
