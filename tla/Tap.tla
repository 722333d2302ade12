---------------------------------- MODULE Tap ----------------------------------
(***************************************************************************)
(* Taps: `agent tap`, which creates one, holds it open and stops it at the *)
(* end (tap.Start), and the commands that load the token for a call or two *)
(* - `agent tap stop`, `agent tap list`, `agent rename` - while `agent     *)
(* connect` renews: the worker rotates, and the token on disk is replaced  *)
(* after its answer, or not at all (internal/tap/tap.go, cmd/agent/main.go).*)
(*                                                                         *)
(* The worker is external: it knows the live taps, lets each expire, and   *)
(* refuses a token that was superseded. A tap is named after the process   *)
(* that created it.                                                        *)
(***************************************************************************)
EXTENDS Naturals, FiniteSets

CONSTANTS
  Taps,      \* `agent tap` processes
  None,      \* no tap
  MaxGen     \* bound: renewals

ASSUME TapAssumption ==
  /\ None \notin Taps
  /\ MaxGen \in Nat

Gen == 0 .. MaxGen

VARIABLES
  cur,      \* worker: number of the newest token
  disk,     \* number of the token on disk
  renewing, \* the worker has rotated, and the disk does not have it yet
  live,     \* worker: the taps that are live
  pc,       \* where each `agent tap` is
  mode,     \* "tty", "headless" (-no-tty) or "script" (no terminal, no flag)
  held,     \* the token each loaded
  eof,      \* its stdin was closed
  signal,   \* it got SIGINT or SIGTERM, which it catches from its start
  told,     \* what it said last
  cmd,      \* the other command: "stop", "list" or "rename"
  spc,      \* where it is
  sheld,    \* the token it loaded
  sid,      \* the tap it stops, if that is known
  sres,     \* how it ended
  sold,     \* history: a renewal was under way between its load and its answer
  lost      \* history: the answer to a renewal, or its write, was lost

token == <<cur, disk, renewing, lost>>
start == <<pc, mode, held, eof, signal, told>>
stop == <<cmd, spc, sheld, sid, sres, sold>>
vars == <<cur, disk, renewing, live, pc, mode, held, eof, signal, told, cmd, spc, sheld,
          sid, sres, sold, lost>>

PC == {"begin", "load", "create", "wait", "stop", "done"}
Told == {"nothing", "usage", "needsTTY", "createFailed", "created", "stopped", "lingers"}

Init ==
  /\ cur = 0 /\ disk = 0 /\ renewing = FALSE /\ lost = FALSE
  /\ live = {}
  /\ pc = [t \in Taps |-> "begin"]
  /\ mode \in [Taps -> {"tty", "headless", "script"}]
  /\ held = [t \in Taps |-> 0]
  /\ eof = [t \in Taps |-> FALSE]
  /\ signal = [t \in Taps |-> FALSE]
  /\ told = [t \in Taps |-> "nothing"]
  /\ cmd = "stop"
  /\ spc = "idle"
  /\ sheld = 0
  /\ sid = None
  /\ sres = "none"
  /\ sold = FALSE

-----------------------------------------------------------------------------
(* agent tap *)

Goto(t, l) == pc' = [pc EXCEPT ![t] = l]
Tell(t, what) == told' = [told EXCEPT ![t] = what]

\* No endpoint, port or path, or one that is not of the right form.
BadArguments(t) ==
  /\ pc[t] = "begin"
  /\ Goto(t, "done")
  /\ Tell(t, "usage")
  /\ UNCHANGED <<token, live, mode, held, eof, signal, stop>>

\* Start refuses to block where nobody could end it.
CheckTTY(t) ==
  /\ pc[t] = "begin"
  /\ IF mode[t] = "script"
     THEN Goto(t, "done") /\ Tell(t, "needsTTY")
     ELSE Goto(t, "load") /\ UNCHANGED told
  /\ UNCHANGED <<token, live, mode, held, eof, signal, stop>>

LoadToken(t) ==
  /\ pc[t] = "load"
  /\ held' = [held EXCEPT ![t] = disk]
  /\ Goto(t, "create")
  /\ UNCHANGED <<token, live, mode, eof, signal, told, stop>>

Create(t) ==
  /\ pc[t] = "create"
  /\ held[t] = cur
  /\ live' = live \cup {t}
  /\ Goto(t, "wait")
  /\ Tell(t, "created")
  /\ UNCHANGED <<token, mode, held, eof, signal, stop>>

\* Nothing is enrolled or selected, or there is no token.
LoadFails(t) ==
  /\ pc[t] = "load"
  /\ Goto(t, "done")
  /\ Tell(t, "createFailed")
  /\ UNCHANGED <<token, live, mode, held, eof, signal, stop>>

\* Refused (a superseded token, the rate limit, no such endpoint), or the worker
\* cannot be reached; or the tap exists and the answer is lost.
CreateFails(t) ==
  /\ pc[t] = "create"
  /\ \/ UNCHANGED live
     \/ held[t] = cur /\ live' = live \cup {t}
  /\ Goto(t, "done")
  /\ Tell(t, "createFailed")
  /\ UNCHANGED <<token, mode, held, eof, signal, stop>>

\* Mutant: the end of stdin is not watched.
WaitEndsBySignal(t) ==
  /\ pc[t] = "wait"
  /\ signal[t]
  /\ Goto(t, "stop")
  /\ UNCHANGED <<token, live, mode, held, eof, signal, told, stop>>

\* waitUntilStop: a signal, or the end of stdin for a headless tap.
WaitEnds(t) ==
  /\ pc[t] = "wait"
  /\ signal[t] \/ (mode[t] = "headless" /\ eof[t])
  /\ Goto(t, "stop")
  /\ UNCHANGED <<token, live, mode, held, eof, signal, told, stop>>

\* stopTap with the token of the start.
StopOk(t) ==
  /\ pc[t] = "stop"
  /\ held[t] = cur
  /\ t \in live
  /\ live' = live \ {t}
  /\ Goto(t, "done")
  /\ Tell(t, "stopped")
  /\ UNCHANGED <<token, mode, held, eof, signal, stop>>

\* Mutant: an error of the stop is dropped.
StopFailsSilently(t) ==
  /\ pc[t] = "stop"
  /\ UNCHANGED live
  /\ Goto(t, "done")
  /\ Tell(t, "stopped")
  /\ UNCHANGED <<token, mode, held, eof, signal, stop>>

\* A superseded token, a tap that ended already, a worker that is not reached,
\* an answer that is lost: failedStopError for all of them.
StopFails(t) ==
  /\ pc[t] = "stop"
  /\ \/ (held[t] # cur \/ t \notin live) /\ UNCHANGED live
     \/ live' \in {live, live \ {t}}
  /\ Goto(t, "done")
  /\ Tell(t, "lingers")
  /\ UNCHANGED <<token, mode, held, eof, signal, stop>>

-----------------------------------------------------------------------------
(* agent tap stop [id], agent tap list, agent rename *)

SGoto(l) == spc' = l /\ UNCHANGED sres
SExit(r) == spc' = "idle" /\ sid' = None /\ sres' = r

SBegin(c, id) ==
  /\ spc = "idle"
  /\ c # "stop" => id = None
  /\ spc' = "load"
  /\ cmd' = c
  /\ sid' = id
  /\ sres' = "none"
  /\ UNCHANGED <<token, live, start, sheld, sold>>

\* The call the command makes with the token.
FirstCall == CASE cmd = "list" -> "targets"
               [] cmd = "rename" -> "rename"
               [] cmd = "stop" -> IF sid = None THEN "list" ELSE "stop"

\* Mutant: the token of an earlier command is used again.
SLoadOnce ==
  /\ spc = "load"
  /\ sold' = renewing
  /\ SGoto(FirstCall)
  /\ UNCHANGED <<token, live, start, cmd, sheld, sid>>

SLoad ==
  /\ spc = "load"
  /\ sheld' = disk
  /\ sold' = renewing
  /\ SGoto(FirstCall)
  /\ UNCHANGED <<token, live, start, cmd, sid>>

SLoadFails ==
  /\ spc = "load"
  /\ SExit("failed")
  /\ UNCHANGED <<token, live, start, cmd, sheld, sold>>

\* The targets, then the taps; both are printed.
STargets ==
  /\ spc = "targets"
  /\ sheld = cur
  /\ SGoto("list")
  /\ UNCHANGED <<token, live, start, cmd, sheld, sid, sold>>

SListed ==
  /\ spc = "list"
  /\ cmd = "list"
  /\ sheld = cur
  /\ SExit("done")
  /\ UNCHANGED <<token, live, start, cmd, sheld, sold>>

SRename ==
  /\ spc = "rename"
  /\ sheld = cur
  /\ SExit("done")
  /\ UNCHANGED <<token, live, start, cmd, sheld, sold>>

SListOne ==
  /\ spc = "list"
  /\ cmd = "stop"
  /\ sheld = cur
  /\ \E t \in live : live = {t} /\ sid' = t
  /\ SGoto("stop")
  /\ UNCHANGED <<token, live, start, cmd, sheld, sold>>

\* No tap is running, or several are.
SListFails ==
  /\ spc = "list"
  /\ cmd = "stop"
  /\ sheld = cur
  /\ Cardinality(live) # 1
  /\ SExit("failed")
  /\ UNCHANGED <<token, live, start, cmd, sheld, sold>>

SStop ==
  /\ spc = "stop"
  /\ sheld = cur
  /\ live' = live \ {sid}
  /\ SExit(IF sid \in live THEN "done" ELSE "failed")
  /\ UNCHANGED <<token, start, cmd, sheld, sold>>

Calls == {"targets", "list", "stop", "rename"}

SRefused ==
  /\ spc \in Calls
  /\ sheld # cur
  /\ SExit("refused")
  /\ UNCHANGED <<token, live, start, cmd, sheld, sold>>

\* The worker is not reached, or its answer is lost.
SUnreached ==
  /\ spc \in Calls
  /\ \/ UNCHANGED live
     \/ spc = "stop" /\ sheld = cur /\ live' = live \ {sid}
  /\ SExit("failed")
  /\ UNCHANGED <<token, start, cmd, sheld, sold>>

-----------------------------------------------------------------------------
(* The environment. *)

\* `agent connect` renews: the worker rotates the token that is on disk, if that
\* is not superseded.
Renew ==
  /\ ~renewing
  /\ disk = cur
  /\ cur < MaxGen
  /\ cur' = cur + 1
  /\ renewing' = TRUE
  /\ sold' = TRUE
  /\ UNCHANGED <<disk, lost, live, start, cmd, spc, sheld, sid, sres>>

\* The token is the first file of the renewal that is written.
WriteToken ==
  /\ renewing
  /\ renewing' = FALSE
  /\ disk' = cur
  /\ UNCHANGED <<cur, lost, live, start, stop>>

\* The answer is lost, the service is killed, or the write fails: the token on
\* disk is superseded from now on.
RenewalLost ==
  /\ renewing
  /\ renewing' = FALSE
  /\ lost' = TRUE
  /\ UNCHANGED <<cur, disk, live, start, stop>>

Expire(t) ==
  /\ t \in live
  /\ live' = live \ {t}
  /\ UNCHANGED <<token, start, stop>>

\* Only a headless tap watches its stdin.
CloseStdin(t) ==
  /\ mode[t] = "headless"
  /\ ~eof[t]
  /\ eof' = [eof EXCEPT ![t] = TRUE]
  /\ UNCHANGED <<token, live, pc, mode, held, signal, told, stop>>

Signal(t) ==
  /\ pc[t] # "done"
  /\ ~signal[t]
  /\ signal' = [signal EXCEPT ![t] = TRUE]
  /\ UNCHANGED <<token, live, pc, mode, held, eof, told, stop>>

-----------------------------------------------------------------------------
Start(t) ==
  \/ BadArguments(t) \/ CheckTTY(t) \/ LoadToken(t) \/ LoadFails(t) \/ Create(t) \/ CreateFails(t)
  \/ WaitEnds(t) \/ StopOk(t) \/ StopFails(t)

Command ==
  \/ SLoad \/ SLoadFails \/ STargets \/ SListed \/ SRename
  \/ SListOne \/ SListFails \/ SStop \/ SRefused \/ SUnreached

Next ==
  \/ \E t \in Taps : Start(t) \/ Expire(t) \/ CloseStdin(t) \/ Signal(t)
  \/ \E c \in {"stop", "list", "rename"}, id \in Taps \cup {None} : SBegin(c, id)
  \/ Command
  \/ Renew \/ WriteToken \/ RenewalLost

Spec == Init /\ [][Next]_vars

\* The steps of a started command are taken; whoever closes stdin or interrupts
\* the command is free to do so or not.
FairSpec == Spec /\ \A t \in Taps : WF_vars(Start(t))

-----------------------------------------------------------------------------
(* Properties. *)

\* Values are of their kinds; a tap is only waited for where someone can end it.
TypeOK ==
  /\ cur \in Gen /\ disk \in Gen /\ renewing \in BOOLEAN /\ lost \in BOOLEAN
  /\ live \subseteq Taps
  /\ pc \in [Taps -> PC]
  /\ mode \in [Taps -> {"tty", "headless", "script"}]
  /\ \A t \in Taps : pc[t] \notin {"begin", "done"} => mode[t] # "script"
  /\ held \in [Taps -> Gen] /\ eof \in [Taps -> BOOLEAN] /\ signal \in [Taps -> BOOLEAN]
  /\ told \in [Taps -> Told]
  /\ cmd \in {"stop", "list", "rename"} /\ spc \in {"idle", "load"} \cup Calls
  /\ sheld \in Gen /\ sid \in Taps \cup {None}
  /\ sres \in {"none", "done", "refused", "failed"}
  /\ sold \in BOOLEAN

\* A tap that outlives the command that made it was announced - "still live and
\* will linger" - or the command said that it could not create it.
LingerIsTold ==
  \A t \in live : pc[t] = "done" => told[t] \in {"lingers", "createFailed"}

\* A command loads the token anew, so that however many renewals there were since
\* the tap was made, its token is only refused if one was under way during the
\* command, or was lost between the worker and the disk before.
CommandIsFresh == sres = "refused" => sold \/ lost

\* A parent ends a headless tap by closing its stdin, and an interrupt ends any,
\* also one that comes before the tap is created: it is stopped, or said to
\* linger.
EndsWhenAsked ==
  \A t \in Taps :
    (signal[t] \/ (eof[t] /\ mode[t] = "headless"))
      ~> pc[t] = "done"
=============================================================================
