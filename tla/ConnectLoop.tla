----------------------------- MODULE ConnectLoop -----------------------------
(***************************************************************************)
(* `agent connect`: the loop of connect.Run with its session, the control  *)
(* frames of the relay, the renew loop that may drop the session, the      *)
(* retry ladder, and the terminal states (internal/connect/connect.go and  *)
(* the control and renewal parts of deliver.go).                           *)
(*                                                                         *)
(* Abstraction: the store is the set of organizations whose credentials    *)
(* load, and the selected one (CertStore has the files). The enrollment    *)
(* worker and the relay are known by the answers the code tells apart.     *)
(***************************************************************************)
EXTENDS Naturals

CONSTANTS
  Orgs,       \* organization ids
  NoOrg,      \* no organization
  MaxBackoff  \* seconds: the top of the retry ladder (30 in the code)

ASSUME LoopAssumption ==
  /\ NoOrg \notin Orgs
  /\ MaxBackoff \in Nat \ {0}

MinBackoff == 1

\* The reasons of a control frame; any reason the code does not know is "other".
Reasons == {"revoked", "draining", "other"}

VARIABLES
  have,       \* organizations whose credentials are on disk and load
  active,     \* the selected organization
  dead,       \* organizations whose credential the service refuses for good
  ctxDone,    \* the context of Run was cancelled
  pinned,     \* --relay: no placement
  pc,         \* where Run is
  org,        \* the organization a renewal or a session is about
  backoff,    \* seconds of the retry ladder
  usedFree,   \* the one immediate retry was used
  conn,       \* the connection of the session: "none", "open" or "closed"
  healthy,    \* the session lived at least minHealthySession
  acked,      \* control frames answered with 204 and not yet pushed
  slot,       \* the one-place channel `reject`
  others,     \* countOtherOrgs found another organization
  told,       \* the line logged on the way into the terminal wait
  cause,      \* history: the organization a terminal verdict was about
  burst,      \* history: dials since the last wait or healthy session
  revokeAcked,\* history: organizations whose revocation the relay has a 204 for
  meddled,    \* history: another process wrote to the store since Run last read it
  botched,    \* "could not finish removing credentials" is logged
  doomed,     \* the organization removeActiveCredentials is about
  unread      \* history: the reads of the store whose error was dropped

disk == <<have, active>>
env == <<dead, ctxDone, pinned>>
ladder == <<backoff, usedFree, burst>>
session == <<conn, healthy, acked, slot, revokeAcked>>
removal == <<botched, doomed, unread>>
verdict == <<others, told, cause, meddled, botched, doomed, unread>>
vars == <<have, active, dead, ctxDone, pinned, pc, org, backoff, usedFree,
          conn, healthy, acked, slot, others, told, cause, burst, revokeAcked, meddled, botched,
          doomed, unread>>

NoReason == "none"
PC == {"start", "loop", "renew", "place", "dial", "session", "sleep", "settle",
       "remove", "delete", "pointer", "clear", "dormant", "returned", "failed"}
Told == {"none", "revoked", "revokedOrg", "dead", "deadOrg", "skew", "ended"}

NextBackoff(prev) ==
  IF prev < MinBackoff THEN MinBackoff
  ELSE IF 2 * prev > MaxBackoff THEN MaxBackoff ELSE 2 * prev

\* Mutants: the free retry is not recorded, or the ladder is reset with it.
SessionRetryUnrecorded(prev, wasHealthy, free) ==
  IF wasHealthy THEN [next |-> 0, immediate |-> TRUE, free |-> TRUE]
  ELSE IF ~free THEN [next |-> prev, immediate |-> TRUE, free |-> FALSE]
  ELSE [next |-> NextBackoff(prev), immediate |-> FALSE, free |-> FALSE]
SessionRetryResets(prev, wasHealthy, free) ==
  IF wasHealthy \/ ~free THEN [next |-> 0, immediate |-> TRUE, free |-> TRUE]
  ELSE [next |-> NextBackoff(prev), immediate |-> FALSE, free |-> FALSE]

\* nextSessionRetry: what a live session that ended without a rejection earns.
SessionRetry(prev, wasHealthy, free) ==
  IF wasHealthy THEN [next |-> 0, immediate |-> TRUE, free |-> TRUE]
  ELSE IF ~free THEN [next |-> prev, immediate |-> TRUE, free |-> TRUE]
  ELSE [next |-> NextBackoff(prev), immediate |-> FALSE, free |-> FALSE]

\* ResolveActiveDir succeeds.
Resolved == active \in have

Init ==
  /\ have \in SUBSET Orgs
  /\ active \in have \cup {NoOrg}
  /\ dead = {}
  /\ ctxDone = FALSE
  /\ pinned \in BOOLEAN
  /\ pc = "start"
  /\ org = NoOrg
  /\ backoff = 0
  /\ usedFree = FALSE
  /\ conn = "none"
  /\ healthy = FALSE
  /\ acked = {}
  /\ slot = NoReason
  /\ others = FALSE
  /\ told = "none"
  /\ cause = NoOrg
  /\ burst = 0
  /\ revokeAcked = {}
  /\ meddled = FALSE
  /\ botched = FALSE
  /\ doomed = NoOrg
  /\ unread = {}

-----------------------------------------------------------------------------
(* The loop of Run. *)

\* Run resolves the store once before the loop and gives up if it cannot.
Start ==
  /\ pc = "start"
  /\ pc' = IF Resolved THEN "loop" ELSE "failed"
  /\ UNCHANGED <<disk, env, org, ladder, session, verdict>>

\* systemd restarts a service that failed, and not one that returned.
Restart ==
  /\ pc = "failed"
  /\ ~ctxDone
  /\ pc' = "start"
  /\ UNCHANGED <<disk, env, org, ladder, session, verdict>>

\* ResolveActiveDir clears a pointer to a directory that is gone. Run calls it for
\* the report, the renewal, the placement and the dial.
ClearStale ==
  /\ pc \in {"start", "loop", "place", "dial", "session"}
  /\ active \in Orgs \ have
  /\ active' = NoOrg
  /\ UNCHANGED <<have, env, pc, org, ladder, session, verdict>>

\* The context check, the system-info report (its errors are only logged), and
\* the first thing attemptRenew does: it resolves the active directory.
LoopTop ==
  /\ pc = "loop"
  /\ IF ctxDone
     THEN pc' = "returned" /\ UNCHANGED <<org, meddled>>
     ELSE /\ pc' = "renew"
          /\ org' = IF Resolved THEN active ELSE NoOrg
          /\ meddled' = FALSE
  /\ UNCHANGED <<disk, env, ladder, session, others, told, cause, removal>>

\* Nothing due, renewed, failed for now, or an error of another organization.
RenewPasses ==
  /\ pc = "renew"
  /\ pc' = "place"
  /\ org' = NoOrg
  /\ UNCHANGED <<disk, env, ladder, session, verdict>>

\* Mutants: any renewal error is terminal; a dead credential goes on to placement.
RenewDeadAlways ==
  /\ pc = "renew"
  /\ org \in have
  /\ pc' = "settle"
  /\ told' = "dead"
  /\ cause' = org
  /\ org' = NoOrg
  /\ UNCHANGED <<disk, env, ladder, session, others, meddled, removal>>
RenewDeadIgnored ==
  /\ pc = "renew"
  /\ org \in have \cap dead
  /\ pc' = "place"
  /\ UNCHANGED <<disk, env, org, ladder, session, verdict>>

RenewDead ==
  /\ pc = "renew"
  /\ org \in have \cap dead
  /\ pc' = "settle"
  /\ told' = "dead"
  /\ cause' = org
  /\ org' = NoOrg
  /\ UNCHANGED <<disk, env, ladder, session, others, meddled, removal>>

\* The clock skew, as the answers of the service show it, exceeds five minutes.
RenewSkew ==
  /\ pc = "renew"
  /\ org \in have \/ have = {}
  /\ pc' = "dormant"
  /\ told' = "skew"
  /\ org' = NoOrg
  /\ UNCHANGED <<disk, env, ladder, session, others, cause, meddled, removal>>

\* Every failure that is not terminal: the ladder, then a wait.
FailAndSleep ==
  /\ pc' = IF ctxDone THEN "returned" ELSE "sleep"
  /\ backoff' = IF ctxDone THEN backoff ELSE NextBackoff(backoff)
  /\ usedFree' = IF ctxDone THEN usedFree ELSE FALSE

PlaceSkipped ==
  /\ pc = "place"
  /\ pinned
  /\ pc' = "dial"
  /\ UNCHANGED <<disk, env, org, ladder, session, verdict>>

\* Mutant: a refused placement is ignored.
PlacedUnasked ==
  /\ pc = "place"
  /\ ~pinned
  /\ Resolved
  /\ pc' = "dial"
  /\ UNCHANGED <<disk, env, org, ladder, session, verdict>>

Placed ==
  /\ pc = "place"
  /\ ~pinned
  /\ Resolved
  /\ active \notin dead
  /\ pc' = "dial"
  /\ UNCHANGED <<disk, env, org, ladder, session, verdict>>

\* No active organization, no token, no healthy relay, rate limit, network.
PlaceFails ==
  /\ pc = "place"
  /\ ~pinned
  /\ FailAndSleep
  /\ UNCHANGED <<disk, env, org, burst, session, verdict>>

PlaceDead ==
  /\ pc = "place"
  /\ ~pinned
  /\ Resolved
  /\ active \in dead
  /\ IF ctxDone
     THEN pc' = "returned" /\ UNCHANGED verdict
     ELSE pc' = "settle" /\ told' = "dead" /\ cause' = active /\ UNCHANGED <<others, meddled, removal>>
  /\ UNCHANGED <<disk, env, org, ladder, session>>

-----------------------------------------------------------------------------
(* dialAndHeartbeat. *)

\* The certificates are loaded again for every dial.
DialOk ==
  /\ pc = "dial"
  /\ ~ctxDone
  /\ Resolved
  /\ pc' = "session"
  /\ org' = active
  /\ conn' = "open"
  /\ healthy' = FALSE
  /\ acked' = {}
  /\ slot' = NoReason
  /\ burst' = burst + 1
  /\ meddled' = FALSE
  /\ UNCHANGED <<disk, env, backoff, usedFree, revokeAcked, others, told, cause, removal>>

DialFails ==
  /\ pc = "dial"
  /\ FailAndSleep
  /\ burst' = burst + 1
  /\ UNCHANGED <<disk, env, org, session, verdict>>

DialSkew ==
  /\ pc = "dial"
  /\ ~ctxDone
  /\ Resolved
  /\ pc' = "dormant"
  /\ told' = "skew"
  /\ UNCHANGED <<disk, env, org, ladder, session, others, cause, meddled, removal>>

\* A second passes with the connection up.
SessionLives ==
  /\ pc = "session"
  /\ conn = "open"
  /\ healthy' = TRUE
  /\ UNCHANGED <<disk, env, pc, org, ladder, conn, acked, slot, revokeAcked, verdict>>

\* handleControl up to the flush: the relay has its 204, nobody else knows yet.
ControlAck(r) ==
  /\ pc = "session"
  /\ conn = "open"
  /\ r = "revoked" => org \in dead
  /\ acked' = acked \cup {r}
  /\ revokeAcked' = IF r = "revoked" THEN revokeAcked \cup {org} ELSE revokeAcked
  /\ UNCHANGED <<disk, env, pc, org, ladder, conn, healthy, slot, verdict>>

\* The rest of handleControl: a full channel drops the frame.
ControlPush(r) ==
  /\ pc = "session"
  /\ r \in acked
  /\ acked' = acked \ {r}
  /\ slot' = IF slot = NoReason THEN r ELSE slot
  /\ UNCHANGED <<disk, env, pc, org, ladder, conn, healthy, revokeAcked, verdict>>

\* Mutant: nothing closes the connection of a cancelled context.
ConnClosesUnwatched ==
  /\ pc = "session"
  /\ conn = "open"
  /\ ~ctxDone
  /\ conn' = "closed"
  /\ UNCHANGED <<disk, env, pc, org, ladder, healthy, acked, slot, revokeAcked, verdict>>

\* The relay or the network ends the connection, or the context watcher does, or
\* the renewLoop of a session whose clock is off.
ConnCloses ==
  /\ pc = "session"
  /\ conn = "open"
  /\ conn' = "closed"
  /\ UNCHANGED <<disk, env, pc, org, ladder, healthy, acked, slot, revokeAcked, verdict>>

\* renewLoop: a dead credential drops the session, and Run decides.
RenewLoopDrops ==
  /\ pc = "session"
  /\ conn = "open"
  /\ active \in have \cap dead
  /\ conn' = "closed"
  /\ UNCHANGED <<disk, env, pc, org, ladder, healthy, acked, slot, revokeAcked, verdict>>

\* dialAndHeartbeat returns, and the session with its channel is gone.
EndSession ==
  /\ org' = NoOrg
  /\ conn' = "none"
  /\ healthy' = FALSE
  /\ acked' = {}
  /\ slot' = NoReason

\* ServeConn returned: a rejection is seen only if it is in the channel now.
SessionCancelled ==
  /\ pc = "session"
  /\ conn = "closed"
  /\ ctxDone
  /\ pc' = "returned"
  /\ EndSession
  /\ UNCHANGED <<disk, env, ladder, revokeAcked, verdict>>

SessionRejected ==
  /\ pc = "session"
  /\ conn = "closed"
  /\ ~ctxDone
  /\ slot # NoReason
  /\ EndSession
  /\ usedFree' = FALSE
  /\ CASE slot = "draining" ->
            /\ pc' = "sleep"
            /\ backoff' = NextBackoff(backoff)
            /\ UNCHANGED <<told, cause>>
       [] slot = "revoked" ->
            /\ pc' = "settle"
            /\ told' = "revoked"
            /\ cause' = org
            /\ UNCHANGED backoff
       [] OTHER ->
            /\ pc' = "dormant"
            /\ told' = "ended"
            /\ UNCHANGED <<backoff, cause>>
  /\ UNCHANGED <<disk, env, burst, revokeAcked, others, meddled, removal>>

SessionClosed ==
  LET retry == SessionRetry(backoff, healthy, usedFree) IN
  /\ pc = "session"
  /\ conn = "closed"
  /\ ~ctxDone
  /\ slot = NoReason
  /\ EndSession
  /\ backoff' = retry.next
  /\ usedFree' = retry.free
  /\ pc' = IF retry.immediate THEN "loop" ELSE "sleep"
  /\ burst' = IF healthy THEN 0 ELSE burst
  /\ UNCHANGED <<disk, env, revokeAcked, verdict>>

\* The wait between two attempts, which the context cuts short.
Sleep ==
  /\ pc = "sleep"
  /\ pc' = IF ctxDone THEN "returned" ELSE "loop"
  /\ burst' = 0
  /\ UNCHANGED <<disk, env, org, backoff, usedFree, session, verdict>>

-----------------------------------------------------------------------------
(* settleRejection("revoked") and settleDeadCredential. *)

\* Both functions read the pointer and drop the error; `unread` tells.
CountOthers ==
  /\ pc = "settle"
  /\ others' = (have \ {active} # {})
  /\ pc' = "remove"
  /\ UNCHANGED <<disk, env, org, ladder, session, told, cause, meddled, removal>>

\* Without the pointer every organization is another one, and without the list
\* there is none.
CountMisses ==
  /\ pc = "settle"
  /\ others' \in {have # {}, FALSE}
  /\ unread' = unread \cup {"count"}
  /\ pc' = "remove"
  /\ UNCHANGED <<disk, env, org, ladder, session, told, cause, meddled, botched, doomed>>

\* What settling logs, from what it counted before the removal.
Message == IF ~others THEN told ELSE IF told = "revoked" THEN "revokedOrg" ELSE "deadOrg"

Settled ==
  /\ pc' = "dormant"
  /\ told' = Message
  /\ doomed' = NoOrg
  /\ UNCHANGED <<env, org, ladder, session, others, cause, meddled>>

\* removeActiveCredentials takes what is selected now. With none selected there
\* is nothing to resolve either, and only the (absent) flat files are cleared.
RemoveActive ==
  /\ pc = "remove"
  /\ active # NoOrg
  /\ doomed' = active
  /\ pc' = "delete"
  /\ UNCHANGED <<disk, env, org, ladder, session, others, told, cause, meddled, botched, unread>>

RemoveNothing ==
  /\ pc = "remove"
  /\ active = NoOrg
  /\ Settled
  /\ UNCHANGED <<disk, botched, unread>>

\* The pointer could not be read, and again not by ResolveActiveDir, which else
\* finds what is selected: the flat files are cleared, and no line says so.
RemoveMisses ==
  /\ pc = "remove"
  /\ unread' = unread \cup {"remove"}
  /\ Settled
  /\ UNCHANGED <<disk, botched>>

\* RemoveOrg tries every file; whatever fails, it goes on to the pointer, and the
\* first error is logged at its end.
DeleteFiles ==
  /\ pc = "delete"
  /\ have' = have \ {doomed}
  /\ botched' \in {botched, TRUE}
  /\ pc' = "pointer"
  /\ UNCHANGED <<active, env, org, ladder, session, others, told, cause, meddled, doomed, unread>>

\* Mutant: a deletion that fails is not logged.
FilesStaySilently ==
  /\ pc = "delete"
  /\ pc' = "pointer"
  /\ UNCHANGED <<disk, env, org, ladder, session, others, told, cause, meddled, removal>>

FilesStay ==
  /\ pc = "delete"
  /\ botched' = TRUE
  /\ pc' = "pointer"
  /\ UNCHANGED <<disk, env, org, ladder, session, others, told, cause, meddled, doomed, unread>>

Selected ==
  /\ pc = "pointer"
  /\ active = doomed
  /\ pc' = "clear"
  /\ UNCHANGED <<disk, env, org, ladder, session, others, told, cause, meddled, removal>>

NotSelected ==
  /\ pc = "pointer"
  /\ active # doomed
  /\ Settled
  /\ UNCHANGED <<disk, botched, unread>>

PointerUnread ==
  /\ pc = "pointer"
  /\ unread' = unread \cup {"remove"}
  /\ Settled
  /\ UNCHANGED <<disk, botched>>

\* Whatever the pointer names by now.
ClearPointer ==
  /\ pc = "clear"
  /\ active' = NoOrg
  /\ Settled
  /\ UNCHANGED <<have, botched, unread>>

PointerStays ==
  /\ pc = "clear"
  /\ botched' = TRUE
  /\ Settled
  /\ UNCHANGED <<disk, unread>>

\* Every terminal state waits for the context.
Dormant ==
  /\ pc = "dormant"
  /\ ctxDone
  /\ pc' = "returned"
  /\ UNCHANGED <<disk, env, org, ladder, session, verdict>>

-----------------------------------------------------------------------------
(* The environment. *)

Cancel ==
  /\ ~ctxDone
  /\ ctxDone' = TRUE
  /\ UNCHANGED <<disk, dead, pinned, pc, org, ladder, session, verdict>>

\* The dashboard revokes an agent, or its renewal token expires.
Revoke(o) ==
  /\ o \in have \ dead
  /\ dead' = dead \cup {o}
  /\ UNCHANGED <<disk, ctxDone, pinned, pc, org, ladder, session, verdict>>

\* `agent switch`, `agent unenroll` and `agent enroll` in another process. Of the
\* organizations it listed, one may have gone since.
CLISwitch(o) ==
  /\ o \in have \/ o = doomed
  /\ active' = o
  /\ meddled' = TRUE
  /\ UNCHANGED <<have, env, pc, org, ladder, session, others, told, cause, removal>>

\* The pointer is cleared after the files went, or stays.
CLIUnenroll(o) ==
  /\ o \in have
  /\ have' = have \ {o}
  /\ dead' = dead \cup {o}
  /\ active' \in IF active = o THEN {active, NoOrg} ELSE {active}
  /\ meddled' = TRUE
  /\ UNCHANGED <<ctxDone, pinned, pc, org, ladder, session, others, told, cause, removal>>

CLIClears ==
  /\ active \in Orgs \ have
  /\ active' = NoOrg
  /\ meddled' = TRUE
  /\ UNCHANGED <<have, env, pc, org, ladder, session, others, told, cause, removal>>

\* An organization this machine was not enrolled in before.
CLIEnroll(o) ==
  /\ o \notin have \cup dead
  /\ have' = have \cup {o}
  /\ active' = o
  /\ meddled' = TRUE
  /\ UNCHANGED <<env, pc, org, ladder, session, others, told, cause, removal>>

\* Run returned, or failed and is not restarted: the process is gone and nothing
\* has to happen any more.
Terminated ==
  /\ pc = "returned" \/ (pc = "failed" /\ ctxDone)
  /\ UNCHANGED vars

-----------------------------------------------------------------------------
SettleStep ==
  \/ CountOthers \/ CountMisses
  \/ RemoveActive \/ RemoveNothing \/ RemoveMisses \/ DeleteFiles \/ FilesStay
  \/ Selected \/ NotSelected \/ PointerUnread \/ ClearPointer \/ PointerStays

RunStep ==
  \/ Start \/ LoopTop
  \/ RenewPasses \/ RenewDead \/ RenewSkew
  \/ PlaceSkipped \/ Placed \/ PlaceFails \/ PlaceDead
  \/ DialOk \/ DialFails \/ DialSkew
  \/ SessionCancelled \/ SessionRejected \/ SessionClosed
  \/ Sleep \/ SettleStep \/ Dormant

SessionStep ==
  \/ SessionLives
  \/ \E r \in Reasons : ControlAck(r) \/ ControlPush(r)
  \/ ConnCloses
  \/ RenewLoopDrops
  \/ ClearStale

\* A settled Run only waits for its context, and once it has returned nothing
\* that happens concerns it.
EnvStep ==
  \/ pc # "returned" /\ Cancel
  \/ /\ pc \notin {"dormant", "returned"}
     /\ \/ Restart
        \/ CLIClears
        \/ \E o \in Orgs : Revoke(o) \/ CLISwitch(o) \/ CLIUnenroll(o) \/ CLIEnroll(o)

Next == RunStep \/ SessionStep \/ EnvStep \/ Terminated

Spec == Init /\ [][Next]_vars

\* Run itself always goes on: its calls have timeouts and its waits are timers.
\* The watcher closes the connection of a cancelled context. A dead credential
\* is reported by the renewals that keep being attempted: in the loop, by
\* placement, and inside a session every RenewInterval.
Fairness ==
  /\ WF_vars(RunStep)
  /\ WF_vars(ctxDone /\ ConnCloses)
  /\ SF_vars(RenewDead)
  /\ SF_vars(PlaceDead)
  /\ WF_vars(RenewLoopDrops)

FairSpec == Spec /\ Fairness

-----------------------------------------------------------------------------
(* Properties. *)

\* The variables hold values of their kinds; the backoff stays on its ladder.
TypeOK ==
  /\ have \subseteq Orgs
  /\ active \in Orgs \cup {NoOrg}
  /\ dead \subseteq Orgs
  /\ ctxDone \in BOOLEAN /\ pinned \in BOOLEAN
  /\ pc \in PC
  /\ org \in Orgs \cup {NoOrg}
  /\ backoff \in 0 .. MaxBackoff
  /\ usedFree \in BOOLEAN
  /\ conn \in {"none", "open", "closed"}
  /\ healthy \in BOOLEAN
  /\ acked \subseteq Reasons
  /\ slot \in Reasons \cup {NoReason}
  /\ others \in BOOLEAN
  /\ told \in Told
  /\ cause \in Orgs \cup {NoOrg}
  /\ burst \in Nat
  /\ revokeAcked \subseteq Orgs
  /\ meddled \in BOOLEAN
  /\ botched \in BOOLEAN
  /\ doomed \in Orgs \cup {NoOrg}
  /\ unread \subseteq {"count", "remove"}

\* Run never dials three times without either waiting or having had a session
\* that lived: the free retry of nextSessionRetry cannot be earned twice in a
\* row, whatever mixture of short sessions, refused dials, failed placements
\* and drains happens.
NoRetryStorm == burst <= 2

\* The ladder only goes back to zero after a healthy session: draining, failed
\* dials and short sessions never make the next wait shorter.
LadderKept == [][backoff' >= backoff \/ (pc = "session" /\ healthy)]_vars

\* As long as no other process writes to the store between the moment Run last
\* read it - at the top of the loop or for a dial - and the removal, which may be
\* a long session later, only the credentials of an organization the service
\* refuses for good (or that the user just revoked with `unenroll`) are taken
\* off the disk, and only its selection is: draining, an unknown reason, a clock
\* that is off, and every transient error keep them.
UndisturbedRemoval ==
  [][~meddled => /\ \A o \in have \ have' : o \in dead'
                 /\ active # NoOrg /\ active' = NoOrg => active \in dead']_vars

\* Then, too, what Run logged when it settled is true: the organization the
\* verdict was about is gone and not selected any more, unless the line before
\* said that it could not be removed; and other organizations are named exactly
\* if there are any. What alone makes the line untrue is an error of reading the
\* store, which removeActiveCredentials and countOtherOrgs drop.
RemovedAsTold ==
  ~meddled /\ pc = "dormant" /\ told \in {"revoked", "revokedOrg", "dead", "deadOrg"}
    => /\ (cause \notin have /\ active # cause) \/ botched \/ "remove" \in unread
       /\ (told \in {"revokedOrg", "deadOrg"} <=> have \ {cause} # {}) \/ "count" \in unread

\* Once the relay has its answer to a revocation, the agent does not dial for
\* that organization again, also if the reason never reached Run - the channel
\* was full, or the connection ended first: placement refuses it. With --relay
\* there is no placement, and nothing between the lost reason and the next dial.
RevokedNeverRedials ==
  pc = "dial" /\ ~pinned /\ ~meddled => active \notin revokeAcked

Stopped == pc \in {"dormant", "returned", "failed"}

\* A cancelled context ends Run from wherever it is: a session, a wait, a call.
CancelReturns == ctxDone ~> pc \in {"returned", "failed"}

\* An agent whose selected credential is refused for good ends up settled
\* instead of retrying for ever, unless the user selects another organization or
\* removes it.
DeadAgentStops ==
  (pc = "loop" /\ active \in have \cap dead) ~> (Stopped \/ active \notin have \cap dead)
=============================================================================
