----------------------------- MODULE TokenRenewal -----------------------------
(***************************************************************************)
(* Renewal of one organization's certificate with a rotating token:        *)
(* enroll.MaybeRenew, the bundle writer of mtls.WriteClientDir, and the    *)
(* two places of internal/connect that renew - the loop of Run and the     *)
(* renewLoop goroutine of each session, which Run does not wait for.       *)
(*                                                                         *)
(* The enrollment worker is external: each renewal answers with the next   *)
(* token; a token that was already used is reuse, which revokes the chain; *)
(* a read (placement) with such a token is refused.                        *)
(*                                                                         *)
(* Abstraction: a file holds the number of the renewal it came from. The   *)
(* private key never changes; its number says which renewal rewrote it.    *)
(***************************************************************************)
EXTENDS Naturals, Sequences

CONSTANTS
  Main,      \* the renewer in the loop of Run
  Loops,     \* renewLoop goroutines that may exist at the same time
  None,      \* no session loop; no token in the file
  Absent,    \* the file does not exist
  Torn,      \* the file was truncated and not written
  MaxGen     \* bound: tokens the worker issues

ASSUME RenewalAssumption ==
  /\ MaxGen \in Nat
  /\ Main \notin Loops
  /\ None \notin Loops \cup Nat
  /\ Absent \notin Nat
  /\ Torn \notin Nat
  /\ Absent # Torn

Renewers == Loops \cup {Main}
Gen == 0 .. MaxGen
FileName == {"tok", "ca", "crt", "key"}

\* Mutants: the token is written last, or not at all.
WriteOrderTokenLast == <<"ca", "crt", "key", "tok">>
WriteOrderNoToken == <<"ca", "crt", "key">>

\* The order of WriteClientDir: the token before the certificates.
WriteOrder == <<"tok", "ca", "crt", "key">>

VARIABLES
  file,    \* the bundle on disk
  dir,     \* the organization directory exists
  cur,     \* worker: number of the newest token
  chain,   \* worker: "good", "reused" or "revoked"
  aged,    \* certificates below this number are past the half of their life
  run,     \* where Run is
  live,    \* the renewLoop of the current session
  step,    \* where each renewer is
  tok,     \* the token a renewer read from disk and presents
  out,     \* the number of the bundle a renewer was given
  idx,     \* position of a renewer in WriteOrder
  mishaps  \* history: what has gone wrong so far

disk == <<file, dir>>
outside == <<cur, chain, aged, mishaps>>
local == <<tok, out, idx>>
vars == <<file, dir, cur, chain, aged, run, live, step, tok, out, idx, mishaps>>

\* A session ended during its renewal, or its renewLoop took one more tick after
\* it; an answer of the worker was lost; the process was killed; a write failed;
\* a removal failed.
Mishap == {"overlap", "loss", "crash", "disk", "kept"}

Content == Gen \cup {Absent, Torn}
Step == {"off", "idle", "load", "sent", "answered", "write", "writing", "refused"}

\* LoadClientDir: the token may be missing, the other three must parse.
Loadable == dir /\ \A f \in FileName \ {"tok"} : file[f] \in Gen

\* ShouldRenew of the certificate on disk.
Due == file["crt"] \in Gen /\ file["crt"] < aged

TokenOnDisk == IF file["tok"] \in Gen THEN file["tok"] ELSE None

Init ==
  /\ file \in {[f \in FileName |-> 0],
               [f \in FileName |-> IF f = "tok" THEN Absent ELSE 0]}
  /\ dir = TRUE
  /\ cur = 0
  /\ chain = "good"
  /\ aged \in {0, 1} \cap 0 .. MaxGen
  /\ run = "down"
  /\ live = None
  /\ step = [r \in Renewers |-> "off"]
  /\ tok = [r \in Renewers |-> None]
  /\ out = [r \in Renewers |-> 0]
  /\ idx = [r \in Renewers |-> 1]
  /\ mishaps = {}

-----------------------------------------------------------------------------
(* Run, around the renewals. *)

\* The store must resolve once; then every iteration begins with a renewal.
StartRun ==
  /\ run = "down"
  /\ Loadable
  /\ run' = "renew"
  /\ step' = [step EXCEPT ![Main] = "load"]
  /\ UNCHANGED <<disk, outside, live, local>>

\* Nothing loads: Run returns an error each time the service is started.
StartFails ==
  /\ run = "down"
  /\ ~Loadable
  /\ UNCHANGED vars

\* Placement answers; then the dial, and the session starts its renewLoop.
SessionStarts(l) ==
  /\ run = "place"
  /\ Loadable
  /\ TokenOnDisk = cur
  /\ chain = "good"
  /\ step[l] = "off"
  /\ run' = "session"
  /\ live' = l
  /\ step' = [step EXCEPT ![l] = "idle"]
  /\ UNCHANGED <<disk, outside, local>>

\* Placement was told that the credential is dead.
PlaceDead ==
  /\ run = "place"
  /\ Loadable
  /\ TokenOnDisk # None
  /\ TokenOnDisk # cur \/ chain # "good"
  /\ run' = "settle"
  /\ UNCHANGED <<disk, outside, live, step, local>>

\* Nothing to present or to load, the network, a refused dial: wait, go on.
PlaceFails ==
  /\ run = "place"
  /\ run' = "renew"
  /\ step' = [step EXCEPT ![Main] = "load"]
  /\ UNCHANGED <<disk, outside, live, local>>

\* The connection ends; the renewal in flight, if any, is left to itself. An
\* idle renewLoop may still take a tick that is ready instead of the cancelled
\* context: select chooses among the two at random.
SessionEnds ==
  /\ run = "session"
  /\ \E s \in IF step[live] = "idle" THEN {"off", "load"} ELSE {step[live]} :
       /\ mishaps' = IF s = "off" THEN mishaps ELSE mishaps \cup {"overlap"}
       /\ step' = [step EXCEPT ![Main] = "load", ![live] = s]
  /\ run' = "renew"
  /\ live' = None
  /\ UNCHANGED <<disk, cur, chain, aged, local>>

\* Mutant: only the token is removed.
SettleTokenOnly ==
  /\ run = "settle"
  /\ file' = [file EXCEPT !["tok"] = Absent]
  /\ run' = "settled"
  /\ UNCHANGED <<dir, outside, live, step, local>>

\* settleDeadCredential removes the organization (file by file in CertStore).
Settle ==
  /\ run = "settle"
  /\ file' = [f \in FileName |-> Absent]
  /\ dir' = FALSE
  /\ run' = "settled"
  /\ UNCHANGED <<outside, live, step, local>>

\* Some files cannot be removed, or the selection cannot be read and the removal
\* finds nothing to do: at most that is logged, and Run settles all the same.
SettleFails ==
  /\ run = "settle"
  /\ \E kept \in SUBSET FileName :
       file' = [f \in FileName |-> IF f \in kept THEN file[f] ELSE Absent]
  /\ mishaps' = mishaps \cup {"kept"}
  /\ run' = "settled"
  /\ UNCHANGED <<dir, cur, chain, aged, live, step, local>>

\* A settled Run waits until the service is stopped.
Settled ==
  /\ run = "settled"
  /\ UNCHANGED vars

-----------------------------------------------------------------------------
(* One renewal. *)

\* MaybeRenew returns without a terminal error.
Finish(r) ==
  /\ run' = IF r = Main THEN "place" ELSE run
  /\ step' = [step EXCEPT ![r] = IF r # Main /\ live = r THEN "idle" ELSE "off"]
  /\ live' = live

\* A tick of the renew timer, or a wake-up of the machine.
Tick(l) ==
  /\ run = "session"
  /\ live = l
  /\ step[l] = "idle"
  /\ step' = [step EXCEPT ![l] = "load"]
  /\ UNCHANGED <<disk, outside, run, live, local>>

\* Mutant: a bundle without a token is never renewed.
LoadDueWithToken(r) ==
  /\ step[r] = "load"
  /\ Loadable
  /\ Due
  /\ TokenOnDisk # None
  /\ tok' = [tok EXCEPT ![r] = TokenOnDisk]
  /\ step' = [step EXCEPT ![r] = "sent"]
  /\ UNCHANGED <<disk, outside, run, live, out, idx>>

LoadDue(r) ==
  /\ step[r] = "load"
  /\ Loadable
  /\ Due
  /\ tok' = [tok EXCEPT ![r] = TokenOnDisk]
  /\ step' = [step EXCEPT ![r] = "sent"]
  /\ UNCHANGED <<disk, outside, run, live, out, idx>>

LoadSkips(r) ==
  /\ step[r] = "load"
  /\ ~(Loadable /\ Due)
  /\ Finish(r)
  /\ UNCHANGED <<disk, outside, local>>

\* The request does not reach the worker, or is rate limited.
RequestFails(r) ==
  /\ step[r] = "sent"
  /\ Finish(r)
  /\ UNCHANGED <<disk, outside, local>>

\* The worker accepts the newest token, and a bare certificate without one.
Rotate(r) ==
  /\ step[r] = "sent"
  /\ chain = "good"
  /\ tok[r] \in {cur, None}
  /\ cur < MaxGen
  /\ cur' = cur + 1
  /\ out' = [out EXCEPT ![r] = cur + 1]
  /\ step' = [step EXCEPT ![r] = "answered"]
  /\ UNCHANGED <<disk, chain, aged, mishaps, run, live, tok, idx>>

\* A token that was used before: the worker revokes the whole chain.
Reuse(r) ==
  /\ step[r] = "sent"
  /\ chain = "good"
  /\ tok[r] \notin {cur, None}
  /\ chain' = "reused"
  /\ step' = [step EXCEPT ![r] = "refused"]
  /\ UNCHANGED <<disk, cur, aged, mishaps, run, live, local>>

RefuseDead(r) ==
  /\ step[r] = "sent"
  /\ chain # "good"
  /\ step' = [step EXCEPT ![r] = "refused"]
  /\ UNCHANGED <<disk, outside, run, live, local>>

\* The connection breaks after the worker rotated: only the client knows less.
ResponseLost(r) ==
  /\ step[r] = "answered"
  /\ mishaps' = mishaps \cup {"loss"}
  /\ Finish(r)
  /\ UNCHANGED <<disk, cur, chain, aged, local>>

\* WriteBundle starts: MkdirAll of the organization directory.
Receive(r) ==
  /\ step[r] = "answered"
  /\ dir' = TRUE
  /\ idx' = [idx EXCEPT ![r] = 1]
  /\ step' = [step EXCEPT ![r] = "write"]
  /\ UNCHANGED <<file, outside, run, live, tok, out>>

\* os.WriteFile truncates, then writes.
WriteFile(r) ==
  /\ step[r] = "write"
  /\ dir
  /\ file' = [file EXCEPT ![WriteOrder[idx[r]]] = Torn]
  /\ step' = [step EXCEPT ![r] = "writing"]
  /\ UNCHANGED <<dir, outside, run, live, local>>

\* The file cannot be opened: the directory is gone, or a disk error.
OpenFails(r) ==
  /\ step[r] = "write"
  /\ mishaps' = IF dir THEN mishaps \cup {"disk"} ELSE mishaps
  /\ Finish(r)
  /\ UNCHANGED <<disk, cur, chain, aged, local>>

\* An unlinked file is written through its descriptor and stays absent.
WriteFileDone(r) ==
  /\ step[r] = "writing"
  /\ file' = [file EXCEPT ![WriteOrder[idx[r]]] = IF @ = Absent THEN Absent ELSE out[r]]
  /\ IF idx[r] < Len(WriteOrder)
     THEN /\ idx' = [idx EXCEPT ![r] = @ + 1]
          /\ step' = [step EXCEPT ![r] = "write"]
          /\ UNCHANGED <<run, live>>
     ELSE idx' = idx /\ Finish(r)
  /\ UNCHANGED <<dir, outside, tok, out>>

\* The disk is full: the file stays truncated and WriteClientDir gives up.
WriteFails(r) ==
  /\ step[r] = "writing"
  /\ mishaps' = mishaps \cup {"disk"}
  /\ Finish(r)
  /\ UNCHANGED <<disk, cur, chain, aged, local>>

\* A dead credential: Run settles; the renewLoop of the session drops the
\* connection and lets Run find out; one left over has nothing to drop.
Refused(r) ==
  /\ step[r] = "refused"
  /\ run' = IF r = Main THEN "settle" ELSE IF live = r THEN "renew" ELSE run
  /\ live' = IF live = r THEN None ELSE live
  /\ step' = [q \in Renewers |-> IF q = r THEN "off"
                                 ELSE IF q = Main /\ live = r THEN "load" ELSE step[q]]
  /\ UNCHANGED <<disk, outside, local>>

-----------------------------------------------------------------------------
(* The environment. *)

\* Time passes: the newest certificate gets past the half of its life.
Age ==
  /\ aged <= cur
  /\ cur < MaxGen
  /\ aged' = cur + 1
  /\ UNCHANGED <<disk, cur, chain, mishaps, run, live, step, local>>

Revoke ==
  /\ chain = "good"
  /\ chain' = "revoked"
  /\ UNCHANGED <<disk, cur, aged, mishaps, run, live, step, local>>

\* The process is killed; the service is started again later.
Crash ==
  /\ run # "down"
  /\ mishaps' = mishaps \cup {"crash"}
  /\ run' = "down"
  /\ live' = None
  /\ step' = [r \in Renewers |-> "off"]
  /\ UNCHANGED <<disk, cur, chain, aged, local>>

-----------------------------------------------------------------------------
Renew(r) ==
  \/ LoadDue(r) \/ LoadSkips(r)
  \/ RequestFails(r) \/ Rotate(r) \/ Reuse(r) \/ RefuseDead(r)
  \/ ResponseLost(r) \/ Receive(r)
  \/ WriteFile(r) \/ OpenFails(r) \/ WriteFileDone(r) \/ WriteFails(r)
  \/ Refused(r)

RunStep ==
  \/ StartRun
  \/ \E l \in Loops : SessionStarts(l)
  \/ PlaceDead \/ PlaceFails \/ Settle \/ SettleFails

Next ==
  \/ RunStep \/ SessionEnds
  \/ \E r \in Renewers : Renew(r)
  \/ \E l \in Loops : Tick(l)
  \/ Age \/ Revoke \/ Crash
  \/ StartFails \/ Settled

Spec == Init /\ [][Next]_vars

\* The calls of Run and of a renewal return (the client has a timeout), timers
\* fire, a service that was killed is started again (Restart=on-failure), and a
\* request that is tried again and again reaches the worker some time. No session
\* need end.
Fairness ==
  /\ WF_vars(RunStep)
  /\ \A r \in Renewers : WF_vars(Renew(r)) /\ SF_vars(Rotate(r) \/ Reuse(r) \/ RefuseDead(r))
  /\ \A l \in Loops : WF_vars(Tick(l))

FairSpec == Spec /\ Fairness

-----------------------------------------------------------------------------
(* Properties. *)

DiskOK ==
  /\ file \in [FileName -> Content]
  /\ dir \in BOOLEAN
  /\ cur \in Gen
  /\ chain \in {"good", "reused", "revoked"}
  /\ aged \in Gen
  /\ mishaps \subseteq Mishap

RenewersOK ==
  /\ run \in {"down", "renew", "place", "session", "settle", "settled"}
  /\ live \in Loops \cup {None}
  /\ step \in [Renewers -> Step]
  /\ tok \in [Renewers -> Gen \cup {None}]
  /\ out \in [Renewers -> Gen]
  /\ idx \in [Renewers -> 1 .. Len(WriteOrder)]

\* Files, worker and renewers hold values of their kinds.
TypeOK == DiskOK /\ RenewersOK

NotBehind ==
  file["tok"] \in Gen /\ file["crt"] \in Gen => file["tok"] >= file["crt"]

\* "New certs, stale token": as long as no session ended during its renewal,
\* the certificate on disk never comes from a later renewal than the token
\* beside it, wherever a renewal is interrupted - an answer lost, the process
\* killed, a write failed (the write order of WriteClientDir).
TokenNotBehind == "overlap" \notin mishaps => NotBehind

\* Run gives up and deletes the credential only when it really was revoked, and
\* never because the agent's own renewals made the worker think so.
SettlesOnlyRevoked ==
  run \in {"settle", "settled"} /\ mishaps = {} => chain = "revoked"

\* Nor does it when sessions end during their renewals: the renewals of the
\* session that ended and of the loop never look like reuse to the worker.
NoReuseByOverlap ==
  run \in {"settle", "settled"} /\ mishaps \subseteq {"overlap"} => chain # "reused"

\* What DeadCredentialUserMessage says stays true: once Run has settled, there
\* is no credential on disk - none that a renewal brought back, wherever renewals
\* were cut short before - unless the removal itself failed or a session ended
\* during its renewal.
SettledIsGone ==
  run = "settled" /\ mishaps \cap {"overlap", "kept"} = {} => ~Loadable

\* When a certificate write failed after the token was written, the next
\* MaybeRenew presents the new token and recovers (the comment in
\* WriteClientDir): with the newest token on disk the bundle must load.
RecoversFromFailedWrite ==
  step[Main] = "load" /\ file["tok"] = cur /\ chain = "good" /\ mishaps = {"disk"}
    => Loadable

\* Once kills cease, a certificate past the half of its life is not left to expire,
\* in a session that lasts for ever as in a loop that never gets to one, whatever
\* answers were lost, writes failed or renewals overlapped: it is replaced, or the
\* worker has ended its chain, or the bundle is torn or deleted, or Run has settled
\* and said so. At the bound of the model the worker has no number left to issue.
RenewalHappens ==
  <>[][~Crash]_vars
    => (Due /\ Loadable /\ chain = "good" /\ cur < MaxGen)
         ~> (~Due \/ ~Loadable \/ chain # "good" \/ run = "settled" \/ cur = MaxGen)
=============================================================================
