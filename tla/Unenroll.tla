------------------------------- MODULE Unenroll -------------------------------
(***************************************************************************)
(* `agent unenroll`: list, choose, confirm, revoke the agent on the        *)
(* server, remove its directory (internal/enroll/unenroll.go), run again   *)
(* and again, while `agent switch`, `agent enroll` and the renewals of     *)
(* `agent connect` go on in other processes.                               *)
(*                                                                         *)
(* Abstraction: an enrollment is a number, 0 when the organization has     *)
(* none that can be loaded; listing, loading, writing and deleting the     *)
(* files of a directory are one step each (CertStore has the files), and   *)
(* so are reading, writing and clearing the pointer. The enrollment worker *)
(* is external: it refuses a token it revoked or that a renewal has        *)
(* superseded.                                                             *)
(***************************************************************************)
EXTENDS Naturals

CONSTANTS
  Orgs,        \* organization ids
  NoOrg,       \* no organization
  MaxGen       \* bound: enrollments of an organization

ASSUME UnenrollAssumption ==
  /\ NoOrg \notin Orgs
  /\ MaxGen \in Nat \ {0}

Gen == 0 .. MaxGen

VARIABLES
  have,       \* the enrollment each organization has on disk, 0 for none
  bare,       \* organizations enrolled without a renewal token
  active,     \* the selected organization
  issued,     \* how often each organization was enrolled on this machine
  revoked,    \* enrollments the worker has revoked
  stale,      \* a renewal rotated the token a running unenroll holds
  pc,         \* where the command is
  query,      \* the organization on the command line, or none
  flags,      \* --yes, --local-only and whether stdin is a terminal
  listed,     \* the organizations it listed
  target,     \* the organization it is about
  token,      \* the enrollment whose token it presents, 0 for none
  result,     \* how the last command ended
  failed,     \* first of RemoveOrg: the deletion of the files met an error
  picked,     \* the organization another command is about to select
  asked,      \* history: the organization the prompt named
  late        \* history: another command wrote since the pointer was read

disk == <<have, bare, active, picked, late>>
worker == <<issued, revoked, stale>>
command == <<query, flags, listed, target, token, failed, asked>>
vars == <<have, bare, active, picked, late, issued, revoked, stale, pc, query, flags,
          listed, target, token, failed, result, asked>>

\* Where the command is. RemoveOrg is at "remove", "pointer" and "clear".
PC == {"idle", "list", "resolve", "deselect", "confirm", "load", "revoke", "remove",
       "pointer", "clear"}
Result == {"none", "ok", "notEnrolled", "noMatch", "needsYes", "cancelled",
           "notLoaded", "noToken", "notRevoked", "notRemoved"}

Enrolled == {o \in Orgs : have[o] # 0}

Init ==
  /\ have \in [Orgs -> 0 .. 1]
  /\ bare \in SUBSET Enrolled
  /\ active \in Enrolled \cup {NoOrg}
  /\ issued = have
  /\ revoked = {}
  /\ stale = FALSE
  /\ pc = "idle"
  /\ query = NoOrg
  /\ flags = {}
  /\ listed = {}
  /\ target = NoOrg
  /\ token = 0
  /\ failed = FALSE
  /\ result = "none"
  /\ picked = NoOrg
  /\ asked = NoOrg
  /\ late = FALSE

-----------------------------------------------------------------------------
(* The command. *)

Goto(l) == pc' = l /\ UNCHANGED result

\* The command prints its outcome and exits; its locals are gone.
Exit(r) ==
  /\ pc' = "idle"
  /\ result' = r
  /\ query' = NoOrg
  /\ flags' = {}
  /\ listed' = {}
  /\ target' = NoOrg
  /\ token' = 0
  /\ failed' = FALSE
  /\ asked' = NoOrg

Begin(q, f) ==
  /\ pc = "idle"
  /\ pc' = "list"
  /\ query' = q
  /\ flags' = f
  /\ result' = "none"
  /\ stale' = FALSE
  /\ UNCHANGED <<disk, issued, revoked, listed, target, token, failed, asked>>

ListOrgs ==
  /\ pc = "list"
  /\ listed' = Enrolled
  /\ Goto("resolve")
  /\ UNCHANGED <<disk, worker, query, flags, target, token, failed, asked>>

\* resolveUnenrollTarget: the query among the listed organizations, or the
\* active one, which is read only now.
Chosen == IF query # NoOrg THEN query ELSE active

ResolveTarget ==
  /\ pc = "resolve"
  /\ Chosen \in listed
  /\ query = NoOrg => active \in Enrolled
  /\ target' = Chosen
  /\ asked' = Chosen
  /\ Goto(IF "yes" \in flags THEN "load" ELSE "confirm")
  /\ UNCHANGED <<disk, worker, query, flags, listed, token, failed>>

\* ResolveActiveDir finds a pointer to a directory that is gone.
ResolveStale ==
  /\ pc = "resolve"
  /\ query = NoOrg
  /\ active \in Orgs \ Enrolled
  /\ late' = FALSE
  /\ Goto("deselect")
  /\ UNCHANGED <<have, bare, active, picked, worker, command>>

\* ... and clears it. An error is ignored.
ClearStale ==
  /\ pc = "deselect"
  /\ active' \in {active, NoOrg}
  /\ Exit("notEnrolled")
  /\ UNCHANGED <<have, bare, picked, late, worker>>

ResolveFails ==
  /\ pc = "resolve"
  /\ ~(Chosen \in listed /\ (query = NoOrg => active \in Enrolled))
  /\ Exit(IF query # NoOrg /\ listed # {} THEN "noMatch" ELSE "notEnrolled")
  /\ UNCHANGED <<disk, worker>>

Confirmed ==
  /\ pc = "confirm"
  /\ "tty" \in flags
  /\ Goto("load")
  /\ UNCHANGED <<disk, worker, command>>

NotConfirmed ==
  /\ pc = "confirm"
  /\ Exit(IF "tty" \in flags THEN "cancelled" ELSE "needsYes")
  /\ UNCHANGED <<disk, worker>>

LocalOnly ==
  /\ pc = "load"
  /\ "localOnly" \in flags
  /\ Goto("remove")
  /\ UNCHANGED <<disk, worker, command>>

LoadToken ==
  /\ pc = "load"
  /\ "localOnly" \notin flags
  /\ target \in Enrolled \ bare
  /\ token' = have[target]
  /\ stale' = FALSE
  /\ Goto("revoke")
  /\ UNCHANGED <<disk, issued, revoked, query, flags, listed, target, failed, asked>>

LoadFails ==
  /\ pc = "load"
  /\ "localOnly" \notin flags
  /\ target \notin Enrolled \ bare
  /\ Exit(IF target \in bare THEN "noToken" ELSE "notLoaded")
  /\ UNCHANGED <<disk, worker>>

Revocable == <<target, token>> \notin revoked /\ ~stale

Revoked ==
  /\ pc = "revoke"
  /\ Revocable
  /\ revoked' = revoked \cup {<<target, token>>}
  /\ Goto("remove")
  /\ UNCHANGED <<disk, issued, stale, command>>

\* The worker has revoked the agent, and its answer does not arrive.
RevokedUnheard ==
  /\ pc = "revoke"
  /\ Revocable
  /\ revoked' = revoked \cup {<<target, token>>}
  /\ Exit("notRevoked")
  /\ UNCHANGED <<disk, issued, stale>>

RevokeRefused ==
  /\ pc = "revoke"
  /\ ~Revocable
  /\ Exit("notRevoked")
  /\ UNCHANGED <<disk, worker>>

\* Mutant: an error of the revocation is only logged.
RevokeUnreachedLogged ==
  /\ pc = "revoke"
  /\ Goto("remove")
  /\ UNCHANGED <<disk, worker, command>>

RevokeUnreached ==
  /\ pc = "revoke"
  /\ Exit("notRevoked")
  /\ UNCHANGED <<disk, worker>>

-----------------------------------------------------------------------------
(* store.RemoveOrg: the files, then the pointer.                           *)

\* Mutant: what is selected now is removed, not what was confirmed.
RemoveSelected ==
  /\ pc = "remove"
  /\ active # NoOrg
  /\ have' = [have EXCEPT ![active] = 0]
  /\ bare' = bare \ {active}
  /\ failed' \in BOOLEAN
  /\ Goto("pointer")
  /\ UNCHANGED <<active, picked, late, worker, query, flags, listed, target, token, asked>>

\* What makes the bundle loadable is deleted; something else may stay.
RemoveFiles ==
  /\ pc = "remove"
  /\ have' = [have EXCEPT ![target] = 0]
  /\ bare' = bare \ {target}
  /\ failed' \in BOOLEAN
  /\ Goto("pointer")
  /\ UNCHANGED <<active, picked, late, worker, query, flags, listed, target, token, asked>>

\* The bundle cannot be deleted; its token may be gone. The pointer is looked at
\* all the same.
FilesStay ==
  /\ pc = "remove"
  /\ bare' \in {bare, bare \cup ({target} \cap Enrolled)}
  /\ failed' = TRUE
  /\ Goto("pointer")
  /\ UNCHANGED <<have, active, picked, late, worker, query, flags, listed, target, token,
                 asked>>

Outcome == IF failed THEN "notRemoved" ELSE "ok"

\* Mutant: the pointer is cleared without a look at whom it names.
SelectedAlways ==
  /\ pc = "pointer"
  /\ late' = FALSE
  /\ Goto("clear")
  /\ UNCHANGED <<have, bare, active, picked, worker, command>>

\* The pointer is read, and names the organization.
Selected ==
  /\ pc = "pointer"
  /\ active = target
  /\ late' = FALSE
  /\ Goto("clear")
  /\ UNCHANGED <<have, bare, active, picked, worker, command>>

NotSelected ==
  /\ pc = "pointer"
  /\ active # target
  /\ Exit(Outcome)
  /\ UNCHANGED <<disk, worker>>

\* It cannot be read: the error is dropped, and it stays.
PointerUnread ==
  /\ pc = "pointer"
  /\ Exit(Outcome)
  /\ UNCHANGED <<disk, worker>>

\* ClearActive deletes the pointer, whatever it names by now.
ClearPointer ==
  /\ pc = "clear"
  /\ active' = NoOrg
  /\ Exit(Outcome)
  /\ UNCHANGED <<have, bare, picked, late, worker>>

PointerStays ==
  /\ pc = "clear"
  /\ Exit("notRemoved")
  /\ UNCHANGED <<disk, worker>>

\* Killed at any point.
Stop ==
  /\ pc # "idle"
  /\ Exit("none")
  /\ UNCHANGED <<disk, worker>>

-----------------------------------------------------------------------------
(* Other processes. *)

\* `agent switch` found the organization among those it listed.
Switch(o) ==
  /\ picked = NoOrg
  /\ o \in Enrolled
  /\ picked' = o
  /\ UNCHANGED <<have, bare, active, late, worker, pc, command, result>>

\* The service renews while unenroll holds the token it loaded.
Renew ==
  /\ pc = "revoke"
  /\ have[target] = token
  /\ <<target, token>> \notin revoked
  /\ stale' = TRUE
  /\ UNCHANGED <<disk, issued, revoked, pc, command, result>>

\* `agent enroll` stores the bundle of an organization, between two runs of
\* unenroll or during one, and has yet to select it.
Reenroll(o) ==
  /\ picked = NoOrg
  /\ issued[o] < MaxGen
  /\ issued' = [issued EXCEPT ![o] = @ + 1]
  /\ have' = [have EXCEPT ![o] = issued[o] + 1]
  /\ bare' = bare \ {o}
  /\ picked' = o
  /\ late' = TRUE
  /\ UNCHANGED <<active, revoked, stale, pc, command, result>>

\* WriteActive of `agent switch` or `agent enroll`.
Select ==
  /\ picked # NoOrg
  /\ active' = picked
  /\ picked' = NoOrg
  /\ late' = TRUE
  /\ UNCHANGED <<have, bare, worker, pc, command, result>>

\* The other command is killed, or the pointer cannot be written.
SelectFails ==
  /\ picked # NoOrg
  /\ picked' = NoOrg
  /\ UNCHANGED <<have, bare, active, late, worker, pc, command, result>>

-----------------------------------------------------------------------------
Command ==
  \/ ListOrgs \/ ResolveTarget \/ ResolveFails \/ ResolveStale \/ ClearStale
  \/ Confirmed \/ NotConfirmed
  \/ LocalOnly \/ LoadToken \/ LoadFails
  \/ Revoked \/ RevokedUnheard \/ RevokeRefused \/ RevokeUnreached
  \/ RemoveFiles \/ FilesStay
  \/ Selected \/ NotSelected \/ PointerUnread
  \/ ClearPointer \/ PointerStays

Next ==
  \/ \E q \in Orgs \cup {NoOrg}, f \in SUBSET {"yes", "localOnly", "tty"} : Begin(q, f)
  \/ Command
  \/ Stop
  \/ Renew \/ Select \/ SelectFails
  \/ \E o \in Orgs : Switch(o) \/ Reenroll(o)

Spec == Init /\ [][Next]_vars

-----------------------------------------------------------------------------
(* Properties. *)

\* Values are of their kinds; past its resolution the command has a target.
TypeOK ==
  /\ have \in [Orgs -> Gen] /\ bare \subseteq Enrolled
  /\ active \in Orgs \cup {NoOrg} /\ issued \in [Orgs -> Gen]
  /\ revoked \subseteq Orgs \X Gen /\ stale \in BOOLEAN
  /\ pc \in PC /\ query \in Orgs \cup {NoOrg}
  /\ flags \subseteq {"yes", "localOnly", "tty"} /\ listed \subseteq Orgs
  /\ target \in (IF pc \in {"idle", "list", "resolve", "deselect"} THEN {NoOrg}
                 ELSE Orgs)
  /\ token \in Gen /\ failed \in BOOLEAN
  /\ result \in Result /\ asked \in Orgs \cup {NoOrg}
  /\ picked \in Orgs \cup {NoOrg} /\ late \in BOOLEAN

\* An unenrollment that deletes a bundle has revoked the agent it was loaded
\* for, unless --local-only: no failure on the way to the worker throws away the
\* credential of a live agent. (An `agent enroll` that ends between the two is
\* deleted as well, and only the agent before it is revoked.)
RemovesRevoked ==
  [][\A o \in Orgs :
       have[o] # 0 /\ have'[o] = 0 /\ "localOnly" \notin flags
         => <<o, token>> \in revoked]_vars

\* Only the organization the prompt named is removed, whatever is selected
\* between the prompt and the removal; and an unenrollment that reports success
\* does not leave it selected, unless the pointer could not be read.
RemovesConfirmed ==
  [][/\ \A o \in Orgs : have[o] # 0 /\ have'[o] = 0 => o = asked
     /\ pc # "idle" /\ result' = "ok" /\ ~PointerUnread => active' # target]_vars

\* unenroll leaves the selection of every other enrolled organization alone,
\* also one made between its prompt and its removal: it is only lost if another
\* command wrote it after the pointer was read and before it is cleared.
SelectionKept ==
  [][(active \in Enrolled /\ active' = NoOrg) => (active = asked \/ late)]_vars
=============================================================================
