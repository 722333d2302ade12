----------------------------- MODULE Enrollments -----------------------------
(***************************************************************************)
(* What the credential store promises to the rest of the agent, without    *)
(* files, directories or a migration: a set of organizations whose         *)
(* credentials can be used, and the one that is selected. One step is      *)
(* about one organization; the selection moves only to one that can be     *)
(* used, or away. A removal may leave it behind for a later step.          *)
(*                                                                         *)
(* CertStore implements it one file operation at a time.                   *)
(***************************************************************************)
CONSTANTS
  Orgs,       \* organization ids
  NoOrg       \* no organization

VARIABLES
  have,       \* organizations whose credentials can be used
  active      \* the selected organization

Init ==
  /\ have \subseteq Orgs
  /\ active \in have \cup {NoOrg}

\* An enrollment is complete, or a migration; it may select its organization.
Put(o) ==
  /\ have' = have \cup {o}
  /\ active' \in {active, o}

\* The credentials of one organization go, perhaps with their selection.
Take(o) ==
  /\ have' = have \ {o}
  /\ active' \in IF active = o THEN {active, NoOrg} ELSE {active}

Select(o) ==
  /\ o \in have
  /\ active' = o
  /\ UNCHANGED have

\* An interrupted selection, or what is left to do after a removal.
Deselect ==
  /\ active' = NoOrg
  /\ UNCHANGED have

Next ==
  \/ \E o \in Orgs : Put(o) \/ Take(o) \/ Select(o)
  \/ Deselect

Spec == Init /\ [][Next]_<<have, active>>
=============================================================================
