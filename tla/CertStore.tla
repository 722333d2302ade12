------------------------------ MODULE CertStore ------------------------------
(***************************************************************************)
(* The credential store of the agent: a root directory with one directory  *)
(* per organization, the `active` pointer, and the layout migration that   *)
(* moves an old flat store into <org_id>/ (internal/store/layout.go,       *)
(* store.go, and the bundle writer of internal/mtls/client.go).            *)
(*                                                                         *)
(* Every file operation of the code is one step, so that a process may be  *)
(* stopped between any two of them (a crash, a kill, or an I/O error that  *)
(* makes the function return), and so that several processes - the         *)
(* `connect` service and the command line - interleave: there is no lock.  *)
(*                                                                         *)
(* Abstraction: a file holds an identity (which enrollment it belongs to), *)
(* is Absent, or is Torn (opened with O_TRUNC and not yet written).        *)
(***************************************************************************)
EXTENDS Naturals, Sequences, FiniteSets

CONSTANTS
  Orgs,       \* organization ids
  Procs,      \* processes that use the store at the same time
  Root,       \* the place of the flat files, next to the org directories
  NoOrg,      \* no organization: empty or missing `active`
  Absent,     \* the file does not exist
  Torn,       \* the file exists and is empty or cut short
  MaxGen,     \* bound: how many enrollments happen after the initial state
  RenameMayFail, \* rename(2) may fail, and then moveIfExists copies
  Stubborn      \* bound: the names of files whose deletion may be refused

ASSUME StoreAssumption ==
  /\ MaxGen \in Nat
  /\ RenameMayFail \in BOOLEAN
  /\ Root \notin Orgs \cup {NoOrg}
  /\ NoOrg \notin Orgs

Identity == [org: Orgs, gen: 0 .. MaxGen]

ASSUME FileAssumption ==
  /\ Absent \notin Identity
  /\ Torn \notin Identity
  /\ Absent # Torn

Place == Orgs \cup {Root}

\* `legacy` is system-info.json in the parent of the root.
FileName == {"key", "crt", "tok", "ca", "meta", "sysinfo", "legacy"}

\* The order of migrateFlat, and the name each file gets in the org directory.
MoveOrder == <<"key", "crt", "tok", "ca", "meta", "sysinfo", "legacy">>
MovedName(f) == IF f = "legacy" THEN "sysinfo" ELSE f

\* Mutant: the token is written after the certificates.
WriteOrderTokenLast == <<"ca", "crt", "key", "tok", "meta">>

\* The order of WriteClientDir, then WriteOrgMeta.
WriteOrder == <<"tok", "ca", "crt", "key", "meta">>

\* Mutant: the key is deleted after the certificates.
ClearOrderKeyLast == <<"crt", "tok", "ca", "key", "meta", "sysinfo">>

\* The order of ClearOrgDir: EnrollmentFiles, then org.json, system-info.json.
ClearOrder == <<"key", "crt", "tok", "ca", "meta", "sysinfo">>

VARIABLES
  file,     \* what each file of each place holds
  dirs,     \* the organization directories that exist
  active,   \* content of the `active` file
  marker,   \* whether `.migrating` exists
  issued,   \* enrollments issued so far (the newest generation)
  pc,       \* where each process is
  cmd,      \* the command a process runs
  target,   \* the organization of that command
  mig,      \* the organization a process is migrating into, or NoOrg
  idx,      \* position of a process in MoveOrder, WriteOrder or ClearOrder
  buf,      \* content a process holds in memory: a copy, or a new identity
  bare,     \* history: organizations whose token was kept for a bundle without one
  refused,  \* history: organizations whose key could not be deleted
  halted    \* history: processes whose last command was cut by a crash or a disk error

store == <<file, dirs, active, marker, issued>>
procs == <<pc, cmd, target, mig, idx, buf>>
history == <<bare, refused, halted>>
vars == <<file, dirs, active, marker, issued, pc, cmd, target, mig, idx, buf,
          bare, refused, halted>>

Content == Identity \cup {Absent, Torn}
Command == {"resolve", "enroll", "switch", "remove"}
PC == {"idle", "ensure", "flat", "mark", "discover", "move", "copy", "unlink", "meta",
       "newmeta", "activate", "activating", "unmark", "body", "write",
       "writing", "delete", "rmdir", "unselect", "clear"}

-----------------------------------------------------------------------------
(* What the code reads from the store. *)

IsFlatStore == file[Root]["key"] # Absent

\* LoadClientDir: CA, certificate and key must parse; the token is optional.
Loadable(o) == \A f \in {"ca", "crt", "key"} : file[o][f] \in Identity

\* Mutant: only the root certificate is asked, which may have moved already.
DiscoverOrgAtRoot ==
  IF file[Root]["crt"] \in Identity THEN file[Root]["crt"].org ELSE NoOrg

\* discoverMigrationOrgID: the root certificate, else the only organization
\* that the certificates of the subdirectories name.
DiscoverOrg ==
  LET named == {file[o]["crt"].org : o \in {d \in dirs : file[d]["crt"] \in Identity}}
  IN  IF file[Root]["crt"] \in Identity THEN file[Root]["crt"].org
      ELSE IF \E o \in Orgs : named = {o} THEN CHOOSE o \in Orgs : named = {o}
      ELSE NoOrg

\* The organization directory a process is writing into.
Dest(p) == IF mig[p] # NoOrg THEN mig[p] ELSE target[p]

-----------------------------------------------------------------------------
(* Initial stores: empty, flat (written by a release that knew one org), or *)
(* already one directory per org.                                           *)

Files(S, o) == [f \in FileName |-> IF f \in S THEN [org |-> o, gen |-> 0] ELSE Absent]
Bundle == {"key", "crt", "ca"}

EmptyStore ==
  /\ file = [d \in Place |-> Files({}, d)]
  /\ dirs = {}
  /\ active = NoOrg

FlatStore ==
  \E o \in Orgs, extra \in {{}, {"tok"}, {"tok", "legacy"}} :
    /\ file = [d \in Place |-> IF d = Root THEN Files(Bundle \cup extra, o) ELSE Files({}, d)]
    /\ dirs = {}
    /\ active = NoOrg

OrgStore ==
  \E S \in SUBSET Orgs \ {{}} :
    /\ file = [d \in Place |-> IF d \in S THEN Files(Bundle \cup {"tok", "meta"}, d)
                                          ELSE Files({}, d)]
    /\ dirs = S
    /\ active \in S \cup {NoOrg}

Init ==
  /\ EmptyStore \/ FlatStore \/ OrgStore
  /\ marker = FALSE
  /\ issued = 0
  /\ pc = [p \in Procs |-> "idle"]
  /\ cmd = [p \in Procs |-> "resolve"]
  /\ target = [p \in Procs |-> NoOrg]
  /\ mig = [p \in Procs |-> NoOrg]
  /\ idx = [p \in Procs |-> 1]
  /\ buf = [p \in Procs |-> Absent]
  /\ bare = {}
  /\ refused = {}
  /\ halted = {}

-----------------------------------------------------------------------------
(* Process bookkeeping. *)

Goto(p, l) == pc' = [pc EXCEPT ![p] = l]

\* The function returns, with or without an error, and its locals are gone.
Return(p) ==
  /\ Goto(p, "idle")
  /\ cmd' = [cmd EXCEPT ![p] = "resolve"]
  /\ target' = [target EXCEPT ![p] = NoOrg]
  /\ mig' = [mig EXCEPT ![p] = NoOrg]
  /\ idx' = [idx EXCEPT ![p] = 1]
  /\ buf' = [buf EXCEPT ![p] = Absent]

\* A crash, a kill, or an I/O error, between any two file operations.
Stop(p) ==
  /\ pc[p] # "idle"
  /\ Return(p)
  /\ halted' = halted \cup {p}
  /\ UNCHANGED <<store, bare, refused>>

\* A command starts; every command but `resolve` is about an organization.
\* `remove` is what unenroll and a terminal rejection run (a rejection goes on
\* even if the layout check fails; that case is left out).
Begin(p, c, o) ==
  /\ pc[p] = "idle"
  /\ (c = "resolve") = (o = NoOrg)
  /\ Goto(p, "ensure")
  /\ cmd' = [cmd EXCEPT ![p] = c]
  /\ target' = [target EXCEPT ![p] = o]
  /\ halted' = halted \ {p}
  /\ UNCHANGED <<store, mig, idx, buf, bare, refused>>

-----------------------------------------------------------------------------
(* EnsureLayout and migrateFlat. *)

\* HasMigrating || IsFlatStore: two files are looked at, one after the other, and
\* another process may migrate in between.
EnsureLayout(p) ==
  /\ pc[p] = "ensure"
  /\ Goto(p, IF marker THEN "mark" ELSE "flat")
  /\ UNCHANGED <<store, history, cmd, target, mig, idx, buf>>

EnsureFlat(p) ==
  /\ pc[p] = "flat"
  /\ Goto(p, IF IsFlatStore THEN "mark" ELSE "body")
  /\ UNCHANGED <<store, history, cmd, target, mig, idx, buf>>

\* Mutant: the migration starts without leaving its marker.
MarkNothing(p) ==
  /\ pc[p] = "mark"
  /\ Goto(p, "discover")
  /\ UNCHANGED <<store, history, cmd, target, mig, idx, buf>>

Mark(p) ==
  /\ pc[p] = "mark"
  /\ marker' = TRUE
  /\ Goto(p, "discover")
  /\ UNCHANGED <<file, dirs, active, issued, cmd, target, mig, idx, buf, history>>

\* Mutant: files are moved to the organization the command is about.
DiscoverTarget(p) ==
  /\ pc[p] = "discover"
  /\ DiscoverOrg # NoOrg
  /\ mig' = [mig EXCEPT ![p] = IF target[p] # NoOrg THEN target[p] ELSE DiscoverOrg]
  /\ dirs' = dirs \cup {mig'[p]}
  /\ Goto(p, "move")
  /\ UNCHANGED <<file, active, marker, issued, cmd, target, idx, buf, history>>

Discover(p) ==
  /\ pc[p] = "discover"
  /\ DiscoverOrg # NoOrg
  /\ mig' = [mig EXCEPT ![p] = DiscoverOrg]
  /\ dirs' = dirs \cup {DiscoverOrg}
  /\ Goto(p, "move")
  /\ UNCHANGED <<file, active, marker, issued, cmd, target, idx, buf, history>>

DiscoverFails(p) ==
  /\ pc[p] = "discover"
  /\ DiscoverOrg = NoOrg
  /\ Return(p)
  /\ UNCHANGED <<store, history>>

\* Where the loop over the flat names goes after a move: WriteOrgMeta last.
NextMove(p) ==
  /\ idx' = [idx EXCEPT ![p] = IF @ < Len(MoveOrder) THEN @ + 1 ELSE 1]
  /\ Goto(p, IF idx[p] < Len(MoveOrder) THEN "move" ELSE "meta")

MoveAbsent(p) ==
  /\ pc[p] = "move"
  /\ file[Root][MoveOrder[idx[p]]] = Absent
  /\ NextMove(p)
  /\ UNCHANGED <<store, history, cmd, target, mig, buf>>

MoveRename(p) ==
  LET f == MoveOrder[idx[p]] IN
  /\ pc[p] = "move"
  /\ file[Root][f] # Absent
  /\ mig[p] \in dirs
  /\ file' = [file EXCEPT ![mig[p]][MovedName(f)] = file[Root][f],
                          ![Root][f] = Absent]
  /\ NextMove(p)
  /\ UNCHANGED <<dirs, active, marker, issued, cmd, target, mig, buf, history>>

\* Mutant: the original is removed before the copy is written.
MoveCopyUnlinked(p) ==
  LET f == MoveOrder[idx[p]] IN
  /\ pc[p] = "move"
  /\ RenameMayFail
  /\ file[Root][f] # Absent
  /\ mig[p] \in dirs
  /\ buf' = [buf EXCEPT ![p] = file[Root][f]]
  /\ file' = [file EXCEPT ![mig[p]][MovedName(f)] = Torn, ![Root][f] = Absent]
  /\ Goto(p, "copy")
  /\ UNCHANGED <<dirs, active, marker, issued, cmd, target, mig, idx, history>>

\* The fallback of moveIfExists: read, write the copy, remove the original.
MoveCopy(p) ==
  LET f == MoveOrder[idx[p]] IN
  /\ pc[p] = "move"
  /\ RenameMayFail
  /\ file[Root][f] # Absent
  /\ mig[p] \in dirs
  /\ buf' = [buf EXCEPT ![p] = file[Root][f]]
  /\ file' = [file EXCEPT ![mig[p]][MovedName(f)] = Torn]
  /\ Goto(p, "copy")
  /\ UNCHANGED <<dirs, active, marker, issued, cmd, target, mig, idx, history>>

\* Neither rename nor copy succeeds: a disk error, or another process removed
\* the directory.
MoveFails(p) ==
  /\ pc[p] = "move"
  /\ file[Root][MoveOrder[idx[p]]] # Absent
  /\ RenameMayFail \/ mig[p] \notin dirs
  /\ Return(p)
  /\ halted' = halted \cup {p}
  /\ UNCHANGED <<store, bare, refused>>

\* A write through an open descriptor reaches the file unless it was unlinked.
Fill(d, f, c) ==
  file' = [file EXCEPT ![d][f] = IF @ = Absent THEN Absent ELSE c]

CopyDone(p) ==
  /\ pc[p] = "copy"
  /\ Fill(mig[p], MovedName(MoveOrder[idx[p]]), buf[p])
  /\ Goto(p, "unlink")
  /\ UNCHANGED <<dirs, active, marker, issued, cmd, target, mig, idx, buf, history>>

CopyUnlink(p) ==
  /\ pc[p] = "unlink"
  /\ file[Root][MoveOrder[idx[p]]] # Absent
  /\ file' = [file EXCEPT ![Root][MoveOrder[idx[p]]] = Absent]
  /\ buf' = [buf EXCEPT ![p] = Absent]
  /\ NextMove(p)
  /\ UNCHANGED <<dirs, active, marker, issued, cmd, target, mig, history>>

\* os.Remove fails: another process moved the file, or the system refuses.
CopyUnlinkFails(p) ==
  /\ pc[p] = "unlink"
  /\ Return(p)
  /\ halted' = halted \cup {p}
  /\ UNCHANGED <<store, bare, refused>>

\* org.json is written only when it is missing; WriteOrgMeta makes the directory.
MigrateMeta(p) ==
  /\ pc[p] = "meta"
  /\ IF file[mig[p]]["meta"] = Absent
     THEN /\ file' = [file EXCEPT ![mig[p]]["meta"] = Torn]
          /\ dirs' = dirs \cup {mig[p]}
          /\ Goto(p, "newmeta")
     ELSE /\ UNCHANGED <<file, dirs>>
          /\ Goto(p, "activate")
  /\ UNCHANGED <<active, marker, issued, cmd, target, mig, idx, buf, history>>

MigrateMetaDone(p) ==
  /\ pc[p] = "newmeta"
  /\ Fill(mig[p], "meta", [org |-> mig[p], gen |-> 0])
  /\ Goto(p, "activate")
  /\ UNCHANGED <<dirs, active, marker, issued, cmd, target, mig, idx, buf, history>>

\* WriteActive truncates, then writes: a cut in between reads as no org.
WriteActive(p) ==
  /\ pc[p] = "activate"
  /\ active' = NoOrg
  /\ Goto(p, "activating")
  /\ UNCHANGED <<file, dirs, marker, issued, cmd, target, mig, idx, buf, history>>

WriteActiveDone(p) ==
  /\ pc[p] = "activating"
  /\ active' = Dest(p)
  /\ IF mig[p] # NoOrg
     THEN Goto(p, "unmark") /\ UNCHANGED <<cmd, target, mig, idx, buf>>
     ELSE Return(p)
  /\ UNCHANGED <<file, dirs, marker, issued, history>>

\* Mutant: the marker stays behind.
UnmarkNothing(p) ==
  /\ pc[p] = "unmark"
  /\ Goto(p, "body")
  /\ mig' = [mig EXCEPT ![p] = NoOrg]
  /\ UNCHANGED <<store, history, cmd, target, idx, buf>>

\* os.Remove of a marker another process already removed is an error.
Unmark(p) ==
  /\ pc[p] = "unmark"
  /\ marker' = FALSE
  /\ IF marker
     THEN /\ Goto(p, "body")
          /\ mig' = [mig EXCEPT ![p] = NoOrg]
          /\ UNCHANGED <<cmd, target, idx, buf>>
     ELSE Return(p)
  /\ UNCHANGED <<file, dirs, active, issued, history>>

-----------------------------------------------------------------------------
(* ResolveActiveDir: a pointer whose directory is gone is cleared. *)

Resolve(p) ==
  /\ pc[p] = "body"
  /\ cmd[p] = "resolve"
  /\ ~(~marker /\ active # NoOrg /\ active \notin dirs)
  /\ Return(p)
  /\ UNCHANGED <<store, history>>

ResolveStale(p) ==
  /\ pc[p] = "body"
  /\ cmd[p] = "resolve"
  /\ ~marker
  /\ active # NoOrg
  /\ active \notin dirs
  /\ target' = [target EXCEPT ![p] = active]
  /\ Goto(p, "clear")
  /\ UNCHANGED <<store, history, cmd, mig, idx, buf>>

\* ClearActive, at the end of RemoveOrg and for a stale pointer.
ClearActive(p) ==
  /\ pc[p] = "clear"
  /\ active' = NoOrg
  /\ Return(p)
  /\ UNCHANGED <<file, dirs, marker, issued, history>>

-----------------------------------------------------------------------------
(* writeSwitch: the organization was listed, so it could be loaded. *)

\* Mutant: the organization to switch to need not load.
SwitchUnchecked(p) ==
  /\ pc[p] = "body"
  /\ cmd[p] = "switch"
  /\ IF target[p] \in dirs
     THEN Goto(p, "activate") /\ UNCHANGED <<cmd, target, mig, idx, buf>>
     ELSE Return(p)
  /\ UNCHANGED <<store, history>>

Switch(p) ==
  /\ pc[p] = "body"
  /\ cmd[p] = "switch"
  /\ IF target[p] \in dirs /\ Loadable(target[p])
     THEN Goto(p, "activate") /\ UNCHANGED <<cmd, target, mig, idx, buf>>
     ELSE Return(p)
  /\ UNCHANGED <<store, history>>

-----------------------------------------------------------------------------
(* persistEnrollment: WriteBundle, WriteOrgMeta, WriteActive. *)

Enroll(p) ==
  /\ pc[p] = "body"
  /\ cmd[p] = "enroll"
  /\ issued < MaxGen
  /\ issued' = issued + 1
  /\ buf' = [buf EXCEPT ![p] = [org |-> target[p], gen |-> issued + 1]]
  /\ dirs' = dirs \cup {target[p]}
  /\ Goto(p, "write")
  /\ UNCHANGED <<file, active, marker, cmd, target, mig, idx, history>>

\* The enrollment worker gives no certificate (also the bound of the model).
EnrollRefused(p) ==
  /\ pc[p] = "body"
  /\ cmd[p] = "enroll"
  /\ Return(p)
  /\ UNCHANGED <<store, history>>

\* WriteClientDir leaves renewal.token as it is when the bundle has none.
SkipToken(p) ==
  /\ pc[p] = "write"
  /\ idx[p] \in DOMAIN WriteOrder
  /\ WriteOrder[idx[p]] = "tok"
  /\ idx' = [idx EXCEPT ![p] = @ + 1]
  /\ bare' = IF file[target[p]]["tok"] = Absent THEN bare ELSE bare \cup {target[p]}
  /\ Goto(p, "write")
  /\ UNCHANGED <<store, cmd, target, mig, buf, refused, halted>>

\* os.WriteFile opens with O_TRUNC; it fails when the directory is gone.
WriteFile(p) ==
  /\ pc[p] = "write"
  /\ IF target[p] \in dirs
     THEN /\ file' = [file EXCEPT ![target[p]][WriteOrder[idx[p]]] = Torn]
          /\ Goto(p, "writing")
          /\ UNCHANGED <<cmd, target, mig, idx, buf>>
     ELSE UNCHANGED file /\ Return(p)
  /\ UNCHANGED <<dirs, active, marker, issued, history>>

WriteFileDone(p) ==
  /\ pc[p] = "writing"
  /\ Fill(target[p], WriteOrder[idx[p]], buf[p])
  /\ bare' = IF WriteOrder[idx[p]] = "tok" THEN bare \ {target[p]} ELSE bare
  /\ refused' = IF WriteOrder[idx[p]] = "key" THEN refused \ {target[p]} ELSE refused
  /\ IF idx[p] < Len(WriteOrder)
     THEN /\ Goto(p, "write")
          /\ idx' = [idx EXCEPT ![p] = @ + 1]
     ELSE /\ Goto(p, "activate")
          /\ idx' = [idx EXCEPT ![p] = 1]
  /\ UNCHANGED <<dirs, active, marker, issued, cmd, target, mig, buf, halted>>

-----------------------------------------------------------------------------
(* RemoveOrg: ClearOrgDir, RemoveAll, then the active pointer. *)

Remove(p) ==
  /\ pc[p] = "body"
  /\ cmd[p] = "remove"
  /\ IF Loadable(target[p]) \/ active = target[p]
     THEN Goto(p, "delete") /\ UNCHANGED <<cmd, target, mig, idx, buf>>
     ELSE Return(p)
  /\ UNCHANGED <<store, history>>

\* The next name of the list, and RemoveAll of the directory after the last.
NextClear(p) ==
  IF idx[p] < Len(ClearOrder)
  THEN /\ idx' = [idx EXCEPT ![p] = @ + 1]
       /\ Goto(p, "delete")
  ELSE /\ idx' = [idx EXCEPT ![p] = 1]
       /\ Goto(p, "rmdir")

ClearFile(p) ==
  LET f == ClearOrder[idx[p]] IN
  /\ pc[p] = "delete"
  /\ file' = [file EXCEPT ![target[p]][f] = Absent]
  /\ bare' = IF f = "tok" THEN bare \ {target[p]} ELSE bare
  /\ refused' = IF f = "key" THEN refused \ {target[p]} ELSE refused
  /\ NextClear(p)
  /\ UNCHANGED <<dirs, active, marker, issued, cmd, target, mig, buf, halted>>

\* os.Remove of one file fails: ClearOrgDir keeps the error and goes on with the
\* names that are left.
ClearRefused(p) ==
  LET f == ClearOrder[idx[p]] IN
  /\ pc[p] = "delete"
  /\ f \in Stubborn
  /\ file[target[p]][f] # Absent
  /\ refused' = IF f = "key" THEN refused \cup {target[p]} ELSE refused
  /\ NextClear(p)
  /\ UNCHANGED <<store, cmd, target, mig, buf, bare, halted>>

RemoveDir(p) ==
  /\ pc[p] = "rmdir"
  /\ dirs' = dirs \ {target[p]}
  /\ file' = [file EXCEPT ![target[p]] = [f \in FileName |-> Absent]]
  /\ bare' = bare \ {target[p]}
  /\ refused' = refused \ {target[p]}
  /\ Goto(p, "unselect")
  /\ UNCHANGED <<active, marker, issued, cmd, target, mig, idx, buf, halted>>

\* RemoveAll fails: it takes what it can, and the directory stays; the active
\* pointer is handled all the same.
RemoveDirFails(p) ==
  /\ pc[p] = "rmdir"
  /\ \E left \in SUBSET {f \in Stubborn : file[target[p]][f] # Absent} :
       /\ file' = [file EXCEPT ![target[p]] =
                     [f \in FileName |-> IF f \in left THEN file[target[p]][f] ELSE Absent]]
       /\ bare' = IF "tok" \in left THEN bare ELSE bare \ {target[p]}
       /\ refused' = IF "key" \in left THEN refused ELSE refused \ {target[p]}
  /\ Goto(p, "unselect")
  /\ UNCHANGED <<dirs, active, marker, issued, cmd, target, mig, idx, buf, halted>>

\* RemoveOrg reads `active`, compares, and only then removes the file. (That it
\* cannot be read or removed is Stop: the pointer stays, the files are gone.)
Unselect(p) ==
  /\ pc[p] = "unselect"
  /\ IF active = target[p]
     THEN Goto(p, "clear") /\ UNCHANGED <<cmd, target, mig, idx, buf>>
     ELSE Return(p)
  /\ UNCHANGED <<store, history>>

-----------------------------------------------------------------------------
Migrate(p) ==
  \/ EnsureLayout(p) \/ EnsureFlat(p) \/ Mark(p) \/ Discover(p) \/ DiscoverFails(p)
  \/ MoveAbsent(p) \/ MoveRename(p) \/ MoveCopy(p) \/ MoveFails(p)
  \/ CopyDone(p) \/ CopyUnlink(p) \/ CopyUnlinkFails(p)
  \/ MigrateMeta(p) \/ MigrateMetaDone(p) \/ Unmark(p)

Body(p) ==
  \/ Resolve(p) \/ ResolveStale(p) \/ ClearActive(p) \/ Switch(p)
  \/ WriteActive(p) \/ WriteActiveDone(p)
  \/ Enroll(p) \/ EnrollRefused(p) \/ WriteFile(p) \/ SkipToken(p) \/ WriteFileDone(p)
  \/ Remove(p) \/ ClearFile(p) \/ ClearRefused(p) \/ RemoveDir(p) \/ RemoveDirFails(p)
  \/ Unselect(p)

Advance(p) == Migrate(p) \/ Body(p)

Next ==
  \E p \in Procs :
    \/ \E c \in Command, o \in Orgs \cup {NoOrg} : Begin(p, c, o)
    \/ Advance(p)
    \/ Stop(p)

Spec == Init /\ [][Next]_vars

\* A started command is executed, and commands keep being started: the service
\* resolves the store on every reconnect and systemd restarts a failed one.
Fairness ==
  \A p \in Procs :
    /\ WF_vars(Advance(p))
    /\ WF_vars(\E c \in Command, o \in Orgs \cup {NoOrg} : Begin(p, c, o))

FairSpec == Spec /\ Fairness

-----------------------------------------------------------------------------
(* Properties. *)

FileMap == [Place -> [FileName -> Content]]

StoreOK ==
  /\ file \in FileMap
  /\ dirs \subseteq Orgs
  /\ active \in Orgs \cup {NoOrg}
  /\ marker \in BOOLEAN
  /\ issued \in 0 .. MaxGen

ProcsOK ==
  /\ pc \in [Procs -> PC]
  /\ cmd \in [Procs -> Command]
  /\ target \in [Procs -> Orgs \cup {NoOrg}]
  /\ mig \in [Procs -> Orgs \cup {NoOrg}]
  /\ idx \in [Procs -> 1 .. 7]
  /\ buf \in [Procs -> Content]

\* A process in the middle of migrateFlat knows where it moves the files, and
\* every command but `resolve` has the organization it is about.
LocalsOK ==
  \A p \in Procs :
    /\ pc[p] \in {"move", "copy", "unlink", "meta", "newmeta", "unmark"} => mig[p] \in Orgs
    /\ pc[p] # "idle" /\ cmd[p] # "resolve" => target[p] \in Orgs
    /\ pc[p] \in {"write", "writing", "delete", "rmdir"} => cmd[p] # "resolve"

HistoryOK ==
  /\ bare \subseteq Orgs
  /\ refused \subseteq Orgs
  /\ halted \subseteq Procs

\* The files, the pointer and the processes hold values of their kinds.
TypeOK == StoreOK /\ ProcsOK /\ LocalsOK /\ HistoryOK

RootEmpty == \A f \in FileName : file[Root][f] = Absent

\* No flat file is ever orphaned: when no migration is pending and the root
\* does not look flat any more - or an organization is already selected - every
\* flat file has been moved. Otherwise EnsureLayout would take the store as
\* migrated, and a token or certificate left at the root would never be moved.
NoOrphans ==
  ~marker /\ (~IsFlatStore \/ active # NoOrg) => RootEmpty

\* A step that takes a flat file away leaves the same content, whole, in the
\* directory of the organization it belongs to: a crash of migrateFlat at any
\* point never loses the only copy of a credential.
MigrationKeepsFiles ==
  [][\A f \in FileName :
       file[Root][f] \in Identity /\ file'[Root][f] # file[Root][f]
         => file'[file[Root][f].org][MovedName(f)] = file[Root][f]]_vars

\* The private key is written last and deleted first: outside a migration an
\* organization directory never holds a key without a certificate and a CA, so
\* neither an interrupted enrollment nor an interrupted removal is usable. The
\* exception is a key whose own deletion was refused: ClearOrgDir goes on and
\* deletes the certificate and the CA beside it, until the key is deleted or a
\* new one is written.
KeyNeverAlone ==
  ~marker => \A o \in Orgs \ refused :
    file[o]["key"] # Absent => file[o]["crt"] # Absent /\ file[o]["ca"] # Absent

\* In one directory the CA is never older than the certificate, the certificate
\* never older than the key, and the token never older than the CA, unless the
\* last bundle came without a token and left the old one there (the write order
\* of WriteClientDir, across crashes and re-enrollments): a certificate that is
\* newer than the token beside it would look like token reuse.
Fresher(o, f, g) ==
  file[o][f] \in Identity /\ file[o][g] \in Identity => file[o][f].gen >= file[o][g].gen

TokenFirst ==
  \A o \in Orgs : /\ o \notin bare => Fresher(o, "tok", "ca")
                  /\ Fresher(o, "ca", "crt")
                  /\ Fresher(o, "crt", "key")

\* An interrupted migration can be resumed: when `.migrating` was left behind
\* and no process is at work, the organization it was moving into is found
\* again. If it is not, EnsureLayout fails for every later command, enroll too.
Resumable ==
  marker /\ (\A p \in Procs : pc[p] = "idle") => DiscoverOrg # NoOrg

\* If from some point on no command is killed or meets a disk error, every pending
\* migration is finished: a flat or half-migrated store does not stay so. In
\* particular no command gives the migration up on its own.
MigrationCompletes ==
  <>[](halted = {}) => ((marker \/ IsFlatStore) ~> (~marker /\ ~IsFlatStore))

\* What a command finds in the store once EnsureLayout has succeeded: nothing
\* while a migration is pending, else the organizations whose directory holds
\* their own bundle.
Pending == marker \/ IsFlatStore
Usable == {o \in Orgs : Loadable(o) /\ file[o]["crt"].org = o}

Contract ==
  INSTANCE Enrollments WITH
    have <- IF Pending THEN {} ELSE Usable,
    active <- IF Pending THEN NoOrg ELSE active

\* One process, stopped wherever it is, keeps the contract of the store: a
\* migration of many files appears at once with its organization selected, an
\* enrollment or a removal changes what is usable of one organization only, and
\* an organization is never selected before its CA, certificate and key load and
\* the certificate names it.
KeepsContract == Contract!Spec
=============================================================================
