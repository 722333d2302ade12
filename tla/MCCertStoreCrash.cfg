\* One process that may be stopped at every step; files are renamed or copied.
CONSTANTS
  Orgs = {A, B}
  Procs = {p1}
  Root = Root
  NoOrg = NoOrg
  Absent = Absent
  Torn = Torn
  MaxGen = 1
  RenameMayFail = TRUE
  Stubborn = {"key", "crt"}
SPECIFICATION FairSpec
INVARIANTS KeyNeverAlone TokenFirst Resumable
PROPERTIES MigrationKeepsFiles MigrationCompletes KeepsContract
