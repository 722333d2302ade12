\* Two processes without a lock.
CONSTANTS
  Orgs = {A, B}
  Procs = {p1, p2}
  Root = Root
  NoOrg = NoOrg
  Absent = Absent
  Torn = Torn
  MaxGen = 0
  RenameMayFail = FALSE
  Stubborn = {"key"}
SPECIFICATION Spec
SYMMETRY Symmetry
INVARIANTS NoOrphans
PROPERTIES MigrationKeepsFiles
