\* Runs of unenroll with lost answers, kills, renewals, selections, enrollments.
CONSTANTS
  Orgs = {A, B}
  NoOrg = NoOrg
  MaxGen = 2
SPECIFICATION Spec
SYMMETRY Symmetry
PROPERTIES RemovesRevoked RemovesConfirmed SelectionKept
