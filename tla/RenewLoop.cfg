\* A unit of time is ten seconds; the renew ticker is faster than in the code.
CONSTANTS
  Orgs = {A, B}
  NoOrg = NoOrg
  Ping = 1
  RenewEvery = 4
  MaxCall = 3
  Naps = {1, 3}
SPECIFICATION FairSpec
INVARIANTS WakeRenews
PROPERTIES NoFalseWake OthersRenewed RenewLoopEnds
