\* The service, and another process that switches, enrolls and unenrolls.
CONSTANTS
  Orgs = {A, B}
  NoOrg = NoOrg
  MaxBackoff = 2
SPECIFICATION FairSpec
INVARIANTS NoRetryStorm RemovedAsTold RevokedNeverRedials
PROPERTIES LadderKept UndisturbedRemoval CancelReturns DeadAgentStops
