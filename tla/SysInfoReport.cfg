\* Reports of changing metadata, two enrollments, a clock that is set, crashes.
CONSTANTS
  Infos = {i1, i2}
  NoInfo = NoInfo
  RetryInterval = 4
  MaxBack = 1
  MaxAgent = 2
SPECIFICATION FairSpec
INVARIANTS SentIsTrue
PROPERTIES FloorKept ReportArrives
