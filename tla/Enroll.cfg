\* Every way an enrollment can go.
CONSTANTS
  MaxTime = 8
  MaxInterval = 4
SPECIFICATION FairSpec
INVARIANTS PollsAreSpaced IssuedIsFinal SuccessIsStored
PROPERTIES DeadlineEnds
