\* Two taps, the other commands, renewals and lost answers.
CONSTANTS
  Taps = {t1, t2}
  None = None
  MaxGen = 1
SPECIFICATION FairSpec
INVARIANTS LingerIsTold CommandIsFresh
PROPERTIES EndsWhenAsked
