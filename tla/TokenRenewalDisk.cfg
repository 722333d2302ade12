\* A certificate write fails after the file was truncated.
CONSTANTS
  Main = Main
  Loops = {l1}
  None = None
  Absent = Absent
  Torn = Torn
  MaxGen = 2
SPECIFICATION Spec
INVARIANTS RecoversFromFailedWrite
