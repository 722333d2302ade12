\* A session ends during its renewal, and the next renewal presents the same token.
CONSTANTS
  Main = Main
  Loops = {l1}
  None = None
  Absent = Absent
  Torn = Torn
  MaxGen = 2
SPECIFICATION Spec
INVARIANTS NoReuseByOverlap
