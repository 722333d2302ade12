\* Renewals of Run and of its sessions, every mishap at any time.
CONSTANTS
  Main = Main
  Loops = {l1}
  None = None
  Absent = Absent
  Torn = Torn
  MaxGen = 2
SPECIFICATION FairSpec
INVARIANTS TokenNotBehind SettlesOnlyRevoked SettledIsGone
PROPERTIES RenewalHappens
