\* Every way a delivery can go, bodies of up to two chunks, one redirect.
CONSTANTS
  MaxLen = 2
  MaxHops = 1
SPECIFICATION FairSpec
INVARIANTS SuccessIsWhole FailuresAreReal
 
