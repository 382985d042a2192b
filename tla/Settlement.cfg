SPECIFICATION FairSpec
CONSTANTS
  N = 2
  Minimums = {61, 95}
  Commitments <- MCCommitments
INVARIANT ReserveKept
PROPERTY ShareArrives
CHECK_DEADLOCK FALSE
