CONSTANTS
  Candidates = {c1, c2}
  MaxNode = 3
SPECIFICATION FairSpec
INVARIANT
  ElectionIsSound
PROPERTY
  ElectionEnds
CHECK_DEADLOCK FALSE
