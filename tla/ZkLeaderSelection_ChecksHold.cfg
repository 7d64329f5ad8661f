CONSTANTS
  Candidates = {c1, c2}
  MaxNode = 2
SPECIFICATION Spec
INVARIANT
  ChecksHold
CHECK_DEADLOCK FALSE
