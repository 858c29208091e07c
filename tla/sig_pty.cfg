SPECIFICATION Spec
CONSTANTS
  N = 1
  PtySessions <- OnePty
INVARIANTS ExitNotLost
CHECK_DEADLOCK FALSE
