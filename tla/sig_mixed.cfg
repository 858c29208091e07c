SPECIFICATION Spec
CONSTANTS
  N = 3
  PtySessions <- OnePty
INVARIANTS PlainExitNotLost TableExact
CHECK_DEADLOCK FALSE
