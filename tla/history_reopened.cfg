SPECIFICATION Spec
CONSTANTS
  NULL = NULL
  SessionIds = {1, 2, 3}
  Times = {1, 2, 3}
  Filters <- ClosedOnly
  Limit = 1
  OneAtATime = FALSE
INVARIANTS WalkComplete
