SPECIFICATION Spec
CONSTANTS
  NULL = NULL
  SessionIds = {1, 2, 3, 4}
  Times = {1, 2, 3}
  Filters <- ClosedOnly
  Limit = 1
  OneAtATime = TRUE
INVARIANTS WalkComplete
