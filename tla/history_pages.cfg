SPECIFICATION Spec
CONSTANTS
  NULL = NULL
  SessionIds = {1, 2, 3, 4}
  Times = {1, 2, 3}
  Filters <- Dated
  Limit = 1
  OneAtATime = FALSE
INVARIANTS WalkComplete
