SPECIFICATION WalkSpec
CONSTANTS
  Size = 5
  MaxUndelivered = 3
INVARIANTS WalkIsExact
PROPERTIES WalkEnds
CHECK_DEADLOCK FALSE
