SPECIFICATION Spec
CONSTANTS
  N = 3
  MaxEdges = 2
  MaxSpaces = 1
CHECK_DEADLOCK FALSE
INVARIANTS VersionedParents
