SPECIFICATION Spec
CONSTANTS
  N = 4
  MaxEdges = 3
  MaxSpaces = 2
INVARIANTS TypeOK IInv DepsFollowServices  IsolatedExactly StaysInNamespace
PROPERTIES ImplementsPromise
CHECK_DEADLOCK FALSE
