CONSTANTS
  None = None
  Roles <- JustServer
  MaxPending = 2
  MaxSpace = 2
  MaxArrivals = 3
  Length = 2
  MaxAccept = 2
  AcceptMayFail = FALSE
  EarlySend = FALSE
SPECIFICATION Spec
CHECK_DEADLOCK FALSE
INVARIANT WriteWatched
