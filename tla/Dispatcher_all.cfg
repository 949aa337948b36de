CONSTANTS
  None = None
  Roles <- AllRoles
  MaxPending = 3
  MaxSpace = 3
  MaxArrivals = 5
  Length = 2
  MaxAccept = 2
  AcceptMayFail = TRUE
  EarlySend = FALSE
SPECIFICATION FairSpec
CHECK_DEADLOCK FALSE
INVARIANTS TypeOK InterestFollows ReadWatched NoDataDropped ConnectTruth NoSelfDeadlock
PROPERTIES AllTaken EndCloses ConnectAnswered
