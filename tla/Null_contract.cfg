CONSTANTS
  NoTimeout = NoTimeout
  Loop = Loop
  Waiters <- JustLoop
  Timeouts <- AnyWait
  StartTime = 3
  MaxTime = 5
  MaxSets = 3
SPECIFICATION NSSSpec
PROPERTY ImplementsSocketServer
