CONSTANTS
  NoTimeout = NoTimeout
  w1 = w1
  w2 = w2
  Waiters <- TwoWaiters
  Timeouts <- SomeTimeouts
  StartTime = 3
  MaxTime = 4
  MaxSets = 3
SPECIFICATION FairSpec
INVARIANTS TypeOK NoLostSet OneReleasePerSet
PROPERTY SetReleases
