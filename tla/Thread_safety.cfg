CONSTANTS
  c1 = c1
  c2 = c2
  t1 = t1
  t2 = t2
  t3 = t3
  LoopThread = LoopThread
  Clients <- TwoClients
  Tasks <- ThreeTasks
  NullTasks <- NoTasks
  Delays <- DelaysFrom1
  Timeouts <- AnyTimeout
  NumMod = 8
  WaitMayFail = FALSE
  MaxTime = 2
SPECIFICATION Spec
SYMMETRY SymClientsTasks
INVARIANTS TypeOK NoLostWakeup AtMostOnce ReturnContract LimitKept
PROPERTY ImplementsTaskQueue
