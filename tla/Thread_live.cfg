CONSTANTS
  c1 = c1
  c2 = c2
  t1 = t1
  t2 = t2
  t3 = t3
  LoopThread = LoopThread
  Clients <- OneClient
  Tasks <- TwoTasks
  NullTasks <- OneTask
  Delays <- DelaysFrom0
  Timeouts <- AnyTimeout
  NumMod = 8
  WaitMayFail = TRUE
  MaxTime = 2
SPECIFICATION FairSpec
PROPERTIES EveryTaskRuns 
