CONSTANTS
  c1 = c1
  c2 = c2
  t1 = t1
  t2 = t2
  t3 = t3
  LoopThread = LoopThread
  Clients <- OneClient
  Tasks <- OneTask
  NullTasks <- NoTasks
  Delays <- DelaysFrom1
  Timeouts <- Forever
  NumMod = 8
  WaitMayFail = FALSE
  MaxTime = 2
SPECIFICATION FairSpec
PROPERTY QuitEndsLoop
