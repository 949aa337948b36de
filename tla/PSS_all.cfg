CONSTANTS
  w1 = w1
  d1 = d1
  d2 = d2
  f1 = f1
  f2 = f2
  in = in
  Loop = Loop
  Signaler = Signaler
  SignalFd = SignalFd
  None = None
  Workers <- OneWorker
  Sockets <- TwoSockets
  Fds <- TwoFds
  Events <- JustIn
  Backends <- Both
  NumEpollEvents = 2
  MaxKey = 2
SPECIFICATION FairSpec
INVARIANTS TypeOK NoStaleEvent EpollSound  PipeInSync
PROPERTIES ImplementsSocketServer WakeUpEndsWait
