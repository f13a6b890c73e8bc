SPECIFICATION FairSpec
CONSTANTS
  Fd = {f1}
  NoFd = NoFd
  Coro = {c1, c2}
  NoCoro = NoCoro
  Awaits <- AcceptOnly
  Readiness <- QuietOrReadable
  Delays = {1}
  Period = 1
  Ms = 1
  MaxTime = 2
PROPERTY
  TimerFires
