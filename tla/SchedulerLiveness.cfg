SPECIFICATION FairSpec
CONSTANTS
  Fd = {f1}
  NoFd = NoFd
  Coro = {c1, c2}
  NoCoro = NoCoro
  Awaits <- ReadWrite
  Readiness <- QuietReadableOrWritable
  Delays = {1, 3}
  Period = 3
  Ms = 2
  MaxTime = 5
INVARIANT
  NoOversleep
PROPERTIES
  TimerFires
  IoServed
