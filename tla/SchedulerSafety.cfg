SPECIFICATION Spec
CONSTANTS
  Fd = {f1, f2}
  NoFd = NoFd
  Coro = {c1, c2, c3}
  NoCoro = NoCoro
  Awaits <- AcceptWrite
  Readiness <- QuietOrClosed
  Delays = {1}
  Period = 1
  Ms = 1
  MaxTime = 1
SYMMETRY AllSymmetry
INVARIANTS
  TypeOK
  OneNode
  CountMatches
  InterestMatches
  NeverTerminated
  EventsFresh
  WaitsTheRightWay
  NothingLeftBehind
PROPERTIES
  WaitOrderStable
  ImplementsExecutor
