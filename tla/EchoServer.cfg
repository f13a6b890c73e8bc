SPECIFICATION FairSpec
CONSTANTS
  Peer = {p1, p2}
  Listener = Listener
  BufSize = 2
  SendRoom = 1
  MaxOpen = 2
  MaxBytes = 3
INVARIANTS
  TypeOK
  EchoInOrder
  SocketOutlivesWaiter
PROPERTIES
  Echoed
  Accepted
  FinishedRemoved
  HangupEndsSession
