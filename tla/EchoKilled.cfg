SPECIFICATION Spec
CONSTANTS
  Peer = {p1, p2}
  Listener = Listener
  BufSize = 1
  SendRoom = 1
  MaxOpen = 2
  MaxBytes = 1
SYMMETRY PeerSymmetry
INVARIANT NeverKilled
