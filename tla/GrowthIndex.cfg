SPECIFICATION Spec
CONSTANTS
  MaxFd = 8
  Reserved <- Stdio
INVARIANT InBounds
