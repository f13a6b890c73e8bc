SPECIFICATION Spec
CONSTANTS
  MaxFd = 10
  Reserved <- Stdio
INVARIANTS
  TypeOK
  BatchFits
  HandlerInBounds
  OnlyPowersEscape
