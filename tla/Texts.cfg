SPECIFICATION Spec
CONSTANTS
  Name <- Names
  Messages <- SomeMessages
  MaxLen = 5
  MaxSegments = 10
  MaxDotted = 5
INVARIANTS
  ParsesWhatIsMeant
  ReprFaithful
  StripsNewlines
  ReadAsMeant
  PrintedAsMeant
  OnlyLenient
