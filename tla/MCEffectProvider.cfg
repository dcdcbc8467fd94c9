CONSTANTS
  None = None
  ActionRequests <- MCRequests
  MaxVersion = 4
  MaxActions = 3
SPECIFICATION ProvSpec
INVARIANTS
  ProvTypeOK
  LogIsContinuous
  AllowedAtMostOnce
  WriterIsTruthful
