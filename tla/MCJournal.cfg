CONSTANTS
  None = None
  Names = {rule}
  Values = {v1, v2}
  MaxSerial = 4
  MaxOutside = 1
SPECIFICATION Spec
INVARIANTS
  JournalTypeOK
  TraceIsCausal
  EvaluatedOnce
  AuthorityAccounted
PROPERTIES
  RecordsImmutable
  HistoryKept
