CONSTANTS
  None = None
  MaxBudget = 3
  Policies <- MCPolicies
SPECIFICATION Spec
INVARIANTS
  TypeOK
  AttemptBudget
  Lineage
  LedgerAgreement
  CircuitOpenMeansExhausted
PROPERTIES
  TerminalIsFinal
  ClosedScopeStaysClosed
