CONSTANTS
  None = None
  Policies <- RetryPolicies
  Grants <- RetryGrants
  Faults <- RetryFaults
  Requests <- TraceRequests
  Keys = {"k1", "k2"}
  Injections <- RetryInjections
  MaxInjections = 2
  MaxStaged = 0
  ActionRequests <- NoActionRequests
  MaxVersion = 3
  MaxActions = 3
SPECIFICATION TraceSpec
INVARIANTS
  TerminalReported
  SuccessorExplained
