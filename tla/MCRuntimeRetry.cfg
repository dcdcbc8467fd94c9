CONSTANTS
  None = None
  Policies <- RetryPolicies
  Grants <- RetryGrants
  Faults <- RetryFaults
  Requests <- RetryRequests
  Keys = {"k1", "k2"}
  Injections <- RetryInjections
  MaxInjections = 1
  MaxStaged = 0
  ActionRequests <- NoActionRequests
  MaxVersion = 3
  MaxActions = 3
SPECIFICATION Spec
INVARIANTS
  RuntimeTypeOK
  SingleAdmission
  NonSuccessIsTerminal
PROPERTIES
  SupervisorImplemented
  CallReturns
