CONSTANTS
  None = None
  Policies <- PlainPolicies
  Grants <- StagedGrants
  Faults <- StagedFaults
  Requests <- StagedRequests
  Keys = {"k1"}
  Injections <- StagedInjections
  MaxInjections = 2
  MaxStaged = 2
  ActionRequests <- NoActionRequests
  MaxVersion = 3
  MaxActions = 3
SPECIFICATION Spec
INVARIANTS
  SingleAdmission
  IncompleteMeansUninvoked
PROPERTIES
  ApprovalNotTransferred
  TransitionGoverned
