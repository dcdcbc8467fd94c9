CONSTANTS
  None = None
  Policies <- PlainPolicies
  Grants <- EffectGrants
  Faults <- PlainFaults
  Requests <- StagedRequests
  Keys = {"k1", "k2"}
  Injections <- EffectInjections
  MaxInjections = 1
  MaxStaged = 0
  ActionRequests <- NoActionRequests
  MaxVersion = 3
  MaxActions = 3
SPECIFICATION Spec
INVARIANT
  RefusedIntentIsTerminal
