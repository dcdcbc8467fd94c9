-------------------------- MODULE MCRetrySupervisor --------------------------
(***************************************************************************)
(* A small instance of RetrySupervisor: every kind of policy the guards    *)
(* tell apart, with budgets of one to three attempts.                      *)
(***************************************************************************)
EXTENDS RetrySupervisor

CONSTANTS MaxBudget        \* the largest max_attempts and threshold

MCPolicies ==
  {[typed |-> TRUE, enabled |-> TRUE, allows |-> TRUE, max |-> m, threshold |-> t] :
     m \in 0..MaxBudget, t \in {None} \cup 1..MaxBudget}
  \cup
  {[typed |-> y, enabled |-> e, allows |-> a, max |-> MaxBudget, threshold |-> None] :
     y \in BOOLEAN, e \in BOOLEAN, a \in BOOLEAN}
=============================================================================
