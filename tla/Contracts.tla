------------------------------ MODULE Contracts ------------------------------
(***************************************************************************)
(* The vocabulary every other module shares: the enumerations of           *)
(* contracts.py, the absent value, and the retry policy with the validity  *)
(* test the runtime applies to it.                                         *)
(***************************************************************************)
EXTENDS Integers

CONSTANT None             \* Python's None: an absent record, reference or value

Mode == {"EXPLICIT_PLAN", "DELEGATED_REALIZATION"}

Gate == {"PASS", "HELD", "REFUSED"}

Control == {"PASS", "REJECT_RETRYABLE", "FAIL_NONRETRYABLE", "HOLD_AMBIGUOUS",
            "HUMAN_AUTHORIZATION_REQUIRED", "CIRCUIT_OPEN"}

Report == {"SUCCESS", "FAILURE", "UNKNOWN"}

Outcome == {"RECONCILED_SUCCESS", "RECONCILIATION_FAILED",
            "RECONCILIATION_AMBIGUOUS", "STALE_STATE", "UNRESOLVED"}

Decision == {"PROJECT", "HOLD_PROJECTION", "DO_NOT_PROJECT"}

(* A bool | None field of the code (grant activity, admission seen).        *)
TriState == {"NO", "YES", "UNKNOWN"}

EffectPosture == {"NONE_ESTABLISHED", "POSSIBLE", "OCCURRED", "UNKNOWN"}

(* The one failure class a policy may allow a successor for, and the rest:  *)
(* the supervisor only ever compares a class with the eligible one.         *)
Eligible == "GENERATED_PLAN_ENVELOPE_VIOLATION"
FailureClass == {Eligible, "OTHER"}

-----------------------------------------------------------------------------
(* RetryPolicy.  "typed" is the conjunction of the type and identity tests  *)
(* of valid(); "allows" says whether allowed_failure_classes has Eligible.  *)
RetryPolicy == [typed : BOOLEAN, enabled : BOOLEAN, allows : BOOLEAN,
                max : Int, threshold : Int \cup {None}]

PolicyValid(p) ==
  /\ p.typed
  /\ p.max >= 1
  /\ p.threshold # None => p.threshold >= 1
=============================================================================
