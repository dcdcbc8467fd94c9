----------------------------- MODULE SliceTrace -----------------------------
(***************************************************************************)
(* The trace a run leaves: SliceRuntime with the events its steps append   *)
(* to the journal, in the order the code appends them.  The trace is a     *)
(* history variable: no step reads it, and leaving it out gives back the   *)
(* runtime.  The runtime is driven by run(), prepare(), realize() and      *)
(* dispatch(); plans made and validated by hand report nothing.            *)
(*                                                                         *)
(* An event is its type, the attempt and the outcome it names and who      *)
(* reports it; identities, sequence and causation are those of Journal.    *)
(***************************************************************************)
EXTENDS SliceRuntime

VARIABLE events

traceVars == <<vars, events>>

TraceEvent(by, type, attempt, outcome) ==
  [by |-> by, type |-> type, attempt |-> attempt, outcome |-> outcome]

Emit(new) == events' = events \o new

(* What the runtime reports itself, always of the current attempt.          *)
Note(type, outcome) == <<TraceEvent("runtime", type, Len(attempts), outcome)>>

(* emit(): what the supervisor reports, with the control it decided.        *)
Supervised(type, attempt, ctl) == <<TraceEvent("supervisor", type, attempt, ctl)>>

FailureTypes == {"TransitionHeld", "TransitionRefused"}

FailureType(ctl) ==
  IF ctl \in {"HOLD_AMBIGUOUS", "HUMAN_AUTHORIZATION_REQUIRED"} THEN "TransitionHeld" ELSE "TransitionRefused"

(* Mutant: fail() reports an attempt that has already ended once more.      *)
EndingAgain(ctl) == Supervised(FailureType(ctl), Len(attempts), ctl)

(* fail(): reported once, by the call that ends the attempt.                *)
Ending(ctl) == IF Sup!CanFail THEN Supervised(FailureType(ctl), Len(attempts), ctl) ELSE << >>

-----------------------------------------------------------------------------
CallEvents == IF Len(attempts') > Len(attempts) THEN Supervised("AttemptStarted", 1, "PASS") ELSE << >>

IntentEvents == IF PolicyUsable THEN Note("IntentStructured", "PASS") ELSE << >>

(* Lines 277-291: a WHAT found invalid is refused before its validation is  *)
(* reported.                                                                *)
WhatEvents ==
  (IF faults.unselectable THEN << >> ELSE Note("CandidateSelected", "PASS"))
  \o (IF ~faults.unselectable /\ ValidWhat THEN Note("TransitionValidated", "PASS") ELSE << >>)

ApprovalEvents ==
  WhatEvents \o Note("TransitionAuthorized", "PASS") \o Supervised("AttemptStarted", Len(attempts), "PASS")

PlanEvents == Note("ExecutionPlanValidated", Verdict)

Eligibility(ctl) == Supervised("RetryEligibilityDetermined", Len(attempts), ctl)

(* Mutant: the successor starts before its authorization is reported.       *)
ActivationBeforeAuthorization ==
  Supervised("AttemptStarted", Len(attempts) + 1, "PASS") \o Supervised("NewAttemptAuthorized", Len(attempts), "PASS")

(* Lines 171-180: authorized in the name of the attempt before it.          *)
Activation ==
  Supervised("NewAttemptAuthorized", Len(attempts), "PASS") \o Supervised("AttemptStarted", Len(attempts) + 1, "PASS")

SuccessorEvents ==
  LET eligible == Sup!EligibleFor(Len(attempts), call.mode, FreshForRetry, TRUE)
  IN  IF ~eligible THEN Eligibility(lastControl')
      ELSE Eligibility("REJECT_RETRYABLE") \o
           (IF Sup!Exhausted
            THEN Supervised("CircuitOpened", Len(attempts), "CIRCUIT_OPEN")
                 \o Supervised("HumanEscalationRequired", Len(attempts), "CIRCUIT_OPEN")
            ELSE IF faults.scheduleLost THEN Eligibility("HOLD_AMBIGUOUS")
            ELSE Activation)

ReconciliationEvents ==
  Note(IF reconciliation' = "RECONCILED_SUCCESS" THEN "TransitionReconciled" ELSE "ReconciliationFailed", reconciliation')

ProjectionType(decision) ==
  CASE decision = "PROJECT" -> "StateProjected"
    [] decision = "HOLD_PROJECTION" -> "TransitionHeld"
    [] OTHER -> "TransitionRefused"

Unreported == projection'.write = "FAILED" /\ faults.publication = "event"

(* Mutant: the decision to project is reported although its write failed.   *)
PublishedAsDecided ==
  IF Unreported THEN << >>
  ELSE <<TraceEvent("projector", ProjectionType(IF projection'.write = "FAILED" THEN "PROJECT" ELSE projection'.decision),
                    Len(attempts), projection'.decision)>>

Published ==
  IF Unreported THEN << >>
  ELSE <<TraceEvent("projector", ProjectionType(projection'.decision), Len(attempts), projection'.decision)>>

(* project(): the decision, and then the end of the attempt it did not      *)
(* project.                                                                 *)
ProjectionEvents == Published \o (IF projection'.decision = "PROJECT" THEN << >> ELSE Ending(control'))

-----------------------------------------------------------------------------
Unreportable ==
  \/ LoseIntent \/ ReadInitialState \/ RetrieveDispatch \/ BeginDispatch \/ RaiseDispatch
  \/ Invoke \/ ApplyRequest \/ ReserveOutcomeSlot

TraceStep ==
  \/ HoldIntent /\ Emit(IntentEvents \o Ending("HOLD_AMBIGUOUS"))
  \/ StructureIntent /\ Emit(IntentEvents)
  \/ (MissInitialState \/ FailToPlan \/ FailToAdmit \/ LoseOutcomeSlot) /\ Emit(Ending("HOLD_AMBIGUOUS"))
  \/ RefuseWhat /\ Emit(WhatEvents \o Ending(WhatControl))
  \/ ApproveWhat /\ Emit(ApprovalEvents)
  \/ AcceptPlan /\ Emit(PlanEvents)
  \/ RefusePlan /\ Emit(PlanEvents \o Ending(RefusalControl))
  \/ RequestSuccessor /\ Emit(SuccessorEvents)
  \/ (HoldCommit \/ HoldDispatch) /\ Emit(Ending(Fresh))
  \/ Admit /\ Emit(Note("TransitionCommitted", "PASS"))
  \/ RefuseDispatch /\ Emit(Ending("FAIL_NONRETRYABLE"))
  \/ CompleteExecution /\ Emit(Note("ExecutionCompleted", Reported))
  \/ RecordExecution /\ Emit(IF execution = "SUCCESS" THEN << >> ELSE Ending(control'))
  \/ ReconcileEffects /\ Emit(ReconciliationEvents)
  \/ (SettleNonSuccess \/ SettleSuccess) /\ Emit(ProjectionEvents)
  \/ Unreportable /\ Emit(<< >>)

TraceInit == Init /\ events = << >>

TraceNext ==
  \/ Call /\ Emit(CallEvents)
  \/ Inject /\ Emit(<< >>)
  \/ TraceStep

TraceSpec == TraceInit /\ [][TraceNext]_traceVars
-----------------------------------------------------------------------------
(* Properties.                                                              *)

At(types, n) == {i \in DOMAIN events : events[i].type \in types /\ events[i].attempt = n}

Failure(n) == {i \in At(FailureTypes, n) : events[i].by = "supervisor"}

Resumed == {"AttemptStarted", "IntentStructured", "CandidateSelected", "TransitionValidated",
            "TransitionAuthorized", "ExecutionPlanValidated", "TransitionCommitted", "StateProjected"}

(* An attempt ends in the trace exactly when it ends in the supervisor,     *)
(* once, whichever of the many stops ended it and however often stop() is   *)
(* called again; and nothing is attempted under it afterwards.              *)
TerminalReported ==
  \A n \in DOMAIN attempts :
    /\ attempts[n].terminal <=> Failure(n) # {}
    /\ Cardinality(Failure(n)) <= 1
    /\ \A i \in Failure(n), j \in At(Resumed, n) : j < i

(* S01-R25: before a successor starts, the trace holds the end of the       *)
(* attempt before it, then its eligibility, then the authorization of the   *)
(* successor; no commit comes before any of them.                           *)
SuccessorExplained ==
  \A n \in DOMAIN attempts : n > 1 =>
    \E f \in Failure(n - 1), e \in At({"RetryEligibilityDetermined"}, n - 1), a \in At({"NewAttemptAuthorized"}, n - 1),
       s \in At({"AttemptStarted"}, n) :
      /\ f < e /\ e < a /\ a < s
      /\ events[e].outcome = "REJECT_RETRYABLE"
      /\ \A i \in 1 .. s : events[i].type # "TransitionCommitted"

Prerequisite ==
  [CandidateSelected |-> "IntentStructured", TransitionValidated |-> "CandidateSelected",
   TransitionAuthorized |-> "TransitionValidated", ExecutionPlanValidated |-> "TransitionAuthorized",
   TransitionCommitted |-> "ExecutionPlanValidated", ExecutionCompleted |-> "TransitionCommitted",
   TransitionReconciled |-> "ExecutionCompleted", ReconciliationFailed |-> "ExecutionCompleted",
   StateProjected |-> "TransitionReconciled", CircuitOpened |-> "RetryEligibilityDetermined",
   HumanEscalationRequired |-> "CircuitOpened"]

(* Every material event comes after the one it rests on, with a passing     *)
(* outcome where that one is a verdict: the plan that is committed, and the *)
(* execution and comparison that are projected, passed.                     *)
CausesReported ==
  \A i \in DOMAIN events : events[i].type \in DOMAIN Prerequisite =>
    \E j \in 1 .. (i - 1) :
      /\ events[j].type = Prerequisite[events[i].type]
      /\ events[i].type = "TransitionCommitted" => events[j].outcome = "PASS" /\ events[j].attempt = events[i].attempt
      /\ events[i].type = "StateProjected" =>
           \E k \in 1 .. (j - 1) : events[k].type = "ExecutionCompleted" /\ events[k].outcome = "SUCCESS"

(* Every outcome a caller is left with is in the trace: StateProjected says *)
(* the decision was published, any other decision is reported by its own    *)
(* event or, when the journal could not take it, by the end of the attempt. *)
OutcomeReported ==
  /\ Projected <=> \E i \in DOMAIN events : events[i].type = "StateProjected"
  /\ \A s \in DOMAIN slots : slots[s] # None /\ ~Projected =>
       \/ \E i \in DOMAIN events : events[i].by = "projector" /\ events[i].outcome = slots[s].decision
       \/ slots[s].write = "FAILED" /\ Failure(Len(attempts)) # {}

(* The runtime keeps the history of a run.                                  *)
History == INSTANCE RunHistory WITH
  version <- authority.version,
  trace   <- events,
  slots   <- [i \in DOMAIN slots |-> IF slots[i] = None THEN None ELSE slots[i].decision],
  outside <- Cardinality({i \in fired : i.kind = "authority"})

HistoryKept == History!Spec

=============================================================================
