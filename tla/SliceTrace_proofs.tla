------------------------- MODULE SliceTrace_proofs -------------------------
(***************************************************************************)
(* Proofs about the runtime with its trace.  The trace is a history        *)
(* variable, so every fact proved of the runtime holds here: a step that   *)
(* reports is a step of the runtime.                                       *)
(***************************************************************************)
EXTENDS SliceTrace, SliceRuntimeSteps_proofs

(* What an event may say, and an event.                                     *)
Said == Control \cup Gate \cup Report \cup Outcome \cup Decision

EventName ==
  {"AttemptStarted", "IntentStructured", "CandidateSelected", "TransitionValidated", "TransitionAuthorized",
   "ExecutionPlanValidated", "RetryEligibilityDetermined", "NewAttemptAuthorized", "CircuitOpened",
   "HumanEscalationRequired", "TransitionCommitted", "ExecutionCompleted", "TransitionReconciled",
   "ReconciliationFailed", "StateProjected", "TransitionHeld", "TransitionRefused"}

EventType == [by : {"runtime", "supervisor", "projector"}, type : EventName, attempt : Nat, outcome : Said]

TraceInv == Inv /\ events \in Seq(EventType)

-----------------------------------------------------------------------------
(* Leaving the trace out gives back the runtime.                            *)

LEMMA TraceStepIsStep ==
  ASSUME TraceStep
  PROVE  Step
  BY DEF TraceStep, Unreportable, Step

LEMMA TraceNextIsNext ==
  ASSUME [TraceNext]_traceVars
  PROVE  [Next]_vars
<1>1. UNCHANGED traceVars => UNCHANGED vars
  BY DEF traceVars
<1> QED
  BY <1>1, TraceStepIsStep DEF TraceNext, Next

-----------------------------------------------------------------------------
(* What is reported.                                                        *)

LEMMA OneEvent ==
  ASSUME NEW e \in EventType
  PROVE  <<e>> \in Seq(EventType) /\ Len(<<e>>) = 1
  OBVIOUS

LEMMA NothingReported == << >> \in Seq(EventType)
  OBVIOUS

LEMMA Joined ==
  ASSUME NEW s \in Seq(EventType), NEW t \in Seq(EventType)
  PROVE  s \o t \in Seq(EventType)
  BY ConcatProperties

LEMMA AttemptsCounted ==
  ASSUME Inv
  PROVE  Len(attempts) \in Nat /\ Len(attempts) + 1 \in Nat /\ lastControl \in Control
<1>1. attempts \in Seq(Sup!Attempt) /\ lastControl \in Control
  BY Vocabulary DEF Inv, IndInv, SupervisorOK, Sup!TypeOK
<1> QED
  BY <1>1, LenProperties

LEMMA Noted ==
  ASSUME Inv, NEW type \in EventName, NEW outcome \in Said
  PROVE  Note(type, outcome) \in Seq(EventType)
<1>1. TraceEvent("runtime", type, Len(attempts), outcome) \in EventType
  BY AttemptsCounted DEF TraceEvent, EventType
<1> QED
  BY <1>1, OneEvent DEF Note

LEMMA SupervisedTyped ==
  ASSUME NEW type \in EventName, NEW attempt \in Nat, NEW ctl \in Control
  PROVE  Supervised(type, attempt, ctl) \in Seq(EventType)
<1>1. TraceEvent("supervisor", type, attempt, ctl) \in EventType
  BY DEF TraceEvent, EventType, Said
<1> QED
  BY <1>1, OneEvent DEF Supervised

LEMMA EndingTyped ==
  ASSUME Inv, NEW ctl \in Control
  PROVE  Ending(ctl) \in Seq(EventType)
<1>1. FailureType(ctl) \in EventName
  BY DEF FailureType, EventName
<1> QED
  BY <1>1, AttemptsCounted, SupervisedTyped, NothingReported DEF Ending

LEMMA PreparationTyped ==
  ASSUME Inv
  PROVE  /\ IntentEvents \in Seq(EventType) /\ WhatEvents \in Seq(EventType)
         /\ ApprovalEvents \in Seq(EventType) /\ PlanEvents \in Seq(EventType)
<1>1. /\ "PASS" \in Said /\ "PASS" \in Control
      /\ {"IntentStructured", "CandidateSelected", "TransitionValidated", "TransitionAuthorized", "AttemptStarted",
          "ExecutionPlanValidated"} \subseteq EventName
  BY DEF Said, Control, EventName
<1>2. \A type \in EventName : Note(type, "PASS") \in Seq(EventType)
  BY <1>1, Noted
<1>3. IntentEvents \in Seq(EventType)
  BY <1>1, <1>2, NothingReported DEF IntentEvents
<1>4. WhatEvents \in Seq(EventType)
  <2>1. (IF faults.unselectable THEN << >> ELSE Note("CandidateSelected", "PASS")) \in Seq(EventType)
    BY <1>1, <1>2, NothingReported
  <2>2. (IF ~faults.unselectable /\ ValidWhat THEN Note("TransitionValidated", "PASS") ELSE << >>) \in Seq(EventType)
    BY <1>1, <1>2, NothingReported
  <2> QED
    BY <2>1, <2>2, Joined DEF WhatEvents
<1>5. ApprovalEvents \in Seq(EventType)
  <2>1. WhatEvents \o Note("TransitionAuthorized", "PASS") \in Seq(EventType)
    BY <1>1, <1>2, <1>4, Joined
  <2>2. Supervised("AttemptStarted", Len(attempts), "PASS") \in Seq(EventType)
    BY <1>1, AttemptsCounted, SupervisedTyped
  <2> QED
    BY <2>1, <2>2, Joined DEF ApprovalEvents
<1>6. PlanEvents \in Seq(EventType)
  <2>1. Verdict \in Gate
    BY VerdictGate DEF Verdict
  <2>2. Verdict \in Said
    BY <2>1 DEF Said
  <2> QED
    BY <1>1, <2>2, Noted DEF PlanEvents
<1> QED
  BY <1>3, <1>4, <1>5, <1>6

LEMMA SuccessorTyped ==
  ASSUME Inv, lastControl' \in Control
  PROVE  SuccessorEvents \in Seq(EventType)
<1>1. /\ {"PASS", "REJECT_RETRYABLE", "HOLD_AMBIGUOUS", "CIRCUIT_OPEN"} \subseteq Control
      /\ {"RetryEligibilityDetermined", "NewAttemptAuthorized", "AttemptStarted", "CircuitOpened",
          "HumanEscalationRequired"} \subseteq EventName
  BY DEF Control, EventName
<1>2. \A type \in EventName, ctl \in Control :
        /\ Supervised(type, Len(attempts), ctl) \in Seq(EventType)
        /\ Supervised(type, Len(attempts) + 1, ctl) \in Seq(EventType)
  BY AttemptsCounted, SupervisedTyped
<1>3. \A ctl \in Control : Eligibility(ctl) \in Seq(EventType)
  BY <1>1, <1>2 DEF Eligibility
<1>4. Activation \in Seq(EventType)
  BY <1>1, <1>2, Joined DEF Activation
<1>5. Supervised("CircuitOpened", Len(attempts), "CIRCUIT_OPEN")
        \o Supervised("HumanEscalationRequired", Len(attempts), "CIRCUIT_OPEN") \in Seq(EventType)
  BY <1>1, <1>2, Joined
<1> DEFINE granting == IF Sup!Exhausted
                       THEN Supervised("CircuitOpened", Len(attempts), "CIRCUIT_OPEN")
                            \o Supervised("HumanEscalationRequired", Len(attempts), "CIRCUIT_OPEN")
                       ELSE IF faults.scheduleLost THEN Eligibility("HOLD_AMBIGUOUS") ELSE Activation
<1>6. granting \in Seq(EventType)
  BY <1>1, <1>3, <1>4, <1>5
<1>7. Eligibility("REJECT_RETRYABLE") \o granting \in Seq(EventType)
  BY <1>1, <1>3, <1>6, Joined
<1> QED
  BY <1>3, <1>7 DEF SuccessorEvents


LEMMA SettledTyped ==
  ASSUME SettleNonSuccess \/ SettleSuccess
  PROVE  projection' \in Projection /\ (Projected' => projection'.write = "APPLIED")
<1>1. \E decision \in Decision : Publish(decision)
  <2>1. {"DO_NOT_PROJECT", "HOLD_PROJECTION", "PROJECT"} \subseteq Decision
    BY DEF Decision
  <2>2. SettleNonSuccess => \E decision \in {"DO_NOT_PROJECT", "HOLD_PROJECTION"} : Publish(decision)
    BY DEF SettleNonSuccess
  <2>3. DecisionOf(FreshFinally) \in {"DO_NOT_PROJECT", "HOLD_PROJECTION", "PROJECT"}
    BY DEF DecisionOf
  <2> QED
    BY <2>1, <2>2, <2>3 DEF SettleSuccess
<1>2. ASSUME NEW decision \in Decision, Publish(decision)
      PROVE  projection' \in Projection /\ (Projected' => projection'.write = "APPLIED")
  BY <1>2 DEF Publish, Projection, Projected, Decision
<1> QED
  BY <1>1, <1>2

(* The decision that was published, and the end of an attempt that did not  *)
(* project.                                                                 *)
LEMMA ProjectionTyped ==
  ASSUME Inv, projection' \in Projection, control' \in Control
  PROVE  ProjectionEvents \in Seq(EventType) /\ (Projected' /\ ~Unreported => ProjectionEvents # << >>)
<1>1. projection'.decision \in Decision
  BY DEF Projection
<1>2. ProjectionType(projection'.decision) \in EventName
  BY DEF ProjectionType, EventName
<1>3. TraceEvent("projector", ProjectionType(projection'.decision), Len(attempts), projection'.decision) \in EventType
  BY <1>1, <1>2, AttemptsCounted DEF TraceEvent, EventType, Said
<1>4. /\ <<TraceEvent("projector", ProjectionType(projection'.decision), Len(attempts), projection'.decision)>>
           \in Seq(EventType)
      /\ Len(<<TraceEvent("projector", ProjectionType(projection'.decision), Len(attempts), projection'.decision)>>) = 1
  BY <1>3, OneEvent
<1>5. Published \in Seq(EventType) /\ (~Unreported => Len(Published) = 1)
  BY <1>4, NothingReported DEF Published
<1> DEFINE closing == IF projection'.decision = "PROJECT" THEN << >> ELSE Ending(control')
<1>6. closing \in Seq(EventType)
  <2>1. \A ctl \in Control : Ending(ctl) \in Seq(EventType)
    BY EndingTyped
  <2>2. Ending(control') \in Seq(EventType)
    BY <2>1
  <2> QED
    BY <2>2, NothingReported
<1>7. ProjectionEvents = Published \o closing
  BY DEF ProjectionEvents
<1> HIDE DEF closing
<1>8. ProjectionEvents \in Seq(EventType) /\ Len(ProjectionEvents) = Len(Published) + Len(closing)
  BY <1>5, <1>6, <1>7, ConcatProperties
<1>9. Len(closing) \in Nat
  BY <1>6, LenProperties
<1>10. ~Unreported => Len(ProjectionEvents) # 0
  BY <1>5, <1>8, <1>9
<1> QED
  BY <1>8, <1>10, EmptySeq

Reporting == \E new \in Seq(EventType) : Emit(new)

(* Every step that reports, reports typed events.                           *)
LEMMA StepReports ==
  ASSUME Inv, Inv', TraceStep
  PROVE  Reporting
<1>1. /\ {"HOLD_AMBIGUOUS", "FAIL_NONRETRYABLE", "PASS"} \subseteq Control
      /\ control' \in Control /\ lastControl' \in Control
  <2>1. control' \in Control /\ lastControl' \in Control
    BY Vocabulary DEF Inv, IndInv, SupervisorOK, ControlOK, Sup!TypeOK
  <2> QED
    BY <2>1 DEF Control
<1>2. \A ctl \in Control : Ending(ctl) \in Seq(EventType)
  BY EndingTyped
<1>3. \A type \in EventName, outcome \in Said : Note(type, outcome) \in Seq(EventType)
  BY Noted
<1>4. {"TransitionCommitted", "ExecutionCompleted", "TransitionReconciled", "ReconciliationFailed"} \subseteq EventName
  BY DEF EventName
<1>5. CASE HoldIntent /\ Emit(IntentEvents \o Ending("HOLD_AMBIGUOUS"))
  <2>1. IntentEvents \o Ending("HOLD_AMBIGUOUS") \in Seq(EventType)
    BY <1>1, <1>2, PreparationTyped, Joined
  <2> QED
    BY <1>5, <2>1 DEF Reporting
<1>6. CASE Emit(IntentEvents) \/ Emit(ApprovalEvents) \/ Emit(PlanEvents) \/ Emit(<< >>)
  BY <1>6, PreparationTyped, NothingReported DEF Reporting
<1>7. ASSUME NEW ctl \in Control, Emit(Ending(ctl)) PROVE Reporting
  BY <1>2, <1>7 DEF Reporting
<1>8. CASE RefuseWhat /\ Emit(WhatEvents \o Ending(WhatControl))
  <2>1. WhatEvents \o Ending(WhatControl) \in Seq(EventType)
    BY <1>2, FreshControl, PreparationTyped, Joined
  <2> QED
    BY <1>8, <2>1 DEF Reporting
<1>9. CASE RefusePlan /\ Emit(PlanEvents \o Ending(RefusalControl))
  <2>1. RefusalControl \in Control
    BY DEF RefusalControl, Control
  <2>2. PlanEvents \o Ending(RefusalControl) \in Seq(EventType)
    BY <1>2, <2>1, PreparationTyped, Joined
  <2> QED
    BY <1>9, <2>2 DEF Reporting
<1>10. CASE RequestSuccessor /\ Emit(SuccessorEvents)
  BY <1>1, <1>10, SuccessorTyped DEF Reporting
<1>11. CASE Admit /\ Emit(Note("TransitionCommitted", "PASS"))
  <2>1. "PASS" \in Said
    BY <1>1 DEF Said
  <2> QED
    BY <1>3, <1>4, <1>11, <2>1 DEF Reporting
<1>12. CASE CompleteExecution /\ Emit(Note("ExecutionCompleted", Reported))
  <2>1. Reported \in Said
    BY ReportedTyped DEF Said, Inv, IndInv
  <2> QED
    BY <1>3, <1>4, <1>12, <2>1 DEF Reporting
<1>13. CASE RecordExecution /\ Emit(IF execution = "SUCCESS" THEN << >> ELSE Ending(control'))
  <2>1. (IF execution = "SUCCESS" THEN << >> ELSE Ending(control')) \in Seq(EventType)
    BY <1>1, <1>2, NothingReported
  <2> QED
    BY <1>13, <2>1 DEF Reporting
<1>14. CASE ReconcileEffects /\ Emit(ReconciliationEvents)
  <2>1. reconciliation' \in Said
    BY <1>14, OutcomeTyped DEF ReconcileEffects, Said
  <2>2. ReconciliationEvents \in Seq(EventType)
    BY <1>3, <1>4, <2>1 DEF ReconciliationEvents
  <2> QED
    BY <1>14, <2>2 DEF Reporting
<1>15. CASE (SettleNonSuccess \/ SettleSuccess) /\ Emit(ProjectionEvents)
  <2>1. projection' \in Projection
    BY <1>15, SettledTyped
  <2> QED
    BY <1>1, <1>15, <2>1, ProjectionTyped DEF Reporting
<1>16. Fresh \in Control
  BY FreshControl
<1> QED
  BY <1>1, <1>5, <1>6, <1>7, <1>8, <1>9, <1>10, <1>11, <1>12, <1>13, <1>14, <1>15, <1>16 DEF TraceStep


LEMMA CallReports ==
  ASSUME Emit(CallEvents)
  PROVE  Reporting
<1>1. "AttemptStarted" \in EventName /\ "PASS" \in Control /\ 1 \in Nat
  BY DEF EventName, Control
<1>2. CallEvents \in Seq(EventType)
  BY <1>1, SupervisedTyped, NothingReported DEF CallEvents
<1> QED
  BY <1>2 DEF Reporting

(* The trace only grows, and stays a sequence of events.                    *)
LEMMA TraceGrows ==
  ASSUME events \in Seq(EventType), NEW new \in Seq(EventType), Emit(new)
  PROVE  /\ events' \in Seq(EventType) /\ History!Grown
         /\ Len(events') = Len(events) + Len(new)
<1>1. /\ events' \in Seq(EventType) /\ Len(events') = Len(events) + Len(new)
      /\ \A i \in 1 .. Len(events) + Len(new) :
           events'[i] = IF i <= Len(events) THEN events[i] ELSE new[i - Len(events)]
  BY ConcatProperties DEF Emit
<1>2. Len(events) \in Nat /\ Len(new) \in Nat
  BY LenProperties
<1>3. \A i \in 1 .. Len(events) : i \in 1 .. Len(events) + Len(new) /\ i <= Len(events)
  BY <1>2
<1>4. \A i \in 1 .. Len(events) : events'[i] = events[i]
  BY <1>1, <1>3
<1> QED
  BY <1>1, <1>2, <1>4 DEF History!Grown

LEMMA QuietTrace ==
  ASSUME events \in Seq(EventType), Emit(<< >>)
  PROVE  events' = events
  BY ConcatEmptySeq DEF Emit

LEMMA TraceReports ==
  ASSUME TraceInv, TraceNext
  PROVE  Reporting
<1>1. Inv /\ Inv'
  BY TraceNextIsNext, StepInv DEF TraceInv
<1>2. Emit(<< >>) => Reporting
  BY NothingReported DEF Reporting
<1> QED
  BY <1>1, <1>2, CallReports, StepReports DEF TraceNext

LEMMA TraceInductive == TraceSpec => [](TraceInv /\ ReconciledOK)
<1>1. TraceInit => TraceInv /\ ReconciledOK
  BY InitInv, ReconciledInit, NothingReported DEF TraceInit, TraceInv
<1>2. (TraceInv /\ ReconciledOK) /\ [TraceNext]_traceVars => (TraceInv /\ ReconciledOK)'
  <2> SUFFICES ASSUME TraceInv, ReconciledOK, [TraceNext]_traceVars PROVE (TraceInv /\ ReconciledOK)'
    OBVIOUS
  <2>1. Inv' /\ ReconciledOK'
    BY TraceNextIsNext, StepInv, ReconciledStep DEF TraceInv
  <2>2. CASE TraceNext
    <3>1. PICK new \in Seq(EventType) : Emit(new)
      BY <2>2, TraceReports DEF Reporting
    <3> QED
      BY <2>1, <3>1, TraceGrows DEF TraceInv
  <2>3. CASE UNCHANGED traceVars
    BY <2>1, <2>3 DEF TraceInv, traceVars
  <2> QED
    BY <2>2, <2>3
<1> QED
  BY <1>1, <1>2, PTL DEF TraceSpec

-----------------------------------------------------------------------------
(* The history of a run.  These are the values the refinement gives its     *)
(* variables.                                                               *)

SlotDecisions == [i \in DOMAIN slots |-> IF slots[i] = None THEN None ELSE slots[i].decision]

Moves == {i \in fired : i.kind = "authority"}

LEMMA Entered ==
  ASSUME TraceInv, Reporting, UNCHANGED <<authority, slots, fired>>
  PROVE  History!Enter
<1>1. PICK new \in Seq(EventType) : Emit(new)
  BY DEF Reporting
<1>2. History!Grown
  BY <1>1, TraceGrows DEF TraceInv
<1>3. SlotDecisions' = SlotDecisions /\ Cardinality(Moves)' = Cardinality(Moves)
  BY DEF SlotDecisions, Moves
<1> QED
  BY <1>2, <1>3 DEF History!Enter, SlotDecisions, Moves

LEMMA CallEntered ==
  ASSUME TraceInv, Call, Emit(CallEvents)
  PROVE  History!Enter
<1>1. Idle
  BY DEF Call, CallPrepare, CallRun, CallRealize, CallDispatch
<1>2. UNCHANGED <<authority, slots, fired>>
  BY <1>1 DEF Idle, outVars, seamVars
<1> QED
  BY <1>2, CallReports, Entered

LEMMA InjectEntered ==
  ASSUME TraceInv, Inject, Emit(<< >>)
  PROVE  History!Enter \/ History!Outside
<1> PICK kind \in {i.kind : i \in {j \in Injections : j.seam = pc}} : Inject!(kind)
  BY DEF Inject
<1> DEFINE one == [seam |-> pc, kind |-> kind]
<1>1. /\ fired' = fired \cup {one} /\ one \notin fired /\ one.kind = kind /\ IsFiniteSet(fired)
      /\ UNCHANGED slots
  BY DEF TraceInv, Inv, IndInv, BuiltOK
<1>2. events' = events
  BY QuietTrace DEF TraceInv
<1>3. SlotDecisions' = SlotDecisions
  BY <1>1 DEF SlotDecisions
<1> HIDE DEF one
<1>4. CASE kind = "authority"
  <2>1. Moves' = Moves \cup {one} /\ one \notin Moves
    BY <1>1, <1>4 DEF Moves
  <2>2. IsFiniteSet(Moves)
    BY <1>1, FS_Subset DEF Moves
  <2>3. Cardinality(Moves') = Cardinality(Moves) + 1
    BY <2>1, <2>2, FS_AddElement
  <2>4. authority' = [state |-> "REVIEW", version |-> authority.version + 1]
    BY <1>4
  <2>5. authority'.version = authority.version + 1
    BY <2>4
  <2> QED
    BY <1>2, <1>3, <2>3, <2>5 DEF History!Outside, SlotDecisions, Moves
<1>5. CASE kind # "authority"
  <2>1. Moves' = Moves
    BY <1>1, <1>5 DEF Moves
  <2>2. authority' = authority
    BY <1>5
  <2>3. History!Grown
    BY TraceGrows, NothingReported DEF TraceInv
  <2> QED
    BY <1>3, <2>1, <2>2, <2>3 DEF History!Enter, SlotDecisions, Moves
<1> QED
  BY <1>4, <1>5


(* The slots are only written where one is reserved and where it is         *)
(* published.                                                               *)
LEMMA StepSlots ==
  ASSUME Step, ~ReserveOutcomeSlot, ~SettleNonSuccess, ~SettleSuccess
  PROVE  UNCHANGED <<authority, slots>>
<1>1. UNCHANGED outVars => UNCHANGED <<authority, slots>>
  BY DEF outVars
<1>2. ASSUME NEW ctl, StopCall(ctl) \/ StopDispatch(ctl) PROVE UNCHANGED outVars
  BY <1>2 DEF StopCall, StopDispatch
<1>3. HoldIntent \/ MissInitialState \/ RefuseWhat \/ HoldCommit \/ FailToAdmit \/ RefuseDispatch \/ HoldDispatch
        => UNCHANGED outVars
  BY <1>2 DEF HoldIntent, MissInitialState, RefuseWhat, HoldCommit, FailToAdmit, RefuseDispatch, HoldDispatch
<1>4. LoseIntent \/ StructureIntent \/ ReadInitialState \/ ApproveWhat \/ FailToPlan \/ RequestSuccessor
        => UNCHANGED outVars
  BY DEF LoseIntent, StructureIntent, ReadInitialState, ApproveWhat, FailToPlan, RequestSuccessor
<1>5. AcceptPlan \/ RefusePlan \/ Admit \/ RetrieveDispatch \/ BeginDispatch \/ RaiseDispatch => UNCHANGED outVars
  BY DEF AcceptPlan, RefusePlan, RetainPlan, Admit, AdmitUnder, RetrieveDispatch, BeginDispatch, RaiseDispatch
<1>6. Invoke \/ ApplyRequest \/ CompleteExecution \/ RecordExecution \/ ReconcileEffects => UNCHANGED outVars
  BY DEF Invoke, ApplyRequest, CompleteExecution, RecordExecution, ReconcileEffects
<1>7. LoseOutcomeSlot => UNCHANGED <<authority, slots>>
  BY DEF LoseOutcomeSlot
<1> QED
  BY <1>1, <1>3, <1>4, <1>5, <1>6, <1>7 DEF Step

LEMMA ReserveKept ==
  ASSUME TraceInv, TraceStep, ReserveOutcomeSlot
  PROVE  History!Reserve
<1>1. /\ pc = "reserve" /\ ~faults.slotUnavailable /\ slots' = Append(slots, None)
      /\ UNCHANGED <<authority, fired>>
  BY DEF ReserveOutcomeSlot, seamVars
<1>2. Emit(<< >>)
  <2>1. pc \notin {"started", "initial", "what", "plan", "retry", "pre_commit", "pre_dispatch", "invoke", "executed",
                   "post_execution", "settle", "final"}
    BY <1>1
  <2>2. ~(HoldIntent \/ StructureIntent \/ MissInitialState \/ FailToPlan \/ FailToAdmit \/ RefuseWhat \/ ApproveWhat)
    BY <2>1 DEF HoldIntent, StructureIntent, MissInitialState, FailToPlan, FailToAdmit, RefuseWhat, ApproveWhat
  <2>3. ~(AcceptPlan \/ RefusePlan \/ RequestSuccessor \/ HoldCommit \/ HoldDispatch \/ Admit \/ RefuseDispatch)
    BY <2>1 DEF AcceptPlan, RefusePlan, RetainPlan, RequestSuccessor, HoldCommit, HoldDispatch, Admit, RefuseDispatch
  <2>4. ~(CompleteExecution \/ RecordExecution \/ ReconcileEffects \/ SettleNonSuccess \/ SettleSuccess
           \/ LoseOutcomeSlot)
    BY <1>1, <2>1 DEF CompleteExecution, RecordExecution, ReconcileEffects, SettleNonSuccess, SettleSuccess,
       LoseOutcomeSlot
  <2> QED
    BY <2>2, <2>3, <2>4 DEF TraceStep
<1>3. events' = events
  BY <1>2, QuietTrace DEF TraceInv
<1>4. slots = << >>
  BY <1>1, RealizingState DEF TraceInv, Inv, Realizing, Realized
<1>5. slots' = <<None>>
  BY <1>1, <1>4
<1>6. SlotDecisions = << >>
  BY <1>4 DEF SlotDecisions
<1>7. SlotDecisions' = <<None>>
  BY <1>5 DEF SlotDecisions
<1>8. SlotDecisions' = Append(SlotDecisions, None)
  BY <1>6, <1>7
<1> QED
  BY <1>1, <1>3, <1>8 DEF History!Reserve, SlotDecisions, Moves

(* A settlement reports what it settled, and nothing else happens with it.  *)
LEMMA SettleAlone ==
  ASSUME TraceStep, SettleNonSuccess \/ SettleSuccess
  PROVE  Emit(ProjectionEvents)
<1>1. pc \in {"settle", "final"}
  BY DEF SettleNonSuccess, SettleSuccess
<1>2. ~(HoldIntent \/ StructureIntent \/ MissInitialState \/ FailToPlan \/ FailToAdmit \/ RefuseWhat \/ ApproveWhat)
  BY <1>1 DEF HoldIntent, StructureIntent, MissInitialState, FailToPlan, FailToAdmit, RefuseWhat, ApproveWhat
<1>3. ~(AcceptPlan \/ RefusePlan \/ RequestSuccessor \/ HoldCommit \/ HoldDispatch \/ Admit \/ RefuseDispatch)
  BY <1>1 DEF AcceptPlan, RefusePlan, RetainPlan, RequestSuccessor, HoldCommit, HoldDispatch, Admit, RefuseDispatch
<1>4. ~(CompleteExecution \/ RecordExecution \/ ReconcileEffects \/ LoseOutcomeSlot)
  BY <1>1 DEF CompleteExecution, RecordExecution, ReconcileEffects, LoseOutcomeSlot
<1>5. ~(LoseIntent \/ ReadInitialState \/ RetrieveDispatch \/ BeginDispatch \/ RaiseDispatch \/ Invoke)
  BY <1>1 DEF LoseIntent, ReadInitialState, RetrieveDispatch, BeginDispatch, RaiseDispatch, Invoke
<1>6. ~(ApplyRequest \/ ReserveOutcomeSlot)
  BY <1>1 DEF ApplyRequest, ReserveOutcomeSlot
<1> QED
  BY <1>2, <1>3, <1>4, <1>5, <1>6 DEF TraceStep, Unreportable

(* A publication decides the one open slot, and moves the authority only    *)
(* with a decision to project and the event that reports it.                *)
LEMMA SettleKept ==
  ASSUME TraceInv, TraceStep, SettleNonSuccess \/ SettleSuccess
  PROVE  History!Next
<1>1. /\ Inv /\ Inv' /\ Step /\ events \in Seq(EventType)
      /\ pc \in {"settle", "final"}
  BY TraceStepIsStep, StepInv DEF TraceInv, Next, SettleNonSuccess, SettleSuccess
<1>2. projection' \in Projection /\ (Projected' => projection'.write = "APPLIED") /\ control' \in Control
  BY <1>1, SettledTyped DEF Inv, IndInv, ControlOK
<1>3. Emit(ProjectionEvents)
  BY SettleAlone
<1>4. ProjectionEvents \in Seq(EventType) /\ (Projected' /\ ~Unreported => ProjectionEvents # << >>)
  BY <1>1, <1>2, ProjectionTyped
<1>5. History!Grown /\ (Projected' => Len(events') > Len(events))
  <2>1. PICK new \in Seq(EventType) : Emit(new) /\ (Projected' => new # << >>)
    BY <1>2, <1>3, <1>4 DEF Unreported
  <2>2. History!Grown /\ Len(events') = Len(events) + Len(new)
    BY <1>1, <2>1, TraceGrows
  <2>3. Len(new) \in Nat /\ Len(events) \in Nat /\ (new # << >> => Len(new) # 0)
    BY <1>1, EmptySeq, LenProperties
  <2> QED
    BY <2>1, <2>2, <2>3
<1>6. slots = <<None>>
  BY <1>1, RealizingState DEF Inv, Realizing, Realized
<1>7. slots' = [slots EXCEPT ![1] = projection']
  <2>1. ASSUME NEW decision, Publish(decision) PROVE slots' = [slots EXCEPT ![Len(slots)] = projection']
    BY <2>1 DEF Publish
  <2>2. slots' = [slots EXCEPT ![Len(slots)] = projection']
    BY <2>1 DEF SettleNonSuccess, SettleSuccess
  <2> QED
    BY <1>6, <2>2
<1>8. projection' # None /\ projection'.decision \in Decision
  BY <1>2, AbsenceAssumption DEF Projection
<1>9. SlotDecisions' = [SlotDecisions EXCEPT ![1] = projection'.decision] /\ SlotDecisions[1] = None
  <2>1. DOMAIN slots = {1} /\ slots[1] = None
    BY <1>6
  <2>2. DOMAIN slots' = {1} /\ slots'[1] = projection'
    BY <1>7, <2>1
  <2>3. SlotDecisions = [i \in {1} |-> None]
    BY <2>1 DEF SlotDecisions
  <2>4. SlotDecisions' = [i \in {1} |-> projection'.decision]
    BY <1>8, <2>2 DEF SlotDecisions
  <2> QED
    BY <2>3, <2>4
<1>10. Projected' <=> projection'.decision = "PROJECT"
  BY <1>8 DEF Projected
<1>11. IF projection'.decision = "PROJECT" THEN authority'.version = authority.version + 1 ELSE authority' = authority
  <2>1. Advanced.version = authority.version + 1
    BY DEF Advanced
  <2> QED
    BY <1>10, <2>1, SettleAuthority
<1>12. UNCHANGED fired
  BY <1>1, StepSeam
<1>13. PICK d \in Decision : d = projection'.decision
  BY <1>8
<1>14. History!Decide(1, d)
  BY <1>5, <1>9, <1>10, <1>11, <1>12, <1>13 DEF History!Decide, SlotDecisions, Moves
<1>15. 1 \in 1 .. Len(SlotDecisions)
  <2>1. SlotDecisions = <<None>>
    BY <1>6 DEF SlotDecisions
  <2> QED
    BY <2>1
<1>16. \E k \in 1 .. Len(SlotDecisions), decision \in Decision : History!Decide(k, decision)
  BY <1>15, <1>14
<1> QED
  BY <1>16 DEF SlotDecisions, Decision, History!Decision, History!Next

LEMMA HistoryStep ==
  ASSUME TraceInv, [TraceNext]_traceVars
  PROVE  [History!Next]_(History!vars)
<1>1. CASE UNCHANGED traceVars
  BY <1>1 DEF traceVars, vars, seamVars, outVars, History!vars
<1>2. CASE Call /\ Emit(CallEvents)
  BY <1>2, CallEntered DEF History!Next
<1>3. CASE Inject /\ Emit(<< >>)
  BY <1>3, InjectEntered DEF History!Next
<1>4. CASE TraceStep
  <2>1. Step /\ UNCHANGED fired
    BY <1>4, TraceStepIsStep, StepSeam
  <2>2. Reporting
    BY <1>4, TraceReports DEF TraceNext
  <2>3. CASE ReserveOutcomeSlot
    BY <1>4, <2>3, ReserveKept DEF History!Next
  <2>4. CASE SettleNonSuccess \/ SettleSuccess
    BY <1>4, <2>4, SettleKept
  <2>5. CASE ~ReserveOutcomeSlot /\ ~SettleNonSuccess /\ ~SettleSuccess
    BY <2>1, <2>2, <2>5, StepSlots, Entered DEF History!Next
  <2> QED
    BY <2>3, <2>4, <2>5
<1> QED
  BY <1>1, <1>2, <1>3, <1>4 DEF TraceNext

LEMMA HistoryInit == TraceInit => History!Init
<1> SUFFICES ASSUME TraceInit PROVE History!Init
  OBVIOUS
<1>1. /\ authority = [state |-> "DRAFT", version |-> 1] /\ slots = << >> /\ fired = {} /\ events = << >>
  BY DEF TraceInit, Init
<1>2. SlotDecisions = << >>
  BY <1>1 DEF SlotDecisions
<1>3. Moves = {} /\ Cardinality(Moves) = 0
  BY <1>1, FS_EmptySet DEF Moves
<1> QED
  BY <1>1, <1>2, <1>3 DEF History!Init, SlotDecisions, Moves

(* The runtime with its trace keeps the history of a run: whatever a caller *)
(* or the outside does, the trace only grows, the outcome slot is decided   *)
(* once, and the authority moves only with the decision to project and the  *)
(* event that reports it (journal.py:98-118, reconciliation.py:155-203).    *)
THEOREM RunHistoryKept == TraceSpec => HistoryKept
<1>1. (TraceInv /\ ReconciledOK) /\ [TraceNext]_traceVars => [History!Next]_(History!vars)
  BY HistoryStep
<1> QED
  BY <1>1, HistoryInit, TraceInductive, PTL DEF TraceSpec, HistoryKept, History!Spec
=============================================================================
