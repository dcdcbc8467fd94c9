---------------------- MODULE SliceRuntimeSteps_proofs ----------------------
(***************************************************************************)
(* What a step of the runtime may never do, and what the runtime           *)
(* implements.  Everything rests on the inductive invariant of             *)
(* SliceRuntime_proofs; three facts are added to it here, each of a        *)
(* concern of its own: ReconciledOK says what evidence a reconciled        *)
(* success was decided on, PlanlessOK that a commit is only ever left      *)
(* without a plan by ending the attempt, and ReturnsOK that a caller who   *)
(* is given an answer finds the attempt over.                              *)
(***************************************************************************)
EXTENDS SliceRuntime_proofs

(* Every behaviour starts in the invariant and keeps it, step by step.      *)
LEMMA StepInv == Inv /\ [Next]_vars => Inv'
  BY NextInv, StutterInv

-----------------------------------------------------------------------------
(* The supervisor is driven only as it allows.                              *)

(* Ending an attempt is the supervisor's fail(), or nothing at all.         *)
LEMMA EndAttemptAllowed ==
  ASSUME NEW ctl \in Control \ {"PASS"}, NEW class \in FailureClass, NEW retain \in BOOLEAN,
         EndAttempt(ctl, class, retain)
  PROVE  Sup!Next \/ UNCHANGED supVars
<1>1. CASE Sup!Fail(ctl, class, retain)
  <2>1. Sup!CallFail
    BY <1>1, Vocabulary DEF Sup!CallFail
  <2> QED
    BY <2>1 DEF Sup!Next
<1> QED
  BY <1>1 DEF EndAttempt

LEMMA StopAllowed ==
  ASSUME NEW ctl \in Control \ {"PASS"}, Stop(ctl)
  PROVE  Sup!Next \/ UNCHANGED supVars
  BY EndAttemptAllowed DEF Stop, FailureClass

LEMMA PostureAllowed ==
  ASSUME NEW posture \in EffectPosture, Sup!SetPosture(posture)
  PROVE  Sup!Next
  BY Vocabulary DEF Sup!Next, Sup!Environment

LEMMA CallSupervised ==
  ASSUME Call \/ Staged
  PROVE  Sup!Next \/ UNCHANGED supVars
<1>1. ASSUME NEW req, NEW key, CallPrepare(req) \/ CallRun(req, key) PROVE Sup!Start \/ UNCHANGED supVars
  BY <1>1 DEF CallPrepare, CallRun, StartScope, Answer
<1>2. ASSUME NEW key, NEW mode, CallRealize(key, mode) PROVE UNCHANGED supVars
  BY <1>2 DEF CallRealize, Answer
<1>3. ASSUME NEW presented, CallDispatch(presented) PROVE UNCHANGED supVars
  BY <1>3 DEF CallDispatch
<1>4. ASSUME NEW mode, NEW defect, CallBuild(mode, defect) PROVE UNCHANGED supVars
  BY <1>4 DEF CallBuild
<1>5. ASSUME NEW p, CallValidate(p) PROVE UNCHANGED supVars
  BY <1>5 DEF CallValidate
<1>6. ASSUME NEW key, CallAdmit(key) PROVE Sup!Admission
  BY <1>6 DEF CallAdmit, AdmitUnder
<1> QED
  BY <1>1, <1>2, <1>3, <1>4, <1>5, <1>6 DEF Call, Staged, Sup!Next

LEMMA InjectSupervised ==
  ASSUME Inject
  PROVE  Sup!Next \/ UNCHANGED supVars
<1>1. \/ UNCHANGED supVars
      \/ \E seen \in {"YES", "UNKNOWN"} : Sup!InjectAdmission(seen)
      \/ \E posture \in {"POSSIBLE", "OCCURRED", "UNKNOWN"} : Sup!SetPosture(posture)
  BY DEF Inject
<1>2. {"POSSIBLE", "OCCURRED", "UNKNOWN"} \subseteq EffectPosture
  BY DEF EffectPosture
<1>3. (\E seen \in {"YES", "UNKNOWN"} : Sup!InjectAdmission(seen)) => Sup!Next
  BY DEF Sup!Next, Sup!Environment
<1> QED
  BY <1>1, <1>2, <1>3, PostureAllowed

(* successor() is asked about the last attempt, with the mode of the call   *)
(* and what the freshness check said.                                       *)
LEMMA RequestSuccessorSupervised ==
  ASSUME Inv, RequestSuccessor
  PROVE  Sup!Next
<1>1. /\ pc = "retry"
      /\ Sup!Successor(Len(attempts), call.mode, FreshForRetry, TRUE, faults.scheduleLost)
  BY DEF RequestSuccessor
<1>2. Len(attempts) \in 1 .. (Len(attempts) + 1)
  <2>1. attempts # << >>
    BY <1>1 DEF Inv, IndInv, ControlOK
  <2>2. Len(attempts) \in Nat \ {0}
    BY <2>1, CurrentAttempt DEF Inv, IndInv
  <2> QED
    BY <2>2
<1>3. call.mode \in Sup!Mode
  BY <1>1, Vocabulary DEF Inv, IndInv, ControlOK, CallType
<1>4. FreshForRetry \in Sup!Control
  BY FreshControl, Vocabulary
<1>5. faults.scheduleLost \in BOOLEAN
  BY DEF Inv, IndInv, BuiltOK, FixtureFaults
<1>6. Sup!CallSuccessor
  BY <1>1, <1>2, <1>3, <1>4, <1>5 DEF Sup!CallSuccessor
<1> QED
  BY <1>6 DEF Sup!Next

LEMMA StepSupervised ==
  ASSUME Inv, Step
  PROVE  Sup!Next \/ UNCHANGED supVars
<1>1. {"HOLD_AMBIGUOUS", "FAIL_NONRETRYABLE", "REJECT_RETRYABLE"} \subseteq Control \ {"PASS"}
  BY DEF Control
<1>2. ASSUME NEW ctl \in Control \ {"PASS"}, StopCall(ctl) \/ StopDispatch(ctl)
      PROVE Sup!Next \/ UNCHANGED supVars
  BY <1>2, StopAllowed DEF StopCall, StopDispatch
<1>3. HoldIntent \/ MissInitialState \/ FailToAdmit \/ RefuseDispatch => Sup!Next \/ UNCHANGED supVars
  BY <1>1, <1>2 DEF HoldIntent, MissInitialState, FailToAdmit, RefuseDispatch
<1>4. RefuseWhat \/ HoldCommit \/ HoldDispatch => Sup!Next \/ UNCHANGED supVars
  BY <1>2, FreshControl DEF RefuseWhat, HoldCommit, HoldDispatch
<1>5. FailToPlan \/ LoseOutcomeSlot => Sup!Next \/ UNCHANGED supVars
  BY <1>1, StopAllowed DEF FailToPlan, LoseOutcomeSlot
<1>6. RefusePlan => Sup!Next \/ UNCHANGED supVars
  <2>1. RefusalControl \in Control \ {"PASS"}
    BY <1>1 DEF RefusalControl
  <2>2. PlanFailure \in FailureClass
    BY DEF PlanFailure, FailureClass
  <2>3. (~faults.evidenceMissing) \in BOOLEAN
    OBVIOUS
  <2> QED
    BY <2>1, <2>2, <2>3, EndAttemptAllowed DEF RefusePlan
<1>7. ApproveWhat \/ Admit => Sup!Next
  <2>1. ApproveWhat => Sup!CallBind
    BY PreparingState DEF Inv, ApproveWhat, Preparing, Sup!CallBind, Sup!Current, Current
  <2> QED
    BY <2>1 DEF Admit, AdmitUnder, Sup!Next
<1>8. Invoke \/ CompleteExecution => Sup!Next
  <2>1. "POSSIBLE" \in EffectPosture /\ PostureAfter \in EffectPosture
    BY DEF PostureAfter, EffectPosture
  <2> QED
    BY <2>1, PostureAllowed DEF Invoke, CompleteExecution
<1>9. RecordExecution => Sup!Next \/ UNCHANGED supVars
  BY <1>1, StopAllowed DEF RecordExecution
<1>10. LoseIntent \/ StructureIntent \/ ReadInitialState \/ AcceptPlan \/ RetrieveDispatch \/ BeginDispatch \/ RaiseDispatch
       \/ ApplyRequest \/ ReconcileEffects \/ ReserveOutcomeSlot => UNCHANGED supVars
  BY DEF LoseIntent, StructureIntent, ReadInitialState, AcceptPlan, RetrieveDispatch, BeginDispatch, RaiseDispatch,
         ApplyRequest, ReconcileEffects, ReserveOutcomeSlot
<1>11. SettleNonSuccess \/ SettleSuccess => Sup!Next \/ UNCHANGED supVars
  <2>1. ASSUME NEW decision, Publish(decision) PROVE Sup!Next \/ UNCHANGED supVars
    BY <1>1, <2>1, StopAllowed DEF Publish
  <2> QED
    BY <2>1 DEF SettleNonSuccess, SettleSuccess
<1> QED
  BY <1>3, <1>4, <1>5, <1>6, <1>7, <1>8, <1>9, <1>10, <1>11, RequestSuccessorSupervised DEF Step

(* The attempts of a runtime are those of a supervisor: every step of the   *)
(* runtime is one operation of retry.py or leaves its state alone.          *)
THEOREM RuntimeDrivesSupervisor == Spec => SupervisorImplemented
<1>1. Init => Sup!Init
  BY DEF Init
<1>2. Inv /\ [Next]_vars => [Sup!Next]_Sup!vars
  <2> SUFFICES ASSUME Inv, [Next]_vars PROVE Sup!Next \/ UNCHANGED Sup!vars
    OBVIOUS
  <2>1. UNCHANGED supVars => UNCHANGED Sup!vars
    BY DEF supVars, Sup!vars
  <2>2. UNCHANGED vars => UNCHANGED supVars
    BY DEF vars
  <2> QED
    BY <2>1, <2>2, CallSupervised, InjectSupervised, StepSupervised DEF Next
<1> QED
  BY <1>1, <1>2, Inductive, PTL DEF Spec, SupervisorImplemented, Sup!Spec

-----------------------------------------------------------------------------
(* Which steps invoke, and which publish.                                   *)

LEMMA OnlyInvokeInvokes ==
  ASSUME Inv, [Next]_vars, invocations' # invocations
  PROVE  Invoke
<1>1. UNCHANGED vars => invocations' = invocations
  BY DEF vars, provVars
<1>2. Quiet => invocations' = invocations
  BY DEF Quiet
<1>3. Inject => invocations' = invocations
  BY InjectView DEF Inv, EffectsOK
<1>4. ReadInitialState \/ ApplyRequest \/ CompleteExecution => invocations' = invocations
  BY DEF ReadInitialState, ApplyRequest, CompleteExecution, Prov!Apply, Prov!CloseInterval, provVars
<1> QED
  BY <1>1, <1>2, <1>3, <1>4, QuietCalls, QuietSteps DEF Next, Loud

(* The projection is only ever written where the realization settles.       *)
LEMMA CallProjection ==
  ASSUME Call \/ Staged \/ Inject
  PROVE  UNCHANGED <<projection, slots, execution, observed, reconciliation>>
<1>1. Idle => UNCHANGED <<projection, slots, execution, observed, reconciliation>>
  BY DEF Idle, realVars, outVars
<1>2. Call => Idle
  BY DEF Call, CallPrepare, CallRun, CallRealize, CallDispatch
<1>3. (\E mode \in Mode, defect \in StagedDefect : CallBuild(mode, defect)) \/ (\E p \in {plans[i] : i \in DOMAIN plans} \cup ({plan} \ {None}) : CallValidate(p))
        => Idle
  BY DEF CallBuild, CallValidate
<1>4. (\E key \in Keys : CallAdmit(key)) => UNCHANGED <<projection, slots, execution, observed, reconciliation>>
  BY DEF CallAdmit, AdmitUnder, outVars
<1>5. Inject => UNCHANGED <<projection, slots, execution, observed, reconciliation>>
  BY DEF Inject, realVars
<1> QED
  BY <1>1, <1>2, <1>3, <1>4, <1>5 DEF Staged

Settling == LoseOutcomeSlot \/ SettleNonSuccess \/ SettleSuccess

LEMMA StepProjection ==
  ASSUME Step, ~Settling
  PROVE  UNCHANGED projection
<1>1. outVars' = outVars => UNCHANGED projection
  BY DEF outVars
<1>2. ASSUME NEW ctl, StopCall(ctl) \/ StopDispatch(ctl) PROVE UNCHANGED outVars
  BY <1>2 DEF StopCall, StopDispatch
<1>3. HoldIntent \/ MissInitialState \/ RefuseWhat \/ HoldCommit \/ FailToAdmit \/ RefuseDispatch \/ HoldDispatch
        => UNCHANGED outVars
  BY <1>2 DEF HoldIntent, MissInitialState, RefuseWhat, HoldCommit, FailToAdmit, RefuseDispatch, HoldDispatch
<1>4. LoseIntent \/ StructureIntent \/ ReadInitialState \/ ApproveWhat \/ FailToPlan \/ RequestSuccessor
        => UNCHANGED outVars
  BY DEF LoseIntent, StructureIntent, ReadInitialState, ApproveWhat, FailToPlan, RequestSuccessor
<1>5. AcceptPlan \/ RefusePlan \/ Admit \/ RetrieveDispatch \/ BeginDispatch \/ RaiseDispatch => UNCHANGED outVars
  BY DEF AcceptPlan, RefusePlan, RetainPlan, Admit, AdmitUnder, RetrieveDispatch, BeginDispatch, RaiseDispatch
<1>6. Invoke \/ ApplyRequest \/ CompleteExecution \/ RecordExecution \/ ReconcileEffects => UNCHANGED outVars
  BY DEF Invoke, ApplyRequest, CompleteExecution, RecordExecution, ReconcileEffects
<1>7. ReserveOutcomeSlot => UNCHANGED projection
  BY DEF ReserveOutcomeSlot
<1> QED
  BY <1>1, <1>3, <1>4, <1>5, <1>6, <1>7 DEF Step, Settling

(* A publication that projects is the decision to project, let through.     *)
LEMMA PublishProjects ==
  ASSUME NEW decision, Publish(decision), Projected'
  PROVE  decision = "PROJECT" /\ faults.publication = ""
  BY DEF Publish, Projected

LEMMA OnlySettleProjects ==
  ASSUME Inv, [Next]_vars, Projected' # Projected
  PROVE  /\ SettleSuccess /\ Projected' /\ ~Projected /\ FreshFinally = "PASS"
         /\ DecisionOf(FreshFinally) = "PROJECT" /\ faults.publication = ""
         /\ reconciliation = "RECONCILED_SUCCESS"
<1>1. ~UNCHANGED projection
  BY DEF Projected
<1>2. Settling
  BY <1>1, CallProjection, StepProjection DEF Next, vars, outVars
<1>3. pc \in {"reserve", "settle", "final"}
  BY <1>2 DEF Settling, LoseOutcomeSlot, SettleNonSuccess, SettleSuccess
<1>4. projection = None /\ ~Projected /\ (pc = "final" => reconciliation = "RECONCILED_SUCCESS")
  BY <1>3, RealizingState DEF Realizing, Realized, Inv, Projected
<1>5. ~LoseOutcomeSlot
  BY <1>1, <1>4 DEF LoseOutcomeSlot
<1>6. Projected'
  BY <1>4 DEF Projected
<1>7. ~SettleNonSuccess
  <2>1. SettleNonSuccess => \E decision \in {"DO_NOT_PROJECT", "HOLD_PROJECTION"} : Publish(decision)
    BY DEF SettleNonSuccess
  <2> QED
    BY <1>6, <2>1, PublishProjects
<1>8. SettleSuccess
  BY <1>2, <1>5, <1>7 DEF Settling
<1>9. DecisionOf(FreshFinally) = "PROJECT" /\ faults.publication = ""
  BY <1>6, <1>8, PublishProjects DEF SettleSuccess
<1>10. FreshFinally = "PASS"
  BY <1>9 DEF DecisionOf
<1>11. pc = "final"
  BY <1>8 DEF SettleSuccess
<1> QED
  BY <1>4, <1>6, <1>8, <1>9, <1>10, <1>11

-----------------------------------------------------------------------------
(* What a human reserved.                                                   *)

(* A grant that passes is one there is, and names what it is spent on.      *)
LEMMA GrantPasses ==
  ASSUME IndInv, NEW planRef \in Nat, CurrentGrant(planRef) = "PASS"
  PROVE  /\ grant # None
         /\ grant.human => /\ grant.approved
                           /\ grant.subject \in {[kind |-> "request", ref |-> request.id],
                                                 [kind |-> "plan", ref |-> planRef]}
<1>1. grant # None
  BY DEF CurrentGrant, GrantCheck
<1>2. grant \in Grant
  BY <1>1 DEF IndInv, BuiltOK
<1>3. grant.human => grant.approved /\ SubjectMatches(grant, request.id, planRef)
  BY DEF CurrentGrant, GrantCheck
<1>4. grant.subject \in Subject
  BY <1>2 DEF Grant
<1>5. grant.subject = [kind |-> grant.subject.kind, ref |-> grant.subject.ref]
  BY <1>4 DEF Subject
<1> QED
  BY <1>1, <1>3, <1>5 DEF SubjectMatches

(* The plan the final check asks about is the one committed to.             *)
LEMMA PlanRefOfCommit ==
  ASSUME IndInv, plan # None, plan.id = Commit.plan, commits # << >>
  PROVE  PlanRef = Commit.plan /\ Commit.plan \in Nat
<1>1. Commit \in CommitType
  BY OneCommit DEF IndInv
<1> QED
  BY <1>1 DEF PlanRef, CommitType

(* Whatever is invoked, and whatever is published, is exactly the request   *)
(* or exactly the plan the human named, where a human reserved it: the      *)
(* approval of a plan is not spent on the one that replaced it.             *)
THEOREM ApprovalStays == Spec => ApprovalNotTransferred
<1>1. Inv /\ [Next]_vars => [RealizedAsReserved]_vars
  <2> SUFFICES ASSUME Inv, [Next]_vars, (invocations' # invocations \/ Projected' # Projected)
               PROVE  ReservationMet
    BY DEF RealizedAsReserved
  <2>1. IndInv
    BY DEF Inv
  <2>2. CASE invocations' # invocations
    <3>1. pc = "pre_dispatch" /\ Unsubstituted /\ Fresh = "PASS"
      BY <2>2, OnlyInvokeInvokes DEF Invoke
    <3>2. plan # None /\ plan.id = Commit.plan /\ commits # << >>
      BY <2>1, <3>1, DispatchingState DEF Dispatching, Unsubstituted
    <3>3. CurrentGrant(Commit.plan) = "PASS" /\ Commit.plan \in Nat
      BY <2>1, <3>1, <3>2, PlanRefOfCommit, FreshMeans
    <3> QED
      BY <2>1, <3>3, GrantPasses DEF ReservationMet
  <2>3. CASE Projected' # Projected
    <3>1. pc = "final" /\ FreshFinally = "PASS"
      BY <2>3, OnlySettleProjects DEF SettleSuccess
    <3>2. plan # None /\ plan.id = Commit.plan /\ commits # << >>
      BY <2>1, <3>1, RealizingState DEF Realizing
    <3>3. CurrentGrant(Commit.plan) = "PASS" /\ Commit.plan \in Nat
      BY <2>1, <3>1, <3>2, PlanRefOfCommit, FreshFinallyMeans
    <3> QED
      BY <2>1, <3>3, GrantPasses DEF ReservationMet
  <2> QED
    BY <2>2, <2>3
<1> QED
  BY <1>1, Inductive, PTL DEF Spec, ApprovalNotTransferred

-----------------------------------------------------------------------------
(* The evidence a projection was earned with.                               *)

(* A reconciled success was decided on a read, and that read shows the one  *)
(* required effect and nothing forbidden.                                   *)
ReconciledOK ==
  reconciliation = "RECONCILED_SUCCESS" =>
    /\ execution = "SUCCESS" /\ observed # None /\ ~Forbidden(observed)
    /\ envelope.target = "REVIEW" => OnTarget(observed, baseline, invocation, "REVIEW")

(* Only the success the classification leaves is a success.                 *)
LEMMA ReconciledMeans ==
  ASSUME NEW report \in Report, NEW o, NEW b, NEW i, NEW c, NEW t, NEW m,
         Reconcile(report, o, b, i, c, t, m) = "RECONCILED_SUCCESS"
  PROVE  report = "SUCCESS" /\ o # None /\ ~Forbidden(o) /\ OnTarget(o, b, c, t)
<1>1. ~Forbidden(o) /\ report # "FAILURE" /\ ~Ambiguous(o, report) /\ Complete(o, i) /\ OnTarget(o, b, c, t)
  BY Zenon DEF Reconcile
<1> QED
  BY <1>1 DEF Ambiguous, Complete, Report

(* What no step but the reconciliation touches once there is an outcome.    *)
LEMMA EvidenceFrame ==
  ASSUME ReconciledOK, UNCHANGED <<execution, observed, reconciliation, baseline, invocation>>,
         envelope' = envelope \/ envelope'.target # "REVIEW" \/ reconciliation = None
  PROVE  ReconciledOK'
<1>1. None # "RECONCILED_SUCCESS"
  BY AbsenceAssumption DEF Outcome
<1> QED
  BY <1>1 DEF ReconciledOK

LEMMA CallEvidence ==
  ASSUME Inv, Call \/ Staged
  PROVE  UNCHANGED <<execution, observed, reconciliation, baseline, invocation, envelope>>
<1>1. UNCHANGED <<execution, observed, reconciliation, baseline, invocation>>
  BY CallProjection, QuietCalls DEF Quiet
<1>2. UNCHANGED basisVars => envelope' = envelope
  BY DEF basisVars
<1>3. (\E req \in Requests : CallPrepare(req) \/ \E key \in Keys : CallRun(req, key)) => envelope' = envelope
  BY <1>2 DEF CallPrepare, CallRun, StartScope, Answer
<1>4. (\E key \in Keys, mode \in Mode \cup {None} : CallRealize(key, mode)) => envelope' = envelope
  BY <1>2 DEF CallRealize, Answer
<1>5. (\E presented \in {"none", "exact", "other"} : CallDispatch(presented)) => envelope' = envelope
  BY <1>2 DEF CallDispatch
<1>6. Staged => envelope' = envelope
  BY <1>2 DEF Staged, CallBuild, CallValidate, CallAdmit, AdmitUnder
<1> QED
  BY <1>1, <1>3, <1>4, <1>5, <1>6 DEF Call

(* What an injection leaves of the envelope is it, or one bound elsewhere.  *)
LEMMA InjectEnvelope ==
  ASSUME Inv, Inject
  PROVE  envelope' = envelope \/ envelope'.target # "REVIEW"
<1>1. envelope' = envelope \/ (envelope # None /\ envelope' = [envelope EXCEPT !.target = "APPROVED"])
  BY DEF Inject
<1>2. envelope # None => envelope \in Envelope
  BY DEF Inv, IndInv, BasisOK
<1> QED
  BY <1>1, <1>2 DEF Envelope

LEMMA StepEvidence ==
  ASSUME Inv, Step, ~Loud, ~ReconcileEffects, ~ApproveWhat
  PROVE  UNCHANGED <<execution, observed, reconciliation, baseline, invocation, envelope>>
<1>1. UNCHANGED <<baseline, invocation>>
  BY QuietSteps DEF Quiet
<1>2. UNCHANGED <<realVars, basisVars>> => UNCHANGED <<execution, observed, reconciliation, envelope>>
  BY DEF realVars, basisVars
<1>3. ASSUME NEW ctl, StopCall(ctl) \/ StopDispatch(ctl)
      PROVE  UNCHANGED <<execution, observed, reconciliation, envelope>>
  BY <1>2, <1>3 DEF StopCall, StopDispatch, basisVars
<1>4. HoldIntent \/ MissInitialState \/ RefuseWhat \/ HoldCommit \/ FailToAdmit \/ RefuseDispatch \/ HoldDispatch
        => UNCHANGED <<execution, observed, reconciliation, envelope>>
  BY <1>3 DEF HoldIntent, MissInitialState, RefuseWhat, HoldCommit, FailToAdmit, RefuseDispatch, HoldDispatch
<1>5. LoseIntent \/ StructureIntent \/ FailToPlan \/ RequestSuccessor \/ RetrieveDispatch \/ BeginDispatch \/ RaiseDispatch
        \/ RecordExecution \/ ReserveOutcomeSlot
        => UNCHANGED <<execution, observed, reconciliation, envelope>>
  BY <1>2 DEF LoseIntent, StructureIntent, FailToPlan, RequestSuccessor, RetrieveDispatch, BeginDispatch, RaiseDispatch,
     RecordExecution, ReserveOutcomeSlot
<1>6. AcceptPlan \/ RefusePlan \/ Admit => UNCHANGED <<execution, observed, reconciliation, envelope>>
  BY <1>2 DEF AcceptPlan, RefusePlan, RetainPlan, Admit, AdmitUnder, basisVars
<1>7. ASSUME NEW decision, LoseOutcomeSlot \/ Publish(decision)
      PROVE  UNCHANGED <<execution, observed, reconciliation, envelope>>
  BY <1>7 DEF LoseOutcomeSlot, Publish, basisVars
<1>8. SettleNonSuccess \/ SettleSuccess => UNCHANGED <<execution, observed, reconciliation, envelope>>
  BY <1>7 DEF SettleNonSuccess, SettleSuccess
<1> QED
  BY <1>1, <1>4, <1>5, <1>6, <1>7, <1>8 DEF Step, Loud

LEMMA ReconciledInit == Init => ReconciledOK
<1>1. None # "RECONCILED_SUCCESS"
  BY AbsenceAssumption DEF Outcome
<1> QED
  BY <1>1 DEF Init, ReconciledOK

(* Before the outcome is decided there is none.                             *)
LEMMA NoOutcomeYet ==
  ASSUME Inv, pc \in Preparing \cup {"pre_dispatch", "invoke", "post_execution"}
  PROVE  reconciliation = None
<1>1. CASE pc \in Preparing \cup {"pre_dispatch"}
  <2>1. claims = {}
    BY <1>1, PreparingState DEF Inv, IndInv, StageOK
  <2> QED
    BY <2>1 DEF Inv, IndInv, StageOK, Untouched
<1>2. CASE pc \in {"invoke", "post_execution"}
  BY <1>2, RealizingState DEF Inv, Realizing, Realized
<1> QED
  BY <1>1, <1>2

LEMMA ReconciledStep ==
  ASSUME Inv, ReconciledOK, [Next]_vars
  PROVE  ReconciledOK'
<1>1. None # "RECONCILED_SUCCESS"
  BY AbsenceAssumption DEF Outcome
<1>2. CASE UNCHANGED vars
  BY <1>2, EvidenceFrame DEF vars, provVars, basisVars, realVars
<1>3. CASE Call \/ Staged
  BY <1>3, CallEvidence, EvidenceFrame
<1>4. CASE Inject
  <2>1. UNCHANGED <<execution, observed, reconciliation, baseline, invocation>>
    BY <1>4, CallProjection, InjectView DEF Inv, EffectsOK
  <2> QED
    BY <1>4, <2>1, InjectEnvelope, EvidenceFrame
<1>5. CASE Loud \/ ApproveWhat
  <2>1. pc \in Preparing \cup {"pre_dispatch", "invoke"}
    BY <1>5 DEF Loud, ReadInitialState, ApproveWhat, Invoke, ApplyRequest, CompleteExecution, Preparing
  <2>2. reconciliation' = reconciliation
    BY <1>5 DEF Loud, ReadInitialState, ApproveWhat, Invoke, ApplyRequest, CompleteExecution, realVars
  <2> QED
    BY <1>1, <2>1, <2>2, NoOutcomeYet DEF ReconciledOK
<1>6. CASE ReconcileEffects
  <2>1. /\ pc = "post_execution"
        /\ reconciliation' = Reconcile(execution, observed', baseline, log, invocation, envelope.target,
                                       authority.version # before.version)
        /\ UNCHANGED <<execution, baseline, invocation, envelope>>
    BY <1>6 DEF ReconcileEffects, provVars, basisVars
  <2>2. execution \in Report
    BY <2>1, RealizingState DEF Inv, IndInv, StageOK, Realizing, Realized
  <2>3. reconciliation' = "RECONCILED_SUCCESS" =>
          /\ execution = "SUCCESS" /\ observed' # None /\ ~Forbidden(observed')
          /\ OnTarget(observed', baseline, invocation, envelope.target)
    BY <2>1, <2>2, ReconciledMeans
  <2> QED
    BY <2>1, <2>3 DEF ReconciledOK
<1>7. CASE Step /\ ~Loud /\ ~ReconcileEffects /\ ~ApproveWhat
  BY <1>7, StepEvidence, EvidenceFrame
<1> QED
  BY <1>2, <1>3, <1>4, <1>5, <1>6, <1>7 DEF Next

LEMMA EvidenceInductive == Spec => [](Inv /\ ReconciledOK)
<1>1. Init => Inv /\ ReconciledOK
  BY InitInv, ReconciledInit
<1>2. (Inv /\ ReconciledOK) /\ [Next]_vars => (Inv /\ ReconciledOK)'
  BY StepInv, ReconciledStep
<1> QED
  BY <1>1, <1>2, PTL DEF Spec

(* What stands in evidence when the final check passes.                     *)
LEMMA EarnedWhenFresh ==
  ASSUME Inv, ReconciledOK, pc = "final", reconciliation = "RECONCILED_SUCCESS", FreshFinally = "PASS"
  PROVE  /\ Earned
         /\ authority = before /\ envelope.target = "REVIEW"
         /\ OnTarget(observed, baseline, invocation, "REVIEW") /\ SameDocument(observed.view)
<1>1. /\ SameBasis /\ SameDocument(observed.view) /\ SameHistory /\ CurrentGrant(PlanRef) = "PASS"
  BY FreshFinallyMeans
<1>2. envelope.target = "REVIEW" /\ authority = before
  BY <1>1 DEF SameBasis, RetainedEnvelope
<1>3. /\ execution = "SUCCESS" /\ observed # None /\ ~Forbidden(observed)
      /\ OnTarget(observed, baseline, invocation, "REVIEW")
  BY <1>2 DEF ReconciledOK
<1>4. /\ log = observed.actions /\ closed /\ view.writer = observed.view.writer
      /\ view.version = observed.view.version
  BY <1>1 DEF SameHistory, SameDocument
<1>5. /\ Len(log) = 1 /\ log[1].applied /\ log[1].after.version = baseline.version + 1
      /\ view.version = baseline.version + 1 /\ view.writer = invocation
  BY <1>3, <1>4 DEF OnTarget
<1>6. log \in Seq(Prov!Action) /\ log # << >> /\ 1 \in DOMAIN log
  <2>1. log \in Seq(Prov!Action)
    BY DEF Inv, EffectsOK, Prov!ProvTypeOK
  <2> QED
    BY <1>5, <2>1, EmptySeq, LenProperties
<1>7. ~log[1].forbidden
  BY <1>3, <1>4, <1>6 DEF Forbidden, Actions, ForbiddenAction
<1>8. /\ claims # {} /\ invocation = Len(commits)
      /\ plan # None /\ plan.id = Commit.plan /\ commits # << >>
  BY RealizingState DEF Inv, Realizing
<1>9. log[1].before = baseline /\ log[1].after = view
  BY <1>5, <1>6, <1>8 DEF Inv, EffectsOK
<1>10. CurrentGrant(Commit.plan) = "PASS"
  BY <1>1, <1>8, PlanRefOfCommit DEF Inv
<1> QED
  BY <1>1, <1>2, <1>3, <1>4, <1>5, <1>7, <1>8, <1>9, <1>10 DEF Earned

(* A projection is published only on the evidence of one approved, applied  *)
(* action, on the approved document, untouched since, under a grant still   *)
(* in force: not on what the handler says.                                  *)
THEOREM ProjectionEarned == Spec => ProjectionIsEarned
<1>1. (Inv /\ ReconciledOK) /\ [Next]_vars => [EarnedStep]_vars
  <2> SUFFICES ASSUME Inv, ReconciledOK, [Next]_vars, Projected' # Projected PROVE Earned
    BY DEF EarnedStep
  <2>1. SettleSuccess /\ FreshFinally = "PASS" /\ reconciliation = "RECONCILED_SUCCESS"
    BY OnlySettleProjects
  <2>2. pc = "final"
    BY <2>1 DEF SettleSuccess
  <2> QED
    BY <2>1, <2>2, EarnedWhenFresh
<1> QED
  BY <1>1, EvidenceInductive, PTL DEF Spec, ProjectionIsEarned

-----------------------------------------------------------------------------
(* What is settled stays settled.                                           *)

LEMMA SettledState ==
  ASSUME Inv, Settled
  PROVE  /\ commits # << >> /\ claims = {Commit.key} /\ Claimed
         /\ pc \notin Realizing /\ pc \notin Preparing /\ pc # "pre_dispatch"
         /\ ledger # None /\ ledger.admission # "NO"
<1>1. claims # {}
  BY DEF Settled
<1>2. Realized
  BY <1>1 DEF Inv, IndInv, StageOK
<1>3. commits # << >> /\ claims = {Commit.key} /\ index[Commit.key].result # None
  BY <1>2 DEF Realized, Settled
<1>4. pc \notin Realizing /\ pc # "pre_dispatch"
  BY <1>1, <1>2, <1>3 DEF Realized, Inv, IndInv, StageOK
<1>5. pc \notin Preparing
  BY <1>1, PreparingState DEF Inv
<1>6. ledger # None /\ ledger.admission # "NO"
  BY <1>3, CommitMeansBound, OneCommit DEF Inv, IndInv
<1> QED
  BY <1>3, <1>4, <1>5, <1>6 DEF Claimed

LEMMA NotAdmittedAgain ==
  ASSUME Inv, ledger.admission # "NO"
  PROVE  ~Sup!Admission
  BY AdmissionStep DEF Inv, IndInv

Kept ==
  /\ UNCHANGED <<log, invocation, invocations, closed, slots, projection, commits, claims, execution>>
  /\ UNCHANGED <<reconciliation, index, view, authority>>

LEMMA UnchangedKept ==
  ASSUME UNCHANGED <<provVars, realVars, outVars>>
  PROVE  Kept
  BY DEF Kept, provVars, realVars, outVars

LEMMA SettledCall ==
  ASSUME Inv, Settled, Call \/ Staged
  PROVE  Kept
<1>1. Idle => Kept
  BY UnchangedKept DEF Idle
<1>2. Call => Idle
  BY DEF Call, CallPrepare, CallRun, CallRealize, CallDispatch
<1>3. ASSUME NEW key, CallAdmit(key) PROVE FALSE
  BY <1>3, SettledState, NotAdmittedAgain DEF CallAdmit, AdmitUnder
<1> QED
  BY <1>1, <1>2, <1>3 DEF Staged, CallBuild, CallValidate

LEMMA SettledSteps ==
  ASSUME Inv, Settled, Step
  PROVE  Kept
<1>1. pc \in Planning \cup {"dispatch"}
  <2>1. pc \in {"idle"} \cup Preparing \cup Planning \cup Dispatching \cup Realizing
    BY DEF Inv, IndInv, ControlOK
  <2>2. pc # "idle"
    BY DEF Step, HoldIntent, LoseIntent, StructureIntent, MissInitialState, ReadInitialState, RefuseWhat,
       ApproveWhat, FailToPlan, AcceptPlan, RefusePlan, RetainPlan, RequestSuccessor, HoldCommit, FailToAdmit, Admit,
       RetrieveDispatch, BeginDispatch, RaiseDispatch, RefuseDispatch, HoldDispatch, Invoke, ApplyRequest, CompleteExecution,
       RecordExecution, ReconcileEffects, LoseOutcomeSlot, ReserveOutcomeSlot, SettleNonSuccess, SettleSuccess
  <2> QED
    BY <2>1, <2>2, SettledState DEF Dispatching
<1>2. \/ FailToPlan \/ AcceptPlan \/ RefusePlan \/ RequestSuccessor \/ HoldCommit \/ FailToAdmit \/ Admit
      \/ RetrieveDispatch \/ BeginDispatch \/ RaiseDispatch
  BY <1>1 DEF Planning, Step, HoldIntent, LoseIntent, StructureIntent, MissInitialState, ReadInitialState, RefuseWhat,
       ApproveWhat, RefuseDispatch, HoldDispatch, Invoke, ApplyRequest, CompleteExecution,
       RecordExecution, ReconcileEffects, LoseOutcomeSlot, ReserveOutcomeSlot, SettleNonSuccess, SettleSuccess
<1>3. FailToPlan \/ AcceptPlan \/ RefusePlan \/ RequestSuccessor => UNCHANGED <<provVars, realVars, outVars>>
  BY DEF FailToPlan, AcceptPlan, RefusePlan, RetainPlan, RequestSuccessor
<1>4. HoldCommit \/ FailToAdmit => UNCHANGED <<provVars, realVars, outVars>>
  BY DEF HoldCommit, FailToAdmit, StopCall
<1>5. ~Admit
  BY SettledState, NotAdmittedAgain DEF Admit, AdmitUnder
<1>6. RetrieveDispatch \/ BeginDispatch \/ RaiseDispatch => UNCHANGED <<provVars, realVars, outVars>>
  BY DEF RetrieveDispatch, BeginDispatch, RaiseDispatch
<1> QED
  BY <1>2, <1>3, <1>4, <1>5, <1>6, UnchangedKept

(* Once a claimed commit has its result, no later call of any kind, on any  *)
(* key, invokes, applies, decides or changes anything of it, and only an    *)
(* outside change still moves the document or the authority.                *)
THEOREM RealizationStays == Spec => RealizationIsFinal
<1>1. Inv /\ [Next]_vars => [SettledKept]_vars
  <2> SUFFICES ASSUME Inv, Next, Settled
               PROVE  /\ UNCHANGED <<log, invocation, invocations, closed, slots, projection, commits, claims,
                                     execution, reconciliation, index>>
                      /\ fired' = fired => UNCHANGED <<view, authority>>
    BY DEF SettledKept
  <2>1. CASE Call \/ Staged \/ Step
    BY <2>1, SettledCall, SettledSteps DEF Kept
  <2>2. CASE Inject
    <3>1. UNCHANGED <<log, invocation, invocations, closed>>
      BY <2>2, InjectView DEF Inv, EffectsOK
    <3>2. UNCHANGED <<slots, projection, commits, claims, execution, reconciliation, index>>
      BY <2>2 DEF Inject, realVars
    <3>3. fired' # fired
      BY <2>2 DEF Inject
    <3> QED
      BY <3>1, <3>2, <3>3
  <2> QED
    BY <2>1, <2>2 DEF Next
<1> QED
  BY <1>1, Inductive, PTL DEF Spec, RealizationIsFinal

-----------------------------------------------------------------------------
(* Answers.                                                                 *)

(* A caller who was given an answer, or never got an approval, finds the    *)
(* attempt over unless a projection was published.  LoseIntent is the one   *)
(* way out of a call that breaks it: an intent the journal refuses.         *)
ReturnsOK ==
  pc = "idle" /\ attempts # << >> /\ ~Projected /\ (envelope = None \/ Answered) => Current.terminal

(* A call that only answers: with a refusal or a lookup nobody relies on    *)
(* for the end of the attempt, or because the attempt is over.              *)
LEMMA CallAnswers ==
  ASSUME Inv, ReturnsOK, Call \/ Staged
  PROVE  ReturnsOK'
<1>1. pc = "idle"
  BY DEF Call, Staged, CallPrepare, CallRun, CallRealize, CallDispatch, CallBuild, CallValidate, CallAdmit, Idle
<1>2. ASSUME pc' # "idle" PROVE ReturnsOK'
  BY <1>2 DEF ReturnsOK
<1>3. projection' = projection
  BY CallProjection
<1>4. ASSUME NEW result, Answer(result), ~Answered' PROVE ReturnsOK'
  <2>1. UNCHANGED <<attempts, envelope, pc>>
    BY <1>4 DEF Answer, supVars, basisVars
  <2> QED
    BY <1>3, <1>4, <2>1 DEF ReturnsOK, Projected, Current
<1>5. ASSUME NEW req, CallPrepare(req) PROVE ReturnsOK'
  BY <1>2, <1>5 DEF CallPrepare, StartScope, Begin
<1>6. ASSUME NEW req, NEW key, CallRun(req, key) PROVE ReturnsOK'
  <2>1. CASE StartScope("run", req, key)
    BY <1>2, <2>1 DEF StartScope, Begin
  <2>2. CASE Answer(Refused("NO_SCOPE_RESET"))
    <3>1. Refused("NO_SCOPE_RESET").disposition = "NO_SCOPE_RESET"
      BY DEF Refused, Bare
    <3>2. ~Answered'
      BY <2>2, <3>1 DEF Answer, Answered
    <3> QED
      BY <1>4, <2>2, <3>2
  <2>3. ASSUME key \in DOMAIN index, NEW binding, Answer(Lookup(key, req, binding)) PROVE ReturnsOK'
    <3>1. Lookup(key, req, binding).disposition \notin {"TERMINAL", "COMPLETED"}
      BY <2>3, LookupTyped DEF Inv, IndInv
    <3>2. ~Answered'
      BY <2>3, <3>1 DEF Answer, Answered
    <3> QED
      BY <1>4, <2>3, <3>2
  <2> QED
    BY <1>6, <2>1, <2>2, <2>3 DEF CallRun
<1>7. ASSUME NEW key, NEW mode, CallRealize(key, mode) PROVE ReturnsOK'
  <2>1. CASE ~Realizable /\ Answer(Result("TERMINAL"))
    <3>1. UNCHANGED <<attempts, envelope, pc>>
      BY <2>1 DEF Answer, supVars, basisVars
    <3>2. envelope = None \/ Current.terminal
      BY <2>1 DEF Realizable
    <3> QED
      BY <1>1, <1>3, <3>1, <3>2 DEF ReturnsOK, Projected, Current
  <2> QED
    BY <1>2, <1>7, <2>1 DEF CallRealize, Begin
<1>8. ASSUME NEW presented, CallDispatch(presented) PROVE ReturnsOK'
  BY <1>2, <1>8 DEF CallDispatch, Begin
<1>9. ASSUME UNCHANGED <<attempts, envelope, pc, ret>> PROVE ReturnsOK'
  BY <1>3, <1>9 DEF ReturnsOK, Projected, Current, Answered
<1>10. ASSUME NEW mode, NEW defect, CallBuild(mode, defect) PROVE ReturnsOK'
  BY <1>9, <1>10 DEF CallBuild, supVars, basisVars
<1>11. ASSUME NEW p, CallValidate(p) PROVE ReturnsOK'
  BY <1>9, <1>11 DEF CallValidate, supVars, basisVars
<1>12. ASSUME NEW key, CallAdmit(key) PROVE ReturnsOK'
  <2>1. UNCHANGED <<envelope, pc, ret>> /\ Sup!Admission
    BY <1>12 DEF CallAdmit, AdmitUnder, basisVars
  <2>2. UNCHANGED attempts
    BY <2>1, AdmissionStep DEF Inv, IndInv
  <2> QED
    BY <1>9, <2>1, <2>2
<1> QED
  BY <1>5, <1>6, <1>7, <1>8, <1>10, <1>11, <1>12 DEF Call, Staged

(* With a commit, the plan is only lost where planning again fails, which   *)
(* ends the attempt; and a successor is only asked for with a plan.         *)
PlanlessOK == commits # << >> /\ plan = None => Current.terminal /\ pc # "retry"

LEMMA CallPlanless ==
  ASSUME Inv, PlanlessOK, Call \/ Staged
  PROVE  PlanlessOK'
<1>1. ASSUME UNCHANGED <<commits, plan, attempts>>, pc' # "retry" PROVE PlanlessOK'
  BY <1>1 DEF PlanlessOK, Current
<1>2. ASSUME NEW result, Idle, Answer(result) PROVE PlanlessOK'
  BY <1>1, <1>2 DEF Idle, Answer, realVars, planVars, supVars
<1>3. ASSUME NEW to, NEW req, NEW key, Idle, StartScope(to, req, key) PROVE PlanlessOK'
  <2>1. attempts = << >> /\ commits' = commits
    BY <1>3 DEF Idle, StartScope, Sup!Start, realVars
  <2> QED
    BY <2>1, CommitMeansBound DEF Inv, PlanlessOK
<1>4. ASSUME NEW req, NEW key, CallPrepare(req) \/ CallRun(req, key) PROVE PlanlessOK'
  BY <1>2, <1>3, <1>4 DEF CallPrepare, CallRun
<1>5. ASSUME NEW key, NEW mode, CallRealize(key, mode) PROVE PlanlessOK'
  <2>1. CASE Answer(Result("TERMINAL"))
    BY <1>2, <1>5, <2>1 DEF CallRealize
  <2> QED
    BY <1>1, <1>5, <2>1 DEF CallRealize, Idle, Begin, realVars, planVars, supVars
<1>6. ASSUME NEW presented, CallDispatch(presented) PROVE PlanlessOK'
  BY <1>1, <1>6 DEF CallDispatch, Idle, Begin, realVars, planVars, supVars
<1>7. ASSUME NEW mode \in Mode, NEW defect \in StagedDefect, CallBuild(mode, defect) PROVE PlanlessOK'
  <2>1. envelope \in Envelope /\ Len(plans) + 1 \in Nat /\ Len(attempts) \in Nat
    <3>1. attempts \in Seq(Sup!Attempt) /\ plans \in Seq(Plan)
      BY DEF Inv, IndInv, SupervisorOK, Sup!TypeOK, PlansOK
    <3> QED
      BY <1>7, <3>1, LenProperties DEF CallBuild, Inv, IndInv, BasisOK
  <2>2. plan' # None
    <3>1. defect # "infeasible"
      BY DEF StagedDefect
    <3>2. defect # "infeasible" => BuildInstruction(envelope, Len(plans) + 1, Len(attempts), mode, defect) # None
      BY <2>1, BuiltPlan
    <3> QED
      BY <1>7, <3>1, <3>2 DEF CallBuild
  <2> QED
    BY <2>2 DEF PlanlessOK
<1>8. ASSUME NEW p, CallValidate(p) PROVE PlanlessOK'
  BY <1>1, <1>8 DEF CallValidate, Idle, realVars, supVars
<1>9. ASSUME NEW key, CallAdmit(key) PROVE PlanlessOK'
  BY <1>9 DEF CallAdmit, AdmitUnder, planVars, PlanlessOK
<1> QED
  BY <1>4, <1>5, <1>6, <1>7, <1>8, <1>9 DEF Call, Staged

LEMMA StepPlanless ==
  ASSUME Inv, PlanlessOK, Step
  PROVE  PlanlessOK'
<1>1. ASSUME UNCHANGED <<commits, plan, attempts>>, pc' # "retry" PROVE PlanlessOK'
  BY <1>1 DEF PlanlessOK, Current
<1>2. ASSUME NEW ctl \in Control \ {"PASS"}, Stop(ctl), attempts # << >>, pc' # "retry" PROVE PlanlessOK'
  BY <1>2, StopStep DEF Inv, IndInv, PlanlessOK
<1>3. ASSUME plan' # None PROVE PlanlessOK'
  BY <1>3 DEF PlanlessOK
<1>4. CASE pc \in Preparing
  <2>1. commits = << >>
    BY <1>4, PreparingState DEF Inv
  <2>2. commits' = commits
    BY <1>4 DEF Preparing, Step, HoldIntent, LoseIntent, StructureIntent, MissInitialState, ReadInitialState,
       RefuseWhat, ApproveWhat, StopCall, FailToPlan, AcceptPlan, RefusePlan, RetainPlan, RequestSuccessor,
       HoldCommit, FailToAdmit, Admit, RetrieveDispatch, BeginDispatch, RaiseDispatch, RefuseDispatch, HoldDispatch,
       Invoke, ApplyRequest, CompleteExecution, RecordExecution, ReconcileEffects, LoseOutcomeSlot,
       ReserveOutcomeSlot, SettleNonSuccess, SettleSuccess, realVars
  <2> QED
    BY <2>1, <2>2 DEF PlanlessOK
<1>5. CASE FailToPlan \/ HoldCommit \/ FailToAdmit \/ RefuseDispatch \/ HoldDispatch
  <2>1. attempts # << >>
    BY <1>5, PlanningState, DispatchingState DEF Inv, FailToPlan, HoldCommit, FailToAdmit, RefuseDispatch,
       HoldDispatch, Planning, Dispatching
  <2>2. {"HOLD_AMBIGUOUS", "FAIL_NONRETRYABLE"} \subseteq Control \ {"PASS"}
    BY DEF Control
  <2>3. \E ctl \in Control \ {"PASS"} : Stop(ctl)
    BY <1>5, <2>2, FreshControl DEF FailToPlan, HoldCommit, FailToAdmit, RefuseDispatch, HoldDispatch,
       StopCall, StopDispatch
  <2>4. pc' = "idle"
    BY <1>5 DEF FailToPlan, HoldCommit, FailToAdmit, RefuseDispatch, HoldDispatch, StopCall, StopDispatch,
       Finish, Return
  <2> QED
    BY <1>2, <2>1, <2>3, <2>4
<1>6. CASE AcceptPlan \/ RefusePlan
  BY <1>3, <1>6 DEF AcceptPlan, RefusePlan, RetainPlan
<1>7. CASE RequestSuccessor
  BY <1>3, <1>7 DEF RequestSuccessor, planVars, realVars, PlanlessOK
<1>8. CASE Admit
  BY <1>3, <1>8 DEF Admit, AdmitUnder, planVars, Inv, IndInv, ControlOK
<1>9. CASE RetrieveDispatch \/ BeginDispatch \/ RaiseDispatch
  BY <1>1, <1>9 DEF RetrieveDispatch, BeginDispatch, RaiseDispatch, Return, supVars, planVars, realVars
<1>10. CASE Invoke
  BY <1>3, <1>10 DEF Invoke, Unsubstituted, planVars
<1>11. CASE pc \in Realizing
  <2>1. plan # None
    BY <1>11, RealizingState DEF Inv
  <2>2. ASSUME NEW decision, Publish(decision) PROVE plan' = plan
    BY <2>2 DEF Publish, planVars
  <2>3. SettleNonSuccess \/ SettleSuccess => plan' = plan
    BY <2>2 DEF SettleNonSuccess, SettleSuccess
  <2>4. ApplyRequest \/ CompleteExecution \/ RecordExecution \/ ReconcileEffects \/ LoseOutcomeSlot
          \/ ReserveOutcomeSlot => plan' = plan
    BY DEF ApplyRequest, CompleteExecution, RecordExecution, ReconcileEffects, LoseOutcomeSlot,
       ReserveOutcomeSlot, planVars
  <2> QED
    BY <1>3, <1>5, <1>6, <1>7, <1>8, <1>9, <1>10, <1>11, <2>1, <2>3, <2>4 DEF Step, Realizing, HoldIntent,
       LoseIntent, StructureIntent, MissInitialState, ReadInitialState, RefuseWhat, ApproveWhat
<1> QED
  BY <1>4, <1>5, <1>6, <1>7, <1>8, <1>9, <1>10, <1>11 DEF Step, Preparing, Realizing, HoldIntent, LoseIntent,
     StructureIntent, MissInitialState, ReadInitialState, RefuseWhat, ApproveWhat, ApplyRequest, CompleteExecution,
     RecordExecution, ReconcileEffects, LoseOutcomeSlot, ReserveOutcomeSlot, SettleNonSuccess, SettleSuccess

LEMMA PlanlessStep ==
  ASSUME Inv, PlanlessOK, [Next]_vars
  PROVE  PlanlessOK'
<1>1. CASE UNCHANGED vars
  BY <1>1 DEF vars, supVars, planVars, realVars, ctlVars, PlanlessOK, Current
<1>2. CASE Inject
  <2>1. UNCHANGED <<commits, pc>>
    BY <1>2 DEF Inject, realVars, ctlVars
  <2>2. attempts' = attempts /\ (plan' = None <=> plan = None)
    BY <1>2, InjectChanges DEF Inv
  <2> QED
    BY <2>1, <2>2 DEF PlanlessOK, Current
<1> QED
  BY <1>1, <1>2, CallPlanless, StepPlanless DEF Next

(* A call that is left ends the attempt, has published, or says nothing.    *)
LEMMA StepAnswers ==
  ASSUME Inv, PlanlessOK, Step, \A r \in Requests : r.id # 0
  PROVE  ReturnsOK'
<1>1. ASSUME pc' # "idle" PROVE ReturnsOK'
  BY <1>1 DEF ReturnsOK
<1>2. ASSUME Current'.terminal PROVE ReturnsOK'
  BY <1>2 DEF ReturnsOK
<1>3. ASSUME attempts # << >>, NEW ctl \in Control \ {"PASS"}, Stop(ctl) PROVE Current'.terminal
  BY <1>3, StopStep DEF Inv, IndInv
<1>4. pc \in Preparing \cup Planning \cup Dispatching \cup Realizing => attempts # << >>
  <2>1. pc \in Preparing => attempts # << >>
    BY PreparingState DEF Inv
  <2>2. pc \in Planning => attempts # << >>
    BY PlanningState DEF Inv
  <2>3. pc \in Dispatching => attempts # << >>
    BY DispatchingState DEF Inv
  <2>4. pc \in Realizing => attempts # << >>
    BY RealizingState DEF Inv
  <2> QED
    BY <2>1, <2>2, <2>3, <2>4
<1>5. {"HOLD_AMBIGUOUS", "FAIL_NONRETRYABLE"} \subseteq Control \ {"PASS"}
  BY DEF Control
<1>6. CASE HoldIntent \/ MissInitialState \/ RefuseWhat \/ HoldCommit \/ FailToAdmit
  <2>1. pc \in Preparing \cup Planning
    BY <1>6 DEF HoldIntent, MissInitialState, RefuseWhat, HoldCommit, FailToAdmit, Preparing, Planning
  <2>2. \E ctl \in Control \ {"PASS"} : Stop(ctl)
    BY <1>5, <1>6, FreshControl DEF HoldIntent, MissInitialState, RefuseWhat, HoldCommit, FailToAdmit, StopCall
  <2> QED
    BY <1>2, <1>3, <1>4, <2>1, <2>2
<1>7. CASE LoseIntent
  <2>1. request \in Requests /\ request.id = 0
    BY <1>7, PreparingState DEF Inv, LoseIntent, Preparing
  <2> QED
    BY <2>1
<1>8. CASE StructureIntent \/ ReadInitialState \/ AcceptPlan \/ Admit \/ BeginDispatch \/ Invoke \/ ApplyRequest
           \/ CompleteExecution \/ RecordExecution \/ ReconcileEffects \/ ReserveOutcomeSlot
  BY <1>1, <1>8 DEF StructureIntent, ReadInitialState, AcceptPlan, Admit, BeginDispatch, Invoke, ApplyRequest,
     CompleteExecution, RecordExecution, ReconcileEffects, ReserveOutcomeSlot, ctlVars
<1>9. CASE ApproveWhat
  <2>1. CASE pc' = "plan"
    BY <1>1, <2>1
  <2>2. CASE ret' = None
    <3>1. envelope' # None
      BY <1>9, ApproveWhatStep, BindStep DEF Inv, IndInv, BasisOK, ApproveWhat
    <3> QED
      BY <2>2, <3>1 DEF ReturnsOK, Answered
  <2> QED
    BY <1>9, <2>1, <2>2 DEF ApproveWhat, Return
<1>10. CASE FailToPlan
  <2>1. pc \in Planning
    BY <1>10 DEF FailToPlan, Planning
  <2> QED
    BY <1>2, <1>3, <1>4, <1>5, <1>10, <2>1 DEF FailToPlan
<1>11. CASE RefusePlan
  <2>1. EndAttempt(RefusalControl, PlanFailure, ~faults.evidenceMissing) /\ attempts # << >>
    BY <1>4, <1>11 DEF RefusePlan, RetainPlan, Planning
  <2>2. RefusalControl \in Control /\ PlanFailure \in FailureClass /\ (~faults.evidenceMissing) \in BOOLEAN
    BY DEF RefusalControl, Control, PlanFailure, FailureClass
  <2>3. Current'.terminal
    BY <2>1, <2>2, EndAttemptStep DEF Inv, IndInv
  <2> QED
    BY <1>2, <2>3
<1>12. CASE RequestSuccessor
  <2>1. CASE pc' = "plan"
    BY <1>1, <2>1
  <2>2. CASE granted' = 0
    <3>1. pc = "retry" /\ pc \in Planning
      BY <1>12 DEF RequestSuccessor, Planning
    <3>2. attempts # << >> /\ Current.terminal /\ ledger # None
      BY <3>1, PlanningState DEF Inv, IndInv, ControlOK
    <3>3. attempts' = attempts
      BY <1>12, <2>2, <3>2, FreshControl, SuccessorStep DEF RequestSuccessor, Inv, IndInv
    <3> QED
      BY <1>2, <3>2, <3>3 DEF Current
  <2> QED
    BY <1>12, <2>1, <2>2 DEF RequestSuccessor
<1>13. CASE RetrieveDispatch
  <2>1. pc \in Dispatching /\ envelope' = envelope
    BY <1>13 DEF RetrieveDispatch, Dispatching, basisVars
  <2>2. envelope # None /\ Commit.key \in DOMAIN index
    BY <2>1, DispatchingState, OneCommit DEF Inv, IndInv
  <2>3. Lookup(Commit.key, request, None).disposition \notin {"TERMINAL", "COMPLETED"}
    BY <2>2, LookupTyped DEF Inv, IndInv
  <2>4. Refused("REFUSED_DUPLICATE").disposition \notin {"TERMINAL", "COMPLETED"}
    BY DEF Refused, Bare
  <2>5. ~Answered'
    BY <1>13, <2>3, <2>4 DEF RetrieveDispatch, Return, Answered
  <2> QED
    BY <2>1, <2>2, <2>5 DEF ReturnsOK
<1>14. CASE RefuseDispatch \/ HoldDispatch
  <2>1. pc \in Dispatching
    BY <1>14 DEF RefuseDispatch, HoldDispatch, Dispatching
  <2>2. \E ctl \in Control \ {"PASS"} : Stop(ctl)
    BY <1>5, <1>14, FreshControl DEF RefuseDispatch, HoldDispatch, StopDispatch
  <2> QED
    BY <1>2, <1>3, <1>4, <2>1, <2>2
<1>15. CASE LoseOutcomeSlot
  <2>1. pc \in Realizing
    BY <1>15 DEF LoseOutcomeSlot, Realizing
  <2> QED
    BY <1>2, <1>3, <1>4, <1>5, <1>15, <2>1 DEF LoseOutcomeSlot
<1>16. ASSUME NEW decision \in Decision, Publish(decision), pc \in Realizing PROVE ReturnsOK'
  <2>1. CASE \E ctl \in {"HOLD_AMBIGUOUS", "FAIL_NONRETRYABLE"} : Stop(ctl)
    BY <1>2, <1>3, <1>4, <1>5, <1>16, <2>1
  <2>2. CASE projection' = [decision |-> "PROJECT", write |-> "APPLIED"]
    <3>1. projection' \in Projection /\ projection'.decision = "PROJECT"
      BY <2>2 DEF Projection, Decision
    <3>2. Projected'
      BY <3>1, AbsenceAssumption DEF Projected
    <3> QED
      BY <3>2 DEF ReturnsOK
  <2> QED
    BY <1>16, <2>1, <2>2 DEF Publish
<1>17. CASE SettleNonSuccess
  <2>1. \E decision \in {"DO_NOT_PROJECT", "HOLD_PROJECTION"} : Publish(decision)
    BY <1>17 DEF SettleNonSuccess
  <2>2. {"DO_NOT_PROJECT", "HOLD_PROJECTION"} \subseteq Decision /\ pc \in Realizing
    BY <1>17 DEF SettleNonSuccess, Decision, Realizing
  <2> QED
    BY <1>16, <2>1, <2>2
<1>18. CASE SettleSuccess
  <2>1. DecisionOf(FreshFinally) \in Decision /\ pc \in Realizing
    BY <1>18 DEF DecisionOf, Decision, SettleSuccess, Realizing
  <2> QED
    BY <1>16, <1>18, <2>1 DEF SettleSuccess
<1>19. CASE RaiseDispatch
  <2>1. commits # << >> /\ plan = None
    BY <1>19, DispatchingState DEF Inv, RaiseDispatch, Dispatching
  <2>2. Current.terminal /\ attempts' = attempts
    BY <1>19, <2>1 DEF PlanlessOK, RaiseDispatch, supVars
  <2> QED
    BY <1>2, <2>2 DEF Current
<1> QED
  BY <1>6, <1>7, <1>8, <1>9, <1>10, <1>11, <1>12, <1>13, <1>14, <1>15, <1>17, <1>18, <1>19 DEF Step

LEMMA InjectAnswers ==
  ASSUME Inv, ReturnsOK, Inject
  PROVE  ReturnsOK'
<1>1. UNCHANGED <<pc, ret, projection>>
  BY DEF Inject, ctlVars
<1>2. attempts' = attempts /\ (envelope' = None <=> envelope = None)
  BY InjectChanges DEF Inv
<1> QED
  BY <1>1, <1>2 DEF ReturnsOK, Projected, Answered, Current

(* Where every intent can be retained, a caller never gets its turn back    *)
(* with an answer that is no projection and the attempt still open, or with *)
(* a PASS: every other way out of a call is terminal and says why.          *)
THEOREM NonSuccessEnds ==
  ASSUME \A r \in Requests : r.id # 0
  PROVE  Spec => []NonSuccessIsTerminal
<1>1. Init => ReturnsOK /\ PlanlessOK
  BY DEF Init, Sup!Init, ReturnsOK, PlanlessOK
<1>2. (Inv /\ PlanlessOK /\ ReturnsOK) /\ [Next]_vars => (Inv /\ PlanlessOK /\ ReturnsOK)'
  <2> SUFFICES ASSUME Inv, PlanlessOK, ReturnsOK, [Next]_vars PROVE ReturnsOK'
    BY StepInv, PlanlessStep
  <2>1. UNCHANGED vars => ReturnsOK'
    BY DEF vars, supVars, basisVars, outVars, ctlVars, ReturnsOK, Projected, Answered, Current
  <2> QED
    BY <2>1, CallAnswers, StepAnswers, InjectAnswers DEF Next
<1>3. Inv /\ ReturnsOK => NonSuccessIsTerminal
  BY DEF Inv, IndInv, EndedOK, ReturnsOK, NonSuccessIsTerminal
<1> QED
  BY <1>1, <1>2, <1>3, InitInv, PTL DEF Spec

-----------------------------------------------------------------------------
(* The governed transition, step by step.  These are the values the         *)
(* refinement gives its variables.                                          *)

Permitted == envelope # None /\ CurrentGrant(PlanInForce) = "PASS"

Basis == IF envelope = None THEN None ELSE [authority |-> before, document |-> Document(baseline)]

Stage == IF Projected THEN "published" ELSE IF invocations > 0 THEN "invoked"
         ELSE IF envelope # None THEN "approved" ELSE "open"

(* An invocation and a projection happen under an envelope and a commit.    *)
LEMMA StageMeans ==
  ASSUME Inv
  PROVE  /\ Stage \in {"invoked", "published"} => commits # << >> /\ envelope # None
         /\ envelope = None => Stage = "open"
         /\ Stage = "open" => envelope = None
<1>1. claims = {} => invocations = 0 /\ ~Projected
  BY DEF Inv, IndInv, StageOK, Untouched, Projected
<1>2. claims # {} => commits # << >>
  BY DEF Inv, IndInv, StageOK, Realized
<1>3. commits # << >> => envelope # None
  BY CommitMeansBound DEF Inv
<1>4. ~(0 > 0)
  OBVIOUS
<1>5. Stage \in {"invoked", "published"} => claims # {}
  BY <1>1, <1>4 DEF Stage
<1>6. envelope # None => Stage # "open"
  BY DEF Stage
<1>7. envelope = None => Stage \in {"open", "invoked", "published"}
  BY DEF Stage
<1> QED
  BY <1>2, <1>3, <1>5, <1>6, <1>7

(* A step that moves nothing of the transition: at most another plan is     *)
(* chosen, and the permission may be for one plan only.                     *)
LEMMA Unmoved ==
  ASSUME Inv, UNCHANGED <<authority, view, envelope, invocations, fired>>, Projected' = Projected,
         envelope # None => UNCHANGED <<before, baseline, request, grant, definition>>,
         commits # << >> => commits' = commits
  PROVE  Governed!Choose \/ UNCHANGED Governed!vars
<1>1. Stage' = Stage /\ Basis' = Basis /\ Document(view)' = Document(view)
  BY DEF Stage, Basis, Document
<1>2. CASE Stage = "approved"
  <2>1. Permitted' \in BOOLEAN
    BY DEF Permitted
  <2>2. Governed!Choose
    BY <1>1, <1>2, <2>1 DEF Governed!Choose, Stage, Basis, Permitted
  <2> QED
    BY <2>2
<1>3. CASE Stage # "approved"
  <2>1. Permitted' = Permitted
    <3>1. CASE envelope = None
      BY <3>1 DEF Permitted
    <3>2. CASE envelope # None
      <4>1. Stage \in {"invoked", "published"}
        BY <1>3, <3>2, StageMeans DEF Stage
      <4>2. commits # << >> /\ commits' = commits
        BY <4>1, StageMeans
      <4>3. PlanInForce' = PlanInForce
        BY <4>2 DEF PlanInForce, Commit
      <4> QED
        BY <3>2, <4>3 DEF Permitted, CurrentGrant
    <3> QED
      BY <3>1, <3>2
  <2>2. UNCHANGED Governed!vars
    BY <1>1, <2>1 DEF Governed!vars, Stage, Basis, Permitted
  <2> QED
    BY <2>2
<1> QED
  BY <1>2, <1>3

LEMMA CallGoverned ==
  ASSUME Inv, Call \/ Staged
  PROVE  Governed!Choose \/ UNCHANGED Governed!vars
<1>1. UNCHANGED <<envelope, baseline, invocation>> /\ UNCHANGED <<projection, view, invocations>>
  BY CallEvidence, CallProjection, QuietCalls DEF Quiet
<1>2. Idle => UNCHANGED <<authority, fired, grant, definition, commits>>
  BY DEF Idle, seamVars, outVars, realVars
<1>3. Call => Idle
  BY DEF Call, CallPrepare, CallRun, CallRealize, CallDispatch
<1>4. ASSUME NEW key, CallAdmit(key)
      PROVE  UNCHANGED <<authority, fired, grant, definition>> /\ commits = << >>
  <2>1. ledger # None /\ ledger.admission = "NO"
    BY <1>4, AdmissionStep DEF CallAdmit, AdmitUnder, Inv, IndInv
  <2>2. commits = << >>
    BY <2>1, OneCommit DEF Inv, IndInv
  <2> QED
    BY <1>4, <2>2 DEF CallAdmit, AdmitUnder, seamVars, outVars
<1>5. /\ UNCHANGED <<authority, fired, grant, definition>>
      /\ commits # << >> => commits' = commits
  BY <1>2, <1>3, <1>4 DEF Staged, CallBuild, CallValidate
<1>6. UNCHANGED <<before, baseline, request, envelope>> \/ envelope = None
  <2>1. UNCHANGED basisVars => UNCHANGED <<before, baseline, request, envelope>>
    BY DEF basisVars
  <2>2. ASSUME NEW to, NEW req, NEW key, StartScope(to, req, key) PROVE envelope = None
    <3>1. attempts = << >>
      BY <2>2 DEF StartScope, Sup!Start
    <3> QED
      BY <3>1 DEF Inv, IndInv, BasisOK, SupervisorOK
  <2>3. ASSUME NEW req, NEW key, CallPrepare(req) \/ CallRun(req, key)
        PROVE  UNCHANGED basisVars \/ envelope = None
    BY <2>2, <2>3 DEF CallPrepare, CallRun, Answer
  <2>4. ASSUME NEW key, NEW mode, NEW presented, CallRealize(key, mode) \/ CallDispatch(presented)
        PROVE  UNCHANGED basisVars
    BY <2>4 DEF CallRealize, CallDispatch, Answer
  <2>5. Staged => UNCHANGED basisVars
    BY DEF Staged, CallBuild, CallValidate, CallAdmit, AdmitUnder
  <2>6. Call => UNCHANGED basisVars \/ envelope = None
    BY <2>3, <2>4 DEF Call
  <2> QED
    BY <2>1, <2>5, <2>6
<1>7. Projected' = Projected
  BY <1>1 DEF Projected
<1> QED
  BY <1>1, <1>5, <1>6, <1>7, Unmoved


(* The steps, but for the four that move the transition itself.             *)
LEMMA StepSeam ==
  ASSUME Step
  PROVE  UNCHANGED <<definition, grant, fired>>
<1>1. LeaveSeam \/ UNCHANGED seamVars => UNCHANGED <<definition, grant, fired>>
  BY DEF LeaveSeam, seamVars
<1>2. HoldIntent \/ LoseIntent \/ StructureIntent \/ MissInitialState \/ ReadInitialState \/ RefuseWhat \/ ApproveWhat
        => LeaveSeam \/ UNCHANGED seamVars
  BY DEF HoldIntent, LoseIntent, StructureIntent, MissInitialState, ReadInitialState, RefuseWhat, ApproveWhat
<1>3. FailToPlan \/ AcceptPlan \/ RefusePlan \/ RequestSuccessor \/ HoldCommit \/ FailToAdmit \/ Admit
        => LeaveSeam \/ UNCHANGED seamVars
  BY DEF FailToPlan, AcceptPlan, RefusePlan, RetainPlan, RequestSuccessor, HoldCommit, FailToAdmit, Admit
<1>4. RetrieveDispatch \/ BeginDispatch \/ RaiseDispatch \/ RefuseDispatch \/ HoldDispatch \/ Invoke
        => LeaveSeam \/ UNCHANGED seamVars
  BY DEF RetrieveDispatch, BeginDispatch, RaiseDispatch, RefuseDispatch, HoldDispatch, StopDispatch, Invoke
<1>5. ApplyRequest \/ CompleteExecution \/ RecordExecution \/ ReconcileEffects \/ LoseOutcomeSlot
        \/ ReserveOutcomeSlot \/ SettleNonSuccess \/ SettleSuccess
        => LeaveSeam \/ UNCHANGED seamVars
  BY DEF ApplyRequest, CompleteExecution, RecordExecution, ReconcileEffects, LoseOutcomeSlot,
     ReserveOutcomeSlot, SettleNonSuccess, SettleSuccess
<1> QED
  BY <1>1, <1>2, <1>3, <1>4, <1>5 DEF Step

LEMMA PublishAuthority ==
  ASSUME NEW decision \in Decision, Publish(decision)
  PROVE  \/ Projected' /\ authority' = Advanced
         \/ ~Projected' /\ authority' = authority
<1>1. CASE decision = "PROJECT" /\ faults.publication = ""
  <2>1. projection' = [decision |-> decision, write |-> "APPLIED"] /\ authority' = Advanced
    BY <1>1 DEF Publish, AuthorityAfter
  <2>2. projection' # None
    <3>1. projection' \in Projection
      BY <2>1 DEF Projection
    <3> QED
      BY <3>1, AbsenceAssumption
  <2> QED
    BY <1>1, <2>1, <2>2 DEF Projected
<1>2. CASE ~(decision = "PROJECT" /\ faults.publication = "")
  <2>1. authority' = authority
    BY <1>2 DEF Publish, AuthorityAfter
  <2>2. ~Projected'
    BY <1>2, PublishProjects
  <2> QED
    BY <2>1, <2>2
<1> QED
  BY <1>1, <1>2

LEMMA SettleAuthority ==
  ASSUME SettleNonSuccess \/ SettleSuccess
  PROVE  \/ Projected' /\ authority' = Advanced
         \/ ~Projected' /\ authority' = authority
<1>1. \E decision \in Decision : Publish(decision)
  <2>1. {"DO_NOT_PROJECT", "HOLD_PROJECTION", "PROJECT"} \subseteq Decision
    BY DEF Decision
  <2>2. SettleNonSuccess => \E decision \in {"DO_NOT_PROJECT", "HOLD_PROJECTION"} : Publish(decision)
    BY DEF SettleNonSuccess
  <2>3. DecisionOf(FreshFinally) \in {"DO_NOT_PROJECT", "HOLD_PROJECTION", "PROJECT"}
    BY DEF DecisionOf
  <2> QED
    BY <2>1, <2>2, <2>3 DEF SettleSuccess
<1> QED
  BY <1>1, PublishAuthority


LEMMA StepAuthority ==
  ASSUME Inv, Step, Projected' = Projected
  PROVE  authority' = authority
<1>1. UNCHANGED outVars => authority' = authority
  BY DEF outVars
<1>2. ASSUME NEW ctl, StopCall(ctl) \/ StopDispatch(ctl) PROVE UNCHANGED outVars
  BY <1>2 DEF StopCall, StopDispatch
<1>3. HoldIntent \/ MissInitialState \/ RefuseWhat \/ HoldCommit \/ FailToAdmit \/ RefuseDispatch \/ HoldDispatch
        => UNCHANGED outVars
  BY <1>2 DEF HoldIntent, MissInitialState, RefuseWhat, HoldCommit, FailToAdmit, RefuseDispatch, HoldDispatch
<1>4. LoseIntent \/ StructureIntent \/ ReadInitialState \/ ApproveWhat \/ FailToPlan \/ RequestSuccessor
        => UNCHANGED outVars
  BY DEF LoseIntent, StructureIntent, ReadInitialState, ApproveWhat, FailToPlan, RequestSuccessor
<1>5. AcceptPlan \/ RefusePlan \/ Admit \/ RetrieveDispatch \/ BeginDispatch \/ RaiseDispatch => UNCHANGED outVars
  BY DEF AcceptPlan, RefusePlan, RetainPlan, Admit, AdmitUnder, RetrieveDispatch, BeginDispatch, RaiseDispatch
<1>6. Invoke \/ ApplyRequest \/ CompleteExecution \/ RecordExecution \/ ReconcileEffects => UNCHANGED outVars
  BY DEF Invoke, ApplyRequest, CompleteExecution, RecordExecution, ReconcileEffects
<1>7. ReserveOutcomeSlot \/ LoseOutcomeSlot => authority' = authority
  BY DEF ReserveOutcomeSlot, LoseOutcomeSlot
<1>8. SettleNonSuccess \/ SettleSuccess => authority' = authority
  <2>1. SettleNonSuccess \/ SettleSuccess => ~Projected
    BY RealizingState DEF Inv, SettleNonSuccess, SettleSuccess, Realizing, Projected
  <2> QED
    BY <2>1, SettleAuthority
<1> QED
  BY <1>1, <1>3, <1>4, <1>5, <1>6, <1>7, <1>8 DEF Step

(* Only an admission commits.                                               *)
LEMMA OnlyAdmitCommits ==
  ASSUME Step, ~Admit
  PROVE  commits' = commits
<1>1. UNCHANGED realVars => commits' = commits
  BY DEF realVars
<1>2. ASSUME NEW ctl, StopCall(ctl) \/ StopDispatch(ctl) PROVE commits' = commits
  BY <1>1, <1>2 DEF StopCall, StopDispatch
<1>3. HoldIntent \/ MissInitialState \/ RefuseWhat \/ HoldCommit \/ FailToAdmit \/ RefuseDispatch \/ HoldDispatch
        => commits' = commits
  BY <1>2 DEF HoldIntent, MissInitialState, RefuseWhat, HoldCommit, FailToAdmit, RefuseDispatch, HoldDispatch
<1>4. LoseIntent \/ StructureIntent \/ ReadInitialState \/ ApproveWhat \/ FailToPlan \/ RequestSuccessor
        \/ AcceptPlan \/ RefusePlan \/ RetrieveDispatch \/ BeginDispatch \/ RaiseDispatch \/ RecordExecution \/ ReserveOutcomeSlot
        => commits' = commits
  BY <1>1 DEF LoseIntent, StructureIntent, ReadInitialState, ApproveWhat, FailToPlan, RequestSuccessor,
     AcceptPlan, RefusePlan, RetainPlan, RetrieveDispatch, BeginDispatch, RaiseDispatch, RecordExecution, ReserveOutcomeSlot
<1>5. Invoke \/ ApplyRequest \/ CompleteExecution \/ ReconcileEffects \/ LoseOutcomeSlot => commits' = commits
  BY DEF Invoke, ApplyRequest, CompleteExecution, ReconcileEffects, LoseOutcomeSlot
<1>6. SettleNonSuccess \/ SettleSuccess => commits' = commits
  BY DEF SettleNonSuccess, SettleSuccess, Publish
<1> QED
  BY <1>3, <1>4, <1>5, <1>6 DEF Step

LEMMA StepCommits ==
  ASSUME Inv, Step, commits # << >>
  PROVE  commits' = commits
<1>1. ledger.admission # "NO"
  BY OneCommit DEF Inv, IndInv
<1>2. ~Admit
  BY <1>1, NotAdmittedAgain DEF Admit, AdmitUnder
<1> QED
  BY <1>2, OnlyAdmitCommits

LEMMA StepBasis ==
  ASSUME Inv, Step, envelope # None
  PROVE  UNCHANGED <<before, baseline, request>>
<1>1. UNCHANGED basisVars => UNCHANGED <<before, baseline, request>>
  BY DEF basisVars
<1>2. ~ReadInitialState
  BY PreparingState DEF Inv, ReadInitialState, Preparing
<1>3. ASSUME NEW ctl, StopCall(ctl) \/ StopDispatch(ctl) PROVE UNCHANGED basisVars
  BY <1>3 DEF StopCall, StopDispatch
<1>4. HoldIntent \/ MissInitialState \/ RefuseWhat \/ HoldCommit \/ FailToAdmit \/ RefuseDispatch \/ HoldDispatch
        => UNCHANGED basisVars
  BY <1>3 DEF HoldIntent, MissInitialState, RefuseWhat, HoldCommit, FailToAdmit, RefuseDispatch, HoldDispatch
<1>5. LoseIntent \/ StructureIntent \/ FailToPlan \/ AcceptPlan \/ RefusePlan \/ RequestSuccessor \/ Admit
        => UNCHANGED basisVars
  BY DEF LoseIntent, StructureIntent, FailToPlan, AcceptPlan, RefusePlan, RetainPlan, RequestSuccessor, Admit,
     AdmitUnder
<1>6. ApproveWhat => UNCHANGED <<before, baseline, request>>
  BY DEF ApproveWhat
<1>7. RetrieveDispatch \/ BeginDispatch \/ RaiseDispatch \/ Invoke \/ ApplyRequest \/ CompleteExecution \/ RecordExecution
        => UNCHANGED basisVars
  BY DEF RetrieveDispatch, BeginDispatch, RaiseDispatch, Invoke, ApplyRequest, CompleteExecution, RecordExecution
<1>8. ReconcileEffects \/ LoseOutcomeSlot \/ ReserveOutcomeSlot \/ SettleNonSuccess \/ SettleSuccess
        => UNCHANGED basisVars
  BY DEF ReconcileEffects, LoseOutcomeSlot, ReserveOutcomeSlot, SettleNonSuccess, SettleSuccess, Publish
<1> QED
  BY <1>1, <1>2, <1>4, <1>5, <1>6, <1>7, <1>8 DEF Step

(* A step that neither approves, invokes, applies nor publishes moves       *)
(* nothing of the transition.                                               *)
LEMMA StepGoverned ==
  ASSUME Inv, Step, ~ApproveWhat, ~Invoke, ~ApplyRequest, Projected' = Projected
  PROVE  Governed!Choose \/ UNCHANGED Governed!vars
<1>1. UNCHANGED <<definition, grant, fired>>
  BY StepSeam
<1>2. authority' = authority
  BY StepAuthority
<1>3. UNCHANGED <<view, invocations, envelope>>
  <2>1. ReadInitialState \/ CompleteExecution => UNCHANGED <<view, invocations, envelope>>
    BY DEF ReadInitialState, CompleteExecution, Prov!CloseInterval, provVars, basisVars
  <2>2. ReconcileEffects => UNCHANGED <<view, invocations, envelope>>
    BY DEF ReconcileEffects, provVars, basisVars
  <2>3. ~Loud => UNCHANGED <<view, invocations>>
    BY QuietSteps DEF Quiet
  <2>4. ~Loud /\ ~ReconcileEffects => envelope' = envelope
    BY StepEvidence
  <2> QED
    BY <2>1, <2>2, <2>3, <2>4 DEF Loud
<1>4. envelope # None => UNCHANGED <<before, baseline, request, grant, definition>>
  BY <1>1, StepBasis
<1>5. commits # << >> => commits' = commits
  BY StepCommits
<1> QED
  BY <1>1, <1>2, <1>3, <1>4, <1>5, Unmoved


LEMMA ApproveGoverned ==
  ASSUME Inv, ApproveWhat
  PROVE  Governed!Approve
<1>1. /\ pc = "what" /\ WhatControl = "PASS" /\ envelope' = RetainedEnvelope
      /\ UNCHANGED <<view, invocations, definition, grant, fired, request, before, baseline, plan, commits, authority,
                     projection>>
  BY DEF ApproveWhat, provVars, seamVars, planVars, realVars, outVars
<1>2. envelope = None /\ commits = << >> /\ claims = {}
  BY <1>1, PreparingState DEF Inv, Preparing
<1>3. before = authority /\ baseline = view
  BY <1>1 DEF Inv, EffectsOK
<1>4. invocations = 0 /\ ~Projected /\ ~Projected'
  BY <1>1, <1>2 DEF Inv, IndInv, StageOK, Untouched, Projected
<1>5. envelope' # None
  <2>1. before \in Authoritative /\ baseline \in Prov!EffectView
    BY <1>3 DEF Inv, IndInv, BasisOK, EffectsOK, Prov!ProvTypeOK
  <2>2. RetainedEnvelope \in Envelope
    BY <2>1 DEF RetainedEnvelope, Envelope, Authoritative, Prov!EffectView
  <2> QED
    BY <1>1, <2>2, AbsenceAssumption
<1>6. Stage = "open" /\ Stage' = "approved"
  <2>1. ~(invocations > 0) /\ ~(invocations' > 0)
    BY <1>1, <1>4
  <2> QED
    BY <1>2, <1>4, <1>5, <2>1 DEF Stage
<1>7. ValidWhat /\ CurrentGrant(None) = "PASS"
  BY <1>1 DEF WhatControl
<1>8. authority.state = "DRAFT" /\ Document(view).state = "DRAFT"
  BY <1>3, <1>7 DEF ValidWhat, Document
<1>9. Permitted'
  <2>1. plans = << >>
    BY <1>2 DEF Inv, IndInv, PlansOK
  <2>2. plan = None
    BY <2>1, EmptySeq DEF Inv, IndInv, PlansOK
  <2>3. PlanInForce' = None
    BY <1>1, <1>2, <2>2 DEF PlanInForce, PlanRef
  <2> QED
    BY <1>1, <1>5, <1>7, <2>3 DEF Permitted, CurrentGrant
<1>10. Basis' = [authority |-> authority, document |-> Document(view)]
  BY <1>1, <1>3, <1>5 DEF Basis
<1> QED
  BY <1>1, <1>6, <1>8, <1>9, <1>10 DEF Governed!Approve, Stage, Basis, Permitted, Document

LEMMA InvokeGoverned ==
  ASSUME Inv, Invoke
  PROVE  Governed!Invoke
<1>1. /\ pc = "pre_dispatch" /\ Unsubstituted /\ Fresh = "PASS" /\ invocations' = invocations + 1
      /\ UNCHANGED <<view, definition, grant, fired, request, before, baseline, envelope, commits, authority, projection>>
  BY DEF Invoke, Prov!OpenInterval, LeaveSeam, basisVars, outVars
<1>2. commits # << >> /\ plan # None /\ envelope # None
  BY <1>1, DispatchingState DEF Inv, Dispatching, Unsubstituted
<1>3. invocations = 0 /\ ~Projected /\ ~Projected'
  BY <1>1 DEF Inv, IndInv, StageOK, Untouched, Projected
<1>4. Stage = "approved" /\ Stage' = "invoked"
  <2>1. ~(invocations > 0) /\ invocations' > 0
    BY <1>1, <1>3
  <2> QED
    BY <1>2, <1>3, <2>1 DEF Stage
<1>5. view = baseline /\ authority = before
  BY <1>1, InvokeEffects, FreshMeans DEF Inv, SameBasis
<1>6. Permitted /\ Permitted'
  <2>1. CurrentGrant(Commit.plan) = "PASS"
    BY <1>1, <1>2, PlanRefOfCommit, FreshMeans DEF Inv, Unsubstituted
  <2> QED
    BY <1>1, <1>2, <2>1 DEF Permitted, PlanInForce, CurrentGrant, Commit
<1>7. Basis = [authority |-> authority, document |-> Document(view)] /\ Basis' = Basis
  BY <1>1, <1>2, <1>5 DEF Basis
<1> QED
  BY <1>1, <1>4, <1>6, <1>7 DEF Governed!Invoke, Stage, Basis, Permitted, Document

LEMMA ApplyGoverned ==
  ASSUME Inv, ApplyRequest
  PROVE  Governed!Effect \/ UNCHANGED Governed!vars
<1>1. /\ pc = "invoke"
      /\ UNCHANGED <<invocations, definition, grant, fired, request, before, baseline, envelope, plan, commits,
                     authority, projection>>
  BY DEF ApplyRequest, Prov!Apply, seamVars, basisVars, planVars, outVars
<1>2. view' = view \/ view'.version = view.version + 1
  BY ApplyRequestEffects DEF Inv
<1>3. Stage = "invoked"
  <2>1. invocations = 1 /\ projection = None
    BY <1>1, RealizingState DEF Inv, Realizing
  <2>2. invocations > 0
    BY <2>1
  <2> QED
    BY <2>1, <2>2 DEF Stage, Projected
<1>4. Stage' = Stage /\ Basis' = Basis /\ Permitted' = Permitted
  BY <1>1 DEF Stage, Projected, Basis, Permitted, PlanInForce, PlanRef, Commit, CurrentGrant
<1>5. CASE view' = view
  BY <1>1, <1>4, <1>5 DEF Governed!vars, Stage, Basis, Permitted, Document
<1>6. CASE view'.version = view.version + 1
  <2>1. Document(view').version = Document(view).version + 1
    BY <1>6 DEF Document
  <2>2. Document(view)' = Document(view')
    BY DEF Document
  <2> QED
    BY <1>1, <1>3, <1>4, <2>1, <2>2 DEF Governed!Effect, Stage, Basis, Permitted
<1> QED
  BY <1>2, <1>5, <1>6


(* What the abstract realization makes of a document, and of the authority. *)
LEMMA RealizedDocument ==
  ASSUME NEW state, NEW version, NEW digest
  PROVE  Governed!Realized([state |-> state, version |-> version, digest |-> digest])
           = [state |-> "REVIEW", version |-> version + 1, digest |-> digest]
<1> DEFINE from == [state |-> state, version |-> version, digest |-> digest]
           moved == [from EXCEPT !.state = "REVIEW"]
<1>1. moved = [state |-> "REVIEW", version |-> version, digest |-> digest] /\ from.version = version
  OBVIOUS
<1>2. Governed!Realized(from) = [moved EXCEPT !.version = from.version + 1]
  BY DEF Governed!Realized
<1> HIDE DEF moved, from
<1>3. [moved EXCEPT !.version = version + 1] = [state |-> "REVIEW", version |-> version + 1, digest |-> digest]
  BY <1>1
<1>4. Governed!Realized(from) = [state |-> "REVIEW", version |-> version + 1, digest |-> digest]
  BY <1>1, <1>2, <1>3
<1> QED
  BY <1>4 DEF from

LEMMA RealizedAuthority ==
  ASSUME NEW from \in Authoritative
  PROVE  Governed!Realized(from) = [state |-> "REVIEW", version |-> from.version + 1]
<1> DEFINE moved == [from EXCEPT !.state = "REVIEW"]
<1>1. moved = [state |-> "REVIEW", version |-> from.version]
  BY DEF Authoritative
<1>2. Governed!Realized(from) = [moved EXCEPT !.version = from.version + 1]
  BY DEF Governed!Realized
<1> HIDE DEF moved
<1>3. [moved EXCEPT !.version = from.version + 1] = [state |-> "REVIEW", version |-> from.version + 1]
  BY <1>1
<1> QED
  BY <1>2, <1>3

LEMMA PublishGoverned ==
  ASSUME Inv, ReconciledOK, [Next]_vars, Projected' # Projected
  PROVE  Governed!Publish
<1>1. /\ SettleSuccess /\ Projected' /\ ~Projected /\ FreshFinally = "PASS"
      /\ reconciliation = "RECONCILED_SUCCESS"
  BY OnlySettleProjects
<1>2. pc = "final" /\ authority' = Advanced
  BY <1>1, SettleAuthority DEF SettleSuccess
<1>3. \E decision \in {DecisionOf(FreshFinally)} : Publish(decision)
  BY <1>1 DEF SettleSuccess
<1>4. UNCHANGED <<view, invocations, definition, grant, fired, request, before, baseline, envelope, commits>>
  BY <1>1, <1>3, StepSeam DEF Publish, Step, provVars, basisVars
<1>5. /\ Earned /\ authority = before /\ envelope.target = "REVIEW"
      /\ OnTarget(observed, baseline, invocation, "REVIEW") /\ SameDocument(observed.view)
  BY <1>1, <1>2, EarnedWhenFresh
<1>6. invocations = 1 /\ envelope # None /\ commits # << >>
  BY <1>2, RealizingState DEF Inv, Realizing
<1>7. Stage = "invoked" /\ Stage' = "published"
  <2>1. invocations > 0
    BY <1>6
  <2> QED
    BY <1>1, <2>1 DEF Stage
<1>8. Permitted /\ Permitted'
  <2>1. CurrentGrant(Commit.plan) = "PASS"
    BY <1>5 DEF Earned
  <2> QED
    BY <1>4, <1>6, <2>1 DEF Permitted, PlanInForce, Commit, CurrentGrant
<1>9. Basis = [authority |-> authority, document |-> Document(baseline)] /\ Basis' = Basis
  BY <1>4, <1>5, <1>6 DEF Basis
<1>10. Document(view) = Governed!Realized(Document(baseline))
  <2>1. view.state = "REVIEW" /\ view.version = baseline.version + 1 /\ view.digest = baseline.digest
    BY <1>5 DEF OnTarget, SameDocument
  <2>2. Governed!Realized(Document(baseline))
          = [state |-> "REVIEW", version |-> baseline.version + 1, digest |-> baseline.digest]
    BY RealizedDocument DEF Document
  <2> QED
    BY <2>1, <2>2 DEF Document
<1>11. authority' = Governed!Realized(authority)
  <2>1. authority \in Authoritative
    BY DEF Inv, IndInv, BasisOK
  <2>2. Advanced = [state |-> "REVIEW", version |-> authority.version + 1]
    BY <1>5 DEF Advanced
  <2>3. Governed!Realized(authority) = [state |-> "REVIEW", version |-> authority.version + 1]
    BY <2>1, RealizedAuthority
  <2> QED
    BY <1>2, <2>2, <2>3
<1> QED
  BY <1>4, <1>7, <1>8, <1>9, <1>10, <1>11 DEF Governed!Publish, Stage, Basis, Permitted, Document

(* One injection is one change from outside.                                *)
LEMMA InjectGoverned ==
  ASSUME Inv, Inject
  PROVE  Governed!Outside
<1> PICK kind \in {i.kind : i \in {j \in Injections : j.seam = pc}} : Inject!(kind)
  BY DEF Inject
<1>1. Cardinality(fired') = Cardinality(fired) + 1
  <2>1. IsFiniteSet(fired)
    BY DEF Inv, IndInv, BuiltOK
  <2>2. fired' = fired \cup {[seam |-> pc, kind |-> kind]} /\ [seam |-> pc, kind |-> kind] \notin fired
    OBVIOUS
  <2> QED
    BY <2>1, <2>2, FS_AddElement
<1>2. authority' \in {authority, [state |-> "REVIEW", version |-> authority.version + 1]}
  OBVIOUS
<1>3. /\ view' = view \/ view'.version = view.version + 1
      /\ UNCHANGED <<invocations, baseline, before, projection>>
  BY InjectView, CallProjection DEF Inv, EffectsOK
<1>4. envelope' = None <=> envelope = None
  BY InjectChanges DEF Inv
<1>5. Document(view)' = Document(view) \/ Document(view)'.version = Document(view).version + 1
  BY <1>3 DEF Document
<1>6. Stage' = Stage /\ Basis' = Basis
  BY <1>3, <1>4 DEF Stage, Basis, Projected, Document
<1>7. Permitted' \in BOOLEAN
  BY DEF Permitted
<1> QED
  BY <1>1, <1>2, <1>5, <1>6, <1>7 DEF Governed!Outside, Stage, Basis, Permitted

LEMMA GovernedInit == Init => Governed!Init
<1> SUFFICES ASSUME Init PROVE Governed!Init
  OBVIOUS
<1>1. /\ authority = [state |-> "DRAFT", version |-> 1] /\ fired = {} /\ envelope = None
      /\ projection = None /\ invocations = 0 /\ view = Prov!InitialView
  BY DEF Init, Prov!ProvInit
<1>2. ~(invocations > 0)
  BY <1>1
<1>3. Stage = "open" /\ Basis = None /\ Permitted = FALSE
  BY <1>1, <1>2 DEF Stage, Basis, Permitted, Projected
<1>4. Document(view) = [state |-> "DRAFT", version |-> 1, digest |-> "original"]
  BY <1>1 DEF Document, Prov!InitialView
<1>5. Cardinality(fired) = 0
  BY <1>1, FS_EmptySet
<1> QED
  BY <1>1, <1>3, <1>4, <1>5 DEF Governed!Init, Stage, Basis, Permitted

LEMMA GovernedStep ==
  ASSUME Inv, ReconciledOK, [Next]_vars
  PROVE  [Governed!Next]_(Governed!vars)
<1>1. CASE UNCHANGED vars
  <2>1. Stage' = Stage /\ Basis' = Basis /\ Permitted' = Permitted
    BY <1>1 DEF vars, provVars, seamVars, basisVars, planVars, realVars, outVars, Stage, Basis, Permitted, Projected,
       Document, PlanInForce, PlanRef, Commit, CurrentGrant
  <2>2. UNCHANGED <<authority, view, fired>>
    BY <1>1 DEF vars, provVars, seamVars, outVars
  <2> QED
    BY <2>1, <2>2 DEF Governed!vars, Stage, Basis, Permitted, Document
<1>2. CASE Call \/ Staged
  BY <1>2, CallGoverned DEF Governed!Next
<1>3. CASE Inject
  BY <1>3, InjectGoverned DEF Governed!Next
<1>4. CASE Projected' # Projected
  BY <1>4, PublishGoverned DEF Governed!Next
<1>5. CASE ApproveWhat \/ Invoke \/ ApplyRequest
  BY <1>5, ApproveGoverned, InvokeGoverned, ApplyGoverned DEF Governed!Next
<1>6. CASE Step /\ ~ApproveWhat /\ ~Invoke /\ ~ApplyRequest /\ Projected' = Projected
  BY <1>6, StepGoverned DEF Governed!Next
<1> QED
  BY <1>1, <1>2, <1>3, <1>4, <1>5, <1>6 DEF Next

(* The runtime implements the governed transition: whatever is planned,     *)
(* retried, held or injected, the realization is invoked once and only on   *)
(* the approved basis, and the authority moves once, by a publication that  *)
(* finds the basis, the one required effect and the permission in place.    *)
THEOREM RuntimeIsGoverned == Spec => TransitionGoverned
<1>1. (Inv /\ ReconciledOK) /\ [Next]_vars => [Governed!Next]_(Governed!vars)
  BY GovernedStep
<1> QED
  BY <1>1, GovernedInit, EvidenceInductive, PTL DEF Spec, TransitionGoverned, Governed!Spec
=============================================================================
