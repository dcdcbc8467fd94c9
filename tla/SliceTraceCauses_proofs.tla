---------------------- MODULE SliceTraceCauses_proofs ----------------------
(***************************************************************************)
(* Proofs about what the trace says of the work done: every material event *)
(* comes after the one it rests on, a successor is explained before it     *)
(* starts, and every outcome can be read from the trace.                   *)
(*                                                                         *)
(* The invariant (BackedOK) says what the trace already holds when the     *)
(* code is somewhere or something exists.  Events are appended one after   *)
(* the other, so a list of events is shown caused from its front.          *)
(***************************************************************************)
EXTENDS SliceTraceEnds_proofs

(* What a sequence of events says.                                          *)
TypesOf(s) == {s[j].type : j \in DOMAIN s}

(* Event j of s is what e rests on.                                         *)
Backs(s, j, e) ==
  /\ s[j].type = Prerequisite[e.type]
  /\ e.type = "TransitionCommitted" => s[j].outcome = "PASS" /\ s[j].attempt = e.attempt
  /\ e.type = "StateProjected" =>
       \E k \in 1 .. (j - 1) : s[k].type = "ExecutionCompleted" /\ s[k].outcome = "SUCCESS"

Backed(s, e) == e.type \in DOMAIN Prerequisite => \E j \in DOMAIN s : Backs(s, j, e)

Caused(s) ==
  \A i \in DOMAIN s : s[i].type \in DOMAIN Prerequisite => \E j \in 1 .. (i - 1) : Backs(s, j, s[i])

Immaterial(s) == TypesOf(s) \cap DOMAIN Prerequisite = {}

PlanPassed(s, attempt) ==
  \E j \in DOMAIN s : s[j].type = "ExecutionPlanValidated" /\ s[j].outcome = "PASS" /\ s[j].attempt = attempt

Executed(s, report) == \E j \in DOMAIN s : s[j].type = "ExecutionCompleted" /\ s[j].outcome = report

Reconciled(s) ==
  \E j \in DOMAIN s :
    /\ s[j].type = "TransitionReconciled"
    /\ \E k \in 1 .. (j - 1) : s[k].type = "ExecutionCompleted" /\ s[k].outcome = "SUCCESS"

LEMMA MaterialTypes ==
  DOMAIN Prerequisite =
    {"CandidateSelected", "TransitionValidated", "TransitionAuthorized", "ExecutionPlanValidated",
     "TransitionCommitted", "ExecutionCompleted", "TransitionReconciled", "ReconciliationFailed",
     "StateProjected", "CircuitOpened", "HumanEscalationRequired"}
  BY DEF Prerequisite

LEMMA CausedIs == Caused(events) <=> CausesReported
  BY DEF Caused, Backs, CausesReported

-----------------------------------------------------------------------------
(* What a longer sequence says.                                             *)

LEMMA TypesJoined ==
  ASSUME NEW s \in Seq(EventType), NEW t \in Seq(EventType)
  PROVE  TypesOf(s \o t) = TypesOf(s) \cup TypesOf(t)
<1> DEFINE u == s \o t
<1>1. /\ DOMAIN s = 1 .. Len(s) /\ DOMAIN t = 1 .. Len(t)
      /\ \A i \in 1 .. Len(s) : i \in DOMAIN u /\ u[i] = s[i]
      /\ \A k \in 1 .. Len(t) : Len(s) + k \in DOMAIN u /\ u[Len(s) + k] = t[k]
      /\ \A i \in DOMAIN u : i \in 1 .. Len(s) \/ \E k \in 1 .. Len(t) : i = Len(s) + k
  BY ExtendedBy
<1> HIDE DEF u
<1>2. \A i \in DOMAIN s : s[i].type \in TypesOf(u)
  BY <1>1 DEF TypesOf
<1>3. \A k \in DOMAIN t : t[k].type \in TypesOf(u)
  BY <1>1 DEF TypesOf
<1>4. \A i \in DOMAIN u : u[i].type \in TypesOf(s) \cup TypesOf(t)
  BY <1>1 DEF TypesOf
<1>5. TypesOf(s) \cup TypesOf(t) \subseteq TypesOf(u)
  BY <1>2, <1>3 DEF TypesOf
<1>6. TypesOf(u) \subseteq TypesOf(s) \cup TypesOf(t)
  BY <1>4 DEF TypesOf
<1> QED
  BY <1>5, <1>6 DEF u

LEMMA NoTypes == TypesOf(<< >>) = {}
  BY DEF TypesOf

LEMMA OneType == \A e : TypesOf(<<e>>) = {e.type}
  BY DEF TypesOf

(* What was said stays said.                                                *)
LEMMA SaidStill ==
  ASSUME NEW s \in Seq(EventType), NEW t \in Seq(EventType)
  PROVE  /\ \A attempt : PlanPassed(s, attempt) \/ PlanPassed(t, attempt) => PlanPassed(s \o t, attempt)
         /\ \A report : Executed(s, report) \/ Executed(t, report) => Executed(s \o t, report)
         /\ Reconciled(s) => Reconciled(s \o t)
         /\ Executed(s, "SUCCESS") /\ "TransitionReconciled" \in TypesOf(t) => Reconciled(s \o t)
<1> DEFINE u == s \o t
<1>1. /\ Len(s) \in Nat /\ Len(t) \in Nat /\ DOMAIN s = 1 .. Len(s) /\ DOMAIN t = 1 .. Len(t)
      /\ \A i \in 1 .. Len(s) : i \in DOMAIN u /\ u[i] = s[i]
      /\ \A k \in 1 .. Len(t) : Len(s) + k \in DOMAIN u /\ u[Len(s) + k] = t[k]
  BY ExtendedBy
<1> HIDE DEF u
<1>2. ASSUME NEW attempt, PlanPassed(s, attempt) \/ PlanPassed(t, attempt) PROVE PlanPassed(u, attempt)
  BY <1>1, <1>2 DEF PlanPassed
<1>3. ASSUME NEW report, Executed(s, report) \/ Executed(t, report) PROVE Executed(u, report)
  BY <1>1, <1>3 DEF Executed
<1>4. ASSUME Reconciled(s) PROVE Reconciled(u)
  <2>1. PICK j \in DOMAIN s : /\ s[j].type = "TransitionReconciled"
                              /\ \E k \in 1 .. (j - 1) : s[k].type = "ExecutionCompleted" /\ s[k].outcome = "SUCCESS"
    BY <1>4 DEF Reconciled
  <2>2. PICK k \in 1 .. (j - 1) : s[k].type = "ExecutionCompleted" /\ s[k].outcome = "SUCCESS"
    BY <2>1
  <2>3. k \in 1 .. Len(s) /\ j \in 1 .. Len(s)
    BY <1>1, <2>1, <2>2
  <2>4. u[j] = s[j] /\ u[k] = s[k] /\ j \in DOMAIN u
    BY <1>1, <2>3
  <2> QED
    BY <2>1, <2>2, <2>4 DEF Reconciled
<1>5. ASSUME Executed(s, "SUCCESS"), "TransitionReconciled" \in TypesOf(t) PROVE Reconciled(u)
  <2>1. PICK k \in DOMAIN s : s[k].type = "ExecutionCompleted" /\ s[k].outcome = "SUCCESS"
    BY <1>5 DEF Executed
  <2>2. PICK m \in DOMAIN t : t[m].type = "TransitionReconciled"
    BY <1>5 DEF TypesOf
  <2>3. k \in 1 .. (Len(s) + m - 1)
    BY <1>1
  <2>4. u[k] = s[k] /\ u[Len(s) + m] = t[m] /\ Len(s) + m \in DOMAIN u
    BY <1>1
  <2> QED
    BY <2>1, <2>2, <2>3, <2>4 DEF Reconciled
<1> QED
  BY <1>2, <1>3, <1>4, <1>5 DEF u

(* Events that rest on nothing leave a caused sequence caused, and so does  *)
(* one event that is backed.                                                *)
LEMMA CausedFront ==
  ASSUME NEW s \in Seq(EventType), NEW t \in Seq(EventType), Caused(s)
  PROVE  \A i \in 1 .. Len(s) : (s \o t)[i].type \in DOMAIN Prerequisite =>
           \E j \in 1 .. (i - 1) : Backs(s \o t, j, (s \o t)[i])
<1> DEFINE u == s \o t
<1>1. /\ Len(s) \in Nat /\ DOMAIN s = 1 .. Len(s)
      /\ \A i \in 1 .. Len(s) : u[i] = s[i]
  BY ExtendedBy
<1> HIDE DEF u
<1>2. ASSUME NEW i \in 1 .. Len(s), u[i].type \in DOMAIN Prerequisite
      PROVE  \E j \in 1 .. (i - 1) : Backs(u, j, u[i])
  <2>1. u[i] = s[i] /\ i \in DOMAIN s
    BY <1>1
  <2>2. PICK j \in 1 .. (i - 1) : Backs(s, j, s[i])
    BY <1>2, <2>1 DEF Caused
  <2>3. j \in 1 .. Len(s) /\ \A k \in 1 .. (j - 1) : k \in 1 .. Len(s)
    BY <1>1, <2>2
  <2>4. u[j] = s[j] /\ \A k \in 1 .. (j - 1) : u[k] = s[k]
    BY <1>1, <2>3
  <2>5. Backs(u, j, u[i])
    BY <2>1, <2>2, <2>4 DEF Backs
  <2> QED
    BY <2>5
<1> QED
  BY <1>2 DEF u

LEMMA CausedAside ==
  ASSUME NEW s \in Seq(EventType), NEW t \in Seq(EventType), Caused(s), Immaterial(t)
  PROVE  Caused(s \o t)
<1> DEFINE u == s \o t
<1>1. /\ DOMAIN t = 1 .. Len(t)
      /\ \A k \in 1 .. Len(t) : u[Len(s) + k] = t[k]
      /\ \A i \in DOMAIN u : i \in 1 .. Len(s) \/ \E k \in 1 .. Len(t) : i = Len(s) + k
      /\ \A i \in 1 .. Len(s) : u[i].type \in DOMAIN Prerequisite => \E j \in 1 .. (i - 1) : Backs(u, j, u[i])
  BY ExtendedBy, CausedFront
<1> HIDE DEF u
<1>2. \A k \in 1 .. Len(t) : t[k].type \notin DOMAIN Prerequisite
  BY <1>1 DEF Immaterial, TypesOf
<1> QED
  BY <1>1, <1>2 DEF Caused, u

LEMMA CausedMore ==
  ASSUME NEW s \in Seq(EventType), NEW e \in EventType, Caused(s), Backed(s, e)
  PROVE  Caused(s \o <<e>>)
<1> DEFINE t == <<e>>
           u == s \o t
<1>1. t \in Seq(EventType) /\ Len(t) = 1 /\ t[1] = e
  BY OneEvent
<1> HIDE DEF t
<1>2. /\ Len(s) \in Nat /\ DOMAIN s = 1 .. Len(s)
      /\ \A i \in 1 .. Len(s) : u[i] = s[i]
      /\ \A k \in 1 .. Len(t) : u[Len(s) + k] = t[k]
      /\ \A i \in DOMAIN u : i \in 1 .. Len(s) \/ \E k \in 1 .. Len(t) : i = Len(s) + k
      /\ \A i \in 1 .. Len(s) : u[i].type \in DOMAIN Prerequisite => \E j \in 1 .. (i - 1) : Backs(u, j, u[i])
  BY <1>1, ExtendedBy, CausedFront
<1> HIDE DEF u
<1>3. \A k \in 1 .. Len(t) : k = 1
  BY <1>1
<1>4. u[Len(s) + 1] = e
  BY <1>1, <1>2
<1>5. e.type \in DOMAIN Prerequisite => \E j \in 1 .. (Len(s) + 1 - 1) : Backs(u, j, e)
  <2> SUFFICES ASSUME e.type \in DOMAIN Prerequisite PROVE \E j \in 1 .. (Len(s) + 1 - 1) : Backs(u, j, e)
    OBVIOUS
  <2>1. PICK j \in DOMAIN s : Backs(s, j, e)
    BY DEF Backed
  <2>2. /\ j \in 1 .. Len(s) /\ j \in 1 .. (Len(s) + 1 - 1)
        /\ \A k \in 1 .. (j - 1) : k \in 1 .. Len(s)
    BY <1>2, <2>1
  <2>3. u[j] = s[j] /\ \A k \in 1 .. (j - 1) : u[k] = s[k]
    BY <1>2, <2>2
  <2>4. Backs(u, j, e)
    BY <2>1, <2>3 DEF Backs
  <2> QED
    BY <2>2, <2>4
<1> QED
  BY <1>2, <1>3, <1>4, <1>5 DEF Caused, u, t

(* An event whose prerequisite only has to be there.                        *)
LEMMA BackedByType ==
  ASSUME NEW s, NEW e, e.type \notin {"TransitionCommitted", "StateProjected"},
         Prerequisite[e.type] \in TypesOf(s)
  PROVE  Backed(s, e)
  BY DEF Backed, Backs, TypesOf


-----------------------------------------------------------------------------
(* What the trace holds when the code has come so far.                      *)

BackedOK ==
  /\ pc \in {"initial", "what"} => "IntentStructured" \in TypesOf(events)
  /\ envelope # None => "TransitionAuthorized" \in TypesOf(events)
  /\ pc = "pre_commit" => PlanPassed(events, Len(attempts))
  /\ commits # << >> <=> "TransitionCommitted" \in TypesOf(events)
  /\ execution # None => Executed(events, execution)
  /\ reconciliation = "RECONCILED_SUCCESS" => Reconciled(events)

CausesInv == EndsInv /\ BackedOK /\ Caused(events)

(* What exists after a step was there before, or the step reports it.       *)
LEMMA BackedBy ==
  ASSUME BackedOK, events \in Seq(EventType), NEW new \in Seq(EventType), Emit(new),
         pc' \in {"initial", "what"} => pc \in {"initial", "what"} \/ "IntentStructured" \in TypesOf(new),
         envelope' # None => envelope # None \/ "TransitionAuthorized" \in TypesOf(new),
         pc' = "pre_commit" => \/ pc = "pre_commit" /\ attempts' = attempts
                               \/ PlanPassed(new, Len(attempts')),
         commits' # << >> <=> commits # << >> \/ "TransitionCommitted" \in TypesOf(new),
         execution' = execution \/ Executed(new, execution'),
         \/ reconciliation' = reconciliation
         \/ reconciliation' = "RECONCILED_SUCCESS" => Reconciled(events \o new)
  PROVE  BackedOK'
<1>1. events' = events \o new
  BY DEF Emit
<1>2. TypesOf(events') = TypesOf(events) \cup TypesOf(new)
  BY <1>1, TypesJoined
<1>3. pc' \in {"initial", "what"} => "IntentStructured" \in TypesOf(events')
  BY <1>2 DEF BackedOK
<1>4. envelope' # None => "TransitionAuthorized" \in TypesOf(events')
  BY <1>2 DEF BackedOK
<1>5. commits' # << >> <=> "TransitionCommitted" \in TypesOf(events')
  BY <1>2 DEF BackedOK
<1>6. pc' = "pre_commit" => PlanPassed(events', Len(attempts'))
  BY <1>1, SaidStill DEF BackedOK
<1>7. execution' # None => Executed(events', execution')
  BY <1>1, SaidStill DEF BackedOK
<1>8. reconciliation' = "RECONCILED_SUCCESS" => Reconciled(events')
  BY <1>1, SaidStill DEF BackedOK
<1>9. /\ TypesOf(events)' = TypesOf(events') /\ PlanPassed(events, Len(attempts))' <=> PlanPassed(events', Len(attempts'))
      /\ Executed(events, execution)' <=> Executed(events', execution')
      /\ Reconciled(events)' <=> Reconciled(events')
  BY DEF TypesOf, PlanPassed, Executed, Reconciled
<1> QED
  BY <1>3, <1>4, <1>5, <1>6, <1>7, <1>8, <1>9 DEF BackedOK

CausedStep == BackedOK' /\ Caused(events')

-----------------------------------------------------------------------------
(* What the lists of events hold.                                           *)

LEMMA NoteTypes == \A type, outcome : TypesOf(Note(type, outcome)) = {type}
<1> SUFFICES ASSUME NEW type, NEW outcome PROVE TypesOf(Note(type, outcome)) = {type}
  OBVIOUS
<1>1. TraceEvent("runtime", type, Len(attempts), outcome).type = type
  BY DEF TraceEvent
<1> QED
  BY <1>1, OneType DEF Note

LEMMA SupervisedTypes == \A type, attempt, ctl : TypesOf(Supervised(type, attempt, ctl)) = {type}
<1> SUFFICES ASSUME NEW type, NEW attempt, NEW ctl PROVE TypesOf(Supervised(type, attempt, ctl)) = {type}
  OBVIOUS
<1>1. TraceEvent("supervisor", type, attempt, ctl).type = type
  BY DEF TraceEvent
<1> QED
  BY <1>1, OneType DEF Supervised

LEMMA EndingImmaterial == \A ctl : Immaterial(Ending(ctl))
<1> SUFFICES ASSUME NEW ctl PROVE Immaterial(Ending(ctl))
  OBVIOUS
<1>1. FailureType(ctl) \notin DOMAIN Prerequisite
  BY MaterialTypes DEF FailureType
<1> QED
  BY <1>1, NoTypes, SupervisedTypes DEF Ending, Immaterial

LEMMA IntentImmaterial ==
  /\ Immaterial(IntentEvents)
  /\ PolicyUsable => TypesOf(IntentEvents) = {"IntentStructured"}
  BY NoTypes, NoteTypes, MaterialTypes DEF IntentEvents, Immaterial

LEMMA ImmaterialJoined ==
  ASSUME NEW s \in Seq(EventType), NEW t \in Seq(EventType), Immaterial(s), Immaterial(t)
  PROVE  Immaterial(s \o t)
  BY TypesJoined DEF Immaterial

LEMMA SilenceImmaterial == Immaterial(<< >>)
  BY NoTypes DEF Immaterial

-----------------------------------------------------------------------------
(* Steps that report nothing material.                                      *)

(* Few steps lead to the places BackedOK speaks of.                         *)
LEMMA PlaceEntered ==
  ASSUME Step, ~StructureIntent, ~AcceptPlan
  PROVE  pc' # "pre_commit" /\ (pc' \in {"initial", "what"} => pc \in {"initial", "what"})
<1>1. ASSUME NEW result, Return(result) PROVE pc' = "idle"
  BY <1>1 DEF Return
<1>2. ASSUME NEW ctl, StopCall(ctl) PROVE pc' = "idle"
  BY <1>2 DEF StopCall, Return
<1>3. ASSUME NEW disposition, Finish(disposition) PROVE pc' = "idle"
  BY <1>3 DEF Finish, Return
<1>4. HoldIntent \/ MissInitialState \/ RefuseWhat \/ HoldCommit \/ FailToAdmit => pc' = "idle"
  BY <1>2 DEF HoldIntent, MissInitialState, RefuseWhat, HoldCommit, FailToAdmit
<1>5. LoseIntent \/ ReadInitialState => pc' = "idle" \/ (pc = "initial" /\ pc' = "what")
  BY DEF LoseIntent, ReadInitialState
<1>6. ApproveWhat \/ RequestSuccessor \/ RefusePlan => pc' \in {"idle", "plan", "retry"}
  BY DEF ApproveWhat, RequestSuccessor, RefusePlan, Return
<1>7. FailToPlan \/ Admit \/ RetrieveDispatch \/ BeginDispatch \/ RaiseDispatch => pc' \in {"idle", "dispatch", "pre_dispatch"}
  BY <1>1 DEF FailToPlan, Admit, RetrieveDispatch, BeginDispatch, RaiseDispatch, Return
<1>8. RefuseDispatch \/ HoldDispatch => pc' = "idle"
  BY <1>3 DEF RefuseDispatch, HoldDispatch, StopDispatch
<1>9. LoseOutcomeSlot => pc' = "idle"
  BY <1>3 DEF LoseOutcomeSlot
<1>10. ASSUME NEW decision, Publish(decision) PROVE pc' = "idle"
  BY <1>3, <1>10 DEF Publish
<1>11. SettleNonSuccess \/ SettleSuccess => pc' = "idle"
  BY <1>10 DEF SettleNonSuccess, SettleSuccess
<1>12. Invoke \/ ApplyRequest \/ CompleteExecution \/ RecordExecution
        => pc' \in {"invoke", "executed", "post_execution"}
  BY DEF Invoke, ApplyRequest, CompleteExecution, RecordExecution, ctlVars
<1>13. ReconcileEffects \/ ReserveOutcomeSlot => pc' \in {"reserve", "settle", "final"}
  BY DEF ReconcileEffects, ReserveOutcomeSlot
<1> QED
  BY <1>4, <1>5, <1>6, <1>7, <1>8, <1>9, <1>11, <1>12, <1>13 DEF Step

(* The steps that bring something into being; any other leaves what there   *)
(* is.                                                                      *)
Founding == StructureIntent \/ ApproveWhat \/ AcceptPlan \/ Admit \/ CompleteExecution \/ ReconcileEffects

LEMMA NothingNew ==
  ASSUME Inv, Step, ~Founding
  PROVE  /\ UNCHANGED <<commits, execution, reconciliation>>
         /\ envelope' # None => envelope # None
         /\ pc' # "pre_commit"
         /\ pc' \in {"initial", "what"} => pc \in {"initial", "what"}
<1>1. commits' = commits
  BY OnlyAdmitCommits DEF Founding
<1>2. ReadInitialState \/ Invoke \/ ApplyRequest => UNCHANGED <<execution, reconciliation, envelope>>
  BY DEF ReadInitialState, Invoke, ApplyRequest, realVars, basisVars
<1>3. ~Loud => UNCHANGED <<execution, reconciliation, envelope>>
  BY StepEvidence DEF Founding
<1> QED
  BY <1>1, <1>2, <1>3, PlaceEntered DEF Loud, Founding

LEMMA NotFounding ==
  ASSUME \/ HoldIntent \/ MissInitialState \/ RefuseWhat \/ FailToPlan \/ RefusePlan \/ RequestSuccessor
         \/ HoldCommit \/ FailToAdmit \/ HoldDispatch \/ RefuseDispatch \/ RecordExecution \/ LoseOutcomeSlot
         \/ SettleNonSuccess \/ SettleSuccess \/ Unreportable
  PROVE  ~Founding
<1>1. HoldIntent \/ LoseIntent => ~Founding
  BY DEF Founding, StructureIntent, ApproveWhat, AcceptPlan, RetainPlan, Admit, CompleteExecution, ReconcileEffects,
     HoldIntent, LoseIntent, Sufficient
<1>2. MissInitialState \/ ReadInitialState \/ RefuseWhat \/ RequestSuccessor => ~Founding
  BY DEF Founding, StructureIntent, ApproveWhat, AcceptPlan, RetainPlan, Admit, CompleteExecution, ReconcileEffects,
     MissInitialState, ReadInitialState, RefuseWhat, RequestSuccessor
<1>3. FailToPlan \/ RefusePlan => ~Founding
  BY DEF Founding, StructureIntent, ApproveWhat, AcceptPlan, RetainPlan, Admit, CompleteExecution, ReconcileEffects,
     FailToPlan, RefusePlan
<1>4. HoldCommit \/ FailToAdmit => ~Founding
  BY DEF Founding, StructureIntent, ApproveWhat, AcceptPlan, RetainPlan, Admit, AdmitUnder, Sup!Admission,
     CompleteExecution, ReconcileEffects, HoldCommit, FailToAdmit
<1>5. HoldDispatch \/ RefuseDispatch \/ RetrieveDispatch \/ BeginDispatch \/ RaiseDispatch \/ Invoke => ~Founding
  BY DEF Founding, StructureIntent, ApproveWhat, AcceptPlan, RetainPlan, Admit, CompleteExecution, ReconcileEffects,
     HoldDispatch, RefuseDispatch, RetrieveDispatch, BeginDispatch, RaiseDispatch, Invoke
<1>6. ApplyRequest \/ RecordExecution \/ LoseOutcomeSlot \/ ReserveOutcomeSlot => ~Founding
  BY DEF Founding, StructureIntent, ApproveWhat, AcceptPlan, RetainPlan, Admit, CompleteExecution, ReconcileEffects,
     ApplyRequest, RecordExecution, LoseOutcomeSlot, ReserveOutcomeSlot
<1>7. SettleNonSuccess \/ SettleSuccess => ~Founding
  BY DEF Founding, StructureIntent, ApproveWhat, AcceptPlan, RetainPlan, Admit, CompleteExecution, ReconcileEffects,
     SettleNonSuccess, SettleSuccess
<1> QED
  BY <1>1, <1>2, <1>3, <1>4, <1>5, <1>6, <1>7 DEF Unreportable

(* A step that founds nothing, and reports a caused list without a commit.  *)
LEMMA OtherCaused ==
  ASSUME CausesInv, Step, ~Founding, NEW new \in Seq(EventType), Emit(new),
         "TransitionCommitted" \notin TypesOf(new), Caused(events \o new)
  PROVE  CausedStep
<1>1. events \in Seq(EventType) /\ Inv
  BY DEF CausesInv, EndsInv, TraceInv
<1>2. BackedOK'
  BY <1>1, NothingNew, BackedBy DEF CausesInv
<1> QED
  BY <1>2 DEF CausedStep, Emit

LEMMA QuietCaused ==
  ASSUME CausesInv, Step, ~Founding, NEW new \in Seq(EventType), Emit(new), Immaterial(new)
  PROVE  CausedStep
<1>1. events \in Seq(EventType)
  BY DEF CausesInv, EndsInv, TraceInv
<1>2. "TransitionCommitted" \notin TypesOf(new)
  BY MaterialTypes DEF Immaterial
<1>3. Caused(events \o new)
  BY <1>1, CausedAside DEF CausesInv
<1> QED
  BY <1>2, <1>3, OtherCaused

LEMMA EndingCaused ==
  ASSUME CausesInv, Step, ~Founding, NEW ctl \in Control, Emit(Ending(ctl))
  PROVE  CausedStep
  BY EndingTyped, EndingImmaterial, QuietCaused DEF CausesInv, EndsInv, TraceInv

LEMMA QuietSteppingCaused ==
  ASSUME CausesInv, Inv',
         \/ HoldIntent /\ Emit(IntentEvents \o Ending("HOLD_AMBIGUOUS"))
         \/ (MissInitialState \/ FailToPlan \/ FailToAdmit \/ LoseOutcomeSlot) /\ Emit(Ending("HOLD_AMBIGUOUS"))
         \/ (HoldCommit \/ HoldDispatch) /\ Emit(Ending(Fresh))
         \/ RefuseDispatch /\ Emit(Ending("FAIL_NONRETRYABLE"))
         \/ RecordExecution /\ Emit(IF execution = "SUCCESS" THEN << >> ELSE Ending(control'))
         \/ Unreportable /\ Emit(<< >>)
  PROVE  CausedStep
<1>1. Step /\ ~Founding
  BY NotFounding DEF Step, Unreportable
<1>2. Inv /\ control' \in Control /\ Fresh \in Control /\ {"HOLD_AMBIGUOUS", "FAIL_NONRETRYABLE"} \subseteq Control
  <2>1. Inv /\ control' \in Control
    BY DEF CausesInv, EndsInv, TraceInv, Inv, IndInv, ControlOK
  <2> QED
    BY <2>1, FreshControl DEF Control
<1>3. CASE Emit(IntentEvents \o Ending("HOLD_AMBIGUOUS"))
  <2>1. /\ IntentEvents \o Ending("HOLD_AMBIGUOUS") \in Seq(EventType)
        /\ Immaterial(IntentEvents \o Ending("HOLD_AMBIGUOUS"))
    BY <1>2, PreparationTyped, EndingTyped, IntentImmaterial, EndingImmaterial, ImmaterialJoined, Joined
  <2> QED
    BY <1>1, <1>3, <2>1, QuietCaused
<1>4. CASE Emit(<< >>)
  BY <1>1, <1>4, NothingReported, SilenceImmaterial, QuietCaused
<1>5. ASSUME NEW ctl \in Control, Emit(Ending(ctl)) PROVE CausedStep
  BY <1>1, <1>5, EndingCaused
<1> QED
  BY <1>2, <1>3, <1>4, <1>5

-----------------------------------------------------------------------------
(* Steps that report something material.                                    *)

(* One more event whose prerequisite only has to be there.                  *)
LEMMA EventCaused ==
  ASSUME NEW s \in Seq(EventType), Caused(s), NEW e \in EventType,
         e.type \notin {"TransitionCommitted", "StateProjected"},
         e.type \in DOMAIN Prerequisite => Prerequisite[e.type] \in TypesOf(s)
  PROVE  /\ s \o <<e>> \in Seq(EventType) /\ Caused(s \o <<e>>)
         /\ TypesOf(s \o <<e>>) = TypesOf(s) \cup {e.type}
<1>1. <<e>> \in Seq(EventType) /\ TypesOf(<<e>>) = {e.type}
  BY OneEvent, OneType
<1>2. Backed(s, e)
  BY BackedByType DEF Backed
<1> QED
  BY <1>1, <1>2, CausedMore, TypesJoined, Joined

LEMMA NoteCaused ==
  ASSUME Inv, NEW s \in Seq(EventType), Caused(s), NEW type \in EventName, NEW outcome \in Said,
         type \notin {"TransitionCommitted", "StateProjected"},
         type \in DOMAIN Prerequisite => Prerequisite[type] \in TypesOf(s)
  PROVE  /\ s \o Note(type, outcome) \in Seq(EventType) /\ Caused(s \o Note(type, outcome))
         /\ TypesOf(s \o Note(type, outcome)) = TypesOf(s) \cup {type}
<1> DEFINE e == TraceEvent("runtime", type, Len(attempts), outcome)
<1>1. e \in EventType /\ e.type = type /\ Note(type, outcome) = <<e>>
  BY AttemptsCounted DEF TraceEvent, EventType, Note
<1> HIDE DEF e
<1> QED
  BY <1>1, EventCaused

LEMMA SupervisedCaused ==
  ASSUME NEW s \in Seq(EventType), Caused(s), NEW type \in EventName, NEW attempt \in Nat, NEW ctl \in Control,
         type \notin {"TransitionCommitted", "StateProjected"},
         type \in DOMAIN Prerequisite => Prerequisite[type] \in TypesOf(s)
  PROVE  /\ s \o Supervised(type, attempt, ctl) \in Seq(EventType) /\ Caused(s \o Supervised(type, attempt, ctl))
         /\ TypesOf(s \o Supervised(type, attempt, ctl)) = TypesOf(s) \cup {type}
<1> DEFINE e == TraceEvent("supervisor", type, attempt, ctl)
<1>1. e \in EventType /\ e.type = type /\ Supervised(type, attempt, ctl) = <<e>>
  BY DEF TraceEvent, EventType, Supervised, Said
<1> HIDE DEF e
<1> QED
  BY <1>1, EventCaused

LEMMA Regrouped ==
  ASSUME NEW s \in Seq(EventType), NEW t \in Seq(EventType), NEW u \in Seq(EventType)
  PROVE  (s \o t) \o u = s \o (t \o u)
  BY ConcatAssociative

(* An open circuit is told after the eligibility, and a person is asked     *)
(* after it opened.                                                         *)
LEMMA CircuitCaused ==
  ASSUME NEW s \in Seq(EventType), Caused(s), "RetryEligibilityDetermined" \in TypesOf(s), NEW n \in Nat
  PROVE  Caused((s \o Supervised("CircuitOpened", n, "CIRCUIT_OPEN"))
                  \o Supervised("HumanEscalationRequired", n, "CIRCUIT_OPEN"))
<1> DEFINE u == s \o Supervised("CircuitOpened", n, "CIRCUIT_OPEN")
<1>1. /\ "CircuitOpened" \in EventName /\ "HumanEscalationRequired" \in EventName /\ "CIRCUIT_OPEN" \in Control
      /\ Prerequisite["CircuitOpened"] = "RetryEligibilityDetermined"
      /\ Prerequisite["HumanEscalationRequired"] = "CircuitOpened"
  BY DEF EventName, Control, Prerequisite
<1>2. /\ u \in Seq(EventType) /\ Caused(u)
      /\ TypesOf(u) = TypesOf(s) \cup {"CircuitOpened"}
  BY <1>1, SupervisedCaused
<1> HIDE DEF u
<1>3. "CircuitOpened" \in TypesOf(u)
  BY <1>2
<1>4. Caused(u \o Supervised("HumanEscalationRequired", n, "CIRCUIT_OPEN"))
  BY <1>1, <1>2, <1>3, SupervisedCaused
<1> QED
  BY <1>4 DEF u

(* The WHAT: selected, and validated if the selection is valid.             *)
LEMMA WhatCaused ==
  ASSUME CausesInv, pc = "what"
  PROVE  /\ Caused(events \o WhatEvents) /\ WhatEvents \in Seq(EventType) /\ events \o WhatEvents \in Seq(EventType)
         /\ "TransitionCommitted" \notin TypesOf(WhatEvents)
         /\ ~faults.unselectable /\ ValidWhat => "TransitionValidated" \in TypesOf(WhatEvents)
<1> DEFINE chosen == Note("CandidateSelected", "PASS")
           valid == Note("TransitionValidated", "PASS")
<1>1. Inv /\ events \in Seq(EventType) /\ Caused(events) /\ "IntentStructured" \in TypesOf(events)
  BY DEF CausesInv, EndsInv, TraceInv, BackedOK
<1>2. "CandidateSelected" \in EventName /\ "TransitionValidated" \in EventName /\ "PASS" \in Said
  BY DEF EventName, Said, Control
<1>3. /\ chosen \in Seq(EventType) /\ valid \in Seq(EventType)
      /\ TypesOf(chosen) = {"CandidateSelected"} /\ TypesOf(valid) = {"TransitionValidated"}
  BY <1>1, <1>2, Noted, NoteTypes
<1>4. /\ Prerequisite["CandidateSelected"] = "IntentStructured"
      /\ Prerequisite["TransitionValidated"] = "CandidateSelected"
  BY DEF Prerequisite
<1>5. /\ events \o chosen \in Seq(EventType) /\ Caused(events \o chosen)
      /\ TypesOf(events \o chosen) = TypesOf(events) \cup {"CandidateSelected"}
  BY <1>1, <1>2, <1>4, NoteCaused
<1>6. Caused((events \o chosen) \o valid)
  <2> DEFINE s == events \o chosen
  <2>1. s \in Seq(EventType) /\ Caused(s) /\ "CandidateSelected" \in TypesOf(s)
    BY <1>5
  <2> HIDE DEF s
  <2>2. Caused(s \o valid)
    BY <1>1, <1>2, <1>4, <2>1, NoteCaused
  <2> QED
    BY <2>2 DEF s
<1> HIDE DEF chosen, valid
<1>7. (events \o chosen) \o valid = events \o (chosen \o valid)
  BY <1>1, <1>3, Regrouped
<1>8. /\ chosen \o << >> = chosen /\ << >> \o << >> = << >> /\ events \o << >> = events
      /\ chosen \o valid \in Seq(EventType) /\ TypesOf(chosen \o valid) = {"CandidateSelected", "TransitionValidated"}
  BY <1>1, <1>3, ConcatEmptySeq, NothingReported, TypesJoined, Joined
<1>9. CASE faults.unselectable
  <2>1. WhatEvents = << >>
    BY <1>8, <1>9 DEF WhatEvents
  <2> QED
    BY <1>1, <1>8, <1>9, <2>1, NothingReported, NoTypes
<1>10. CASE ~faults.unselectable /\ ~ValidWhat
  <2>1. WhatEvents = chosen
    BY <1>8, <1>10 DEF WhatEvents, chosen
  <2> QED
    BY <1>3, <1>5, <1>10, <2>1
<1>11. CASE ~faults.unselectable /\ ValidWhat
  <2>1. WhatEvents = chosen \o valid
    BY <1>11 DEF WhatEvents, chosen, valid
  <2> QED
    BY <1>1, <1>6, <1>7, <1>8, <2>1, Joined
<1> QED
  BY <1>9, <1>10, <1>11

LEMMA IntentCaused ==
  ASSUME CausesInv, StructureIntent, Emit(IntentEvents)
  PROVE  CausedStep
<1>1. Inv /\ events \in Seq(EventType) /\ Caused(events)
  BY DEF CausesInv, EndsInv, TraceInv
<1>2. IntentEvents \in Seq(EventType) /\ Immaterial(IntentEvents) /\ TypesOf(IntentEvents) = {"IntentStructured"}
  BY <1>1, PreparationTyped, IntentImmaterial DEF StructureIntent, Sufficient
<1>3. /\ UNCHANGED <<envelope, commits, execution, reconciliation>>
      /\ pc' = "initial"
  BY DEF StructureIntent, basisVars, realVars
<1>4. BackedOK'
  BY <1>1, <1>2, <1>3, BackedBy DEF CausesInv
<1>5. Caused(events \o IntentEvents)
  BY <1>1, <1>2, CausedAside
<1> QED
  BY <1>4, <1>5 DEF CausedStep, Emit

LEMMA RefuseWhatCaused ==
  ASSUME CausesInv, RefuseWhat, Emit(WhatEvents \o Ending(WhatControl))
  PROVE  CausedStep
<1>1. Inv /\ events \in Seq(EventType) /\ pc = "what"
  BY DEF CausesInv, EndsInv, TraceInv, RefuseWhat
<1>2. /\ Caused(events \o WhatEvents) /\ WhatEvents \in Seq(EventType) /\ events \o WhatEvents \in Seq(EventType)
      /\ "TransitionCommitted" \notin TypesOf(WhatEvents)
  BY <1>1, WhatCaused
<1>3. Ending(WhatControl) \in Seq(EventType) /\ Immaterial(Ending(WhatControl))
  BY <1>1, FreshControl, EndingTyped, EndingImmaterial
<1> DEFINE new == WhatEvents \o Ending(WhatControl)
<1>4. new \in Seq(EventType) /\ "TransitionCommitted" \notin TypesOf(new)
  BY <1>2, <1>3, Joined, TypesJoined, MaterialTypes DEF Immaterial
<1>5. Caused((events \o WhatEvents) \o Ending(WhatControl))
  <2> DEFINE s == events \o WhatEvents
  <2>1. s \in Seq(EventType) /\ Caused(s)
    BY <1>2
  <2> HIDE DEF s
  <2>2. Caused(s \o Ending(WhatControl))
    BY <1>3, <2>1, CausedAside
  <2> QED
    BY <2>2 DEF s
<1>6. Caused(events \o new)
  <2>1. (events \o WhatEvents) \o Ending(WhatControl) = events \o new
    BY <1>1, <1>2, <1>3, Regrouped
  <2> QED
    BY <1>5, <2>1
<1>7. Step /\ ~Founding /\ Emit(new)
  BY NotFounding DEF Step
<1> HIDE DEF new
<1> QED
  BY <1>4, <1>6, <1>7, OtherCaused

LEMMA ApproveWhatCaused ==
  ASSUME CausesInv, ApproveWhat, Emit(ApprovalEvents)
  PROVE  CausedStep
<1>1. Inv /\ events \in Seq(EventType) /\ pc = "what" /\ ~faults.unselectable /\ ValidWhat
  BY DEF CausesInv, EndsInv, TraceInv, ApproveWhat, WhatControl
<1>2. /\ Caused(events \o WhatEvents) /\ WhatEvents \in Seq(EventType) /\ events \o WhatEvents \in Seq(EventType)
      /\ "TransitionCommitted" \notin TypesOf(WhatEvents) /\ "TransitionValidated" \in TypesOf(WhatEvents)
  BY <1>1, WhatCaused
<1> DEFINE authorized == Note("TransitionAuthorized", "PASS")
           started == Supervised("AttemptStarted", Len(attempts), "PASS")
           s == events \o WhatEvents
<1>3. /\ {"TransitionAuthorized", "AttemptStarted"} \subseteq EventName /\ "PASS" \in Said /\ "PASS" \in Control
      /\ Len(attempts) \in Nat
      /\ Prerequisite["TransitionAuthorized"] = "TransitionValidated" /\ "AttemptStarted" \notin DOMAIN Prerequisite
  BY <1>1, AttemptsCounted DEF EventName, Said, Control, Prerequisite
<1>4. /\ authorized \in Seq(EventType) /\ started \in Seq(EventType)
      /\ TypesOf(authorized) = {"TransitionAuthorized"} /\ TypesOf(started) = {"AttemptStarted"}
  BY <1>1, <1>3, Noted, SupervisedTyped, NoteTypes, SupervisedTypes
<1>5. s \in Seq(EventType) /\ Caused(s) /\ "TransitionValidated" \in TypesOf(s)
  BY <1>1, <1>2, TypesJoined
<1> HIDE DEF s
<1>6. Caused(s \o authorized) /\ s \o authorized \in Seq(EventType)
  BY <1>1, <1>3, <1>5, NoteCaused
<1>7. Caused((s \o authorized) \o started)
  <2> DEFINE u == s \o authorized
  <2>1. u \in Seq(EventType) /\ Caused(u)
    BY <1>6
  <2> HIDE DEF u
  <2>2. Caused(u \o started)
    BY <1>3, <2>1, SupervisedCaused
  <2> QED
    BY <2>2 DEF u
<1>8. ApprovalEvents = (WhatEvents \o authorized) \o started
  BY DEF ApprovalEvents
<1> HIDE DEF authorized, started
<1>9. (s \o authorized) \o started = events \o ApprovalEvents
  <2>1. (events \o WhatEvents) \o authorized = events \o (WhatEvents \o authorized)
    BY <1>1, <1>2, <1>4, Regrouped
  <2>2. WhatEvents \o authorized \in Seq(EventType)
    BY <1>2, <1>4, Joined
  <2>3. (events \o (WhatEvents \o authorized)) \o started = events \o ((WhatEvents \o authorized) \o started)
    BY <1>1, <1>4, <2>2, Regrouped
  <2> QED
    BY <1>8, <2>1, <2>3 DEF s
<1>10. /\ ApprovalEvents \in Seq(EventType) /\ "TransitionAuthorized" \in TypesOf(ApprovalEvents)
       /\ "TransitionCommitted" \notin TypesOf(ApprovalEvents)
  <2>1. WhatEvents \o authorized \in Seq(EventType)
        /\ TypesOf(WhatEvents \o authorized) = TypesOf(WhatEvents) \cup {"TransitionAuthorized"}
    BY <1>2, <1>4, Joined, TypesJoined
  <2> DEFINE w == WhatEvents \o authorized
  <2>2. w \in Seq(EventType) /\ "TransitionAuthorized" \in TypesOf(w) /\ "TransitionCommitted" \notin TypesOf(w)
    BY <1>2, <2>1
  <2> HIDE DEF w
  <2>3. w \o started \in Seq(EventType) /\ TypesOf(w \o started) = TypesOf(w) \cup {"AttemptStarted"}
    BY <1>4, <2>2, Joined, TypesJoined
  <2> QED
    BY <1>8, <2>2, <2>3 DEF w
<1>11. UNCHANGED <<commits, execution, reconciliation>> /\ pc' \in {"idle", "plan"}
  BY DEF ApproveWhat, realVars, Return
<1>12. BackedOK'
  BY <1>1, <1>10, <1>11, BackedBy DEF CausesInv
<1> QED
  BY <1>7, <1>9, <1>12 DEF CausedStep, Emit

(* A plan is validated under an approved WHAT.                              *)
LEMMA PlanCaused ==
  ASSUME CausesInv, RetainPlan
  PROVE  /\ PlanEvents \in Seq(EventType) /\ events \o PlanEvents \in Seq(EventType) /\ Caused(events \o PlanEvents)
         /\ TypesOf(PlanEvents) = {"ExecutionPlanValidated"}
         /\ Verdict = "PASS" => PlanPassed(PlanEvents, Len(attempts))
<1>1. Inv /\ events \in Seq(EventType) /\ Caused(events) /\ envelope # None
  BY PlanningState DEF CausesInv, EndsInv, TraceInv, Inv, RetainPlan, Planning
<1>2. "TransitionAuthorized" \in TypesOf(events)
  BY <1>1 DEF CausesInv, BackedOK
<1>3. /\ "ExecutionPlanValidated" \in EventName /\ Verdict \in Said
      /\ Prerequisite["ExecutionPlanValidated"] = "TransitionAuthorized"
  BY VerdictGate DEF EventName, Verdict, Said, Prerequisite
<1>4. /\ PlanEvents \in Seq(EventType) /\ TypesOf(PlanEvents) = {"ExecutionPlanValidated"}
      /\ events \o PlanEvents \in Seq(EventType) /\ Caused(events \o PlanEvents)
  BY <1>1, <1>2, <1>3, NoteCaused, Noted, NoteTypes DEF PlanEvents
<1>5. Verdict = "PASS" => PlanPassed(PlanEvents, Len(attempts))
  <2> DEFINE e == TraceEvent("runtime", "ExecutionPlanValidated", Len(attempts), Verdict)
  <2>1. e.type = "ExecutionPlanValidated" /\ e.outcome = Verdict /\ e.attempt = Len(attempts) /\ PlanEvents = <<e>>
    BY DEF TraceEvent, PlanEvents, Note
  <2> HIDE DEF e
  <2>2. 1 \in DOMAIN <<e>> /\ <<e>>[1] = e
    OBVIOUS
  <2> QED
    BY <2>1, <2>2 DEF PlanPassed
<1> QED
  BY <1>4, <1>5

LEMMA AcceptPlanCaused ==
  ASSUME CausesInv, AcceptPlan, Emit(PlanEvents)
  PROVE  CausedStep
<1>1. /\ RetainPlan /\ Verdict = "PASS" /\ attempts' = attempts
      /\ UNCHANGED <<envelope, commits, execution, reconciliation>>
  BY DEF AcceptPlan, RetainPlan, supVars, basisVars, realVars
<1>2. /\ PlanEvents \in Seq(EventType) /\ Caused(events \o PlanEvents)
      /\ TypesOf(PlanEvents) = {"ExecutionPlanValidated"} /\ PlanPassed(PlanEvents, Len(attempts))
  BY <1>1, PlanCaused
<1>3. events \in Seq(EventType) /\ pc' = "pre_commit"
  BY DEF CausesInv, EndsInv, TraceInv, AcceptPlan
<1>4. BackedOK'
  BY <1>1, <1>2, <1>3, BackedBy DEF CausesInv
<1> QED
  BY <1>2, <1>4 DEF CausedStep, Emit

LEMMA RefusePlanCaused ==
  ASSUME CausesInv, RefusePlan, Emit(PlanEvents \o Ending(RefusalControl))
  PROVE  CausedStep
<1>1. Inv /\ events \in Seq(EventType) /\ RetainPlan
  BY DEF CausesInv, EndsInv, TraceInv, RefusePlan
<1>2. /\ PlanEvents \in Seq(EventType) /\ events \o PlanEvents \in Seq(EventType) /\ Caused(events \o PlanEvents)
      /\ TypesOf(PlanEvents) = {"ExecutionPlanValidated"}
  BY <1>1, PlanCaused
<1>3. Ending(RefusalControl) \in Seq(EventType) /\ Immaterial(Ending(RefusalControl))
  <2>1. RefusalControl \in Control
    BY DEF RefusalControl, Control
  <2> QED
    BY <1>1, <2>1, EndingTyped, EndingImmaterial
<1> DEFINE new == PlanEvents \o Ending(RefusalControl)
<1>4. new \in Seq(EventType) /\ "TransitionCommitted" \notin TypesOf(new)
  BY <1>2, <1>3, Joined, TypesJoined, MaterialTypes DEF Immaterial
<1>5. Caused((events \o PlanEvents) \o Ending(RefusalControl))
  <2> DEFINE s == events \o PlanEvents
  <2>1. s \in Seq(EventType) /\ Caused(s)
    BY <1>2
  <2> HIDE DEF s
  <2>2. Caused(s \o Ending(RefusalControl))
    BY <1>3, <2>1, CausedAside
  <2> QED
    BY <2>2 DEF s
<1>6. Caused(events \o new)
  <2>1. (events \o PlanEvents) \o Ending(RefusalControl) = events \o new
    BY <1>1, <1>2, <1>3, Regrouped
  <2> QED
    BY <1>5, <2>1
<1>7. Step /\ ~Founding /\ Emit(new)
  BY NotFounding DEF Step
<1> HIDE DEF new
<1> QED
  BY <1>4, <1>6, <1>7, OtherCaused

LEMMA AdmitCaused ==
  ASSUME CausesInv, Admit, Emit(Note("TransitionCommitted", "PASS"))
  PROVE  CausedStep
<1> DEFINE e == TraceEvent("runtime", "TransitionCommitted", Len(attempts), "PASS")
           new == Note("TransitionCommitted", "PASS")
<1>1. Inv /\ events \in Seq(EventType) /\ Caused(events) /\ pc = "pre_commit"
  BY DEF CausesInv, EndsInv, TraceInv, Admit
<1>2. "TransitionCommitted" \in EventName /\ "PASS" \in Said /\ Prerequisite["TransitionCommitted"] = "ExecutionPlanValidated"
  BY DEF EventName, Said, Control, Prerequisite
<1>3. /\ e \in EventType /\ e.type = "TransitionCommitted" /\ e.attempt = Len(attempts) /\ new = <<e>>
      /\ new \in Seq(EventType) /\ TypesOf(new) = {"TransitionCommitted"}
  BY <1>1, <1>2, AttemptsCounted, Noted, NoteTypes DEF TraceEvent, EventType, Note
<1>4. PlanPassed(events, Len(attempts))
  BY <1>1 DEF CausesInv, BackedOK
<1> HIDE DEF e
<1>5. Backed(events, e)
  BY <1>2, <1>3, <1>4 DEF Backed, Backs, PlanPassed
<1>6. Caused(events \o new)
  BY <1>1, <1>3, <1>5, CausedMore
<1>7. commits' # << >>
  <2>1. PICK c : commits' = Append(commits, c)
    BY DEF Admit, AdmitUnder
  <2> QED
    BY <2>1
<1>8. UNCHANGED <<envelope, execution, reconciliation>> /\ pc' = "dispatch"
  BY DEF Admit, AdmitUnder, basisVars
<1>9. BackedOK'
  BY <1>1, <1>3, <1>7, <1>8, BackedBy DEF CausesInv
<1> QED
  BY <1>6, <1>9 DEF CausedStep, Emit

LEMMA CompleteCaused ==
  ASSUME CausesInv, CompleteExecution, Emit(Note("ExecutionCompleted", Reported))
  PROVE  CausedStep
<1> DEFINE e == TraceEvent("runtime", "ExecutionCompleted", Len(attempts), Reported)
           new == Note("ExecutionCompleted", Reported)
<1>1. Inv /\ events \in Seq(EventType) /\ Caused(events) /\ pc = "invoke"
  BY DEF CausesInv, EndsInv, TraceInv, CompleteExecution
<1>2. "TransitionCommitted" \in TypesOf(events)
  <2>1. commits # << >>
    BY <1>1, RealizingState DEF Inv, Realizing
  <2> QED
    BY <2>1 DEF CausesInv, BackedOK
<1>3. "ExecutionCompleted" \in EventName /\ Reported \in Said /\ Prerequisite["ExecutionCompleted"] = "TransitionCommitted"
  BY <1>1, ReportedTyped DEF EventName, Said, Prerequisite, Inv, IndInv
<1>4. new \in Seq(EventType) /\ TypesOf(new) = {"ExecutionCompleted"} /\ Caused(events \o new)
  BY <1>1, <1>2, <1>3, Noted, NoteTypes, NoteCaused
<1>5. Executed(new, Reported)
  <2>1. e.type = "ExecutionCompleted" /\ e.outcome = Reported /\ new = <<e>>
    BY DEF TraceEvent, Note
  <2> HIDE DEF e
  <2>2. 1 \in DOMAIN <<e>> /\ <<e>>[1] = e
    OBVIOUS
  <2> QED
    BY <2>1, <2>2 DEF Executed
<1>6. UNCHANGED <<envelope, commits, reconciliation>> /\ execution' = Reported /\ pc' = "executed"
  BY DEF CompleteExecution, basisVars
<1> HIDE DEF e, new
<1>7. BackedOK'
  BY <1>1, <1>4, <1>5, <1>6, BackedBy DEF CausesInv, new
<1> QED
  BY <1>4, <1>7 DEF CausedStep, Emit, new

LEMMA ReconcileCaused ==
  ASSUME CausesInv, ReconcileEffects, Emit(ReconciliationEvents)
  PROVE  CausedStep
<1> DEFINE type == IF reconciliation' = "RECONCILED_SUCCESS" THEN "TransitionReconciled" ELSE "ReconciliationFailed"
<1>1. Inv /\ events \in Seq(EventType) /\ Caused(events) /\ pc = "post_execution"
  BY DEF CausesInv, EndsInv, TraceInv, ReconcileEffects
<1>2. execution # None /\ execution \in Report /\ Executed(events, execution)
  <2>1. Realized /\ execution \in Report \cup {None}
    BY <1>1, RealizingState DEF Inv, IndInv, StageOK, Realizing
  <2>2. execution # None
    BY <1>1, <2>1 DEF Realized
  <2> QED
    BY <2>1, <2>2 DEF CausesInv, BackedOK
<1>3. "ExecutionCompleted" \in TypesOf(events)
  BY <1>2 DEF Executed, TypesOf
<1>4. reconciliation' \in Said /\ (reconciliation' = "RECONCILED_SUCCESS" => execution = "SUCCESS")
  <2>1. PICK o, b, i, c, t, m : reconciliation' = Reconcile(execution, o, b, i, c, t, m)
    BY DEF ReconcileEffects
  <2> QED
    BY <1>2, <2>1, OutcomeTyped, ReconciledMeans DEF Said
<1>5. /\ type \in EventName /\ type \in DOMAIN Prerequisite /\ Prerequisite[type] = "ExecutionCompleted"
      /\ type \notin {"TransitionCommitted", "StateProjected"}
      /\ reconciliation' = "RECONCILED_SUCCESS" => type = "TransitionReconciled"
  BY DEF EventName, Prerequisite
<1>6. ReconciliationEvents = Note(type, reconciliation')
  BY DEF ReconciliationEvents
<1> HIDE DEF type
<1> DEFINE said == Note(type, reconciliation')
<1>7. /\ said \in Seq(EventType) /\ TypesOf(said) = {type} /\ Caused(events \o said)
  BY <1>1, <1>3, <1>4, <1>5, Noted, NoteTypes, NoteCaused
<1>8. UNCHANGED <<envelope, commits, execution>> /\ pc' = "reserve"
  BY DEF ReconcileEffects, basisVars
<1> HIDE DEF said
<1>9. reconciliation' = "RECONCILED_SUCCESS" => Reconciled(events \o said)
  BY <1>1, <1>2, <1>4, <1>5, <1>7, SaidStill
<1>10. Emit(said)
  BY <1>6 DEF said
<1>11. "TransitionCommitted" \notin TypesOf(said)
  BY <1>5, <1>7
<1>12. BackedOK'
  BY <1>1, <1>7, <1>8, <1>9, <1>10, <1>11, BackedBy DEF CausesInv
<1> QED
  BY <1>7, <1>10, <1>12 DEF CausedStep, Emit

(* Only a success that was reconciled is projected.                         *)
LEMMA ProjectedMeansReconciled ==
  ASSUME Inv, SettleNonSuccess \/ SettleSuccess, projection'.decision = "PROJECT"
  PROVE  reconciliation = "RECONCILED_SUCCESS"
<1>1. ASSUME NEW decision, Publish(decision) PROVE projection'.decision = "PROJECT" => decision = "PROJECT"
  BY <1>1 DEF Publish
<1>2. ~SettleNonSuccess
  <2>1. SettleNonSuccess => \E decision \in {"DO_NOT_PROJECT", "HOLD_PROJECTION"} : Publish(decision)
    BY DEF SettleNonSuccess
  <2> QED
    BY <1>1, <2>1
<1>3. pc = "final"
  BY <1>2 DEF SettleSuccess
<1> QED
  BY <1>3, RealizingState DEF Inv, Realizing, Realized

LEMMA SettleCaused ==
  ASSUME CausesInv, Inv', SettleNonSuccess \/ SettleSuccess, Emit(ProjectionEvents)
  PROVE  CausedStep
<1> DEFINE closing == IF projection'.decision = "PROJECT" THEN << >> ELSE Ending(control')
           e == TraceEvent("projector", ProjectionType(projection'.decision), Len(attempts), projection'.decision)
<1>1. Inv /\ events \in Seq(EventType) /\ Caused(events)
  BY DEF CausesInv, EndsInv, TraceInv
<1>2. projection'.decision \in Decision /\ control' \in Control
  BY SettledTyped DEF Projection, Inv, IndInv, ControlOK
<1>3. closing \in Seq(EventType) /\ Immaterial(closing)
  <2>1. \A ctl \in Control : Ending(ctl) \in Seq(EventType) /\ Immaterial(Ending(ctl))
    BY <1>1, EndingTyped, EndingImmaterial
  <2>2. Ending(control') \in Seq(EventType) /\ Immaterial(Ending(control'))
    BY <1>2, <2>1
  <2> QED
    BY <2>2, NothingReported, SilenceImmaterial
<1>4. /\ e \in EventType /\ e.type = ProjectionType(projection'.decision)
      /\ ProjectionType(projection'.decision) \in {"StateProjected", "TransitionHeld", "TransitionRefused"}
      /\ ProjectionType(projection'.decision) = "StateProjected" => projection'.decision = "PROJECT"
  <2>1. /\ ProjectionType(projection'.decision) \in {"StateProjected", "TransitionHeld", "TransitionRefused"}
        /\ ProjectionType(projection'.decision) = "StateProjected" => projection'.decision = "PROJECT"
    BY DEF ProjectionType
  <2>2. ProjectionType(projection'.decision) \in EventName
    BY <2>1 DEF EventName
  <2> QED
    BY <1>1, <1>2, <2>1, <2>2, AttemptsCounted DEF TraceEvent, EventType, Said
<1>5. Published = << >> \/ Published = <<e>>
  BY DEF Published
<1>6. ProjectionEvents = Published \o closing
  BY DEF ProjectionEvents
<1> HIDE DEF e, closing
<1>7. Backed(events, e)
  <2>1. CASE e.type = "StateProjected"
    <3>1. Reconciled(events)
      BY <1>4, <2>1, <1>1, ProjectedMeansReconciled DEF CausesInv, BackedOK
    <3>2. Prerequisite["StateProjected"] = "TransitionReconciled"
      BY DEF Prerequisite
    <3> QED
      BY <2>1, <3>1, <3>2 DEF Backed, Backs, Reconciled
  <2>2. CASE e.type \in {"TransitionHeld", "TransitionRefused"}
    BY <2>2, MaterialTypes DEF Backed
  <2> QED
    BY <1>4, <2>1, <2>2
<1>8. /\ Published \in Seq(EventType) /\ Caused(events \o Published) /\ events \o Published \in Seq(EventType)
      /\ "TransitionCommitted" \notin TypesOf(Published)
  <2>1. /\ events \o << >> = events /\ << >> \in Seq(EventType) /\ TypesOf(<< >>) = {}
    BY <1>1, ConcatEmptySeq, NothingReported, NoTypes
  <2>2. /\ <<e>> \in Seq(EventType) /\ TypesOf(<<e>>) = {e.type} /\ Caused(events \o <<e>>)
        /\ events \o <<e>> \in Seq(EventType)
    BY <1>1, <1>4, <1>7, OneEvent, OneType, CausedMore, Joined
  <2>3. e.type # "TransitionCommitted"
    BY <1>4
  <2> QED
    BY <1>1, <1>5, <2>1, <2>2, <2>3
<1>9. ProjectionEvents \in Seq(EventType) /\ "TransitionCommitted" \notin TypesOf(ProjectionEvents)
  BY <1>3, <1>6, <1>8, Joined, TypesJoined, MaterialTypes DEF Immaterial
<1>10. Caused(events \o ProjectionEvents)
  <2> DEFINE s == events \o Published
  <2>1. s \in Seq(EventType) /\ Caused(s)
    BY <1>8
  <2> HIDE DEF s
  <2>2. Caused(s \o closing)
    BY <1>3, <2>1, CausedAside
  <2>3. s \o closing = events \o ProjectionEvents
    BY <1>1, <1>3, <1>6, <1>8, Regrouped DEF s
  <2> QED
    BY <2>2, <2>3
<1>11. Step /\ ~Founding
  BY NotFounding DEF Step
<1> QED
  BY <1>9, <1>10, <1>11, OtherCaused

LEMMA SuccessorCaused ==
  ASSUME CausesInv, Inv', RequestSuccessor, Emit(SuccessorEvents)
  PROVE  CausedStep
<1> DEFINE told == Eligibility("REJECT_RETRYABLE")
           opened == Supervised("CircuitOpened", Len(attempts), "CIRCUIT_OPEN")
           escalated == Supervised("HumanEscalationRequired", Len(attempts), "CIRCUIT_OPEN")
           lost == Eligibility("HOLD_AMBIGUOUS")
           authorized == Supervised("NewAttemptAuthorized", Len(attempts), "PASS")
           started == Supervised("AttemptStarted", Len(attempts) + 1, "PASS")
           refused == Eligibility(lastControl')
<1>1. Inv /\ events \in Seq(EventType) /\ Caused(events) /\ Step /\ ~Founding /\ Len(attempts) \in Nat
  BY NotFounding, SuccessorGranted DEF CausesInv, EndsInv, TraceInv, Step
<1>2. lastControl' \in Control
  BY Vocabulary DEF Inv, IndInv, SupervisorOK, Sup!TypeOK
<1>3. /\ {"REJECT_RETRYABLE", "HOLD_AMBIGUOUS", "CIRCUIT_OPEN", "PASS"} \subseteq Control
      /\ {"RetryEligibilityDetermined", "CircuitOpened", "HumanEscalationRequired", "NewAttemptAuthorized",
          "AttemptStarted"} \subseteq EventName
  BY DEF Control, EventName
<1>4. /\ told \in Seq(EventType) /\ opened \in Seq(EventType) /\ escalated \in Seq(EventType) /\ lost \in Seq(EventType)
      /\ authorized \in Seq(EventType) /\ started \in Seq(EventType)
  BY <1>1, <1>3, SupervisedTyped DEF Eligibility
<1>5. /\ TypesOf(told) = {"RetryEligibilityDetermined"} /\ TypesOf(opened) = {"CircuitOpened"}
      /\ TypesOf(escalated) = {"HumanEscalationRequired"} /\ TypesOf(lost) = {"RetryEligibilityDetermined"}
      /\ TypesOf(authorized) = {"NewAttemptAuthorized"} /\ TypesOf(started) = {"AttemptStarted"}
  BY SupervisedTypes DEF Eligibility
<1>6. Immaterial(told) /\ Immaterial(lost) /\ Immaterial(authorized) /\ Immaterial(started)
  BY <1>5, MaterialTypes DEF Immaterial
<1>7. refused \in Seq(EventType) /\ Immaterial(refused)
  <2>1. \A ctl \in Control : Eligibility(ctl) \in Seq(EventType)
    BY <1>1, <1>3, SupervisedTyped DEF Eligibility
  <2>2. \A ctl : TypesOf(Eligibility(ctl)) = {"RetryEligibilityDetermined"}
    BY SupervisedTypes DEF Eligibility
  <2>3. \A ctl : Immaterial(Eligibility(ctl))
    BY <2>2, MaterialTypes DEF Immaterial
  <2> QED
    BY <1>2, <2>1, <2>3
<1>8. \/ SuccessorEvents = refused
      \/ SuccessorEvents = told \o (opened \o escalated)
      \/ SuccessorEvents = told \o lost
      \/ SuccessorEvents = told \o (authorized \o started)
  BY DEF SuccessorEvents, Activation
<1>9. \A s \in Seq(EventType) : Caused(s) /\ "RetryEligibilityDetermined" \in TypesOf(s)
         => Caused((s \o opened) \o escalated)
  BY <1>1, CircuitCaused
<1> HIDE DEF refused, told, opened, escalated, lost, authorized, started
<1>10. /\ told \o lost \in Seq(EventType) /\ Immaterial(told \o lost)
      /\ told \o (authorized \o started) \in Seq(EventType) /\ Immaterial(told \o (authorized \o started))
  <2>1. told \o lost \in Seq(EventType) /\ Immaterial(told \o lost)
    BY <1>4, <1>6, ImmaterialJoined, Joined
  <2>2. authorized \o started \in Seq(EventType) /\ Immaterial(authorized \o started)
    BY <1>4, <1>6, ImmaterialJoined, Joined
  <2>3. told \o (authorized \o started) \in Seq(EventType) /\ Immaterial(told \o (authorized \o started))
    BY <1>4, <1>6, <2>2, ImmaterialJoined, Joined
  <2> QED
    BY <2>1, <2>3
<1>11. /\ opened \o escalated \in Seq(EventType)
       /\ TypesOf(opened \o escalated) = {"CircuitOpened", "HumanEscalationRequired"}
  <2>1. opened \in Seq(EventType) /\ escalated \in Seq(EventType)
    BY <1>4
  <2>2. opened \o escalated \in Seq(EventType)
    BY <2>1, Joined
  <2>3. TypesOf(opened \o escalated) = TypesOf(opened) \cup TypesOf(escalated)
    BY <2>1, TypesJoined
  <2> QED
    BY <1>5, <2>2, <2>3
<1>12. CASE SuccessorEvents = refused \/ SuccessorEvents = told \o lost
             \/ SuccessorEvents = told \o (authorized \o started)
  BY <1>1, <1>7, <1>10, <1>12, QuietCaused
<1>13. CASE SuccessorEvents = told \o (opened \o escalated)
  <2> DEFINE s == events \o told
             new == told \o (opened \o escalated)
  <2>1. s \in Seq(EventType) /\ Caused(s) /\ "RetryEligibilityDetermined" \in TypesOf(s)
    BY <1>1, <1>4, <1>5, <1>6, CausedAside, TypesJoined, Joined
  <2> HIDE DEF s
  <2>2. Caused((s \o opened) \o escalated)
    BY <1>9, <2>1
  <2>3. (s \o opened) \o escalated = events \o new
    <3>1. opened \in Seq(EventType) /\ escalated \in Seq(EventType) /\ told \in Seq(EventType)
      BY <1>4
    <3>2. (s \o opened) \o escalated = s \o (opened \o escalated)
      BY <2>1, <3>1, Regrouped
    <3>3. (events \o told) \o (opened \o escalated) = events \o new
      BY <1>1, <1>11, <3>1, Regrouped
    <3> QED
      BY <3>2, <3>3 DEF s
  <2>4. new \in Seq(EventType) /\ TypesOf(new) = TypesOf(told) \cup TypesOf(opened \o escalated)
    BY <1>4, <1>11, Joined, TypesJoined
  <2>5. "TransitionCommitted" \notin TypesOf(new)
    BY <1>5, <1>11, <2>4
  <2>6. Emit(new) /\ Caused(events \o new)
    BY <1>13, <2>2, <2>3
  <2> HIDE DEF new
  <2> QED
    BY <1>1, <2>4, <2>5, <2>6, OtherCaused
<1> QED
  BY <1>8, <1>12, <1>13

-----------------------------------------------------------------------------
(* Calls, outside changes, and the whole step.                              *)

LEMMA CallPlace ==
  ASSUME Call
  PROVE  pc' \in {"idle", "started", "plan", "dispatch"} /\ commits' = commits
<1>1. ASSUME NEW to, NEW key, NEW mode, NEW presented, NEW entry, Begin(to, key, mode, presented, entry)
      PROVE  pc' = entry
  BY <1>1 DEF Begin
<1>2. ASSUME NEW result, pc = "idle", Answer(result) PROVE pc' = "idle"
  BY <1>2 DEF Answer
<1>3. ASSUME NEW to, NEW req, NEW key, StartScope(to, req, key) PROVE pc' = "started"
  BY <1>1, <1>3 DEF StartScope
<1>4. pc' \in {"idle", "started", "plan", "dispatch"}
  BY <1>1, <1>2, <1>3 DEF Call, CallPrepare, CallRun, CallRealize, CallDispatch, Idle
<1>5. Idle
  BY DEF Call, CallPrepare, CallRun, CallRealize, CallDispatch
<1> QED
  BY <1>4, <1>5 DEF Idle, realVars

LEMMA CallCaused ==
  ASSUME CausesInv, Call, Emit(CallEvents)
  PROVE  CausedStep
<1>1. Inv /\ events \in Seq(EventType) /\ Caused(events)
  BY DEF CausesInv, EndsInv, TraceInv
<1>2. CallEvents \in Seq(EventType) /\ Immaterial(CallEvents)
  <2>1. "AttemptStarted" \in EventName /\ "PASS" \in Control /\ "AttemptStarted" \notin DOMAIN Prerequisite
    BY DEF EventName, Control, Prerequisite
  <2>2. Supervised("AttemptStarted", 1, "PASS") \in Seq(EventType) /\ Immaterial(Supervised("AttemptStarted", 1, "PASS"))
    BY <2>1, SupervisedTyped, SupervisedTypes DEF Immaterial
  <2> QED
    BY <2>2, NothingReported, SilenceImmaterial DEF CallEvents
<1>3. "TransitionCommitted" \notin TypesOf(CallEvents)
  BY <1>2, MaterialTypes DEF Immaterial
<1>4. UNCHANGED <<envelope, commits, execution, reconciliation>> /\ pc' \notin {"initial", "what", "pre_commit"}
  BY <1>1, CallEvidence, CallPlace
<1>5. BackedOK'
  BY <1>1, <1>2, <1>3, <1>4, BackedBy DEF CausesInv
<1> QED
  BY <1>1, <1>2, <1>5, CausedAside DEF CausedStep, Emit

LEMMA InjectCaused ==
  ASSUME CausesInv, Inject, Emit(<< >>)
  PROVE  CausedStep
<1>1. Inv /\ events \in Seq(EventType) /\ Caused(events)
  BY DEF CausesInv, EndsInv, TraceInv
<1>2. /\ UNCHANGED <<pc, attempts, commits, execution, reconciliation>>
      /\ envelope' = None <=> envelope = None
  BY <1>1, InjectAttempts, InjectChanges DEF Inv, Inject, realVars
<1>3. << >> \in Seq(EventType) /\ TypesOf(<< >>) = {}
  BY NothingReported, NoTypes
<1>4. BackedOK'
  BY <1>1, <1>2, <1>3, BackedBy DEF CausesInv
<1> QED
  BY <1>1, <1>4, SilenceImmaterial, NothingReported, CausedAside DEF CausedStep, Emit

LEMMA TraceCaused ==
  ASSUME CausesInv, Inv', TraceNext
  PROVE  CausedStep
<1>1. CASE Call /\ Emit(CallEvents)
  BY <1>1, CallCaused
<1>2. CASE Inject /\ Emit(<< >>)
  BY <1>2, InjectCaused
<1>3. CASE \/ HoldIntent /\ Emit(IntentEvents \o Ending("HOLD_AMBIGUOUS"))
           \/ (MissInitialState \/ FailToPlan \/ FailToAdmit \/ LoseOutcomeSlot) /\ Emit(Ending("HOLD_AMBIGUOUS"))
           \/ (HoldCommit \/ HoldDispatch) /\ Emit(Ending(Fresh))
           \/ RefuseDispatch /\ Emit(Ending("FAIL_NONRETRYABLE"))
           \/ RecordExecution /\ Emit(IF execution = "SUCCESS" THEN << >> ELSE Ending(control'))
           \/ Unreportable /\ Emit(<< >>)
  BY <1>3, QuietSteppingCaused
<1>4. CASE TraceStep
  BY <1>3, <1>4, IntentCaused, RefuseWhatCaused, ApproveWhatCaused, AcceptPlanCaused, RefusePlanCaused,
     SuccessorCaused, AdmitCaused, CompleteCaused, ReconcileCaused, SettleCaused DEF TraceStep
<1> QED
  BY <1>1, <1>2, <1>4 DEF TraceNext

LEMMA CausesInit == TraceInit => CausesInv
<1> SUFFICES ASSUME TraceInit PROVE CausesInv
  OBVIOUS
<1>1. Init /\ events = << >> /\ EndsInv
  BY EndsInit DEF TraceInit
<1>2. pc = "idle" /\ envelope = None /\ commits = << >> /\ execution = None /\ reconciliation = None
  BY <1>1 DEF Init
<1>3. None # "RECONCILED_SUCCESS"
  BY AbsenceAssumption DEF Outcome
<1>4. BackedOK
  BY <1>1, <1>2, <1>3, NoTypes DEF BackedOK
<1>5. Caused(events)
  BY <1>1 DEF Caused
<1> QED
  BY <1>1, <1>4, <1>5 DEF CausesInv

LEMMA CausesStep ==
  ASSUME CausesInv, [TraceNext]_traceVars
  PROVE  CausesInv'
<1>1. EndsInv' /\ Inv'
  BY EndsStep DEF CausesInv, EndsInv, TraceInv
<1>2. CASE TraceNext
  BY <1>1, <1>2, TraceCaused DEF CausesInv, CausedStep, Caused, Backs
<1>3. CASE UNCHANGED traceVars
  <2>1. UNCHANGED <<events, pc, envelope, attempts, commits, execution, reconciliation>>
    BY <1>3 DEF traceVars, vars, supVars, basisVars, realVars, ctlVars
  <2>2. BackedOK' /\ Caused(events)'
    BY <2>1 DEF CausesInv, BackedOK, TypesOf, PlanPassed, Executed, Reconciled, Caused, Backs
  <2> QED
    BY <1>1, <2>2 DEF CausesInv
<1> QED
  BY <1>2, <1>3

LEMMA CausesInductive == TraceSpec => []CausesInv
  BY CausesInit, CausesStep, PTL DEF TraceSpec

(* Every material event comes after the one it rests on, with a passing     *)
(* outcome where that one is a verdict: nothing is committed but what was   *)
(* validated for the same attempt, nothing projected but a reconciled       *)
(* success (runtime.py:234-525, reconciliation.py:118-203).                 *)
THEOREM CausesAreReported == TraceSpec => []CausesReported
<1>1. CausesInv => CausesReported
  BY CausedIs DEF CausesInv
<1> QED
  BY <1>1, CausesInductive, PTL

-----------------------------------------------------------------------------
(* Every successor is explained.                                            *)

(* The events f, e, a and s of the trace es explain attempt n.              *)
Explains(es, n, f, e, a, s) ==
  /\ FailureEvent(es[f]) /\ es[f].attempt = n - 1
  /\ es[e].type = "RetryEligibilityDetermined" /\ es[e].attempt = n - 1 /\ es[e].outcome = "REJECT_RETRYABLE"
  /\ es[a].type = "NewAttemptAuthorized" /\ es[a].attempt = n - 1
  /\ es[s].type = "AttemptStarted" /\ es[s].attempt = n
  /\ f < e /\ e < a /\ a < s
  /\ \A i \in 1 .. s : es[i].type # "TransitionCommitted"

Explained(es, n) == \E f, e, a, s \in DOMAIN es : Explains(es, n, f, e, a, s)

LEMMA ExplainedIs ==
  ASSUME \A n \in DOMAIN attempts : n > 1 => Explained(events, n)
  PROVE  SuccessorExplained
<1> SUFFICES ASSUME NEW n \in DOMAIN attempts, n > 1
             PROVE  \E f \in Failure(n - 1), e \in At({"RetryEligibilityDetermined"}, n - 1),
                       a \in At({"NewAttemptAuthorized"}, n - 1), s \in At({"AttemptStarted"}, n) :
                      /\ f < e /\ e < a /\ a < s
                      /\ events[e].outcome = "REJECT_RETRYABLE"
                      /\ \A i \in 1 .. s : events[i].type # "TransitionCommitted"
  BY DEF SuccessorExplained
<1>1. PICK f \in DOMAIN events, e \in DOMAIN events, a \in DOMAIN events, s \in DOMAIN events :
        Explains(events, n, f, e, a, s)
  BY DEF Explained
<1>2. f \in Failure(n - 1)
  BY <1>1, FailuresAre DEF Explains
<1>3. /\ e \in At({"RetryEligibilityDetermined"}, n - 1) /\ a \in At({"NewAttemptAuthorized"}, n - 1)
      /\ s \in At({"AttemptStarted"}, n)
  BY <1>1 DEF Explains, At
<1> QED
  BY <1>1, <1>2, <1>3 DEF Explains

(* What is explained stays explained.                                       *)
LEMMA ExplainedStill ==
  ASSUME NEW es \in Seq(EventType), NEW new \in Seq(EventType), NEW n, Explained(es, n)
  PROVE  Explained(es \o new, n)
<1> DEFINE u == es \o new
<1>1. PICK f \in DOMAIN es, e \in DOMAIN es, a \in DOMAIN es, s \in DOMAIN es : Explains(es, n, f, e, a, s)
  BY DEF Explained
<1>2. /\ Len(es) \in Nat /\ DOMAIN es = 1 .. Len(es)
      /\ \A i \in 1 .. Len(es) : i \in DOMAIN u /\ u[i] = es[i]
  BY ExtendedBy
<1> HIDE DEF u
<1>3. /\ u[f] = es[f] /\ u[e] = es[e] /\ u[a] = es[a] /\ u[s] = es[s]
      /\ f \in DOMAIN u /\ e \in DOMAIN u /\ a \in DOMAIN u /\ s \in DOMAIN u
  BY <1>2
<1>4. \A i \in 1 .. s : u[i] = es[i]
  BY <1>2
<1>5. Explains(u, n, f, e, a, s)
  BY <1>1, <1>3, <1>4 DEF Explains
<1> QED
  BY <1>3, <1>5 DEF Explained, u

(* A successor is granted only in a scope nothing was committed in.         *)
LEMMA UncommittedScope ==
  ASSUME CausesInv, attempts # << >>, NEW mode, NEW fresh, NEW lost,
         Sup!Allocate(Len(attempts), mode, fresh, TRUE, lost)
  PROVE  "TransitionCommitted" \notin TypesOf(events)
<1>1. Inv
  BY DEF CausesInv, EndsInv, TraceInv
<1>2. ledger # None /\ Sup!EffectControl = "PASS"
  BY DEF Sup!Allocate, Sup!EligibleFor, Sup!ConsidersSuccessor, Sup!EligibilityControl
<1>3. ledger.admission = "NO"
  <2>1. ledger.admission \notin {"UNKNOWN", "YES"}
    BY <1>2 DEF Sup!EffectControl
  <2>2. ledger.admission \in TriState
    BY <1>1, <1>2, Vocabulary DEF Inv, IndInv, SupervisorOK, Sup!TypeOK, Sup!LedgerType
  <2> QED
    BY <2>1, <2>2 DEF TriState
<1>4. commits = << >>
  BY <1>1, <1>3, OneCommit DEF Inv, IndInv
<1> QED
  BY <1>4 DEF CausesInv, BackedOK

LEMMA ThreeEvents ==
  ASSUME NEW e1 \in EventType, NEW e2 \in EventType, NEW e3 \in EventType
  PROVE  LET c == <<e1>> \o (<<e2>> \o <<e3>>)
         IN  c \in Seq(EventType) /\ Len(c) = 3 /\ c[1] = e1 /\ c[2] = e2 /\ c[3] = e3
<1> DEFINE c2 == <<e2>> \o <<e3>>
           c3 == <<e1>> \o c2
<1>1. /\ <<e1>> \in Seq(EventType) /\ <<e2>> \in Seq(EventType) /\ <<e3>> \in Seq(EventType)
      /\ Len(<<e1>>) = 1 /\ Len(<<e2>>) = 1 /\ Len(<<e3>>) = 1
      /\ <<e1>>[1] = e1 /\ <<e2>>[1] = e2 /\ <<e3>>[1] = e3
  OBVIOUS
<1>2. /\ c2 \in Seq(EventType) /\ Len(c2) = 1 + 1
      /\ \A i \in 1 .. 1 + 1 : c2[i] = IF i <= 1 THEN <<e2>>[i] ELSE <<e3>>[i - 1]
  BY <1>1, ConcatProperties
<1> HIDE DEF c2
<1>3. c2[1] = e2 /\ c2[2] = e3
  BY <1>1, <1>2
<1>4. c2 \in Seq(EventType) /\ Len(c2) = 2
  BY <1>2
<1> DEFINE c1 == <<e1>>
<1>5. c1 \in Seq(EventType) /\ Len(c1) = 1 /\ c1[1] = e1
  BY <1>1
<1> HIDE DEF c1
<1>6. /\ c1 \o c2 \in Seq(EventType) /\ Len(c1 \o c2) = Len(c1) + Len(c2)
      /\ \A i \in 1 .. Len(c1) + Len(c2) : (c1 \o c2)[i] = IF i <= Len(c1) THEN c1[i] ELSE c2[i - Len(c1)]
  BY <1>4, <1>5, ConcatProperties
<1>7. c3 = c1 \o c2
  BY DEF c1
<1> HIDE DEF c3
<1>8. /\ c3 \in Seq(EventType) /\ Len(c3) = 3
      /\ \A i \in 1 .. 3 : c3[i] = IF i <= 1 THEN c1[i] ELSE c2[i - 1]
  BY <1>4, <1>5, <1>6, <1>7
<1>9. c3[1] = e1 /\ c3[2] = e2 /\ c3[3] = e3
  BY <1>3, <1>5, <1>8
<1> QED
  BY <1>8, <1>9 DEF c2, c3

(* The successor granted is explained by what is told of it.                *)
LEMMA AllocationExplained ==
  ASSUME CausesInv, attempts # << >>, Current.terminal, Len(attempts) \in Nat,
         "TransitionCommitted" \notin TypesOf(events)
  PROVE  Explained(events \o (Eligibility("REJECT_RETRYABLE") \o Activation), Len(attempts) + 1)
<1> DEFINE N == Len(events)
           e1 == TraceEvent("supervisor", "RetryEligibilityDetermined", Len(attempts), "REJECT_RETRYABLE")
           e2 == TraceEvent("supervisor", "NewAttemptAuthorized", Len(attempts), "PASS")
           e3 == TraceEvent("supervisor", "AttemptStarted", Len(attempts) + 1, "PASS")
           new == <<e1>> \o (<<e2>> \o <<e3>>)
           u == events \o new
<1>1. Inv /\ events \in Seq(EventType) /\ EndsOK
  BY DEF CausesInv, EndsInv, TraceInv
<1>2. Eligibility("REJECT_RETRYABLE") \o Activation = new
  BY DEF Eligibility, Activation, Supervised
<1>3. /\ e1.type = "RetryEligibilityDetermined" /\ e1.attempt = Len(attempts) /\ e1.outcome = "REJECT_RETRYABLE"
      /\ e2.type = "NewAttemptAuthorized" /\ e2.attempt = Len(attempts)
      /\ e3.type = "AttemptStarted" /\ e3.attempt = Len(attempts) + 1
      /\ e1 \in EventType /\ e2 \in EventType /\ e3 \in EventType
  <2>1. /\ {"REJECT_RETRYABLE", "PASS"} \subseteq Said
        /\ {"RetryEligibilityDetermined", "NewAttemptAuthorized", "AttemptStarted"} \subseteq EventName
    BY DEF Said, Control, EventName
  <2> QED
    BY <2>1, AttemptsCounted, <1>1 DEF TraceEvent, EventType
<1>4. PICK f : f \in DOMAIN events /\ FailureEvent(events[f]) /\ events[f].attempt = Len(attempts)
  <2>1. Len(attempts) \in DOMAIN attempts
    BY <1>1, CurrentAttempt DEF Inv, IndInv
  <2>2. Failure(Len(attempts)) # {}
    BY <1>1, <2>1 DEF EndsOK, Current
  <2> QED
    BY <2>2, FailuresAre
<1> HIDE DEF e1, e2, e3
<1>5. new \in Seq(EventType) /\ Len(new) = 3 /\ new[1] = e1 /\ new[2] = e2 /\ new[3] = e3
  BY <1>3, ThreeEvents
<1> HIDE DEF new
<1>6. /\ N \in Nat /\ DOMAIN events = 1 .. N
      /\ \A i \in 1 .. N : i \in DOMAIN u /\ u[i] = events[i]
      /\ \A k \in 1 .. Len(new) : N + k \in DOMAIN u /\ u[N + k] = new[k]
  BY <1>1, <1>5, ExtendedBy
<1> HIDE DEF u, N
<1>7. 1 \in 1 .. Len(new) /\ 2 \in 1 .. Len(new) /\ 3 \in 1 .. Len(new)
  BY <1>5
<1>8. /\ u[N + 1] = e1 /\ u[N + 2] = e2 /\ u[N + 3] = e3
      /\ N + 1 \in DOMAIN u /\ N + 2 \in DOMAIN u /\ N + 3 \in DOMAIN u
  BY <1>5, <1>6, <1>7
<1>9. u[f] = events[f] /\ f \in DOMAIN u /\ f < N + 1 /\ N + 1 < N + 2 /\ N + 2 < N + 3
      /\ (Len(attempts) + 1) - 1 = Len(attempts)
  BY <1>4, <1>6
<1>10. \A i \in 1 .. N + 3 : u[i].type # "TransitionCommitted"
  <2>1. \A i \in 1 .. N : u[i].type # "TransitionCommitted"
    BY <1>6 DEF TypesOf
  <2>2. \A i \in 1 .. N + 3 : i \in 1 .. N \/ i = N + 1 \/ i = N + 2 \/ i = N + 3
    BY <1>6
  <2> QED
    BY <1>3, <1>8, <2>1, <2>2
<1>11. Explains(u, Len(attempts) + 1, f, N + 1, N + 2, N + 3)
  BY <1>3, <1>4, <1>8, <1>9, <1>10 DEF Explains
<1> QED
  BY <1>2, <1>8, <1>9, <1>11 DEF Explained, u

(* Only a granted successor adds an attempt to a chain that has begun.      *)
LEMMA StepAttempts ==
  ASSUME Step, ~RequestSuccessor
  PROVE  DOMAIN attempts' = DOMAIN attempts
<1>1. UNCHANGED supVars => DOMAIN attempts' = DOMAIN attempts
  BY DEF supVars
<1>2. ASSUME NEW ctl, NEW class, NEW retain, EndAttempt(ctl, class, retain) PROVE DOMAIN attempts' = DOMAIN attempts
  BY <1>1, <1>2 DEF EndAttempt, Sup!Fail
<1>3. ASSUME NEW ctl, Stop(ctl) PROVE DOMAIN attempts' = DOMAIN attempts
  BY <1>2, <1>3 DEF Stop
<1>4. ASSUME NEW ctl, StopCall(ctl) \/ StopDispatch(ctl) PROVE DOMAIN attempts' = DOMAIN attempts
  BY <1>3, <1>4 DEF StopCall, StopDispatch
<1>5. HoldIntent \/ MissInitialState \/ RefuseWhat \/ HoldCommit \/ FailToAdmit \/ RefuseDispatch \/ HoldDispatch
        => DOMAIN attempts' = DOMAIN attempts
  BY <1>4 DEF HoldIntent, MissInitialState, RefuseWhat, HoldCommit, FailToAdmit, RefuseDispatch, HoldDispatch
<1>6. FailToPlan \/ LoseOutcomeSlot => DOMAIN attempts' = DOMAIN attempts
  BY <1>3 DEF FailToPlan, LoseOutcomeSlot
<1>7. RefusePlan => DOMAIN attempts' = DOMAIN attempts
  BY <1>2 DEF RefusePlan
<1>8. RecordExecution => DOMAIN attempts' = DOMAIN attempts
  BY <1>1, <1>3 DEF RecordExecution
<1>9. ASSUME NEW decision, Publish(decision) PROVE DOMAIN attempts' = DOMAIN attempts
  BY <1>1, <1>3, <1>9 DEF Publish
<1>10. SettleNonSuccess \/ SettleSuccess => DOMAIN attempts' = DOMAIN attempts
  BY <1>9 DEF SettleNonSuccess, SettleSuccess
<1>11. StructureIntent \/ AcceptPlan \/ ReconcileEffects => DOMAIN attempts' = DOMAIN attempts
  BY <1>1 DEF StructureIntent, AcceptPlan, ReconcileEffects
<1>12. ApproveWhat => DOMAIN attempts' = DOMAIN attempts
  BY DEF ApproveWhat, Sup!Bind
<1>13. Admit \/ CompleteExecution => DOMAIN attempts' = DOMAIN attempts
  BY DEF Admit, AdmitUnder, Sup!Admission, CompleteExecution, Sup!SetPosture
<1>14. Unreportable => DOMAIN attempts' = DOMAIN attempts
  BY UnreportableAttempts
<1> QED
  BY <1>5, <1>6, <1>7, <1>8, <1>10, <1>11, <1>12, <1>13, <1>14 DEF Step, Unreportable

LEMMA CallAttempts ==
  ASSUME Call
  PROVE  \A n \in DOMAIN attempts' : n \in DOMAIN attempts \/ n = 1
<1>1. ASSUME NEW result, Answer(result) PROVE attempts' = attempts
  BY <1>1 DEF Answer, supVars
<1>2. ASSUME NEW to, NEW req, NEW key, StartScope(to, req, key) PROVE Sup!Start
  BY <1>2 DEF StartScope
<1>3. attempts' = attempts \/ Sup!Start
  BY <1>1, <1>2 DEF Call, CallPrepare, CallRun, CallRealize, CallDispatch, supVars
<1>4. Sup!Start => DOMAIN attempts' = {1}
  BY DEF Sup!Start
<1> QED
  BY <1>3, <1>4

ExplainedInv == CausesInv /\ \A n \in DOMAIN attempts : n > 1 => Explained(events, n)

LEMMA ExplainedKept ==
  ASSUME ExplainedInv, TraceNext, \A n \in DOMAIN attempts' : n \in DOMAIN attempts \/ n = 1
  PROVE  \A n \in DOMAIN attempts' : n > 1 => Explained(events', n)
<1>1. events \in Seq(EventType) /\ TraceInv
  BY DEF ExplainedInv, CausesInv, EndsInv, TraceInv
<1>2. PICK new \in Seq(EventType) : events' = events \o new
  BY <1>1, TraceReports DEF Reporting, Emit
<1>3. \A n \in DOMAIN attempts : n > 1 => Explained(events \o new, n)
  BY <1>1, ExplainedStill DEF ExplainedInv
<1> QED
  BY <1>2, <1>3

LEMMA SuccessorIsExplained ==
  ASSUME ExplainedInv, TraceNext, RequestSuccessor, Emit(SuccessorEvents)
  PROVE  \A n \in DOMAIN attempts' : n > 1 => Explained(events', n)
<1>1. Inv /\ events \in Seq(EventType) /\ CausesInv
  BY DEF ExplainedInv, CausesInv, EndsInv, TraceInv
<1>2. CASE attempts' = attempts
  BY <1>2, ExplainedKept
<1>3. CASE /\ Sup!Allocate(Len(attempts), call.mode, FreshForRetry, TRUE, faults.scheduleLost)
           /\ Sup!EligibleFor(Len(attempts), call.mode, FreshForRetry, TRUE)
           /\ ~Sup!Exhausted /\ ~faults.scheduleLost
  <2> DEFINE new == Eligibility("REJECT_RETRYABLE") \o Activation
  <2>1. attempts # << >> /\ Current.terminal /\ Len(attempts) \in Nat
    BY <1>1, SuccessorGranted
  <2>2. SuccessorEvents = new
    BY <1>3 DEF SuccessorEvents
  <2>3. new \in Seq(EventType)
    BY <1>1, <2>1, AllocationEvents
  <2>4. "TransitionCommitted" \notin TypesOf(events)
    BY <1>1, <1>3, <2>1, UncommittedScope
  <2>5. Explained(events \o new, Len(attempts) + 1)
    BY <1>1, <2>1, <2>4, AllocationExplained
  <2>6. DOMAIN attempts' = DOMAIN attempts \cup {Len(attempts) + 1}
    BY <1>1, <1>3, <2>1, AllocationGrows
  <2>7. events' = events \o new
    BY <2>2 DEF Emit
  <2> HIDE DEF new
  <2>8. \A n \in DOMAIN attempts : n > 1 => Explained(events \o new, n)
    BY <1>1, <2>3, ExplainedStill DEF ExplainedInv
  <2> QED
    BY <2>5, <2>6, <2>7, <2>8
<1> QED
  BY <1>1, <1>2, <1>3, SuccessorGranted

(* A step from "retry" reports what the supervisor decided.                 *)
LEMMA SuccessorAlone ==
  ASSUME TraceStep, RequestSuccessor
  PROVE  Emit(SuccessorEvents)
<1>1. pc = "retry"
  BY DEF RequestSuccessor
<1>2. ~(HoldIntent \/ StructureIntent \/ MissInitialState \/ FailToPlan \/ FailToAdmit \/ RefuseWhat \/ ApproveWhat)
  BY <1>1 DEF HoldIntent, StructureIntent, MissInitialState, FailToPlan, FailToAdmit, RefuseWhat, ApproveWhat
<1>3. ~(AcceptPlan \/ RefusePlan \/ HoldCommit \/ HoldDispatch \/ Admit \/ RefuseDispatch)
  BY <1>1 DEF AcceptPlan, RefusePlan, RetainPlan, HoldCommit, HoldDispatch, Admit, RefuseDispatch
<1>4. ~(CompleteExecution \/ RecordExecution \/ ReconcileEffects \/ SettleNonSuccess \/ SettleSuccess
         \/ LoseOutcomeSlot)
  BY <1>1 DEF CompleteExecution, RecordExecution, ReconcileEffects, SettleNonSuccess, SettleSuccess, LoseOutcomeSlot
<1>5. ~(LoseIntent \/ ReadInitialState \/ RetrieveDispatch \/ BeginDispatch \/ RaiseDispatch)
  BY <1>1 DEF LoseIntent, ReadInitialState, RetrieveDispatch, BeginDispatch, RaiseDispatch
<1>6. ~(Invoke \/ ApplyRequest \/ ReserveOutcomeSlot)
  BY <1>1 DEF Invoke, ApplyRequest, ReserveOutcomeSlot
<1> QED
  BY <1>2, <1>3, <1>4, <1>5, <1>6 DEF TraceStep, Unreportable

LEMMA ExplainedStep ==
  ASSUME ExplainedInv, [TraceNext]_traceVars
  PROVE  ExplainedInv'
<1>1. CausesInv'
  BY CausesStep DEF ExplainedInv
<1>2. CASE TraceNext
  <2> SUFFICES \A n \in DOMAIN attempts' : n > 1 => Explained(events', n)
    BY <1>1 DEF ExplainedInv, Explained, Explains
  <2>1. CASE Call
    BY <1>2, <2>1, CallAttempts, ExplainedKept
  <2>2. CASE Inject
    BY <1>2, <2>2, InjectAttempts, ExplainedKept
  <2>3. CASE RequestSuccessor /\ Emit(SuccessorEvents)
    BY <1>2, <2>3, SuccessorIsExplained
  <2>4. CASE TraceStep /\ ~RequestSuccessor
    BY <1>2, <2>4, TraceStepIsStep, StepAttempts, ExplainedKept
  <2> QED
    BY <1>2, <2>1, <2>2, <2>3, <2>4, SuccessorAlone DEF TraceNext
<1>3. CASE UNCHANGED traceVars
  <2>1. UNCHANGED <<events, attempts>>
    BY <1>3 DEF traceVars, vars, supVars
  <2> QED
    BY <1>1, <2>1 DEF ExplainedInv, Explained, Explains
<1> QED
  BY <1>2, <1>3

(* S01-R25: before a successor starts, the trace holds the end of the       *)
(* attempt before it, its eligibility and the authorization of the          *)
(* successor, in this order, and no commit (retry.py:114-183).              *)
THEOREM SuccessorsAreExplained == TraceSpec => []SuccessorExplained
<1>1. TraceInit => ExplainedInv
  <2>1. TraceInit => attempts = << >>
    BY DEF TraceInit, Init, Sup!Init
  <2> QED
    BY <2>1, CausesInit DEF ExplainedInv
<1>2. ExplainedInv /\ [TraceNext]_traceVars => ExplainedInv'
  BY ExplainedStep
<1>3. ExplainedInv => SuccessorExplained
  BY ExplainedIs DEF ExplainedInv
<1> QED
  BY <1>1, <1>2, <1>3, PTL DEF TraceSpec

-----------------------------------------------------------------------------
(* Every outcome can be read from the trace.                                *)

ReportedAs(s, decision) == \E i \in DOMAIN s : s[i].by = "projector" /\ s[i].outcome = decision

(* What is projected is reported so and nothing else is; any other decision *)
(* is reported, or was decided by a write the journal could not take.       *)
DecidedOK ==
  /\ Projected <=> "StateProjected" \in TypesOf(events)
  /\ projection # None /\ ~Projected => ReportedAs(events, projection.decision) \/ projection.write = "FAILED"

Unprojected(s) == "StateProjected" \notin TypesOf(s)

LEMMA ReportedStill ==
  ASSUME NEW s \in Seq(EventType), NEW t \in Seq(EventType), NEW decision,
         ReportedAs(s, decision) \/ ReportedAs(t, decision)
  PROVE  ReportedAs(s \o t, decision)
<1> DEFINE u == s \o t
<1>1. /\ DOMAIN s = 1 .. Len(s) /\ DOMAIN t = 1 .. Len(t)
      /\ \A i \in 1 .. Len(s) : i \in DOMAIN u /\ u[i] = s[i]
      /\ \A k \in 1 .. Len(t) : Len(s) + k \in DOMAIN u /\ u[Len(s) + k] = t[k]
  BY ExtendedBy
<1> HIDE DEF u
<1>2. CASE ReportedAs(s, decision)
  <2>1. PICK i \in 1 .. Len(s) : s[i].by = "projector" /\ s[i].outcome = decision
    BY <1>1, <1>2 DEF ReportedAs
  <2>2. i \in DOMAIN u /\ u[i] = s[i]
    BY <1>1
  <2> QED
    BY <2>1, <2>2 DEF ReportedAs, u
<1>3. CASE ReportedAs(t, decision)
  <2>1. PICK k \in 1 .. Len(t) : t[k].by = "projector" /\ t[k].outcome = decision
    BY <1>1, <1>3 DEF ReportedAs
  <2>2. Len(s) + k \in DOMAIN u /\ u[Len(s) + k] = t[k]
    BY <1>1
  <2> QED
    BY <2>1, <2>2 DEF ReportedAs, u
<1> QED
  BY <1>2, <1>3

(* Lists of events that do not report a projection.                         *)
LEMMA UnprojectedJoined ==
  ASSUME NEW s \in Seq(EventType), NEW t \in Seq(EventType), Unprojected(s), Unprojected(t)
  PROVE  Unprojected(s \o t)
  BY TypesJoined DEF Unprojected

LEMMA OtherNotes ==
  /\ Unprojected(<< >>)
  /\ \A type, outcome : type # "StateProjected" => Unprojected(Note(type, outcome))
  /\ \A type, attempt, ctl : type # "StateProjected" => Unprojected(Supervised(type, attempt, ctl))
  /\ \A ctl : Unprojected(Ending(ctl))
<1>1. Unprojected(<< >>)
  BY NoTypes DEF Unprojected
<1>2. ASSUME NEW type, NEW outcome, type # "StateProjected" PROVE Unprojected(Note(type, outcome))
  BY <1>2, NoteTypes DEF Unprojected
<1>3. ASSUME NEW type, NEW attempt, NEW ctl, type # "StateProjected" PROVE Unprojected(Supervised(type, attempt, ctl))
  BY <1>3, SupervisedTypes DEF Unprojected
<1>4. ASSUME NEW ctl PROVE Unprojected(Ending(ctl))
  BY <1>1, <1>3 DEF Ending, FailureType
<1> QED
  BY <1>1, <1>2, <1>3, <1>4

LEMMA PreparationUnprojected ==
  ASSUME Inv
  PROVE  /\ Unprojected(IntentEvents) /\ Unprojected(WhatEvents)
         /\ Unprojected(ApprovalEvents) /\ Unprojected(PlanEvents)
<1>1. /\ "PASS" \in Said /\ "PASS" \in Control
      /\ {"CandidateSelected", "TransitionValidated", "TransitionAuthorized", "AttemptStarted"} \subseteq EventName
  BY DEF Said, Control, EventName
<1>2. \A type \in EventName : Note(type, "PASS") \in Seq(EventType)
  BY <1>1, Noted
<1>3. Unprojected(IntentEvents) /\ Unprojected(PlanEvents)
  BY OtherNotes DEF IntentEvents, PlanEvents
<1>4. Unprojected(WhatEvents)
  <2> DEFINE first == IF faults.unselectable THEN << >> ELSE Note("CandidateSelected", "PASS")
             second == IF ~faults.unselectable /\ ValidWhat THEN Note("TransitionValidated", "PASS") ELSE << >>
  <2>1. first \in Seq(EventType) /\ second \in Seq(EventType)
    BY <1>1, <1>2, NothingReported
  <2>2. Unprojected(first) /\ Unprojected(second)
    BY OtherNotes
  <2>3. WhatEvents = first \o second
    BY DEF WhatEvents
  <2> HIDE DEF first, second
  <2> QED
    BY <2>1, <2>2, <2>3, UnprojectedJoined
<1>5. Unprojected(ApprovalEvents)
  <2> DEFINE authorized == Note("TransitionAuthorized", "PASS")
             started == Supervised("AttemptStarted", Len(attempts), "PASS")
  <2>1. WhatEvents \in Seq(EventType) /\ authorized \in Seq(EventType)
    BY <1>1, <1>2, PreparationTyped
  <2>2. started \in Seq(EventType)
    BY <1>1, AttemptsCounted, SupervisedTyped
  <2>3. Unprojected(authorized) /\ Unprojected(started)
    BY OtherNotes
  <2>4. ApprovalEvents = (WhatEvents \o authorized) \o started
    BY DEF ApprovalEvents
  <2> HIDE DEF authorized, started
  <2>5. WhatEvents \o authorized \in Seq(EventType) /\ Unprojected(WhatEvents \o authorized)
    BY <1>4, <2>1, <2>3, UnprojectedJoined, Joined
  <2> QED
    BY <2>2, <2>3, <2>4, <2>5, UnprojectedJoined
<1> QED
  BY <1>3, <1>4, <1>5

LEMMA SuccessorUnprojected ==
  ASSUME Inv
  PROVE  Unprojected(SuccessorEvents)
<1> DEFINE told == Eligibility("REJECT_RETRYABLE")
           opened == Supervised("CircuitOpened", Len(attempts), "CIRCUIT_OPEN")
           escalated == Supervised("HumanEscalationRequired", Len(attempts), "CIRCUIT_OPEN")
           lost == Eligibility("HOLD_AMBIGUOUS")
           authorized == Supervised("NewAttemptAuthorized", Len(attempts), "PASS")
           started == Supervised("AttemptStarted", Len(attempts) + 1, "PASS")
           refused == Eligibility(lastControl')
<1>1. /\ {"REJECT_RETRYABLE", "HOLD_AMBIGUOUS", "CIRCUIT_OPEN", "PASS"} \subseteq Control
      /\ {"RetryEligibilityDetermined", "CircuitOpened", "HumanEscalationRequired", "NewAttemptAuthorized",
          "AttemptStarted"} \subseteq EventName
  BY DEF Control, EventName
<1>2. /\ told \in Seq(EventType) /\ opened \in Seq(EventType) /\ escalated \in Seq(EventType) /\ lost \in Seq(EventType)
      /\ authorized \in Seq(EventType) /\ started \in Seq(EventType)
  BY <1>1, AttemptsCounted, SupervisedTyped DEF Eligibility
<1>3. /\ Unprojected(told) /\ Unprojected(opened) /\ Unprojected(escalated) /\ Unprojected(lost)
      /\ Unprojected(authorized) /\ Unprojected(started)
  BY OtherNotes DEF Eligibility
<1>4. Unprojected(refused)
  <2>1. \A ctl : Unprojected(Eligibility(ctl))
    BY OtherNotes DEF Eligibility
  <2> QED
    BY <2>1
<1>5. \/ SuccessorEvents = refused
      \/ SuccessorEvents = told \o (opened \o escalated)
      \/ SuccessorEvents = told \o lost
      \/ SuccessorEvents = told \o (authorized \o started)
  BY DEF SuccessorEvents, Activation
<1> HIDE DEF refused, told, opened, escalated, lost, authorized, started
<1>6. opened \o escalated \in Seq(EventType) /\ Unprojected(opened \o escalated)
  BY <1>2, <1>3, UnprojectedJoined, Joined
<1>7. authorized \o started \in Seq(EventType) /\ Unprojected(authorized \o started)
  BY <1>2, <1>3, UnprojectedJoined, Joined
<1>8. Unprojected(told \o (opened \o escalated))
  BY <1>2, <1>3, <1>6, UnprojectedJoined
<1>9. Unprojected(told \o (authorized \o started))
  BY <1>2, <1>3, <1>7, UnprojectedJoined
<1>10. Unprojected(told \o lost)
  BY <1>2, <1>3, UnprojectedJoined
<1> QED
  BY <1>4, <1>5, <1>8, <1>9, <1>10

Unprojecting == \E new \in Seq(EventType) : Emit(new) /\ Unprojected(new)

(* Only a settled outcome is reported as projected.                         *)
LEMMA OthersUnprojected ==
  ASSUME Inv, Inv', TraceStep, ~(SettleNonSuccess \/ SettleSuccess)
  PROVE  Unprojecting
<1>1. /\ {"HOLD_AMBIGUOUS", "FAIL_NONRETRYABLE", "PASS"} \subseteq Control
      /\ control' \in Control /\ lastControl' \in Control
  <2>1. control' \in Control /\ lastControl' \in Control
    BY Vocabulary DEF Inv, IndInv, SupervisorOK, ControlOK, Sup!TypeOK
  <2> QED
    BY <2>1 DEF Control
<1>2. \A ctl \in Control : Ending(ctl) \in Seq(EventType) /\ Unprojected(Ending(ctl))
  BY EndingTyped, OtherNotes
<1>3. \A type \in EventName \ {"StateProjected"}, outcome \in Said :
        Note(type, outcome) \in Seq(EventType) /\ Unprojected(Note(type, outcome))
  BY Noted, OtherNotes
<1>4. {"TransitionCommitted", "ExecutionCompleted", "TransitionReconciled", "ReconciliationFailed"}
        \subseteq EventName \ {"StateProjected"}
  BY DEF EventName
<1>5. CASE HoldIntent /\ Emit(IntentEvents \o Ending("HOLD_AMBIGUOUS"))
  <2>1. /\ IntentEvents \o Ending("HOLD_AMBIGUOUS") \in Seq(EventType)
        /\ Unprojected(IntentEvents \o Ending("HOLD_AMBIGUOUS"))
    BY <1>1, <1>2, PreparationTyped, PreparationUnprojected, UnprojectedJoined, Joined
  <2> QED
    BY <1>5, <2>1 DEF Unprojecting
<1>6. CASE Emit(IntentEvents) \/ Emit(ApprovalEvents) \/ Emit(PlanEvents) \/ Emit(<< >>)
  BY <1>6, PreparationTyped, NothingReported, PreparationUnprojected, OtherNotes DEF Unprojecting
<1>7. ASSUME NEW ctl \in Control, Emit(Ending(ctl)) PROVE Unprojecting
  BY <1>2, <1>7 DEF Unprojecting
<1>8. CASE RefuseWhat /\ Emit(WhatEvents \o Ending(WhatControl))
  <2>1. WhatEvents \o Ending(WhatControl) \in Seq(EventType) /\ Unprojected(WhatEvents \o Ending(WhatControl))
    BY <1>2, FreshControl, PreparationTyped, PreparationUnprojected, UnprojectedJoined, Joined
  <2> QED
    BY <1>8, <2>1 DEF Unprojecting
<1>9. CASE RefusePlan /\ Emit(PlanEvents \o Ending(RefusalControl))
  <2>1. RefusalControl \in Control
    BY DEF RefusalControl, Control
  <2>2. PlanEvents \o Ending(RefusalControl) \in Seq(EventType) /\ Unprojected(PlanEvents \o Ending(RefusalControl))
    BY <1>2, <2>1, PreparationTyped, PreparationUnprojected, UnprojectedJoined, Joined
  <2> QED
    BY <1>9, <2>2 DEF Unprojecting
<1>10. CASE RequestSuccessor /\ Emit(SuccessorEvents)
  BY <1>1, <1>10, SuccessorTyped, SuccessorUnprojected DEF Unprojecting
<1>11. CASE Admit /\ Emit(Note("TransitionCommitted", "PASS"))
  <2>1. "PASS" \in Said
    BY <1>1 DEF Said
  <2> QED
    BY <1>3, <1>4, <1>11, <2>1 DEF Unprojecting
<1>12. CASE CompleteExecution /\ Emit(Note("ExecutionCompleted", Reported))
  <2>1. Reported \in Said
    BY ReportedTyped DEF Said, Inv, IndInv
  <2> QED
    BY <1>3, <1>4, <1>12, <2>1 DEF Unprojecting
<1>13. CASE RecordExecution /\ Emit(IF execution = "SUCCESS" THEN << >> ELSE Ending(control'))
  BY <1>1, <1>6, <1>7, <1>13
<1>14. CASE ReconcileEffects /\ Emit(ReconciliationEvents)
  <2>1. reconciliation' \in Said
    BY <1>14, OutcomeTyped DEF ReconcileEffects, Said
  <2>2. ReconciliationEvents \in Seq(EventType) /\ Unprojected(ReconciliationEvents)
    BY <1>3, <1>4, <2>1 DEF ReconciliationEvents
  <2> QED
    BY <1>14, <2>2 DEF Unprojecting
<1>15. Fresh \in Control
  BY FreshControl
<1> QED
  BY <1>1, <1>5, <1>6, <1>7, <1>8, <1>9, <1>10, <1>11, <1>12, <1>13, <1>14, <1>15 DEF TraceStep

(* A step that decides nothing.                                             *)
LEMMA DecidedStill ==
  ASSUME DecidedOK, events \in Seq(EventType), projection' = projection, Unprojecting
  PROVE  DecidedOK'
<1>1. PICK new \in Seq(EventType) : Emit(new) /\ Unprojected(new)
  BY DEF Unprojecting
<1>2. events' = events \o new
  BY <1>1 DEF Emit
<1>3. TypesOf(events') = TypesOf(events) \cup TypesOf(new)
  BY <1>2, TypesJoined
<1>4. "StateProjected" \in TypesOf(events') <=> "StateProjected" \in TypesOf(events)
  BY <1>1, <1>3 DEF Unprojected
<1>5. \A decision : ReportedAs(events, decision) => ReportedAs(events', decision)
  BY <1>2, ReportedStill
<1>6. Projected' <=> Projected
  BY DEF Projected
<1>7. /\ Projected' <=> "StateProjected" \in TypesOf(events')
      /\ projection # None /\ ~Projected =>
           ReportedAs(events', projection.decision) \/ projection.write = "FAILED"
  BY <1>4, <1>5, <1>6 DEF DecidedOK
<1> QED
  BY <1>6, <1>7 DEF DecidedOK, TypesOf, ReportedAs

(* What settles an outcome reports it.                                      *)
LEMMA SettleDecides ==
  ASSUME Inv, Inv', DecidedOK, events \in Seq(EventType), SettleNonSuccess \/ SettleSuccess, Emit(ProjectionEvents)
  PROVE  DecidedOK'
<1>1. /\ projection' \in Projection /\ projection'.decision \in Decision /\ control' \in Control
      /\ (Projected' => projection'.write = "APPLIED") /\ projection' # None
  BY SettledTyped, AbsenceAssumption DEF Projection, Inv, IndInv, ControlOK
<1>2. projection = None
  <2>1. pc \in Realizing
    BY DEF SettleNonSuccess, SettleSuccess, Realizing
  <2> QED
    BY <2>1, RealizingState DEF Inv
<1>3. "StateProjected" \notin TypesOf(events)
  BY <1>2 DEF DecidedOK, Projected
<1> DEFINE decision == projection'.decision
           e == TraceEvent("projector", ProjectionType(decision), Len(attempts), decision)
<1>4. e \in EventType /\ e.by = "projector" /\ e.type = ProjectionType(decision) /\ e.outcome = decision
  <2>1. ProjectionType(decision) \in EventName
    BY DEF ProjectionType, EventName
  <2> QED
    BY <1>1, <2>1, AttemptsCounted DEF TraceEvent, EventType, Said
<1>5. Published = (IF Unreported THEN << >> ELSE <<e>>)
  BY DEF Published
<1>6. ProjectionEvents = Published \o (IF decision = "PROJECT" THEN << >> ELSE Ending(control'))
  BY DEF ProjectionEvents
<1>7. (Projected' <=> decision = "PROJECT") /\ (Unreported => projection'.write = "FAILED")
  BY <1>1 DEF Projected, Unreported
<1>8. events' = events \o ProjectionEvents
  BY DEF Emit
<1> HIDE DEF e
<1>9. Published \in Seq(EventType) /\ TypesOf(Published) = IF Unreported THEN {} ELSE {e.type}
  BY <1>4, <1>5, OneEvent, NothingReported, NoTypes, OneType
<1>10. CASE decision = "PROJECT"
  <2>1. ~Unreported /\ Projected'
    BY <1>1, <1>7, <1>10
  <2>2. e.type = "StateProjected"
    BY <1>4, <1>10 DEF ProjectionType
  <2>3. Published \o << >> = Published
    BY <1>9, ConcatEmptySeq
  <2>4. events' = events \o Published
    BY <1>6, <1>8, <1>10, <2>3
  <2>5. TypesOf(events') = TypesOf(events) \cup TypesOf(Published)
    BY <1>9, <2>4, TypesJoined
  <2>6. "StateProjected" \in TypesOf(events')
    BY <1>9, <2>1, <2>2, <2>5
  <2> QED
    BY <2>1, <2>6 DEF DecidedOK, TypesOf
<1>11. CASE decision # "PROJECT"
  <2> DEFINE ending == Ending(control')
  <2>1. e.type # "StateProjected"
    BY <1>1, <1>4, <1>11 DEF ProjectionType, Decision
  <2>2. ending \in Seq(EventType) /\ Unprojected(ending)
    <3>1. \A ctl \in Control : Ending(ctl) \in Seq(EventType) /\ Unprojected(Ending(ctl))
      BY EndingTyped, OtherNotes
    <3> QED
      BY <1>1, <3>1
  <2>3. ProjectionEvents = Published \o ending
    BY <1>6, <1>11
  <2> HIDE DEF ending
  <2>4. Unprojected(Published)
    BY <1>9, <2>1 DEF Unprojected
  <2>5. ProjectionEvents \in Seq(EventType) /\ Unprojected(ProjectionEvents)
    BY <1>9, <2>2, <2>3, <2>4, UnprojectedJoined, Joined
  <2>6. TypesOf(events') = TypesOf(events) \cup TypesOf(ProjectionEvents)
    BY <1>8, <2>5, TypesJoined
  <2>7. "StateProjected" \notin TypesOf(events')
    BY <1>3, <2>5, <2>6 DEF Unprojected
  <2>8. ~Unreported => ReportedAs(events', decision)
    <3>1. ~Unreported => ReportedAs(Published, decision)
      BY <1>4, <1>5 DEF ReportedAs
    <3>2. ~Unreported => ReportedAs(ProjectionEvents, decision)
      BY <1>9, <2>2, <2>3, <3>1, ReportedStill
    <3> QED
      BY <1>8, <2>5, <3>2, ReportedStill
  <2>9. ReportedAs(events', decision) \/ projection'.write = "FAILED"
    BY <1>7, <2>8
  <2> QED
    BY <1>7, <1>11, <2>7, <2>9 DEF DecidedOK, TypesOf, ReportedAs
<1> QED
  BY <1>10, <1>11

LEMMA TraceDecides ==
  ASSUME TraceInv, Inv', DecidedOK, TraceNext
  PROVE  DecidedOK'
<1>1. Inv /\ events \in Seq(EventType)
  BY DEF TraceInv
<1>2. CASE Call /\ Emit(CallEvents)
  <2>1. "AttemptStarted" \in EventName /\ "PASS" \in Control /\ 1 \in Nat
    BY DEF EventName, Control
  <2>2. CallEvents \in Seq(EventType) /\ Unprojected(CallEvents)
    BY <2>1, SupervisedTyped, NothingReported, OtherNotes DEF CallEvents
  <2>3. Unprojecting
    BY <1>2, <2>2 DEF Unprojecting
  <2> QED
    BY <1>1, <1>2, <2>3, CallProjection, DecidedStill
<1>3. CASE Inject /\ Emit(<< >>)
  <2>1. Unprojecting
    BY <1>3, NothingReported, OtherNotes DEF Unprojecting
  <2> QED
    BY <1>1, <1>3, <2>1, CallProjection, DecidedStill
<1>4. CASE TraceStep /\ (SettleNonSuccess \/ SettleSuccess)
  BY <1>1, <1>4, SettleAlone, SettleDecides
<1>5. CASE TraceStep /\ ~(SettleNonSuccess \/ SettleSuccess)
  <2>1. Unprojecting
    BY <1>1, <1>5, OthersUnprojected
  <2>2. LoseOutcomeSlot => projection' = projection
    <3>1. LoseOutcomeSlot => pc \in Realizing /\ projection' = None
      BY DEF LoseOutcomeSlot, Realizing
    <3>2. pc \in Realizing => projection = None
      BY <1>1, RealizingState DEF Inv
    <3> QED
      BY <3>1, <3>2
  <2>3. projection' = projection
    BY <1>5, <2>2, TraceStepIsStep, StepProjection DEF Settling
  <2> QED
    BY <1>1, <2>1, <2>3, DecidedStill
<1> QED
  BY <1>2, <1>3, <1>4, <1>5 DEF TraceNext

DecidedInv == EndsInv /\ DecidedOK

LEMMA DecidedStep ==
  ASSUME DecidedInv, [TraceNext]_traceVars
  PROVE  DecidedInv'
<1>1. EndsInv' /\ Inv'
  BY EndsStep DEF DecidedInv, EndsInv, TraceInv
<1>2. CASE TraceNext
  BY <1>1, <1>2, TraceDecides DEF DecidedInv, EndsInv
<1>3. CASE UNCHANGED traceVars
  <2>1. UNCHANGED <<events, projection>>
    BY <1>3 DEF traceVars, vars, outVars
  <2>2. DecidedOK'
    BY <2>1 DEF DecidedInv, DecidedOK, Projected, TypesOf, ReportedAs
  <2> QED
    BY <1>1, <2>2 DEF DecidedInv
<1> QED
  BY <1>2, <1>3

LEMMA DecidedIsReported ==
  ASSUME DecidedInv
  PROVE  OutcomeReported
<1>1. Inv /\ EndsOK /\ DecidedOK
  BY DEF DecidedInv, EndsInv, TraceInv
<1>2. Projected <=> \E i \in DOMAIN events : events[i].type = "StateProjected"
  BY <1>1 DEF DecidedOK, TypesOf
<1>3. ASSUME NEW s \in DOMAIN slots, slots[s] # None, ~Projected
      PROVE  \/ \E i \in DOMAIN events : events[i].by = "projector" /\ events[i].outcome = slots[s].decision
             \/ slots[s].write = "FAILED" /\ Failure(Len(attempts)) # {}
  <2>1. slots # << >> /\ slots # <<None>>
    BY <1>3
  <2>2. claims # {}
    BY <1>1, <2>1 DEF Inv, IndInv, StageOK, Untouched
  <2>3. Realized /\ attempts # << >>
    <3>1. Realized
      BY <1>1, <2>2 DEF Inv, IndInv, StageOK
    <3>2. commits # << >>
      BY <3>1 DEF Realized
    <3> QED
      BY <1>1, <3>1, <3>2, CommitMeansBound DEF Inv
  <2>4. pc \notin Realizing /\ slots = <<projection>> /\ projection # None
    BY <2>1, <2>3 DEF Realized, Realizing
  <2>5. slots[s] = projection
    BY <2>4
  <2>6. Current.terminal
    BY <1>1, <1>3, <2>2, <2>4 DEF Inv, IndInv, EndedOK
  <2>7. Failure(Len(attempts)) # {}
    <3>1. Len(attempts) \in DOMAIN attempts
      BY <1>1, <2>3, CurrentAttempt DEF Inv, IndInv
    <3> QED
      BY <1>1, <2>6, <3>1 DEF EndsOK, Current
  <2> QED
    BY <1>1, <1>3, <2>4, <2>5, <2>7 DEF DecidedOK, ReportedAs
<1> QED
  BY <1>2, <1>3 DEF OutcomeReported

(* Every outcome a caller is left with is in the trace: StateProjected says *)
(* the decision was published, any other decision is reported by its own    *)
(* event or by the end of the attempt (reconciliation.py:118-203).          *)
THEOREM OutcomesAreReported == TraceSpec => []OutcomeReported
<1>1. TraceInit => DecidedInv
  <2> SUFFICES ASSUME TraceInit PROVE DecidedInv
    OBVIOUS
  <2>1. events = << >> /\ projection = None
    BY DEF TraceInit, Init
  <2>2. DecidedOK
    BY <2>1, NoTypes DEF DecidedOK, Projected
  <2> QED
    BY <2>2, EndsInit DEF DecidedInv
<1>2. DecidedInv /\ [TraceNext]_traceVars => DecidedInv'
  BY DecidedStep
<1>3. DecidedInv => OutcomeReported
  BY DecidedIsReported
<1> QED
  BY <1>1, <1>2, <1>3, PTL DEF TraceSpec
=============================================================================
