---------------------------- MODULE SliceRuntime ----------------------------
(***************************************************************************)
(* The runtime of one operation scope (runtime.py), composed of the        *)
(* supervisor, the effect provider, governance and reconciliation.         *)
(*                                                                         *)
(* The program is synchronous: a caller makes one call at a time, and the  *)
(* calls interleave with outside changes only at the six named seams where *)
(* inject() runs.  So a call is an action of the idle runtime, each        *)
(* stretch of code between two seams (or two supervisor or provider        *)
(* operations) is a step guarded by pc, and a pc that names a seam is a    *)
(* place where Inject may act first.  The injections of a run are fixed    *)
(* when it is built and each fires once, so a seam only injects on the     *)
(* first visit; the fault switches of the fixture are fixed in "faults".   *)
(* Between two calls the caller may also drive the stages of realize() by  *)
(* hand, as the tests do (build, validate, admit, dispatch), and replace   *)
(* the evidence: "idle" is the place of an injection that does so.         *)
(***************************************************************************)
EXTENDS Governance, Reconciliation, FiniteSets

CONSTANTS
  Policies,        \* retry policies the runtime may be built with
  Grants,          \* authority evidence it may be built with, None included
  Faults,          \* fixture fault switches it may be built with
  Requests,        \* requests a caller may make
  Keys,            \* idempotency keys a caller may use
  Injections,      \* the [seam, kind] pairs that may be configured
  MaxInjections,   \* bound on the injections of one run
  MaxStaged,       \* bound on the plans and validations a caller makes by hand
  ActionRequests, MaxVersion, MaxActions     \* see EffectProvider

VARIABLES
  (* retry.py *)
  policy, attempts, ledger, failureRefs, schedules, effectPosture, lastControl, granted,
  (* fixture.py: the provider *)
  view, log, invocation, invocations, closed,
  (* the run's aggregate: authoritative state, and the outcome slots *)
  authority, slots,
  (* what a seam may change from outside, and what the run was built with *)
  definition, grant, readFault, faults, visited, fired,
  (* the approved basis *)
  request, before, baseline, transition, envelope,
  (* plans and their validations, both retained in order; the current plan *)
  plans, validations, plan,
  (* realization *)
  commits, index, claims, pending, execution, observed, reconciliation, projection,
  (* control: the call in progress, and what the last one returned *)
  control, pc, call, ret

supVars   == <<policy, attempts, ledger, failureRefs, schedules, effectPosture, lastControl, granted>>
provVars  == <<view, log, invocation, invocations, closed>>
seamVars  == <<definition, grant, readFault, faults, visited, fired>>
basisVars == <<request, before, baseline, transition, envelope>>
planVars  == <<plans, validations, plan>>
realVars  == <<commits, index, claims, pending, execution, observed, reconciliation>>
outVars   == <<authority, slots, projection>>
ctlVars   == <<control, pc, call, ret>>
vars == <<supVars, provVars, seamVars, basisVars, planVars, realVars, outVars, ctlVars>>

Sup  == INSTANCE RetrySupervisor
Prov == INSTANCE EffectProvider

Seam == {"initial", "retry", "pre_commit", "pre_dispatch", "post_execution", "final"}

OriginalDefinition == 1
DefaultGrant == [active |-> "YES", scoped |-> TRUE, definition |-> OriginalDefinition, source |-> 1,
                 human |-> FALSE, subject |-> NoSubject, approved |-> FALSE]

(* Identity 0 stands for every identity the journal refuses to retain: the  *)
(* empty one, and one already retained for another record.                  *)
Request == [id : Nat, mode : Mode, known : BOOLEAN, target : {"REVIEW", "APPROVED"}]

(* FixtureFaults, where the code reads it.  "insufficient" is a missing     *)
(* intent or profile, "unselectable" a candidate count other than one or an *)
(* unknown selection, "defects" the plan defect of each attempt, "requests" *)
(* what the handler asks for instead of the approved effect.                *)
FixtureFaults ==
  [insufficient : BOOLEAN, readMissing : BOOLEAN, unselectable : BOOLEAN, defects : Seq(Defect),
   requests : Seq(Prov!Carriable) \cup {None}, invalidWrites : BOOLEAN, report : Report, raises : BOOLEAN,
   observation : Prov!ReadFault, publication : {"", "write", "event", "publication"},
   slotUnavailable : BOOLEAN, commitUnretained : BOOLEAN, evidenceMissing : BOOLEAN,
   scheduleLost : BOOLEAN, substituted : BOOLEAN, planningFails : BOOLEAN]

(* What a projection decided, and what a call returns.                      *)
Authoritative == [state : {"DRAFT", "REVIEW"}, version : Nat]

Projection == [decision : Decision, write : {"NOT_ATTEMPTED", "APPLIED", "FAILED"}]

ResultType ==
  [disposition : {"TERMINAL", "COMPLETED", "HISTORICAL_RETRIEVAL", "HISTORICAL_INCOMPLETE",
                  "REFUSED_DUPLICATE", "NO_SCOPE_RESET"},
   control : Control, commit : Nat, execution : Report \cup {None}, outcome : Outcome \cup {None},
   projection : Projection \cup {None}]

ASSUME RuntimeAssumption ==
  /\ Grants \subseteq Grant \cup {None}
  /\ Requests \subseteq Request
  /\ Faults \subseteq FixtureFaults
  /\ \A i \in Injections : i.seam \in Seam \cup {"idle"}
  /\ MaxInjections \in Nat /\ MaxStaged \in Nat
  /\ None \notin Keys

(* The absent value is none of the values it stands in for.                 *)
ASSUME AbsenceAssumption ==
  None \notin Request \cup Authoritative \cup Prov!EffectView \cup Envelope \cup Plan \cup Report
              \cup Outcome \cup Projection \cup ResultType \cup Sup!LedgerType \cup Nat

Current    == attempts[Len(attempts)]
Commit     == commits[Len(commits)]
Validation == validations[Len(validations)]

(* What the journal retained when the envelope was derived.                 *)
RetainedEnvelope == [target |-> "REVIEW", authority |-> before.version, observation |-> baseline.version]

Init ==
  /\ Sup!Init
  /\ Prov!ProvInit
  /\ authority = [state |-> "DRAFT", version |-> 1]
  /\ slots = << >>
  /\ definition = OriginalDefinition
  /\ grant \in Grants
  /\ faults \in Faults
  /\ readFault = "" /\ visited = {} /\ fired = {}
  /\ request = None /\ before = None /\ baseline = None /\ transition = None /\ envelope = None
  /\ plans = << >> /\ validations = << >> /\ plan = None
  /\ commits = << >> /\ index = [k \in {} |-> None] /\ claims = {} /\ pending = << >>
  /\ execution = None /\ observed = None /\ reconciliation = None /\ projection = None
  /\ control = "PASS" /\ pc = "idle" /\ call = None /\ ret = None

-----------------------------------------------------------------------------
(* Results, and leaving a call.                                             *)

Result(disposition) ==
  [disposition |-> disposition, control |-> control, commit |-> Len(commits),
   execution |-> execution, outcome |-> reconciliation, projection |-> projection]

Bare(disposition, ctl, commit) ==
  [disposition |-> disposition, control |-> ctl, commit |-> commit,
   execution |-> None, outcome |-> None, projection |-> None]

Refused(disposition) == Bare(disposition, "FAIL_NONRETRYABLE", 0)

Return(result) == ret' = result /\ pc' = "idle" /\ call' = None

(* Mutant: the attempt is closed without the supervisor's bookkeeping.      *)
CloseAttempt(ctl, class, retain) ==
  /\ attempts' = [attempts EXCEPT ![Len(attempts)] = [@ EXCEPT !.terminal = TRUE, !.failure = class]]
  /\ lastControl' = ctl
  /\ UNCHANGED <<policy, ledger, failureRefs, schedules, effectPosture, granted>>

(* stop(): records the control and ends the attempt unless it already has.  *)
EndAttempt(ctl, class, retain) ==
  \/ Sup!Fail(ctl, class, retain)
  \/ ~Sup!CanFail /\ UNCHANGED supVars

(* Mutant: the control is recorded and the attempt is left open.            *)
StopQuietly(ctl) == control' = ctl /\ UNCHANGED supVars

Stop(ctl) == control' = ctl /\ EndAttempt(ctl, "OTHER", TRUE)

(* Mutant: the result is returned and not kept under the key.               *)
FinishUnretained(disposition) == Return(Result(disposition)') /\ UNCHANGED index

(* finish_index(): the result is retained under the commit's key.           *)
Finish(disposition) ==
  /\ Return(Result(disposition)')
  /\ index' = [index EXCEPT ![Commit.key].result = ret']

(* binding(): the tuple a duplicate must match.                             *)
Binding == [plan |-> plan.id, validation |-> Validation.id, mode |-> plan.mode]

Lookup(key, req, binding) ==
  LET entry == index[key]
  IN  IF req # entry.request \/ (binding # None /\ binding # entry.binding)
      THEN Refused("REFUSED_DUPLICATE")
      ELSE IF entry.result = None
      THEN Bare("HISTORICAL_INCOMPLETE", "HOLD_AMBIGUOUS", Len(commits))
      ELSE [entry.result EXCEPT !.disposition = "HISTORICAL_RETRIEVAL"]

(* A stop that returns to the caller: prepare() reports no result of its    *)
(* own, run() and realize() report the runtime's.                           *)
StopCall(ctl) ==
  /\ Stop(ctl)
  /\ UNCHANGED <<provVars, basisVars, planVars, realVars, outVars>>
  /\ Return(IF call.to = "prepare" THEN None ELSE Result("TERMINAL")')

LeaveSeam == visited' = visited \cup {pc} /\ UNCHANGED <<definition, grant, readFault, faults, fired>>

-----------------------------------------------------------------------------
(* Freshness: fresh() reads the provider and the aggregate anew and         *)
(* compares them with the basis, then checks the grant as it is now.        *)

NoEffectUnknown == ledger.admission = "UNKNOWN" \/ effectPosture = "UNKNOWN"
NoEffectClear ==
  /\ ledger.admission = "NO" /\ effectPosture = "NONE_ESTABLISHED"
  /\ commits = << >> /\ claims = {}
  /\ invocations = 0 /\ invocation = None /\ log = << >>

SameDocument(expected) ==
  /\ view.version = expected.version /\ view.state = expected.state
  /\ view.exists = expected.exists /\ view.digest = expected.digest

(* Mutant: the authoritative state is not read again.                       *)
SameObservedBasis == definition = OriginalDefinition /\ envelope = RetainedEnvelope /\ transition = "REVIEW"

SameBasis ==
  /\ authority = before
  /\ definition = OriginalDefinition
  /\ envelope = RetainedEnvelope
  /\ transition = "REVIEW"

SameHistory ==
  /\ log = observed.actions /\ closed
  /\ view.writer = observed.view.writer

PlanRef == IF plan = None THEN None ELSE plan.id

CurrentGrant(planRef) == GrantCheck(grant, definition, before.version, request.id, planRef)

(* Mutant: the grant of the approval is taken for the one in force.         *)
FreshByApproval ==
  IF readFault = "missing" \/ ~(SameBasis /\ SameDocument(baseline)) THEN "HOLD_AMBIGUOUS" ELSE "PASS"

Fresh ==
  IF readFault = "missing" THEN "HOLD_AMBIGUOUS"
  ELSE IF ~(SameBasis /\ SameDocument(baseline)) THEN "HOLD_AMBIGUOUS"
  ELSE CurrentGrant(PlanRef)

FreshForRetry ==
  IF readFault = "missing" \/ ~(SameBasis /\ SameDocument(baseline)) THEN "HOLD_AMBIGUOUS"
  ELSE IF CurrentGrant(0) # "PASS" THEN CurrentGrant(0)
  ELSE IF NoEffectUnknown THEN "HOLD_AMBIGUOUS"
  ELSE IF ~NoEffectClear THEN "FAIL_NONRETRYABLE"
  ELSE "PASS"

(* Mutant: the grant is not checked again before publication.               *)
FreshWithoutGrant ==
  IF readFault = "missing" \/ ~(SameBasis /\ SameDocument(observed.view) /\ SameHistory)
  THEN "HOLD_AMBIGUOUS" ELSE "PASS"

FreshFinally ==
  IF readFault = "missing" THEN "HOLD_AMBIGUOUS"
  ELSE IF ~(SameBasis /\ SameDocument(observed.view) /\ SameHistory) THEN "HOLD_AMBIGUOUS"
  ELSE CurrentGrant(PlanRef)

-----------------------------------------------------------------------------
(* Seams.                                                                   *)

InjectGrant(kind) ==
  LET base == IF grant = None THEN DefaultGrant ELSE grant
      own  == kind = "approval_subject"
  IN  grant' = [base EXCEPT
        !.active   = CASE kind = "grant_unknown" -> "UNKNOWN" [] kind = "grant_inactive" -> "NO" [] OTHER -> "YES",
        !.human    = kind \in {"human_reserved", "approval_subject"},
        !.subject  = NoSubject,
        !.approved = own]

(* Between calls: the grant is replaced by a human approval of one plan.    *)
ApprovePlan ==
  /\ pc = "idle" /\ plan # None
  /\ grant' = [DefaultGrant EXCEPT !.human = TRUE, !.approved = TRUE,
                                   !.subject = [kind |-> "plan", ref |-> plan.id]]

Inject ==
  \E kind \in {i.kind : i \in {j \in Injections : j.seam = pc}} :
    /\ pc \notin visited /\ [seam |-> pc, kind |-> kind] \notin fired
    /\ Cardinality(fired) < MaxInjections
    /\ fired' = fired \cup {[seam |-> pc, kind |-> kind]}
    /\ \/ /\ kind = "authority"
          /\ authority' = [state |-> "REVIEW", version |-> authority.version + 1]
          /\ UNCHANGED <<supVars, provVars, definition, grant, readFault, transition, envelope, plan>>
       \/ /\ kind \in {"observation", "content"} /\ Prov!ForeignWrite(kind)
          /\ UNCHANGED <<supVars, authority, definition, grant, readFault, transition, envelope, plan>>
       \/ /\ \/ kind \in {"grant_inactive", "grant_unknown", "human_reserved", "approval_subject"} /\ InjectGrant(kind)
             \/ kind = "plan_approval" /\ ApprovePlan
          /\ UNCHANGED <<supVars, provVars, authority, definition, readFault, transition, envelope, plan>>
       \/ /\ kind = "definition" /\ definition' = 2
          /\ UNCHANGED <<supVars, provVars, authority, grant, readFault, transition, envelope, plan>>
       \/ /\ kind = "missing_read" /\ readFault' = "missing"
          /\ UNCHANGED <<supVars, provVars, authority, definition, grant, transition, envelope, plan>>
       \/ /\ \/ kind = "admitted" /\ Sup!InjectAdmission("YES")
             \/ kind = "unknown_admission" /\ Sup!InjectAdmission("UNKNOWN")
             \/ kind = "possible_effect" /\ Sup!SetPosture("POSSIBLE")
             \/ kind \in {"occurred_effect", "dispatch"} /\ Sup!SetPosture("OCCURRED")
             \/ kind = "unknown_effect" /\ Sup!SetPosture("UNKNOWN")
          /\ UNCHANGED <<provVars, authority, definition, grant, readFault, transition, envelope, plan>>
       \/ /\ kind = "envelope" /\ envelope # None
          /\ envelope' = [envelope EXCEPT !.target = "APPROVED"]
          /\ UNCHANGED <<supVars, provVars, authority, definition, grant, readFault, transition, plan>>
       \/ /\ kind = "plan_mode" /\ plan # None
          /\ plan' = [plan EXCEPT !.mode = "DELEGATED_REALIZATION"]
          /\ UNCHANGED <<supVars, provVars, authority, definition, grant, readFault, transition, envelope>>
       \/ /\ kind = "target" /\ transition # None /\ transition' = "APPROVED"
          /\ UNCHANGED <<supVars, provVars, authority, definition, grant, readFault, envelope, plan>>
    /\ UNCHANGED <<faults, visited, request, before, baseline, plans, validations, realVars, slots,
                   projection, ctlVars>>

-----------------------------------------------------------------------------
(* Calls.  A call names what the caller asked for, the key and mode it      *)
(* asked with, and the payload it presented to dispatch().                  *)

Idle == pc = "idle" /\ UNCHANGED <<provVars, seamVars, realVars, outVars, control>>

Begin(to, key, mode, presented, entry) ==
  /\ call' = [to |-> to, key |-> key, mode |-> mode, presented |-> presented]
  /\ pc' = entry
  /\ UNCHANGED <<planVars, ret>>

Answer(result) == ret' = result /\ UNCHANGED <<supVars, basisVars, planVars, pc, call>>

StartScope(to, req, key) ==
  /\ Sup!Start
  /\ request' = req
  /\ Begin(to, key, req.mode, "none", "started")
  /\ UNCHANGED <<before, baseline, transition, envelope>>

(* run(): a known key only looks up, a used runtime starts no second scope. *)
CallRun(req, key) ==
  /\ Idle
  /\ \/ /\ key \in DOMAIN index
        /\ \E binding \in {None, index[key].binding, [index[key].binding EXCEPT !.plan = 0]} :
             Answer(Lookup(key, req, binding))
     \/ key \notin DOMAIN index /\ attempts # << >> /\ Answer(Refused("NO_SCOPE_RESET"))
     \/ key \notin DOMAIN index /\ StartScope("run", req, key)

(* prepare() alone; a second one raises.                                    *)
CallPrepare(req) == Idle /\ StartScope("prepare", req, None)

(* realize(): does nothing without an envelope or after the last attempt    *)
(* ended; "mode" None takes the request's.                                  *)
Realizable == envelope # None /\ ~Current.terminal

CallRealize(key, mode) ==
  /\ Idle
  /\ \/ /\ ~Realizable
        /\ Answer(Result("TERMINAL"))
     \/ /\ Realizable
        /\ Begin("realize", key, IF mode = None THEN request.mode ELSE mode, "none", "plan")
        /\ UNCHANGED <<supVars, basisVars>>

(* Mutant: a dispatched key is not remembered.                              *)
NeverClaimed == FALSE

Claimed == Commit.key \in claims

(* dispatch(): with the commit claimed and no current plan, it raises where *)
(* it compares the binding, unless another payload was presented.           *)
CallDispatch(presented) ==
  /\ Idle /\ commits # << >>
  /\ plan = None => ~Claimed \/ presented = "other"
  /\ Begin("dispatch", Commit.key, request.mode, presented, "dispatch")
  /\ UNCHANGED <<supVars, basisVars>>

-----------------------------------------------------------------------------
(* prepare(): the approved WHAT.                                            *)

PolicyUsable == policy # None /\ PolicyValid(policy)

Sufficient == PolicyUsable /\ request.id # 0 /\ ~faults.insufficient

HoldIntent ==
  /\ pc = "started" /\ ~Sufficient
  /\ PolicyUsable => request.id # 0
  /\ UNCHANGED seamVars
  /\ StopCall("HOLD_AMBIGUOUS")

(* Line 233: retaining the intent raises through prepare() and run().       *)
LoseIntent ==
  /\ pc = "started" /\ PolicyUsable /\ request.id = 0
  /\ pc' = "idle" /\ call' = None
  /\ UNCHANGED <<supVars, provVars, seamVars, basisVars, planVars, realVars, outVars, control, ret>>

StructureIntent ==
  /\ pc = "started" /\ Sufficient
  /\ pc' = "initial"
  /\ UNCHANGED <<supVars, provVars, seamVars, basisVars, planVars, realVars, outVars, control, call, ret>>

MissInitialState ==
  /\ pc = "initial" /\ faults.readMissing
  /\ LeaveSeam
  /\ StopCall("HOLD_AMBIGUOUS")

ReadInitialState ==
  /\ pc = "initial" /\ ~faults.readMissing
  /\ LeaveSeam
  /\ baseline' = view /\ before' = authority /\ transition' = request.target
  /\ pc' = "what"
  /\ UNCHANGED <<supVars, provVars, request, envelope, planVars, realVars, outVars, control, call, ret>>

ValidWhat ==
  /\ request.known /\ request.target = "REVIEW"
  /\ before.state = "DRAFT" /\ baseline.state = "DRAFT"
  /\ baseline.exists /\ baseline.digest = "original"

(* Lines 257-306: selection, then validity, then authority.                 *)
WhatControl ==
  IF faults.unselectable THEN "HOLD_AMBIGUOUS"
  ELSE IF ~ValidWhat THEN "FAIL_NONRETRYABLE"
  ELSE CurrentGrant(None)

RefuseWhat ==
  /\ pc = "what" /\ WhatControl # "PASS"
  /\ UNCHANGED seamVars
  /\ StopCall(WhatControl)

ApproveWhat ==
  /\ pc = "what" /\ WhatControl = "PASS"
  /\ envelope' = RetainedEnvelope
  /\ Sup!Bind
  /\ UNCHANGED <<provVars, seamVars, request, before, baseline, transition, planVars, realVars, outVars, control>>
  /\ \/ call.to = "prepare" /\ Return(None)
     \/ call.to = "run" /\ pc' = "plan" /\ UNCHANGED <<call, ret>>

-----------------------------------------------------------------------------
(* realize(): plan until one is valid or no successor is granted.           *)

Defects == faults.defects
CurrentDefect == IF Current.number <= Len(Defects) THEN Defects[Current.number] ELSE ""

(* Mutant: a plan is named after its attempt.                               *)
ProposalOfAttempt == BuildInstruction(envelope, Len(attempts), Len(attempts), call.mode, CurrentDefect)

Proposal == BuildInstruction(envelope, Len(plans) + 1, Len(attempts), call.mode, CurrentDefect)

VerdictOn(p, kept) == ValidatePlan(p, kept, envelope, RetainedEnvelope, Len(attempts))

(* What is proposed has been retained.                                      *)
Verdict == VerdictOn(Proposal, Proposal)

ValidationOf(p, kept) ==
  [id |-> Len(validations) + 1, plan |-> p.id, attempt |-> Len(attempts), disposition |-> VerdictOn(p, kept)]

FailToPlan ==
  /\ pc = "plan" /\ Proposal = None
  /\ plan' = None
  /\ Stop("HOLD_AMBIGUOUS")
  /\ UNCHANGED <<provVars, seamVars, basisVars, plans, validations, realVars, outVars>>
  /\ Return(Result("TERMINAL")')

RetainPlan ==
  /\ pc = "plan" /\ Proposal # None
  /\ plan' = Proposal
  /\ plans' = Append(plans, Proposal)
  /\ validations' = Append(validations, ValidationOf(Proposal, Proposal))
  /\ UNCHANGED <<provVars, seamVars, basisVars, realVars, outVars>>

AcceptPlan ==
  /\ RetainPlan /\ Verdict = "PASS"
  /\ pc' = "pre_commit"
  /\ UNCHANGED <<supVars, control, call, ret>>

PlanFailure ==
  IF call.mode = "EXPLICIT_PLAN" /\ Verdict = "REFUSED" THEN Eligible ELSE "OTHER"

MayConsiderRetry ==
  /\ PlanFailure = Eligible
  /\ policy.enabled /\ policy.allows
  /\ ~faults.evidenceMissing
  /\ ledger.admission = "NO" /\ effectPosture = "NONE_ESTABLISHED"

RefusalControl ==
  IF Verdict = "HELD" THEN "HOLD_AMBIGUOUS"
  ELSE IF MayConsiderRetry THEN "REJECT_RETRYABLE"
  ELSE "FAIL_NONRETRYABLE"

RefusePlan ==
  /\ RetainPlan /\ Verdict # "PASS"
  /\ EndAttempt(RefusalControl, PlanFailure, ~faults.evidenceMissing)
  /\ \/ PlanFailure = Eligible /\ pc' = "retry" /\ UNCHANGED <<control, call, ret>>
     \/ PlanFailure # Eligible /\ control' = lastControl' /\ Return(Result("TERMINAL")')

(* Mutant: the supervisor is asked again until it grants a successor.       *)
InsistOnSuccessor ==
  /\ pc = "retry"
  /\ LeaveSeam
  /\ Sup!Successor(Len(attempts), call.mode, FreshForRetry, TRUE, faults.scheduleLost)
  /\ control' = lastControl'
  /\ pc' = IF granted' = 0 THEN "retry" ELSE "plan"
  /\ UNCHANGED <<provVars, basisVars, planVars, realVars, outVars, call, ret>>

RequestSuccessor ==
  /\ pc = "retry"
  /\ LeaveSeam
  /\ Sup!Successor(Len(attempts), call.mode, FreshForRetry, TRUE, faults.scheduleLost)
  /\ control' = lastControl'
  /\ UNCHANGED <<provVars, basisVars, planVars, realVars, outVars>>
  /\ \/ granted' = 0 /\ Return(Result("TERMINAL")')
     \/ granted' # 0 /\ pc' = "plan" /\ UNCHANGED <<call, ret>>

-----------------------------------------------------------------------------
(* admit(): the one commit of the scope.                                    *)

HoldCommit ==
  /\ pc = "pre_commit" /\ Fresh # "PASS"
  /\ LeaveSeam
  /\ StopCall(Fresh)

(* Mutant: the plan is not compared with what was retained and validated.   *)
AdmissibleAsIs ==
  /\ ~faults.commitUnretained
  /\ Validation.disposition = "PASS" /\ Validation.plan = plan.id
  /\ plan.attempt = Validation.attempt /\ plan.attempt = Len(attempts)

(* Mutant: a validation that passed is taken for one of the current plan.   *)
AdmissibleByAnyValidation ==
  /\ ~faults.commitUnretained
  /\ plan = plans[plan.id]
  /\ Validation.disposition = "PASS"
  /\ plan.attempt = Validation.attempt /\ plan.attempt = Len(attempts)

(* Lines 396-412: only the validated plan of the live attempt, unchanged.   *)
Admissible ==
  /\ ~faults.commitUnretained
  /\ plan = plans[plan.id]
  /\ Validation.disposition = "PASS" /\ Validation.plan = plan.id
  /\ plan.attempt = Validation.attempt /\ plan.attempt = Len(attempts)

FailToAdmit ==
  /\ pc = "pre_commit" /\ Fresh = "PASS" /\ ~(Admissible /\ Sup!CanAdmit)
  /\ LeaveSeam
  /\ StopCall("HOLD_AMBIGUOUS")

AdmitUnder(key) ==
  /\ Admissible
  /\ Sup!Admission
  /\ commits' = Append(commits, [plan |-> plan.id, validation |-> Validation.id,
                                 attempt |-> Len(attempts), key |-> key])
  /\ index' = [k \in DOMAIN index \cup {key} |->
                 IF k = key THEN [request |-> request, binding |-> Binding, result |-> None]
                 ELSE index[k]]
  /\ UNCHANGED <<provVars, basisVars, planVars, claims, pending, execution, observed, reconciliation,
                 outVars, control, call, ret>>

Admit ==
  /\ pc = "pre_commit" /\ Fresh = "PASS"
  /\ LeaveSeam
  /\ AdmitUnder(call.key)
  /\ pc' = "dispatch"

-----------------------------------------------------------------------------
(* The stages of realize() driven by hand between calls.  A plan built this *)
(* way becomes the current one.  Any plan may be validated, as it was       *)
(* retained or as a seam left it; admit() makes no freshness check of its   *)
(* own; it raises, and changes nothing, where it is not enabled.            *)

StagedDefect == {"", "target"}

CallBuild(mode, defect) ==
  /\ Idle /\ envelope # None /\ Len(plans) < MaxStaged
  /\ plan' = BuildInstruction(envelope, Len(plans) + 1, Len(attempts), mode, defect)
  /\ plans' = Append(plans, plan')
  /\ UNCHANGED <<validations, supVars, basisVars, pc, call, ret>>

CallValidate(p) ==
  /\ Idle /\ Len(validations) < MaxStaged
  /\ validations' = Append(validations, ValidationOf(p, plans[p.id]))
  /\ UNCHANGED <<plans, plan, supVars, basisVars, pc, call, ret>>

CallAdmit(key) ==
  /\ pc = "idle" /\ MaxStaged > 0 /\ plan # None /\ validations # << >>
  /\ AdmitUnder(key)
  /\ UNCHANGED <<seamVars, pc>>

-----------------------------------------------------------------------------
(* dispatch(): at most one invocation for the claimed commit.               *)

(* Lines 445-450: a claimed key is looked up, never dispatched again.       *)
RetrieveDispatch ==
  /\ pc = "dispatch" /\ Claimed
  /\ UNCHANGED <<supVars, provVars, seamVars, basisVars, planVars, realVars, outVars, control>>
  /\ Return(IF call.presented = "other" \/ Binding # index[Commit.key].binding
            THEN Refused("REFUSED_DUPLICATE")
            ELSE Lookup(Commit.key, request, None))

BeginDispatch ==
  /\ pc = "dispatch" /\ ~Claimed
  /\ pc' = "pre_dispatch"
  /\ UNCHANGED <<supVars, provVars, seamVars, basisVars, planVars, realVars, outVars, control, call, ret>>

(* Lines 452-480: what is dispatched is exactly what was committed.         *)
Unsubstituted ==
  /\ plan # None
  /\ call.presented # "other" /\ ~faults.substituted
  /\ plan = plans[plan.id] /\ plan.id = Commit.plan
  /\ envelope = RetainedEnvelope
  /\ Validation.id = Commit.validation /\ Validation.plan = plan.id
  /\ Commit.attempt = plan.attempt /\ Commit.attempt = Validation.attempt
  /\ ~Current.terminal

StopDispatch(ctl) ==
  /\ LeaveSeam
  /\ Stop(ctl)
  /\ UNCHANGED <<provVars, basisVars, planVars, commits, claims, pending, execution, observed,
                 reconciliation, outVars>>
  /\ Finish("TERMINAL")

(* Lines 452-463: no plan to compare with raises past the seam.             *)
RaiseDispatch ==
  /\ pc = "pre_dispatch" /\ plan = None
  /\ LeaveSeam
  /\ pc' = "idle" /\ call' = None
  /\ UNCHANGED <<supVars, provVars, basisVars, planVars, realVars, outVars, control, ret>>

RefuseDispatch ==
  /\ pc = "pre_dispatch" /\ plan # None /\ ~Unsubstituted
  /\ StopDispatch("FAIL_NONRETRYABLE")

HoldDispatch ==
  /\ pc = "pre_dispatch" /\ Unsubstituted /\ Fresh # "PASS"
  /\ StopDispatch(Fresh)

(* Capability.invoke(): what the handler requests, and what it reports.     *)
PlanningFails == faults.planningFails /\ plan.mode = "DELEGATED_REALIZATION"

Requested ==
  IF PlanningFails THEN << >>
  ELSE IF faults.requests # None THEN faults.requests
  ELSE <<[kind |-> "STATE", value |-> plan.steps[1].target, object |-> plan.steps[1].object]>>

Reported == IF PlanningFails \/ faults.raises THEN "FAILURE" ELSE faults.report

Invoke ==
  /\ pc = "pre_dispatch" /\ Unsubstituted /\ Fresh = "PASS"
  /\ LeaveSeam
  /\ claims' = claims \cup {Commit.key}
  /\ Sup!SetPosture("POSSIBLE")
  /\ Prov!OpenInterval(Len(commits))
  /\ pending' = Requested
  /\ pc' = "invoke"
  /\ UNCHANGED <<basisVars, planVars, commits, index, execution, observed, reconciliation, outVars,
                 control, call, ret>>

ApplyRequest ==
  /\ pc = "invoke" /\ pending # << >>
  /\ Prov!Apply(Head(pending), plan.steps[1].target, plan.steps[1].version, faults.invalidWrites)
  /\ pending' = Tail(pending)
  /\ UNCHANGED <<supVars, seamVars, basisVars, planVars, commits, index, claims, execution, observed,
                 reconciliation, outVars, ctlVars>>

(* Mutant: the handler's report is believed.                                *)
ReportedPosture ==
  IF Reported = "UNKNOWN" THEN "UNKNOWN" ELSE IF Reported = "SUCCESS" THEN "OCCURRED" ELSE "NONE_ESTABLISHED"

PostureAfter ==
  IF Reported = "UNKNOWN" THEN "UNKNOWN" ELSE IF log # << >> THEN "OCCURRED" ELSE "NONE_ESTABLISHED"

CompleteExecution ==
  /\ pc = "invoke" /\ pending = << >>
  /\ Prov!CloseInterval
  /\ Sup!SetPosture(PostureAfter)
  /\ execution' = Reported
  /\ pc' = "executed"
  /\ UNCHANGED <<seamVars, basisVars, planVars, commits, index, claims, pending, observed,
                 reconciliation, outVars, control, call, ret>>

(* Lines 516-518: a report other than SUCCESS ends the attempt.             *)
RecordExecution ==
  /\ pc = "executed"
  /\ \/ execution = "SUCCESS" /\ UNCHANGED <<supVars, control>>
     \/ execution = "UNKNOWN" /\ Stop("HOLD_AMBIGUOUS")
     \/ execution = "FAILURE" /\ Stop("FAIL_NONRETRYABLE")
  /\ pc' = "post_execution"
  /\ UNCHANGED <<provVars, seamVars, basisVars, planVars, realVars, outVars, call, ret>>

-----------------------------------------------------------------------------
(* Reconciliation, and the conditional publication of project().            *)

ReconcileEffects ==
  /\ pc = "post_execution"
  /\ LeaveSeam
  /\ observed' = Prov!Observe(faults.observation)
  /\ reconciliation' = Reconcile(execution, observed', baseline, log, invocation,
                                 envelope.target, authority.version # before.version)
  /\ pc' = "reserve"
  /\ UNCHANGED <<supVars, provVars, basisVars, planVars, commits, index, claims, pending, execution,
                 outVars, control, call, ret>>

(* Mutant: the slot is reserved before its retention fails.                 *)
LeaveOutcomeSlot ==
  /\ pc = "reserve" /\ faults.slotUnavailable
  /\ Stop("HOLD_AMBIGUOUS")
  /\ projection' = None /\ slots' = Append(slots, None)
  /\ UNCHANGED <<provVars, seamVars, basisVars, planVars, commits, claims, pending, execution, observed,
                 reconciliation, authority>>
  /\ Finish("COMPLETED")

LoseOutcomeSlot ==
  /\ pc = "reserve" /\ faults.slotUnavailable
  /\ Stop("HOLD_AMBIGUOUS")
  /\ projection' = None
  /\ UNCHANGED <<provVars, seamVars, basisVars, planVars, commits, claims, pending, execution, observed,
                 reconciliation, authority, slots>>
  /\ Finish("COMPLETED")

ReserveOutcomeSlot ==
  /\ pc = "reserve" /\ ~faults.slotUnavailable
  /\ slots' = Append(slots, None)
  /\ pc' = IF reconciliation = "RECONCILED_SUCCESS" THEN "final" ELSE "settle"
  /\ UNCHANGED <<supVars, provVars, seamVars, basisVars, planVars, realVars, authority, projection,
                 control, call, ret>>

Advanced == [state |-> envelope.target, version |-> authority.version + 1]

(* Mutant: the authority moves before the publication can fail.             *)
AuthorityOnDecision(decision) == IF decision = "PROJECT" THEN Advanced ELSE authority

AuthorityAfter(decision) == IF decision = "PROJECT" /\ faults.publication = "" THEN Advanced ELSE authority

(* Lines 155-203: one assignment publishes authority and decision; an       *)
(* injected publication failure turns the decision before it.               *)
Publish(decision) ==
  LET failed  == decision = "PROJECT" /\ faults.publication # ""
      applied == decision = "PROJECT" /\ ~failed
      final   == IF failed THEN "DO_NOT_PROJECT" ELSE decision
  IN  /\ projection' = [decision |-> final,
                        write |-> IF failed THEN "FAILED" ELSE IF applied THEN "APPLIED" ELSE "NOT_ATTEMPTED"]
      /\ slots' = [slots EXCEPT ![Len(slots)] = projection']
      /\ authority' = AuthorityAfter(decision)
      /\ \/ applied /\ UNCHANGED <<supVars, control>>
         \/ ~applied /\ Stop(IF final = "HOLD_PROJECTION" THEN "HOLD_AMBIGUOUS" ELSE "FAIL_NONRETRYABLE")
      /\ UNCHANGED <<provVars, basisVars, planVars, commits, claims, pending, execution, observed,
                     reconciliation>>
      /\ Finish("COMPLETED")

(* Lines 132-137: a known failure is refused, any other non-success held.   *)
SettleNonSuccess ==
  /\ pc = "settle"
  /\ UNCHANGED seamVars
  /\ Publish(IF reconciliation = "RECONCILIATION_FAILED" THEN "DO_NOT_PROJECT" ELSE "HOLD_PROJECTION")

(* Lines 147-152: the decision the final freshness check leaves.            *)
DecisionOf(ctl) ==
  CASE ctl = "PASS" -> "PROJECT"
    [] ctl \in {"FAIL_NONRETRYABLE", "HUMAN_AUTHORIZATION_REQUIRED"} -> "DO_NOT_PROJECT"
    [] OTHER -> "HOLD_PROJECTION"

SettleSuccess ==
  /\ pc = "final"
  /\ LeaveSeam
  /\ Publish(DecisionOf(FreshFinally))

-----------------------------------------------------------------------------
Call ==
  \/ \E req \in Requests : CallPrepare(req) \/ \E key \in Keys : CallRun(req, key)
  \/ \E key \in Keys, mode \in Mode \cup {None} : CallRealize(key, mode)
  \/ \E presented \in {"none", "exact", "other"} : CallDispatch(presented)

Staged ==
  \/ \E mode \in Mode, defect \in StagedDefect : CallBuild(mode, defect)
  \/ \E p \in {plans[i] : i \in DOMAIN plans} \cup ({plan} \ {None}) : CallValidate(p)
  \/ \E key \in Keys : CallAdmit(key)

Step ==
  \/ HoldIntent \/ LoseIntent \/ StructureIntent \/ MissInitialState \/ ReadInitialState \/ RefuseWhat \/ ApproveWhat
  \/ FailToPlan \/ AcceptPlan \/ RefusePlan \/ RequestSuccessor
  \/ HoldCommit \/ FailToAdmit \/ Admit
  \/ RetrieveDispatch \/ BeginDispatch \/ RaiseDispatch \/ RefuseDispatch \/ HoldDispatch \/ Invoke
  \/ ApplyRequest \/ CompleteExecution \/ RecordExecution
  \/ ReconcileEffects \/ LoseOutcomeSlot \/ ReserveOutcomeSlot \/ SettleNonSuccess \/ SettleSuccess

Next == Call \/ Staged \/ Inject \/ Step

(* The code of a call is straight-line and synchronous: once called, it     *)
(* runs.  Callers and outside changes promise nothing.                      *)
Spec == Init /\ [][Next]_vars /\ WF_vars(Step)
-----------------------------------------------------------------------------
(* Properties.                                                              *)

(* Every variable the runtime owns stays in its type: in particular a plan  *)
(* is found under its identity, a validation names a plan there is, and     *)
(* every result a commit there is.                                          *)
RuntimeTypeOK ==
  /\ authority \in Authoritative
  /\ envelope \in Envelope \cup {None}
  /\ plan \in Plan \cup {None} /\ plans \in Seq(Plan)
  /\ \A i \in DOMAIN plans : plans[i].id = i
  /\ \A i \in DOMAIN validations :
       validations[i].id = i /\ validations[i].plan \in DOMAIN plans /\ validations[i].disposition \in Gate
  /\ execution \in Report \cup {None} /\ reconciliation \in Outcome \cup {None}
  /\ claims \subseteq DOMAIN index
  /\ \A k \in DOMAIN index : index[k].result \in ResultType \cup {None}
  /\ control \in Control
  /\ ret \in ResultType \cup {None} /\ (ret # None => ret.commit <= Len(commits))

(* However often the caller comes back, the scope commits at most once, to  *)
(* a plan that passed validation as it was retained, for the last attempt;  *)
(* the binding kept under the key describes that plan, and the ledger never *)
(* forgets the admission.                                                   *)
SingleAdmission ==
  /\ Len(commits) <= 1
  /\ \A i \in DOMAIN commits :
       LET c == commits[i]
       IN  /\ validations[c.validation].disposition = "PASS"
           /\ validations[c.validation].plan = c.plan
           /\ plans[c.plan].attempt = c.attempt /\ c.attempt = Len(attempts)
           /\ index[c.key].binding.plan = c.plan
           /\ index[c.key].binding.mode = plans[c.plan].mode
           /\ ledger.admission # "NO"

Projected == projection # None /\ projection.decision = "PROJECT"

(* A projection is earned: when it is published, the one action that ever   *)
(* reached the provider is the approved one, applied by this commit to the  *)
(* very document that was approved and not touched since; the handler       *)
(* reported success; and the evidence in force still grants what was done.  *)
Earned ==
  /\ Len(log) = 1 /\ log[1].applied /\ ~log[1].forbidden
  /\ log[1].before = baseline /\ log[1].after = view
  /\ view.writer = Len(commits) /\ closed
  /\ execution = "SUCCESS"
  /\ CurrentGrant(Commit.plan) = "PASS"

EarnedStep == Projected' # Projected => Earned

ProjectionIsEarned == [][EarnedStep]_vars

(* A caller never gets its turn back with realization begun, no projection  *)
(* published and the attempt still open, or with a PASS: every way out of a *)
(* call that is not a projection is terminal and says why.                  *)
Answered == ret # None /\ ret.disposition \in {"TERMINAL", "COMPLETED"}

NonSuccessIsTerminal ==
  pc = "idle" /\ attempts # << >> /\ ~Projected /\ (envelope = None \/ Answered) =>
    Current.terminal /\ control # "PASS"

(* What is known of effects covers the effects there are: an attempt that   *)
(* reached the document, or tried to, is never recorded as effect-free,     *)
(* whatever the handler reported.                                           *)
PostureCoversEffects == log # << >> => effectPosture # "NONE_ESTABLISHED"

(* An outcome slot is reserved at most once and for an executed commit, is  *)
(* never left open once the call returns, and holds the projection the      *)
(* result reports.                                                          *)
OneOutcome ==
  /\ Len(slots) <= 1
  /\ slots # << >> => execution # None /\ reconciliation # None
  /\ pc = "idle" =>
       /\ \A i \in DOMAIN slots : slots[i] # None
       /\ projection = IF slots = << >> THEN None ELSE slots[1]

Settled == \E k \in claims : index[k].result # None

SettledKept ==
  Settled =>
    /\ UNCHANGED <<log, invocation, invocations, closed, slots, projection, commits, claims, execution,
                   reconciliation, index>>
    /\ fired' = fired => UNCHANGED <<view, authority>>

(* Once a claimed commit has its result, no later call of any kind, on any  *)
(* key, invokes or applies or decides anything again, or changes what is    *)
(* retained for a duplicate to find; and only an outside change still moves *)
(* the document or the authority.                                           *)
RealizationIsFinal == [][SettledKept]_vars

ReservationMet ==
  grant # None /\ (grant.human =>
    /\ grant.approved
    /\ grant.subject \in {[kind |-> "request", ref |-> request.id], [kind |-> "plan", ref |-> Commit.plan]})

RealizedAsReserved == (invocations' # invocations \/ Projected' # Projected) => ReservationMet

(* Where a human reserved the authority, what is invoked and what is        *)
(* published is exactly the request, or exactly the plan, the human named:  *)
(* an approval of one plan is never spent on the plan that replaced it.     *)
ApprovalNotTransferred == [][RealizedAsReserved]_vars

(* A caller who finds a commit incomplete may rely on nothing having        *)
(* happened under it: a commit that was invoked has its result by the time  *)
(* the call that invoked it gives the turn back.                            *)
IncompleteMeansUninvoked ==
  pc = "idle" =>
    /\ \A k \in DOMAIN index : index[k].result = None => k \notin claims
    /\ claims = {} => invocations = 0 /\ log = << >> /\ slots = << >>

(* Every call returns.                                                      *)
CallReturns == pc # "idle" ~> pc = "idle"

(* The runtime only ever drives the supervisor as the supervisor allows, so *)
(* what is proved of RetrySupervisor holds of the attempts of a runtime.    *)
SupervisorImplemented == Sup!Spec

(* The runtime implements the governed transition.                          *)
Document(v) == [state |-> v.state, version |-> v.version, digest |-> v.digest]

PlanInForce == IF commits = << >> THEN PlanRef ELSE Commit.plan

Governed == INSTANCE GovernedTransition WITH
  document  <- Document(view),
  permitted <- envelope # None /\ CurrentGrant(PlanInForce) = "PASS",
  basis     <- IF envelope = None THEN None
               ELSE [authority |-> before, document |-> Document(baseline)],
  stage     <- IF Projected THEN "published" ELSE IF invocations > 0 THEN "invoked"
               ELSE IF envelope # None THEN "approved" ELSE "open",
  outside   <- Cardinality(fired)

TransitionGoverned == Governed!Spec

-----------------------------------------------------------------------------
(* What the repository says of itself and the code does not do.             *)

RetainedKept == \A k \in DOMAIN index : index[k].result # None => index'[k] = index[k]

(* contracts.md:666: a retained incomplete result is returned as it is.     *)
(* dispatch() looks up only claimed keys: re-entered after a hold that came *)
(* before the claim, it rewrites the retained hold as a failure.            *)
RetainedResultsStable == [][RetainedKept]_vars

KnownKeyKept == call # None /\ call.key \in DOMAIN index => plans' = plans

(* contracts.md:662: the run-local key is checked before anything is read   *)
(* or planned.  realize() does not look its key up: called again with the   *)
(* key of a projected commit it plans anew and fails the attempt.           *)
KnownKeyIsLookedUp == [][KnownKeyKept]_vars

ReservedStep ==
  pc = "final" /\ FreshFinally = "HUMAN_AUTHORIZATION_REQUIRED" /\ pc' = "idle" =>
    control' = "HUMAN_AUTHORIZATION_REQUIRED"

(* contracts.md:614: a missing authorization reserved to a human is         *)
(* reported as such.  Found at the final check, it becomes a plain failure. *)
ReservedIsEscalated == [][ReservedStep]_vars

(* requirements.yaml S01-R21: every non-success attempt is terminal.  An    *)
(* intent the journal refuses raises through prepare() after the attempt    *)
(* has started, and nothing ever ends that attempt.                         *)
RefusedIntentIsTerminal == pc = "idle" /\ attempts # << >> /\ envelope = None => Current.terminal

=============================================================================
