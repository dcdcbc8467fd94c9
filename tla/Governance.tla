----------------------------- MODULE Governance -----------------------------
(***************************************************************************)
(* The decisions of governance.py, as operators: the scoped grant check,   *)
(* the construction of an execution plan from the approved envelope, and   *)
(* the validation of a plan against it.                                    *)
(*                                                                         *)
(* One runtime holds one transition, one approval and one envelope, so     *)
(* references to them are not modelled; plans and attempts are numbered.   *)
(* The definition is its version: the other fields never change.           *)
(***************************************************************************)
EXTENDS Contracts, Sequences

Defect == {"", "infeasible", "target", "object", "source", "implementation",
           "extra_step", "obligations"}

(* AuthorityEvidence.  "scoped" is the conjunction of the issuer, actor,    *)
(* object, capability, implementation and scope comparisons; "approved" of  *)
(* the decision, human issuer and policy of a human approval.  A subject    *)
(* names a request or a plan, or (kind "other") neither.                    *)
Subject == [kind : {"request", "plan", "other"}, ref : Nat]
Grant == [active : TriState, scoped : BOOLEAN, definition : Nat, source : Nat,
          human : BOOLEAN, subject : Subject, approved : BOOLEAN]

NoSubject == [kind |-> "other", ref |-> 0]

(* Mutant: an approval of some plan is one of this plan.                    *)
SubjectNamesSomePlan(grant, request, planRef) ==
  IF grant.subject.kind = "plan"
  THEN planRef # None
  ELSE grant.subject = [kind |-> "request", ref |-> request]

(* A human approval names either the plan that may run or the request.      *)
SubjectMatches(grant, request, planRef) ==
  IF grant.subject.kind = "plan"
  THEN grant.subject.ref = planRef
  ELSE grant.subject = [kind |-> "request", ref |-> request]

(* grant_check(): planRef is None before a plan exists, and 0 stands for    *)
(* the plan a successor has yet to produce, which no approval can name.     *)
GrantCheck(grant, definition, source, request, planRef) ==
  IF grant = None THEN "FAIL_NONRETRYABLE"
  ELSE IF grant.active = "UNKNOWN" THEN "HOLD_AMBIGUOUS"
  ELSE IF ~ /\ grant.active = "YES" /\ grant.scoped
            /\ grant.definition = definition /\ grant.source = source
       THEN "FAIL_NONRETRYABLE"
  ELSE IF grant.human /\ ~(SubjectMatches(grant, request, planRef) /\ grant.approved)
       THEN "HUMAN_AUTHORIZATION_REQUIRED"
  ELSE "PASS"

-----------------------------------------------------------------------------
(* The envelope's immutable bounds, and a step of a plan with the fixed     *)
(* input it hands to the capability.  "integral" is false of the bool the   *)
(* "source" defect puts where the observation version belongs: it equals 1  *)
(* and is no integer.                                                       *)
Envelope == [target : {"REVIEW", "APPROVED"}, authority : Nat, observation : Nat]
PlanStep == [implementation : {"registered", "unregistered"}, object : {"DOC-001", "OTHER"},
         target : {"REVIEW", "APPROVED"}, version : Nat, integral : BOOLEAN]
Plan == [id : Nat, attempt : Nat, mode : Mode, steps : Seq(PlanStep), obligations : BOOLEAN]

ExpectedStep(e) ==
  [implementation |-> "registered", object |-> "DOC-001", target |-> e.target,
   version |-> e.observation, integral |-> TRUE]

ProposedStep(e, defect) ==
  CASE defect = "target"         -> [ExpectedStep(e) EXCEPT !.target = "APPROVED"]
    [] defect = "object"         -> [ExpectedStep(e) EXCEPT !.object = "OTHER"]
    [] defect = "source"         -> [ExpectedStep(e) EXCEPT !.version = 1, !.integral = FALSE]
    [] defect = "implementation" -> [ExpectedStep(e) EXCEPT !.implementation = "unregistered"]
    [] OTHER                     -> ExpectedStep(e)

(* build_instruction(): None when planning is infeasible.                   *)
BuildInstruction(e, id, attempt, mode, defect) ==
  IF defect = "infeasible" THEN None
  ELSE LET step == ProposedStep(e, defect)
       IN  [id |-> id, attempt |-> attempt, mode |-> mode,
            steps |-> IF defect = "extra_step" THEN <<step, step>> ELSE <<step>>,
            obligations |-> defect # "obligations"]

(* validate_plan(): "kept" is what the journal retains under the plan's     *)
(* identity, the retained envelope is what the approval bound.              *)
ValidatePlan(p, kept, e, retained, attempt) ==
  IF ~p.obligations THEN "HELD"
  ELSE IF /\ p = kept /\ e = retained
          /\ Len(p.steps) = 1
          /\ p.steps[1] = ExpectedStep(e)
          /\ p.attempt = attempt
       THEN "PASS"
       ELSE "REFUSED"
=============================================================================
