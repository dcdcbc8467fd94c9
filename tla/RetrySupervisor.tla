--------------------------- MODULE RetrySupervisor ---------------------------
(***************************************************************************)
(* The supervisor of one operation scope (retry.py): the chain of          *)
(* attempts, the ledger that counts them, and the separately guarded       *)
(* allocation of a fresh attempt after an eligible plan failure.           *)
(*                                                                         *)
(* An attempt's identity is its position in the chain.  Every operation of *)
(* Supervisor is an action; successor() returns at five places, and each   *)
(* is an action of its own.  The two environment actions are the writes    *)
(* the runtime makes to the supervisor's fields from outside (seam         *)
(* injections and the dispatch posture).  An operation that raises changes *)
(* nothing, so its raise is the negation of its guard.                     *)
(***************************************************************************)
EXTENDS Contracts, Sequences, FiniteSets

CONSTANT Policies         \* the retry policies a supervisor may be built with

LedgerType == [policyRef : Policies \cup {None}, created : Nat, active : Nat,
               scheduled : Nat, admission : TriState,
               circuit : {"CLOSED", "OPEN"}, schedulingKnown : BOOLEAN]

ASSUME PoliciesAssumption == Policies \subseteq RetryPolicy
ASSUME NoneAssumption == None \notin RetryPolicy \cup LedgerType \cup Int \cup FailureClass

VARIABLES
  policy,          \* the policy given to the constructor, or None
  attempts,        \* the chain; the last one is current
  ledger,          \* None until a scope is bound
  failureRefs,     \* attempts whose terminal failure evidence is retained
  schedules,       \* prior attempt |-> the successor allocated for it
  effectPosture,   \* what is known of effects in this scope
  lastControl,     \* the disposition last emitted
  granted          \* what the last successor() call returned, 0 for None

vars == <<policy, attempts, ledger, failureRefs, schedules, effectPosture,
          lastControl, granted>>

Current == attempts[Len(attempts)]

Attempt == [number : Nat, prior : Nat, terminal : BOOLEAN,
            failure : FailureClass \cup {None}]

NewAttempt(number, prior) ==
  [number |-> number, prior |-> prior, terminal |-> FALSE, failure |-> None]

-----------------------------------------------------------------------------
Init ==
  /\ policy \in Policies \cup {None}
  /\ attempts = << >>
  /\ ledger = None
  /\ failureRefs = {}
  /\ schedules = [a \in {} |-> 0]
  /\ effectPosture = "NONE_ESTABLISHED"
  /\ lastControl = "PASS"
  /\ granted = 0

(* start(): the one initial attempt, before any scope exists.               *)
Start ==
  /\ attempts = << >>
  /\ attempts' = <<NewAttempt(1, 0)>>
  /\ lastControl' = "PASS"
  /\ UNCHANGED <<policy, ledger, failureRefs, schedules, effectPosture, granted>>

(* Mutant: the scope starts its count at zero.                              *)
UncountedLedger == [policyRef |-> policy, created |-> 0, active |-> Len(attempts),
                    scheduled |-> 0, admission |-> "NO", circuit |-> "CLOSED",
                    schedulingKnown |-> TRUE]

OpenedLedger == [policyRef |-> policy, created |-> 1, active |-> Len(attempts),
                 scheduled |-> 0, admission |-> "NO", circuit |-> "CLOSED",
                 schedulingKnown |-> TRUE]

(* bind(): opens the ledger and counts the current attempt once.            *)
Bind ==
  /\ ledger = None /\ attempts # << >>
  /\ ledger' = OpenedLedger
  /\ lastControl' = "PASS"
  /\ UNCHANGED <<policy, attempts, failureRefs, schedules, effectPosture, granted>>

(* Mutant: fail() without its early return on a terminal attempt.          *)
CanFailAgain == attempts # << >>

CanFail == attempts # << >> /\ ~Current.terminal

(* Mutant: the evidence is filed under the attempt to come.                 *)
MisfiledEvidence(retain) == IF retain THEN failureRefs \cup {Len(attempts) + 1} ELSE failureRefs

Evidence(retain) == IF retain THEN failureRefs \cup {Len(attempts)} ELSE failureRefs

(* fail(): ends the current attempt for good; without CanFail it is a no-op.*)
Fail(control, class, retain) ==
  /\ CanFail
  /\ attempts' = [attempts EXCEPT ![Len(attempts)] =
                     [@ EXCEPT !.terminal = TRUE, !.failure = class]]
  /\ ledger' = IF ledger = None THEN None ELSE [ledger EXCEPT !.active = 0]
  /\ failureRefs' = Evidence(retain)
  /\ lastControl' = IF retain THEN control ELSE "HOLD_AMBIGUOUS"
  /\ UNCHANGED <<policy, schedules, effectPosture, granted>>

CanAdmit ==
  /\ ledger # None
  /\ ~Current.terminal
  /\ ledger.active = Len(attempts)
  /\ ledger.circuit = "CLOSED"
  /\ ledger.schedulingKnown
  /\ ledger.admission = "NO"

(* admission(): the attempt is the one the scope lets realize.              *)
Admission ==
  /\ CanAdmit
  /\ ledger' = [ledger EXCEPT !.admission = "YES"]
  /\ UNCHANGED <<policy, attempts, failureRefs, schedules, effectPosture,
                 lastControl, granted>>

-----------------------------------------------------------------------------
(* successor(prior, mode, fresh, evidence, lost).  "fresh" is the control   *)
(* the caller's freshness check returned, "evidence" whether it passed any  *)
(* check references, "lost" the scheduling failure.                         *)

ConsidersSuccessor(prior) ==
  /\ prior \notin DOMAIN schedules
  /\ attempts # << >>
  /\ prior = Len(attempts)
  /\ Current.terminal
  /\ ledger # None

(* Mutant: only the effect posture is consulted, not the admission.         *)
PostureControl ==
  IF effectPosture = "UNKNOWN" THEN "HOLD_AMBIGUOUS"
  ELSE IF effectPosture # "NONE_ESTABLISHED" THEN "FAIL_NONRETRYABLE"
  ELSE "PASS"

(* Lines 125-128: no successor after an admission or a possible effect.     *)
EffectControl ==
  IF ledger.admission = "UNKNOWN" \/ effectPosture = "UNKNOWN" THEN "HOLD_AMBIGUOUS"
  ELSE IF ledger.admission = "YES" \/ effectPosture # "NONE_ESTABLISHED" THEN "FAIL_NONRETRYABLE"
  ELSE "PASS"

(* The first guard that fails decides the refusal.                          *)
EligibilityControl(prior, mode, fresh, evidence) ==
  IF EffectControl # "PASS" THEN EffectControl
  ELSE IF mode # "EXPLICIT_PLAN" \/ Current.failure # Eligible THEN "FAIL_NONRETRYABLE"
  ELSE IF policy = None THEN "HOLD_AMBIGUOUS"
  ELSE IF ~PolicyValid(policy) \/ prior \notin failureRefs THEN "HOLD_AMBIGUOUS"
  ELSE IF policy # ledger.policyRef THEN "HOLD_AMBIGUOUS"
  ELSE IF ~policy.enabled \/ ~policy.allows THEN "FAIL_NONRETRYABLE"
  ELSE IF ~ledger.schedulingKnown \/ ledger.active # 0 \/ ledger.scheduled # 0 THEN "HOLD_AMBIGUOUS"
  ELSE IF fresh # "PASS" THEN fresh
  ELSE IF ~evidence THEN "HOLD_AMBIGUOUS"
  ELSE "PASS"

Failures == {i \in DOMAIN attempts : attempts[i].terminal /\ attempts[i].failure = Current.failure}

(* Mutant: one attempt more than the policy counts.                         *)
ExhaustedLate ==
  \/ ledger.circuit = "OPEN"
  \/ ledger.created > policy.max
  \/ policy.threshold # None /\ Cardinality(Failures) >= policy.threshold

(* Mutant: the circuit opens with an attempt still to spend.                *)
ExhaustedEarly ==
  \/ ledger.circuit = "OPEN"
  \/ ledger.created + 1 >= policy.max
  \/ policy.threshold # None /\ Cardinality(Failures) >= policy.threshold

Exhausted ==
  \/ ledger.circuit = "OPEN"
  \/ ledger.created >= policy.max
  \/ policy.threshold # None /\ Cardinality(Failures) >= policy.threshold

EligibleFor(prior, mode, fresh, evidence) ==
  /\ ConsidersSuccessor(prior)
  /\ EligibilityControl(prior, mode, fresh, evidence) = "PASS"

(* Lines 118-119: a retained allocation is only ever retrieved.             *)
Retrieve(prior) ==
  /\ prior \in DOMAIN schedules
  /\ granted' = schedules[prior]
  /\ UNCHANGED <<policy, attempts, ledger, failureRefs, schedules, effectPosture, lastControl>>

(* Lines 121-123 and 144-147: no successor, and the reason is emitted.      *)
Refuse(prior, mode, fresh, evidence) ==
  /\ prior \notin DOMAIN schedules
  /\ \/ /\ ~ConsidersSuccessor(prior)
        /\ lastControl' = "FAIL_NONRETRYABLE"
     \/ /\ ConsidersSuccessor(prior)
        /\ EligibilityControl(prior, mode, fresh, evidence) # "PASS"
        /\ lastControl' = EligibilityControl(prior, mode, fresh, evidence)
  /\ granted' = 0
  /\ UNCHANGED <<policy, attempts, ledger, failureRefs, schedules, effectPosture>>

(* Lines 150-161: the finite budget or the repeated-failure threshold.      *)
OpenCircuit(prior, mode, fresh, evidence) ==
  /\ EligibleFor(prior, mode, fresh, evidence)
  /\ Exhausted
  /\ ledger' = [ledger EXCEPT !.circuit = "OPEN"]
  /\ lastControl' = "CIRCUIT_OPEN"
  /\ granted' = 0
  /\ UNCHANGED <<policy, attempts, failureRefs, schedules, effectPosture>>

(* Lines 162-167: the allocation could not be retained; no refund.          *)
LoseSchedule(prior, mode, fresh, evidence, lost) ==
  /\ EligibleFor(prior, mode, fresh, evidence)
  /\ ~Exhausted /\ lost
  /\ ledger' = [ledger EXCEPT !.schedulingKnown = FALSE]
  /\ lastControl' = "HOLD_AMBIGUOUS"
  /\ granted' = 0
  /\ UNCHANGED <<policy, attempts, failureRefs, schedules, effectPosture>>

(* Mutant: the allocation is not retained as the prior's schedule.          *)
ScheduleLost(prior) == schedules

ScheduleOf(prior) ==
  [a \in DOMAIN schedules \cup {prior} |-> IF a = prior THEN Len(attempts) + 1 ELSE schedules[a]]

(* Lines 168-183: a distinct fresh attempt that names the one it follows.   *)
Allocate(prior, mode, fresh, evidence, lost) ==
  /\ EligibleFor(prior, mode, fresh, evidence)
  /\ ~Exhausted /\ ~lost
  /\ attempts' = Append(attempts, NewAttempt(ledger.created + 1, prior))
  /\ ledger' = [ledger EXCEPT !.created = @ + 1, !.active = Len(attempts) + 1]
  /\ schedules' = ScheduleOf(prior)
  /\ lastControl' = "PASS"
  /\ granted' = Len(attempts) + 1
  /\ UNCHANGED <<policy, failureRefs, effectPosture>>

Successor(prior, mode, fresh, evidence, lost) ==
  \/ Retrieve(prior)
  \/ Refuse(prior, mode, fresh, evidence)
  \/ OpenCircuit(prior, mode, fresh, evidence)
  \/ LoseSchedule(prior, mode, fresh, evidence, lost)
  \/ Allocate(prior, mode, fresh, evidence, lost)

-----------------------------------------------------------------------------
(* Writes from outside.  A seam may mark the scope admitted or its          *)
(* admission unknown, never back to "NO"; the posture may become anything.  *)
InjectAdmission(seen) ==
  /\ ledger # None
  /\ ledger' = [ledger EXCEPT !.admission = seen]
  /\ UNCHANGED <<policy, attempts, failureRefs, schedules, effectPosture,
                 lastControl, granted>>

SetPosture(posture) ==
  /\ effectPosture' = posture
  /\ UNCHANGED <<policy, attempts, ledger, failureRefs, schedules, lastControl, granted>>

(* prepare() returns at every stop before it binds: the attempt is live.    *)
CallBind == Bind /\ ~Current.terminal

CallSuccessor ==
  \E prior \in 1..(Len(attempts) + 1), mode \in Mode, fresh \in Control,
     evidence \in BOOLEAN, lost \in BOOLEAN : Successor(prior, mode, fresh, evidence, lost)

CallFail ==
  \E control \in Control \ {"PASS"}, class \in FailureClass, retain \in BOOLEAN :
    Fail(control, class, retain)

Environment ==
  \/ \E seen \in {"YES", "UNKNOWN"} : InjectAdmission(seen)
  \/ \E posture \in EffectPosture : SetPosture(posture)

Next == Start \/ CallBind \/ CallFail \/ Admission \/ CallSuccessor \/ Environment

Spec == Init /\ [][Next]_vars

-----------------------------------------------------------------------------
(* Properties.                                                              *)

(* Every variable stays in its type: numbers and references are natural,    *)
(* the current attempt's record is well formed, schedules maps attempts.    *)
TypeOK ==
  /\ policy \in Policies \cup {None}
  /\ attempts \in Seq(Attempt)
  /\ ledger \in LedgerType \cup {None}
  /\ failureRefs \subseteq DOMAIN attempts
  /\ DOMAIN schedules \subseteq DOMAIN attempts
  /\ \A a \in DOMAIN schedules : schedules[a] \in DOMAIN attempts
  /\ effectPosture \in EffectPosture
  /\ lastControl \in Control
  /\ granted \in Nat

(* What the policy allows in one scope, the initial attempt included.       *)
RetriesAllowed ==
  policy # None /\ PolicyValid(policy) /\ policy.enabled /\ policy.allows

(* max_attempts counts the initial attempt and every successor, a repeated- *)
(* failure threshold ends the scope no later, and without an enabled valid  *)
(* policy the initial attempt is the only one (contracts.md, Bounded Retry).*)
AttemptBudget ==
  /\ Len(attempts) > 1 => RetriesAllowed
  /\ RetriesAllowed =>
       /\ Len(attempts) <= policy.max
       /\ policy.threshold # None => Len(attempts) <= policy.threshold

(* The attempts form one chain: each successor is numbered by its place,    *)
(* names the attempt before it, and that attempt ended with the eligible    *)
(* failure, its evidence retained; the schedule that allocated it leads to  *)
(* it and to no other, and is what successor() returned.                    *)
Lineage ==
  /\ DOMAIN schedules = 1 .. (Len(attempts) - 1)
  /\ \A i \in DOMAIN attempts :
       /\ attempts[i].number = i /\ attempts[i].prior = i - 1
       /\ i < Len(attempts) => /\ attempts[i].terminal /\ attempts[i].failure = Eligible
                               /\ i \in failureRefs
                               /\ schedules[i] = i + 1
  /\ granted # 0 => granted \in DOMAIN attempts /\ granted > 1

(* The ledger counts exactly the attempts that exist and holds the current  *)
(* attempt active exactly while it is not terminal: one live attempt, and   *)
(* no live attempt the ledger does not know of once the scope is bound.     *)
LedgerAgreement ==
  ledger # None =>
    /\ attempts # << >>
    /\ ledger.created = Len(attempts)
    /\ ledger.active = IF Current.terminal THEN 0 ELSE Len(attempts)

EligibleFailures == {i \in DOMAIN attempts : attempts[i].terminal /\ attempts[i].failure = Eligible}

(* The circuit opens only on a spent budget or a met threshold, and finds   *)
(* no attempt still running.                                                *)
CircuitOpenMeansExhausted ==
  ledger # None /\ ledger.circuit = "OPEN" =>
    /\ RetriesAllowed /\ Current.terminal
    /\ \/ Len(attempts) = policy.max
       \/ policy.threshold # None /\ Cardinality(EligibleFailures) >= policy.threshold

TerminalKept ==
  /\ Len(attempts') >= Len(attempts)
  /\ \A i \in DOMAIN attempts : attempts[i].terminal => attempts'[i] = attempts[i]

(* A terminal attempt is never changed, reopened or dropped, and the chain  *)
(* only grows ("immutable terminal attempts", retry.py:1).                  *)
TerminalIsFinal == [][TerminalKept]_vars

ScopeClosed ==
  ledger # None /\ (ledger.admission # "NO" \/ ledger.circuit = "OPEN" \/ ~ledger.schedulingKnown)

ClosedScopeKept == ScopeClosed => ScopeClosed' /\ Len(attempts') = Len(attempts)

(* Once the scope is admitted (or its admission unknown), its circuit open  *)
(* or its scheduling lost, no later call of any kind reopens it, and no     *)
(* attempt is ever allocated in it again.                                   *)
ClosedScopeStaysClosed == [][ClosedScopeKept]_vars
=============================================================================
