----------------------- MODULE RetrySupervisor_proofs -----------------------
(***************************************************************************)
(* Theorems about RetrySupervisor for every set of policies.               *)
(*                                                                         *)
(* None of the safety properties is inductive alone.  The budget counts    *)
(* attempts, while the guard that protects it reads the ledger's counter   *)
(* and the number of failed attempts: the two meet in LedgerAgreement (the *)
(* counter is the length of the chain) and Lineage (every attempt of the   *)
(* chain but the last failed in the eligible class).  IndInv is their      *)
(* conjunction with the fact that nothing succeeds before a scope exists.  *)
(***************************************************************************)
EXTENDS RetrySupervisor, SequenceTheorems, FiniteSetTheorems, TLAPS

UnboundScopeIsFresh == ledger = None => Len(attempts) <= 1

IndInv ==
  /\ TypeOK
  /\ Lineage
  /\ LedgerAgreement
  /\ AttemptBudget
  /\ CircuitOpenMeansExhausted
  /\ UnboundScopeIsFresh

-----------------------------------------------------------------------------
(* A non-empty chain has a current attempt, and it is a record.             *)
LEMMA CurrentAttempt ==
  ASSUME TypeOK, attempts # << >>
  PROVE  /\ Len(attempts) \in Nat \ {0}
         /\ DOMAIN attempts = 1 .. Len(attempts)
         /\ Len(attempts) \in DOMAIN attempts
         /\ Current \in Attempt
<1>1. attempts \in Seq(Attempt)
  BY DEF TypeOK
<1>2. /\ Len(attempts) \in Nat \ {0}
      /\ DOMAIN attempts = 1 .. Len(attempts)
  BY <1>1, EmptySeq, LenProperties
<1>3. Len(attempts) \in DOMAIN attempts
  BY <1>2
<1>4. Current \in Attempt
  BY <1>1, <1>2, ElementOfSeq DEF Current
<1> QED
  BY <1>2, <1>3, <1>4

(* When the current attempt ended in the eligible class, every attempt did: *)
(* the failures the threshold counts are as many as the chain is long.      *)
LEMMA AllFailedEligibly ==
  ASSUME TypeOK, Lineage, attempts # << >>, Current.terminal, Current.failure = Eligible
  PROVE  /\ Failures = 1 .. Len(attempts)
         /\ EligibleFailures = 1 .. Len(attempts)
         /\ Cardinality(1 .. Len(attempts)) = Len(attempts)
<1>1. /\ Len(attempts) \in Nat \ {0}
      /\ DOMAIN attempts = 1 .. Len(attempts)
  BY CurrentAttempt
<1>2. \A i \in 1 .. Len(attempts) : attempts[i].terminal /\ attempts[i].failure = Eligible
  BY <1>1 DEF Lineage, Current
<1>3. Failures = 1 .. Len(attempts) /\ EligibleFailures = 1 .. Len(attempts)
  BY <1>1, <1>2 DEF Failures, EligibleFailures
<1>4. Cardinality(1 .. Len(attempts)) = Len(attempts)
  BY <1>1, FS_Interval
<1> QED
  BY <1>3, <1>4

(* What the guards of successor() have established once they all passed.    *)
LEMMA EligibleMeans ==
  ASSUME TypeOK, NEW prior, NEW mode, NEW fresh, NEW evidence,
         EligibleFor(prior, mode, fresh, evidence)
  PROVE  /\ prior = Len(attempts) /\ prior \notin DOMAIN schedules
         /\ attempts # << >>
         /\ ledger # None /\ ledger \in LedgerType
         /\ Current.terminal /\ Current.failure = Eligible
         /\ prior \in failureRefs
         /\ ledger.admission = "NO" /\ ledger.schedulingKnown
         /\ RetriesAllowed
<1>1. /\ ConsidersSuccessor(prior)
      /\ EligibilityControl(prior, mode, fresh, evidence) = "PASS"
  BY DEF EligibleFor
<1>2. /\ ledger.admission # "UNKNOWN" /\ ledger.admission # "YES"
      /\ Current.failure = Eligible
      /\ prior \in failureRefs
      /\ ledger.schedulingKnown
      /\ policy # None /\ PolicyValid(policy) /\ policy.enabled /\ policy.allows
  BY <1>1, Zenon DEF EligibilityControl, EffectControl
<1>3. ledger \in LedgerType
  BY <1>1 DEF ConsidersSuccessor, TypeOK
<1>4. ledger.admission = "NO"
  BY <1>2, <1>3 DEF LedgerType, TriState
<1> QED
  BY <1>1, <1>2, <1>3, <1>4 DEF ConsidersSuccessor, RetriesAllowed

-----------------------------------------------------------------------------
(* One lemma per operation: it preserves the inductive invariant.           *)

LEMMA InitIndInv == Init => IndInv
<1> SUFFICES ASSUME Init PROVE IndInv
  OBVIOUS
<1>1. attempts = << >> /\ Len(attempts) = 0 /\ DOMAIN attempts = {} /\ attempts \in Seq(Attempt)
  BY EmptySeq, LenProperties DEF Init
<1>2. DOMAIN schedules = {}
  BY DEF Init
<1>3. TypeOK
  BY <1>1, <1>2 DEF Init, TypeOK, EffectPosture, Control
<1>4. Lineage
  BY <1>1, <1>2 DEF Init, Lineage
<1>5. LedgerAgreement /\ CircuitOpenMeansExhausted /\ UnboundScopeIsFresh
  BY <1>1 DEF Init, LedgerAgreement, CircuitOpenMeansExhausted, UnboundScopeIsFresh
<1>6. AttemptBudget
  <2>1. policy # None => policy \in RetryPolicy
    BY PoliciesAssumption DEF Init
  <2> QED
    BY <1>1, <2>1 DEF AttemptBudget, RetriesAllowed, PolicyValid, RetryPolicy
<1> QED
  BY <1>3, <1>4, <1>5, <1>6 DEF IndInv

LEMMA StartPreserves ==
  ASSUME IndInv, Start
  PROVE  IndInv'
<1> DEFINE first == NewAttempt(1, 0)
<1>1. first \in Attempt /\ ~first.terminal
  BY DEF NewAttempt, Attempt
<1>2. /\ attempts' = <<first>> /\ attempts' \in Seq(Attempt)
      /\ Len(attempts') = 1 /\ DOMAIN attempts' = {1} /\ attempts'[1] = first
  BY <1>1 DEF Start
<1>3. /\ Len(attempts) = 0 /\ DOMAIN attempts = {}
  BY DEF Start
<1>4. UNCHANGED <<policy, ledger, failureRefs, schedules, effectPosture, granted>> /\ lastControl' = "PASS"
  BY DEF Start
<1>5. ledger = None
  BY <1>3 DEF IndInv, LedgerAgreement, Start
<1>6. DOMAIN schedules = {} /\ failureRefs = {}
  BY <1>3 DEF IndInv, TypeOK
<1>7. TypeOK'
  BY <1>2, <1>4, <1>6 DEF IndInv, TypeOK, Control
<1>8. granted = 0
  BY <1>3 DEF IndInv, Lineage
<1>9. Lineage'
  BY <1>2, <1>4, <1>6, <1>8 DEF Lineage, NewAttempt
<1>10. LedgerAgreement' /\ CircuitOpenMeansExhausted' /\ UnboundScopeIsFresh'
  BY <1>2, <1>4, <1>5 DEF LedgerAgreement, CircuitOpenMeansExhausted, UnboundScopeIsFresh
<1>11. AttemptBudget'
  <2>1. policy # None => policy \in RetryPolicy
    BY PoliciesAssumption DEF IndInv, TypeOK
  <2> QED
    BY <1>2, <1>4, <2>1 DEF AttemptBudget, RetriesAllowed, PolicyValid, RetryPolicy
<1> QED
  BY <1>7, <1>9, <1>10, <1>11 DEF IndInv

LEMMA BindPreserves ==
  ASSUME IndInv, CallBind
  PROVE  IndInv'
<1>1. UNCHANGED <<policy, attempts, failureRefs, schedules, effectPosture, granted>> /\ lastControl' = "PASS"
  BY DEF CallBind, Bind
<1>2. ledger = None /\ attempts # << >> /\ ~Current.terminal
  BY DEF CallBind, Bind
<1>3. Len(attempts) = 1
  BY <1>2, CurrentAttempt DEF IndInv, UnboundScopeIsFresh
<1>4. /\ ledger' \in LedgerType /\ ledger'.created = 1 /\ ledger'.active = 1
      /\ ledger'.circuit = "CLOSED"
  BY <1>3 DEF CallBind, Bind, OpenedLedger, LedgerType, TriState, IndInv, TypeOK
<1>5. TypeOK'
  BY <1>1, <1>4 DEF IndInv, TypeOK, Control
<1>6. Lineage' /\ AttemptBudget'
  BY <1>1 DEF IndInv, Lineage, AttemptBudget, RetriesAllowed
<1>7. LedgerAgreement' /\ CircuitOpenMeansExhausted'
  BY <1>1, <1>2, <1>3, <1>4 DEF LedgerAgreement, CircuitOpenMeansExhausted, Current
<1>8. UnboundScopeIsFresh'
  BY <1>1, <1>3 DEF UnboundScopeIsFresh
<1> QED
  BY <1>5, <1>6, <1>7, <1>8 DEF IndInv

LEMMA FailPreserves ==
  ASSUME IndInv, NEW control \in Control, NEW class \in FailureClass, NEW retain \in BOOLEAN,
         Fail(control, class, retain)
  PROVE  IndInv'
<1> DEFINE n == Len(attempts)
           ended == [Current EXCEPT !.terminal = TRUE, !.failure = class]
<1>1. attempts # << >> /\ ~Current.terminal
  BY DEF Fail, CanFail
<1>2. n \in Nat \ {0} /\ DOMAIN attempts = 1 .. n /\ n \in DOMAIN attempts /\ Current \in Attempt
  BY <1>1, CurrentAttempt DEF IndInv
<1>3. /\ ended \in Attempt /\ ended.terminal /\ ended.failure = class
      /\ ended.number = Current.number /\ ended.prior = Current.prior
  BY <1>2 DEF Attempt
<1>4. attempts' = [attempts EXCEPT ![n] = ended]
  BY DEF Fail, Current
<1>5. /\ attempts' \in Seq(Attempt) /\ Len(attempts') = n /\ DOMAIN attempts' = 1 .. n
      /\ \A i \in 1 .. n : attempts'[i] = IF i = n THEN ended ELSE attempts[i]
  <2>1. attempts \in Seq(Attempt)
    BY DEF IndInv, TypeOK
  <2> HIDE DEF ended
  <2> QED
    BY <1>2, <1>3, <1>4, <2>1, ExceptSeq, LenProperties
<1>6. /\ UNCHANGED <<policy, schedules, effectPosture, granted>>
      /\ failureRefs \subseteq failureRefs' /\ failureRefs' \subseteq failureRefs \cup {n}
      /\ lastControl' \in Control
  BY DEF Fail, Evidence, Control
<1>7. /\ ledger = None => ledger' = None
      /\ ledger # None => /\ ledger \in LedgerType /\ ledger' = [ledger EXCEPT !.active = 0]
  BY DEF Fail, IndInv, TypeOK
<1>8. ledger # None => /\ ledger' \in LedgerType /\ ledger'.active = 0
                       /\ ledger'.created = ledger.created /\ ledger'.circuit = ledger.circuit
  BY <1>7 DEF LedgerType
<1>9. TypeOK'
  BY <1>2, <1>5, <1>6, <1>7, <1>8 DEF IndInv, TypeOK
<1>10. Lineage'
  <2>1. Current.number = n /\ Current.prior = n - 1
    BY <1>2 DEF IndInv, Lineage, Current
  <2>2. attempts'[n].number = n /\ attempts'[n].prior = n - 1
    <3> HIDE DEF ended, n
    <3> QED
      BY <1>2, <1>3, <1>5, <2>1
  <2>3. \A i \in 1 .. n : i # n => attempts'[i] = attempts[i] /\ i < n
    <3> HIDE DEF ended, n
    <3> QED
      BY <1>2, <1>5
  <2>4. /\ DOMAIN schedules' = 1 .. (n - 1)
        /\ granted' # 0 => granted' \in 1 .. n /\ granted' > 1
    BY <1>2, <1>6 DEF IndInv, Lineage
  <2>5. \A i \in 1 .. n :
          /\ attempts'[i].number = i /\ attempts'[i].prior = i - 1
          /\ i < n => /\ attempts'[i].terminal /\ attempts'[i].failure = Eligible
                      /\ i \in failureRefs' /\ schedules'[i] = i + 1
    <3>1. \A i \in 1 .. n :
            /\ attempts[i].number = i /\ attempts[i].prior = i - 1
            /\ i < n => /\ attempts[i].terminal /\ attempts[i].failure = Eligible
                        /\ i \in failureRefs' /\ schedules'[i] = i + 1
      BY <1>2, <1>6 DEF IndInv, Lineage
    <3>2. n \in Nat
      BY <1>2
    <3> HIDE DEF ended, n
    <3> QED
      BY <2>2, <2>3, <3>1, <3>2
  <2> QED
    BY <1>5, <2>4, <2>5 DEF Lineage
<1>11. LedgerAgreement'
  BY <1>1, <1>2, <1>3, <1>5, <1>7, <1>8 DEF IndInv, LedgerAgreement, Current
<1>12. CircuitOpenMeansExhausted'
  BY <1>1, <1>7, <1>8 DEF IndInv, CircuitOpenMeansExhausted
<1>13. AttemptBudget' /\ UnboundScopeIsFresh'
  BY <1>5, <1>6, <1>7, NoneAssumption, <1>8 DEF IndInv, AttemptBudget, RetriesAllowed, UnboundScopeIsFresh
<1> QED
  BY <1>9, <1>10, <1>11, <1>12, <1>13 DEF IndInv

(* Steps that leave the chain, its evidence and its schedules alone, and    *)
(* change at most the ledger's latches, keep everything but the circuit.    *)
LEMMA LatchStep ==
  ASSUME IndInv,
         UNCHANGED <<policy, attempts, failureRefs, schedules, granted>>,
         effectPosture' \in EffectPosture, lastControl' \in Control,
         \/ ledger' = ledger
         \/ /\ ledger # None /\ ledger' \in LedgerType
            /\ ledger'.created = ledger.created /\ ledger'.active = ledger.active
            /\ \/ ledger'.circuit = ledger.circuit
               \/ CircuitOpenMeansExhausted'
  PROVE  IndInv'
<1>1. TypeOK'
  BY DEF IndInv, TypeOK
<1>2. Lineage' /\ AttemptBudget'
  BY DEF IndInv, Lineage, AttemptBudget, RetriesAllowed
<1>3. LedgerAgreement'
  BY DEF IndInv, LedgerAgreement, Current
<1>4. UnboundScopeIsFresh'
  BY NoneAssumption DEF IndInv, UnboundScopeIsFresh
<1>5. CircuitOpenMeansExhausted'
  BY DEF IndInv, CircuitOpenMeansExhausted, RetriesAllowed, EligibleFailures, Current
<1> QED
  BY <1>1, <1>2, <1>3, <1>4, <1>5 DEF IndInv

LEMMA LatchTypes ==
  ASSUME IndInv, ledger # None, ledger \in LedgerType
  PROVE  /\ \A seen \in TriState :
              /\ [ledger EXCEPT !.admission = seen] \in LedgerType
              /\ [ledger EXCEPT !.admission = seen].created = ledger.created
              /\ [ledger EXCEPT !.admission = seen].active = ledger.active
              /\ [ledger EXCEPT !.admission = seen].circuit = ledger.circuit
         /\ [ledger EXCEPT !.schedulingKnown = FALSE] \in LedgerType
         /\ [ledger EXCEPT !.schedulingKnown = FALSE].created = ledger.created
         /\ [ledger EXCEPT !.schedulingKnown = FALSE].active = ledger.active
         /\ [ledger EXCEPT !.schedulingKnown = FALSE].circuit = ledger.circuit
         /\ [ledger EXCEPT !.circuit = "OPEN"] \in LedgerType
         /\ [ledger EXCEPT !.circuit = "OPEN"].created = ledger.created
         /\ [ledger EXCEPT !.circuit = "OPEN"].active = ledger.active
  BY DEF LedgerType

LEMMA AdmissionPreserves ==
  ASSUME IndInv, Admission
  PROVE  IndInv'
<1>1. ledger # None /\ ledger \in LedgerType
  BY DEF Admission, CanAdmit, IndInv, TypeOK
<1>2. "YES" \in TriState
  BY DEF TriState
<1>3. /\ UNCHANGED <<policy, attempts, failureRefs, schedules, granted>>
      /\ effectPosture' \in EffectPosture /\ lastControl' \in Control
      /\ ledger' = [ledger EXCEPT !.admission = "YES"]
  BY DEF Admission, IndInv, TypeOK
<1> QED
  BY <1>1, <1>2, <1>3, LatchTypes, LatchStep

LEMMA EnvironmentPreserves ==
  ASSUME IndInv, Environment
  PROVE  IndInv'
<1>1. ASSUME NEW seen \in {"YES", "UNKNOWN"}, InjectAdmission(seen)
      PROVE  IndInv'
  <2>1. ledger # None /\ ledger \in LedgerType
    BY <1>1 DEF InjectAdmission, IndInv, TypeOK
  <2>2. seen \in TriState
    BY DEF TriState
  <2>3. /\ UNCHANGED <<policy, attempts, failureRefs, schedules, granted>>
        /\ effectPosture' \in EffectPosture /\ lastControl' \in Control
        /\ ledger' = [ledger EXCEPT !.admission = seen]
    BY <1>1 DEF InjectAdmission, IndInv, TypeOK
  <2> QED
    BY <2>1, <2>2, <2>3, LatchTypes, LatchStep
<1>2. ASSUME NEW posture \in EffectPosture, SetPosture(posture)
      PROVE  IndInv'
  BY <1>2, LatchStep DEF SetPosture, IndInv, TypeOK
<1> QED
  BY <1>1, <1>2 DEF Environment

-----------------------------------------------------------------------------
(* successor(): the five places it returns at.                              *)

LEMMA RetrievePreserves ==
  ASSUME IndInv, NEW prior, Retrieve(prior)
  PROVE  IndInv'
<1>1. /\ prior \in DOMAIN schedules /\ granted' = schedules[prior]
      /\ UNCHANGED <<policy, attempts, ledger, failureRefs, schedules, effectPosture, lastControl>>
  BY DEF Retrieve
<1>2. attempts # << >>
  BY <1>1, EmptySeq DEF IndInv, TypeOK
<1>3. Len(attempts) \in Nat \ {0} /\ DOMAIN attempts = 1 .. Len(attempts)
  BY <1>2, CurrentAttempt DEF IndInv
<1>4. prior \in 1 .. (Len(attempts) - 1) /\ schedules[prior] = prior + 1
  BY <1>1, <1>3 DEF IndInv, Lineage
<1>5. granted' \in Nat /\ granted' \in DOMAIN attempts /\ granted' > 1
  BY <1>1, <1>3, <1>4
<1>6. TypeOK' /\ Lineage'
  BY <1>1, <1>5 DEF IndInv, TypeOK, Lineage
<1>7. LedgerAgreement' /\ AttemptBudget' /\ CircuitOpenMeansExhausted' /\ UnboundScopeIsFresh'
  BY <1>1 DEF IndInv, LedgerAgreement, AttemptBudget, CircuitOpenMeansExhausted,
              UnboundScopeIsFresh, RetriesAllowed, EligibleFailures, Current
<1> QED
  BY <1>6, <1>7 DEF IndInv

(* A call that grants nothing: LatchStep with granted reset.                *)
LEMMA NoGrantStep ==
  ASSUME IndInv,
         UNCHANGED <<policy, attempts, failureRefs, schedules, effectPosture>>,
         granted' = 0, lastControl' \in Control,
         \/ ledger' = ledger
         \/ /\ ledger # None /\ ledger' \in LedgerType
            /\ ledger'.created = ledger.created /\ ledger'.active = ledger.active
            /\ \/ ledger'.circuit = ledger.circuit
               \/ CircuitOpenMeansExhausted'
  PROVE  IndInv'
<1>1. TypeOK'
  BY DEF IndInv, TypeOK
<1>2. Lineage' /\ AttemptBudget'
  BY DEF IndInv, Lineage, AttemptBudget, RetriesAllowed
<1>3. LedgerAgreement'
  BY DEF IndInv, LedgerAgreement, Current
<1>4. UnboundScopeIsFresh'
  BY NoneAssumption DEF IndInv, UnboundScopeIsFresh
<1>5. CircuitOpenMeansExhausted'
  BY DEF IndInv, CircuitOpenMeansExhausted, RetriesAllowed, EligibleFailures, Current
<1> QED
  BY <1>1, <1>2, <1>3, <1>4, <1>5 DEF IndInv

LEMMA RefusePreserves ==
  ASSUME IndInv, NEW prior, NEW mode \in Mode, NEW fresh \in Control, NEW evidence \in BOOLEAN,
         Refuse(prior, mode, fresh, evidence)
  PROVE  IndInv'
<1>1. EligibilityControl(prior, mode, fresh, evidence) \in Control
  BY Zenon DEF EligibilityControl, EffectControl, Control
<1>2. lastControl' \in Control
  BY <1>1 DEF Refuse, Control
<1> QED
  BY <1>2, NoGrantStep DEF Refuse

LEMMA OpenCircuitPreserves ==
  ASSUME IndInv, NEW prior, NEW mode, NEW fresh, NEW evidence,
         OpenCircuit(prior, mode, fresh, evidence)
  PROVE  IndInv'
<1> DEFINE n == Len(attempts)
<1>1. /\ attempts # << >> /\ ledger # None /\ ledger \in LedgerType
      /\ Current.terminal /\ Current.failure = Eligible /\ RetriesAllowed
  BY EligibleMeans DEF OpenCircuit, IndInv
<1>2. /\ UNCHANGED <<policy, attempts, failureRefs, schedules, effectPosture>>
      /\ granted' = 0 /\ lastControl' \in Control
      /\ ledger' = [ledger EXCEPT !.circuit = "OPEN"]
      /\ Exhausted
  BY DEF OpenCircuit, Control
<1>3. /\ ledger' \in LedgerType
      /\ ledger'.created = ledger.created /\ ledger'.active = ledger.active
  BY <1>1, <1>2, LatchTypes
<1>4. \/ n = policy.max
      \/ policy.threshold # None /\ Cardinality(EligibleFailures) >= policy.threshold
      \/ ledger.circuit = "OPEN"
  <2>1. n \in Nat /\ policy \in RetryPolicy
    BY <1>1, CurrentAttempt, PoliciesAssumption DEF IndInv, TypeOK, RetriesAllowed
  <2>2. ledger.created = n
    BY <1>1 DEF IndInv, LedgerAgreement
  <2>3. n <= policy.max
    BY <1>1 DEF IndInv, AttemptBudget
  <2>4. Failures = EligibleFailures
    BY <1>1, AllFailedEligibly DEF IndInv
  <2> QED
    BY <1>2, <2>1, <2>2, <2>3, <2>4 DEF Exhausted, RetryPolicy
<1>5. CircuitOpenMeansExhausted'
  BY <1>1, <1>2, <1>4 DEF IndInv, CircuitOpenMeansExhausted, RetriesAllowed, EligibleFailures, Current
<1> QED
  BY <1>1, <1>2, <1>3, <1>5, NoGrantStep

LEMMA LoseSchedulePreserves ==
  ASSUME IndInv, NEW prior, NEW mode, NEW fresh, NEW evidence, NEW lost,
         LoseSchedule(prior, mode, fresh, evidence, lost)
  PROVE  IndInv'
<1>1. ledger # None /\ ledger \in LedgerType
  BY EligibleMeans DEF LoseSchedule, IndInv
<1>2. /\ UNCHANGED <<policy, attempts, failureRefs, schedules, effectPosture>>
      /\ granted' = 0 /\ lastControl' \in Control
      /\ ledger' = [ledger EXCEPT !.schedulingKnown = FALSE]
  BY DEF LoseSchedule, Control
<1> QED
  BY <1>1, <1>2, LatchTypes, NoGrantStep

LEMMA AllocatePreserves ==
  ASSUME IndInv, NEW prior, NEW mode, NEW fresh, NEW evidence, NEW lost,
         Allocate(prior, mode, fresh, evidence, lost)
  PROVE  IndInv'
<1> DEFINE n == Len(attempts)
           new == NewAttempt(ledger.created + 1, prior)
<1>1. /\ attempts # << >> /\ ledger # None /\ ledger \in LedgerType /\ prior = n
      /\ Current.terminal /\ Current.failure = Eligible /\ prior \in failureRefs
      /\ RetriesAllowed
  BY EligibleMeans DEF Allocate, IndInv
<1>2. n \in Nat \ {0} /\ DOMAIN attempts = 1 .. n
  BY <1>1, CurrentAttempt DEF IndInv
<1>3. ledger.created = n
  BY <1>1 DEF IndInv, LedgerAgreement
<1>4. /\ new \in Attempt /\ new.number = n + 1 /\ new.prior = n /\ ~new.terminal
  BY <1>1, <1>2, <1>3 DEF NewAttempt, Attempt
<1>5. /\ granted' = n + 1 /\ lastControl' \in Control
      /\ UNCHANGED <<policy, failureRefs, effectPosture>>
  BY DEF Allocate, Control
<1>6. /\ attempts' \in Seq(Attempt) /\ Len(attempts') = n + 1 /\ DOMAIN attempts' = 1 .. (n + 1)
      /\ \A i \in 1 .. n : attempts'[i] = attempts[i]
      /\ attempts'[n + 1] = new
  <2>1. attempts \in Seq(Attempt)
    BY DEF IndInv, TypeOK
  <2>2. attempts' = Append(attempts, new)
    BY DEF Allocate
  <2> HIDE DEF new
  <2> QED
    BY <1>2, <1>4, <2>1, <2>2
<1> HIDE DEF new
<1>7. /\ ledger' \in LedgerType /\ ledger'.created = n + 1 /\ ledger'.active = n + 1
      /\ ledger'.circuit = ledger.circuit
  <2> DEFINE counted == [ledger EXCEPT !.created = ledger.created + 1]
  <2>1. counted \in LedgerType /\ counted.created = n + 1 /\ counted.circuit = ledger.circuit
    <3>1. ledger.created + 1 \in Nat
      BY <1>2, <1>3
    <3> QED
      BY <1>1, <1>3, <3>1 DEF LedgerType
  <2>2. ledger' = [counted EXCEPT !.active = n + 1]
    BY DEF Allocate
  <2>3. n + 1 \in Nat
    BY <1>2
  <2> HIDE DEF counted, n
  <2> QED
    BY <2>1, <2>2, <2>3 DEF LedgerType
<1>8. /\ DOMAIN schedules = 1 .. (n - 1)
      /\ DOMAIN schedules' = 1 .. n
      /\ schedules'[n] = n + 1
      /\ \A i \in 1 .. (n - 1) : schedules'[i] = i + 1
  <2>1. schedules' = [a \in DOMAIN schedules \cup {n} |->
                        IF a = n THEN n + 1 ELSE schedules[a]]
    BY <1>1 DEF Allocate, ScheduleOf
  <2>2. /\ DOMAIN schedules = 1 .. (n - 1)
        /\ \A i \in 1 .. (n - 1) : schedules[i] = i + 1
    BY <1>2 DEF IndInv, Lineage
  <2> HIDE DEF n
  <2> QED
    BY <1>2, <2>1, <2>2
<1>9. TypeOK'
  <2>1. policy' \in Policies \cup {None} /\ failureRefs' \subseteq DOMAIN attempts'
        /\ effectPosture' \in EffectPosture /\ lastControl' \in Control
    BY <1>2, <1>5, <1>6 DEF IndInv, TypeOK
  <2>2. /\ DOMAIN schedules' \subseteq DOMAIN attempts'
        /\ \A a \in DOMAIN schedules' : schedules'[a] \in DOMAIN attempts'
    BY <1>2, <1>6, <1>8
  <2>3. granted' \in Nat /\ attempts' \in Seq(Attempt) /\ ledger' \in LedgerType
    BY <1>2, <1>5, <1>6, <1>7
  <2> QED
    BY <2>1, <2>2, <2>3, Zenon DEF TypeOK
<1>10. Lineage'
  <2>1. \A i \in 1 .. n :
          /\ attempts[i].number = i /\ attempts[i].prior = i - 1
          /\ attempts[i].terminal /\ attempts[i].failure = Eligible
          /\ i \in failureRefs'
    BY <1>1, <1>2, <1>5 DEF IndInv, Lineage, Current
  <2>2. \A i \in 1 .. n : schedules'[i] = i + 1
    BY <1>2, <1>8
  <2>3. \A i \in 1 .. (n + 1) :
          /\ attempts'[i].number = i /\ attempts'[i].prior = i - 1
          /\ i < n + 1 => /\ attempts'[i].terminal /\ attempts'[i].failure = Eligible
                          /\ i \in failureRefs' /\ schedules'[i] = i + 1
    BY <1>2, <1>4, <1>6, <2>1, <2>2
  <2>4. granted' \in 1 .. (n + 1) /\ granted' > 1
    BY <1>2, <1>5
  <2>5. /\ DOMAIN attempts' = 1 .. (n + 1) /\ Len(attempts') = n + 1
        /\ DOMAIN schedules' = 1 .. ((n + 1) - 1)
    BY <1>2, <1>6, <1>8
  <2> HIDE DEF n
  <2> QED
    BY <2>3, <2>4, <2>5 DEF Lineage
<1>11. LedgerAgreement'
  BY <1>2, <1>4, <1>6, <1>7 DEF LedgerAgreement, Current
<1>12. AttemptBudget'
  <2>0. ~Exhausted
    BY DEF Allocate
  <2>1. policy # None /\ policy \in RetryPolicy
    BY <1>1, PoliciesAssumption DEF IndInv, TypeOK, RetriesAllowed
  <2>2. n < policy.max
    BY <1>2, <1>3, <2>1, <2>0 DEF Exhausted, RetryPolicy
  <2>3. policy.threshold # None => n < policy.threshold
    <3>1. Cardinality(Failures) = n
      BY <1>1, AllFailedEligibly DEF IndInv
    <3> QED
      BY <1>2, <2>1, <3>1, <2>0 DEF Exhausted, RetryPolicy
  <2>4. RetriesAllowed'
    BY <1>1, <1>5 DEF RetriesAllowed
  <2>5. policy.threshold \in Int \cup {None} /\ policy.max \in Int
    BY <2>1 DEF RetryPolicy
  <2> QED
    BY <1>2, <1>5, <1>6, <2>2, <2>3, <2>4, <2>5 DEF AttemptBudget
<1>13. CircuitOpenMeansExhausted'
  <2>1. ledger.circuit # "OPEN"
    BY DEF Allocate, Exhausted
  <2> QED
    BY <1>7, <2>1 DEF CircuitOpenMeansExhausted
<1>14. UnboundScopeIsFresh'
  BY <1>7, NoneAssumption DEF UnboundScopeIsFresh
<1> QED
  BY <1>9, <1>10, <1>11, <1>12, <1>13, <1>14 DEF IndInv

LEMMA SuccessorPreserves ==
  ASSUME IndInv, CallSuccessor
  PROVE  IndInv'
<1>1. PICK prior \in 1 .. (Len(attempts) + 1), mode \in Mode, fresh \in Control,
           evidence \in BOOLEAN, lost \in BOOLEAN : Successor(prior, mode, fresh, evidence, lost)
  BY DEF CallSuccessor
<1>2. CASE Retrieve(prior)
  BY <1>2, RetrievePreserves
<1>3. CASE Refuse(prior, mode, fresh, evidence)
  BY <1>3, RefusePreserves
<1>4. CASE OpenCircuit(prior, mode, fresh, evidence)
  BY <1>4, OpenCircuitPreserves
<1>5. CASE LoseSchedule(prior, mode, fresh, evidence, lost)
  BY <1>5, LoseSchedulePreserves
<1>6. CASE Allocate(prior, mode, fresh, evidence, lost)
  BY <1>6, AllocatePreserves
<1> QED
  BY <1>1, <1>2, <1>3, <1>4, <1>5, <1>6 DEF Successor

-----------------------------------------------------------------------------
(* The theorems.                                                            *)

LEMMA StepPreserves ==
  ASSUME IndInv, [Next]_vars
  PROVE  IndInv'
<1>1. CASE Start
  BY <1>1, StartPreserves
<1>2. CASE CallBind
  BY <1>2, BindPreserves
<1>3. CASE CallFail
  BY <1>3, FailPreserves DEF CallFail
<1>4. CASE Admission
  BY <1>4, AdmissionPreserves
<1>5. CASE CallSuccessor
  BY <1>5, SuccessorPreserves
<1>6. CASE Environment
  BY <1>6, EnvironmentPreserves
<1>7. CASE UNCHANGED vars
  <2>1. UNCHANGED <<policy, attempts, failureRefs, schedules, granted>>
        /\ effectPosture' \in EffectPosture /\ lastControl' \in Control /\ ledger' = ledger
    BY <1>7 DEF vars, IndInv, TypeOK
  <2> QED
    BY <2>1, LatchStep
<1> QED
  BY <1>1, <1>2, <1>3, <1>4, <1>5, <1>6, <1>7 DEF Next

(* The inductive invariant holds in every behaviour of the supervisor,      *)
(* whatever the policies and whatever the order of calls.                   *)
THEOREM Inductive == Spec => []IndInv
<1>1. Init => IndInv
  BY InitIndInv
<1>2. IndInv /\ [Next]_vars => IndInv'
  BY StepPreserves
<1> QED
  BY <1>1, <1>2, PTL DEF Spec

(* Type correctness of the supervisor's fields (retry.py:8-20).             *)
THEOREM TypeCorrect == Spec => []TypeOK
<1>1. IndInv => TypeOK
  BY DEF IndInv
<1> QED
  BY <1>1, Inductive, PTL

(* No behaviour spends more attempts than the policy allows: max_attempts   *)
(* and the repeated-failure threshold bound the chain (retry.py:150-161).   *)
THEOREM BudgetRespected == Spec => []AttemptBudget
<1>1. IndInv => AttemptBudget
  BY DEF IndInv
<1> QED
  BY <1>1, Inductive, PTL

(* Every successor follows one terminal attempt whose eligible failure is   *)
(* retained, and is the only one scheduled for it (retry.py:168-183).       *)
THEOREM LineageKept == Spec => []Lineage
<1>1. IndInv => Lineage
  BY DEF IndInv
<1> QED
  BY <1>1, Inductive, PTL

(* The ledger and the chain agree on the count and on the live attempt.     *)
THEOREM LedgerAgrees == Spec => []LedgerAgreement
<1>1. IndInv => LedgerAgreement
  BY DEF IndInv
<1> QED
  BY <1>1, Inductive, PTL

(* An open circuit always has a spent budget or a met threshold behind it.  *)
THEOREM CircuitJustified == Spec => []CircuitOpenMeansExhausted
<1>1. IndInv => CircuitOpenMeansExhausted
  BY DEF IndInv
<1> QED
  BY <1>1, Inductive, PTL

-----------------------------------------------------------------------------
(* The action properties.                                                   *)

LEMMA TerminalStep ==
  ASSUME IndInv, [Next]_vars
  PROVE  TerminalKept
<1>1. Len(attempts) \in Nat /\ attempts \in Seq(Attempt)
  BY LenProperties DEF IndInv, TypeOK
<1>2. ASSUME attempts' = attempts
      PROVE  TerminalKept
  BY <1>1, <1>2 DEF TerminalKept
<1>3. CASE Start
  <2>1. DOMAIN attempts = {} /\ Len(attempts) = 0 /\ Len(attempts') = 1
    BY <1>3 DEF Start
  <2> QED
    BY <2>1 DEF TerminalKept
<1>4. ASSUME NEW control \in Control, NEW class \in FailureClass, NEW retain \in BOOLEAN,
             Fail(control, class, retain)
      PROVE  TerminalKept
  <2> DEFINE n == Len(attempts)
             ended == [Current EXCEPT !.terminal = TRUE, !.failure = class]
  <2>1. attempts # << >> /\ ~Current.terminal
    BY <1>4 DEF Fail, CanFail
  <2>2. attempts' = [attempts EXCEPT ![n] = ended]
    BY <1>4 DEF Fail, Current
  <2>3. n \in DOMAIN attempts /\ DOMAIN attempts = 1 .. n /\ Current \in Attempt
    BY <2>1, CurrentAttempt DEF IndInv
  <2>4. ended \in Attempt
    BY <2>3 DEF Attempt
  <2> HIDE DEF ended
  <2>5. Len(attempts') = n /\ \A i \in 1 .. n : i # n => attempts'[i] = attempts[i]
    BY <1>1, <2>2, <2>3, <2>4, ExceptSeq
  <2>6. ~attempts[n].terminal
    BY <2>1 DEF Current
  <2>7. \A i \in 1 .. n : attempts[i].terminal => attempts'[i] = attempts[i]
    BY <2>5, <2>6
  <2>8. Len(attempts') >= Len(attempts)
    BY <1>1, <2>5
  <2> QED
    BY <2>3, <2>7, <2>8 DEF TerminalKept
<1>5. ASSUME NEW prior, NEW mode, NEW fresh, NEW evidence, NEW lost,
             Allocate(prior, mode, fresh, evidence, lost)
      PROVE  TerminalKept
  <2> DEFINE new == NewAttempt(ledger.created + 1, prior)
  <2>1. attempts' = Append(attempts, new)
    BY <1>5 DEF Allocate
  <2>2. DOMAIN attempts = 1 .. Len(attempts)
    BY <1>1, LenProperties
  <2> HIDE DEF new
  <2>3. Len(attempts') = Len(attempts) + 1 /\ \A i \in 1 .. Len(attempts) : attempts'[i] = attempts[i]
    BY <1>1, <2>1
  <2> QED
    BY <1>1, <2>2, <2>3 DEF TerminalKept
<1>6. CASE CallSuccessor
  BY <1>2, <1>5, <1>6 DEF CallSuccessor, Successor, Retrieve, Refuse, OpenCircuit, LoseSchedule
<1>7. CASE CallFail
  BY <1>4, <1>7 DEF CallFail
<1>8. CASE CallBind \/ Admission \/ Environment \/ UNCHANGED vars
  BY <1>2, <1>8 DEF CallBind, Bind, Admission, Environment, InjectAdmission, SetPosture, vars
<1> QED
  BY <1>3, <1>6, <1>7, <1>8 DEF Next

LEMMA ClosedScopeStep ==
  ASSUME IndInv, [Next]_vars
  PROVE  ClosedScopeKept
<1> SUFFICES ASSUME ScopeClosed
             PROVE  ScopeClosed' /\ Len(attempts') = Len(attempts)
  BY DEF ClosedScopeKept
<1>1. ledger # None /\ ledger \in LedgerType /\ attempts # << >>
  BY DEF ScopeClosed, IndInv, TypeOK, LedgerAgreement
<1>2. ~Start /\ ~CallBind /\ ~Admission
  BY <1>1 DEF Start, CallBind, Bind, Admission, CanAdmit, ScopeClosed
<1>3. CASE UNCHANGED <<attempts, ledger>>
  BY <1>3 DEF ScopeClosed
<1>4. ASSUME UNCHANGED attempts, ledger' \in LedgerType,
             \/ ledger'.admission # "NO" \/ ledger'.circuit = "OPEN" \/ ~ledger'.schedulingKnown
      PROVE  ScopeClosed' /\ Len(attempts') = Len(attempts)
  BY <1>4, NoneAssumption DEF ScopeClosed
<1>5. ASSUME NEW control \in Control, NEW class \in FailureClass, NEW retain \in BOOLEAN,
             Fail(control, class, retain)
      PROVE  ScopeClosed' /\ Len(attempts') = Len(attempts)
  <2>1. ledger' = [ledger EXCEPT !.active = 0]
    BY <1>1, <1>5 DEF Fail
  <2>2. /\ ledger' \in LedgerType /\ ledger'.admission = ledger.admission
        /\ ledger'.circuit = ledger.circuit /\ ledger'.schedulingKnown = ledger.schedulingKnown
    BY <1>1, <2>1 DEF LedgerType
  <2>3. Len(attempts') = Len(attempts)
    <3> DEFINE ended == [Current EXCEPT !.terminal = TRUE, !.failure = class]
    <3>1. attempts' = [attempts EXCEPT ![Len(attempts)] = ended]
      BY <1>5 DEF Fail, Current
    <3>2. /\ Len(attempts) \in 1 .. Len(attempts) /\ Current \in Attempt
          /\ attempts \in Seq(Attempt)
      BY <1>1, CurrentAttempt DEF IndInv, TypeOK
    <3>3. ended \in Attempt
      BY <3>2 DEF Attempt
    <3> HIDE DEF ended
    <3> QED
      BY <3>1, <3>2, <3>3, ExceptSeq
  <2> QED
    BY <2>2, <2>3, NoneAssumption DEF ScopeClosed
<1>6. ASSUME NEW prior, NEW mode, NEW fresh, NEW evidence, NEW lost,
             Successor(prior, mode, fresh, evidence, lost)
      PROVE  ScopeClosed' /\ Len(attempts') = Len(attempts)
  <2>1. CASE Retrieve(prior) \/ Refuse(prior, mode, fresh, evidence)
    BY <1>3, <2>1 DEF Retrieve, Refuse
  <2>2. CASE OpenCircuit(prior, mode, fresh, evidence)
    <3>1. UNCHANGED attempts /\ ledger' = [ledger EXCEPT !.circuit = "OPEN"]
      BY <2>2 DEF OpenCircuit
    <3>2. ledger' \in LedgerType /\ ledger'.circuit = "OPEN"
      BY <1>1, <3>1 DEF LedgerType
    <3> QED
      BY <1>4, <3>1, <3>2
  <2>3. CASE LoseSchedule(prior, mode, fresh, evidence, lost)
    <3>1. UNCHANGED attempts /\ ledger' = [ledger EXCEPT !.schedulingKnown = FALSE]
      BY <2>3 DEF LoseSchedule
    <3>2. ledger' \in LedgerType /\ ~ledger'.schedulingKnown
      BY <1>1, <3>1 DEF LedgerType
    <3> QED
      BY <1>4, <3>1, <3>2
  <2>4. ~Allocate(prior, mode, fresh, evidence, lost)
    <3> SUFFICES ASSUME Allocate(prior, mode, fresh, evidence, lost) PROVE FALSE
      OBVIOUS
    <3>1. ledger.admission = "NO" /\ ledger.schedulingKnown
      BY EligibleMeans DEF Allocate, IndInv
    <3>2. ledger.circuit # "OPEN"
      BY DEF Allocate, Exhausted
    <3> QED
      BY <3>1, <3>2 DEF ScopeClosed
  <2> QED
    BY <1>6, <2>1, <2>2, <2>3, <2>4 DEF Successor
<1>7. ASSUME NEW seen \in {"YES", "UNKNOWN"}, InjectAdmission(seen)
      PROVE  ScopeClosed' /\ Len(attempts') = Len(attempts)
  <2>1. UNCHANGED attempts /\ ledger' = [ledger EXCEPT !.admission = seen]
    BY <1>7 DEF InjectAdmission
  <2>2. ledger' \in LedgerType /\ ledger'.admission # "NO"
    BY <1>1, <2>1 DEF LedgerType, TriState
  <2> QED
    BY <1>4, <2>1, <2>2
<1>8. CASE UNCHANGED vars
  BY <1>3, <1>8 DEF vars
<1>9. CASE Environment
  BY <1>3, <1>7, <1>9 DEF Environment, SetPosture
<1> QED
  BY <1>2, <1>5, <1>6, <1>8, <1>9 DEF Next, CallFail, CallSuccessor

(* Terminal attempts are immutable in every behaviour.                      *)
THEOREM TerminalAttemptsFinal == Spec => TerminalIsFinal
<1>1. IndInv /\ [Next]_vars => [TerminalKept]_vars
  BY TerminalStep
<1> QED
  BY <1>1, Inductive, PTL DEF Spec, TerminalIsFinal

(* No call sequence reopens a closed scope or allocates an attempt in it.   *)
THEOREM ClosedScopesFinal == Spec => ClosedScopeStaysClosed
<1>1. IndInv /\ [Next]_vars => [ClosedScopeKept]_vars
  BY ClosedScopeStep
<1> QED
  BY <1>1, Inductive, PTL DEF Spec, ClosedScopeStaysClosed
=============================================================================
