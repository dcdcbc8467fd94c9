------------------------ MODULE SliceRuntime_proofs ------------------------
(***************************************************************************)
(* Proofs about the runtime: its invariants, for every set of policies,    *)
(* grants, faults, requests, keys and injections the assumptions admit.    *)
(*                                                                         *)
(* The inductive invariant relates where the code is (pc) to what exists   *)
(* by then.  It is built of parts, one per group of variables, so that a   *)
(* step is shown to keep each part by one lemma about what it changes and  *)
(* one "frame" lemma for the parts it leaves alone.  EffectsOK is kept     *)
(* apart: only five steps touch the document or the log.                   *)
(*                                                                         *)
(* The properties of steps, and the two refinements, are in                *)
(* SliceRuntimeSteps_proofs.                                               *)
(***************************************************************************)
EXTENDS SliceRuntime, SequenceTheorems, FiniteSetTheorems, TLAPS

(* The places of the code, by what the call is doing there.                 *)
Preparing   == {"started", "initial", "what"}
Planning    == {"plan", "retry", "pre_commit"}
Dispatching == {"dispatch", "pre_dispatch"}
Realizing   == {"invoke", "executed", "post_execution", "reserve", "settle", "final"}

(* The types of what is kept: a call, a validation, a commit and the entry  *)
(* under its key.                                                           *)
CallType == [to : {"prepare", "run", "realize", "dispatch"}, key : Keys \cup {None}, mode : Mode,
             presented : {"none", "exact", "other"}]

ValidationType == [id : Nat, plan : Nat, attempt : Nat, disposition : Gate]
CommitType     == [plan : Nat, validation : Nat, attempt : Nat, key : Keys]
BindingType    == [plan : Nat, validation : Nat, mode : Mode]
EntryType      == [request : Requests, binding : BindingType, result : ResultType \cup {None}]

(* There is an attempt, and it has not ended.                               *)
Live == attempts # << >> /\ ~Current.terminal

(* The supervisor is in its type, has scheduled no attempt beyond the last  *)
(* one, and bound nothing before an attempt began.                          *)
SupervisorOK ==
  /\ Sup!TypeOK
  /\ \A a \in DOMAIN schedules : a < Len(attempts)
  /\ ledger # None => attempts # << >>

(* What the run was built with is in its type, and the injections that      *)
(* fired can be counted.                                                    *)
BuiltOK ==
  /\ faults \in FixtureFaults
  /\ grant \in Grant \cup {None}
  /\ IsFiniteSet(fired)

(* The basis is there before the envelope that rests on it, and envelope    *)
(* and retry ledger come into being together.                               *)
BasisOK ==
  /\ request \in Requests \cup {None}
  /\ before \in Authoritative \cup {None}
  /\ baseline \in Prov!EffectView \cup {None}
  /\ envelope \in Envelope \cup {None}
  /\ authority \in Authoritative
  /\ attempts # << >> => request # None
  /\ envelope # None => ledger # None /\ before # None /\ baseline # None
  /\ envelope = None => ledger = None

(* Plans and validations are found under their identity; a current plan is  *)
(* a retained one with a step to run; nothing is planned without envelope.  *)
PlansOK ==
  /\ plan \in Plan \cup {None} /\ plans \in Seq(Plan) /\ validations \in Seq(ValidationType)
  /\ \A i \in DOMAIN plans : plans[i].id = i
  /\ \A i \in DOMAIN validations : validations[i].id = i /\ validations[i].plan \in DOMAIN plans
  /\ plan # None => plan.id \in DOMAIN plans /\ plan.steps # << >>
  /\ envelope = None => plans = << >>

(* The one commit, its plan and validation, and the entry under its key:    *)
(* the index knows exactly the committed keys, a claim is of one of them.   *)
(* SingleAdmission is part of it: it is inductive only with the rest.       *)
CommitsOK ==
  /\ commits \in Seq(CommitType)
  /\ SingleAdmission
  /\ \A i \in DOMAIN commits : commits[i].plan \in DOMAIN plans /\ commits[i].validation \in DOMAIN validations
  /\ DOMAIN index = {commits[i].key : i \in DOMAIN commits}
  /\ claims \subseteq DOMAIN index
  /\ \A k \in DOMAIN index : index[k] \in EntryType
  /\ \A k \in DOMAIN index : index[k].result # None => index[k].result.commit <= Len(commits)

(* What each place of the code may rely on: before the approval there is no *)
(* envelope and the attempt is open; a plan is made, and admitted, in an    *)
(* open attempt; a successor is asked for after the last one ended.         *)
ControlOK ==
  /\ pc \in {"idle"} \cup Preparing \cup Planning \cup Dispatching \cup Realizing
  /\ control \in Control
  /\ ret \in ResultType \cup {None} /\ (ret # None => ret.commit <= Len(commits))
  /\ pc # "idle" => call \in CallType
  /\ pc \in Preparing => envelope = None /\ Live /\ call.to \in {"prepare", "run"}
                         /\ (call.to = "run" => call.key \in Keys)
  /\ pc = "what" => before # None /\ baseline # None
  /\ pc \in Planning => envelope # None /\ call.key \in Keys
  /\ pc \in {"plan", "pre_commit"} => Live
  /\ pc = "retry" => attempts # << >> /\ Current.terminal
  /\ pc = "pre_commit" => plan # None /\ validations # << >>
  /\ pc \in Dispatching => commits # << >>

(* Before the claim, nothing of the realization exists.                     *)
Untouched ==
  /\ pc \notin Realizing
  /\ invocation = None /\ invocations = 0 /\ log = << >> /\ ~closed
  /\ slots = << >> /\ projection = None
  /\ execution = None /\ observed = None /\ reconciliation = None

(* After it, how much exists says where the realization stands: the result  *)
(* is open exactly while it runs, the interval exactly while the handler    *)
(* does; the outcome comes before the slot, and the slot before the         *)
(* projection that fills it.                                                *)
Realized ==
  /\ commits # << >> /\ claims = {Commit.key}
  /\ invocation = Len(commits) /\ invocations = 1
  /\ index[Commit.key].result = None <=> pc \in Realizing
  /\ pc \in Realizing => plan # None /\ plan.id = Commit.plan /\ before # None /\ baseline # None
  /\ pc = "invoke" <=> ~closed
  /\ pc # "invoke" => execution # None
  /\ pc \in {"invoke", "executed", "post_execution"} =>
       slots = << >> /\ projection = None /\ reconciliation = None
  /\ pc \notin {"invoke", "executed", "post_execution"} => reconciliation # None
  /\ pc = "reserve" => slots = << >> /\ projection = None
  /\ pc \in {"settle", "final"} => slots = <<None>> /\ projection = None
  /\ pc = "final" => reconciliation = "RECONCILED_SUCCESS"
  /\ pc = "settle" => reconciliation # "RECONCILED_SUCCESS"
  /\ pc \notin Realizing => \/ slots = << >> /\ projection = None
                            \/ slots = <<projection>> /\ projection # None

(* The claim separates the two, and effects are recorded before they exist. *)
StageOK ==
  /\ execution \in Report \cup {None} /\ reconciliation \in Outcome \cup {None}
  /\ projection \in Projection \cup {None}
  /\ pending \in Seq(Prov!Carriable)
  /\ IF claims = {} THEN Untouched ELSE Realized
  /\ pc = "pre_dispatch" => claims = {}
  /\ log # << >> \/ pc = "invoke" => effectPosture # "NONE_ESTABLISHED"

(* An attempt that ended other than by projecting has a control that says   *)
(* why, and a realization that ended so has ended its attempt.              *)
EndedOK ==
  /\ \A k \in DOMAIN index : index[k].result # None /\ claims = {} => Current.terminal
  /\ attempts # << >> /\ Current.terminal /\ pc # "retry" /\ ~Projected => control # "PASS"
  /\ claims # {} /\ pc \notin Realizing /\ ~Projected => Current.terminal

IndInv == SupervisorOK /\ BuiltOK /\ BasisOK /\ PlansOK /\ CommitsOK /\ ControlOK /\ StageOK /\ EndedOK

(* The document and the log.  Versions only grow, so a document found at    *)
(* the version of the baseline, or of the last logged write, is that very   *)
(* document, whoever wrote in between: this is what makes comparing a few   *)
(* fields (SameDocument) as good as comparing the whole.                    *)
EffectsOK ==
  /\ Prov!ProvTypeOK
  /\ pc = "what" => before = authority /\ baseline = view
  /\ baseline # None /\ claims = {} =>
       baseline.version <= view.version /\ (view.version = baseline.version => view = baseline)
  /\ claims # {} /\ log = << >> /\ pc = "invoke" => view = baseline
  /\ claims # {} /\ log # << >> =>
       /\ log[1].before = baseline
       /\ log[Len(log)].after.version <= view.version
       /\ view.version = log[Len(log)].after.version => view = log[Len(log)].after
       /\ pc = "invoke" => log[Len(log)].after = view

-----------------------------------------------------------------------------
(* Values: what the operators of the model return.                          *)

(* The supervisor's instance speaks the runtime's vocabulary.               *)
LEMMA Vocabulary ==
  /\ Sup!Control = Control /\ Sup!FailureClass = FailureClass /\ Sup!EffectPosture = EffectPosture
  /\ Sup!TriState = TriState /\ Sup!Mode = Mode /\ Sup!Eligible = Eligible
  BY DEF Sup!Control, Control, Sup!FailureClass, FailureClass, Sup!EffectPosture, EffectPosture,
         Sup!TriState, TriState, Sup!Mode, Mode, Sup!Eligible, Eligible

(* A non-empty chain has a current attempt, and it is a record.             *)
LEMMA CurrentAttempt ==
  ASSUME SupervisorOK, attempts # << >>
  PROVE  /\ attempts \in Seq(Sup!Attempt)
         /\ Len(attempts) \in Nat \ {0}
         /\ DOMAIN attempts = 1 .. Len(attempts)
         /\ Len(attempts) \in DOMAIN attempts
         /\ Current \in Sup!Attempt
<1>1. attempts \in Seq(Sup!Attempt)
  BY DEF SupervisorOK, Sup!TypeOK
<1>2. /\ Len(attempts) \in Nat \ {0}
      /\ DOMAIN attempts = 1 .. Len(attempts)
  BY <1>1, EmptySeq, LenProperties
<1>3. Len(attempts) \in DOMAIN attempts
  BY <1>2
<1>4. Current \in Sup!Attempt
  BY <1>1, <1>2, ElementOfSeq DEF Current
<1> QED
  BY <1>1, <1>2, <1>3, <1>4

(* stop() and every failure: the attempt is over, and the scope is          *)
(* otherwise what it was.                                                   *)
LEMMA EndAttemptStep ==
  ASSUME SupervisorOK, attempts # << >>,
         NEW ctl \in Control, NEW class \in FailureClass, NEW retain \in BOOLEAN,
         EndAttempt(ctl, class, retain)
  PROVE  /\ SupervisorOK'
         /\ attempts' # << >> /\ Len(attempts') = Len(attempts) /\ Current'.terminal
         /\ ledger' = None <=> ledger = None
         /\ ledger # None => ledger'.admission = ledger.admission
         /\ effectPosture' = effectPosture
         /\ ~Current.terminal => lastControl' = IF retain THEN ctl ELSE "HOLD_AMBIGUOUS"
<1> DEFINE n == Len(attempts)
           ended == [Current EXCEPT !.terminal = TRUE, !.failure = class]
<1>1. attempts \in Seq(Sup!Attempt) /\ n \in Nat \ {0} /\ DOMAIN attempts = 1 .. n /\ Current \in Sup!Attempt
  BY CurrentAttempt
<1>2. CASE Current.terminal
  <2>1. UNCHANGED supVars
    BY <1>2 DEF EndAttempt, Sup!Fail, Sup!CanFail, Sup!Current, Current
  <2> QED
    BY <1>2, <2>1 DEF supVars, SupervisorOK, Sup!TypeOK, Current
<1>3. CASE ~Current.terminal
  <2>1. Sup!Fail(ctl, class, retain)
    BY <1>3 DEF EndAttempt, Sup!CanFail, Sup!Current, Current
  <2>2. attempts' = [attempts EXCEPT ![n] = ended]
    BY <2>1 DEF Sup!Fail, Current
  <2>3. ended \in Sup!Attempt /\ ended.terminal
    BY <1>1, Vocabulary DEF Sup!Attempt
  <2>4. /\ attempts' \in Seq(Sup!Attempt) /\ Len(attempts') = n /\ DOMAIN attempts' = 1 .. n
        /\ attempts'[n] = ended
    <3> HIDE DEF ended
    <3> QED
      BY <1>1, <2>2, <2>3, ExceptSeq, LenProperties
  <2>5. Current'.terminal /\ attempts' # << >>
    BY <1>1, <2>3, <2>4, EmptySeq DEF Current
  <2>6. /\ UNCHANGED <<policy, schedules, effectPosture, granted>>
        /\ failureRefs' \subseteq failureRefs \cup {n}
        /\ lastControl' = IF retain THEN ctl ELSE "HOLD_AMBIGUOUS"
    BY <2>1 DEF Sup!Fail, Sup!Evidence
  <2>7. /\ ledger = None => ledger' = None
        /\ ledger # None => ledger \in Sup!LedgerType /\ ledger' = [ledger EXCEPT !.active = 0]
    BY <2>1 DEF Sup!Fail, SupervisorOK, Sup!TypeOK
  <2>8. ledger # None => ledger' \in Sup!LedgerType /\ ledger'.admission = ledger.admission /\ ledger' # None
    BY <2>7, AbsenceAssumption DEF Sup!LedgerType
  <2>9. Sup!TypeOK'
    <3>1. lastControl' \in Control
      BY <2>6 DEF Control
    <3> QED
      BY <1>1, <2>4, <2>6, <2>7, <2>8, <3>1, Vocabulary DEF SupervisorOK, Sup!TypeOK
  <2>10. SupervisorOK'
    BY <2>4, <2>5, <2>6, <2>9 DEF SupervisorOK
  <2> QED
    BY <2>4, <2>5, <2>6, <2>7, <2>8, <2>10
<1> QED
  BY <1>2, <1>3

(* The supervisor's other operations, as the runtime uses them.             *)
LEMMA StartStep ==
  ASSUME SupervisorOK, Sup!Start
  PROVE  /\ SupervisorOK' /\ attempts' # << >> /\ ~Current'.terminal
         /\ UNCHANGED <<ledger, effectPosture>>
<1> DEFINE first == Sup!NewAttempt(1, 0)
<1>1. first \in Sup!Attempt /\ ~first.terminal
  BY DEF Sup!NewAttempt, Sup!Attempt
<1>2. /\ attempts' = <<first>> /\ attempts' \in Seq(Sup!Attempt)
      /\ Len(attempts') = 1 /\ DOMAIN attempts' = {1} /\ attempts'[1] = first
  BY <1>1 DEF Sup!Start
<1>3. Len(attempts) = 0 /\ DOMAIN attempts = {}
  BY DEF Sup!Start
<1>4. UNCHANGED <<policy, ledger, failureRefs, schedules, effectPosture, granted>> /\ lastControl' = "PASS"
  BY DEF Sup!Start
<1>5. DOMAIN schedules = {} /\ failureRefs = {}
  BY <1>3 DEF SupervisorOK, Sup!TypeOK
<1>6. Sup!TypeOK'
  BY <1>2, <1>4, <1>5, Vocabulary DEF SupervisorOK, Sup!TypeOK, Control
<1> QED
  BY <1>1, <1>2, <1>4, <1>5, <1>6, EmptySeq DEF SupervisorOK, Current

LEMMA BindStep ==
  ASSUME SupervisorOK, Sup!Bind
  PROVE  /\ SupervisorOK' /\ ledger' # None /\ ledger'.admission = "NO"
         /\ UNCHANGED <<attempts, effectPosture>>
         /\ attempts # << >>
<1>1. /\ UNCHANGED <<policy, attempts, failureRefs, schedules, effectPosture, granted>> /\ lastControl' = "PASS"
      /\ attempts # << >>
  BY DEF Sup!Bind
<1>2. policy \in Policies \cup {None} /\ Len(attempts) \in Nat
  BY <1>1, CurrentAttempt DEF SupervisorOK, Sup!TypeOK
<1>3. ledger' = Sup!OpenedLedger
  BY DEF Sup!Bind
<1>4. ledger' \in Sup!LedgerType /\ ledger'.admission = "NO"
  BY <1>2, <1>3, Vocabulary DEF Sup!OpenedLedger, Sup!LedgerType, TriState
<1>5. ledger' # None
  BY <1>4, AbsenceAssumption
<1>6. Sup!TypeOK'
  BY <1>1, <1>4, Vocabulary DEF SupervisorOK, Sup!TypeOK, Control
<1> QED
  BY <1>1, <1>4, <1>5, <1>6 DEF SupervisorOK

LEMMA AdmissionTyped ==
  ASSUME SupervisorOK, ledger # None, NEW seen \in TriState
  PROVE  /\ [ledger EXCEPT !.admission = seen] \in Sup!LedgerType
         /\ [ledger EXCEPT !.admission = seen] # None
         /\ [ledger EXCEPT !.admission = seen].admission = seen
<1>1. ledger \in Sup!LedgerType
  BY DEF SupervisorOK, Sup!TypeOK
<1>2. /\ [ledger EXCEPT !.admission = seen] \in Sup!LedgerType
      /\ [ledger EXCEPT !.admission = seen].admission = seen
  BY <1>1, Vocabulary DEF Sup!LedgerType
<1> QED
  BY <1>2, AbsenceAssumption

LEMMA InjectAdmissionStep ==
  ASSUME SupervisorOK, NEW seen \in TriState, Sup!InjectAdmission(seen)
  PROVE  /\ SupervisorOK' /\ ledger # None /\ ledger' # None /\ ledger'.admission = seen
         /\ UNCHANGED <<attempts, effectPosture>>
<1>1. /\ ledger # None /\ ledger' = [ledger EXCEPT !.admission = seen]
      /\ UNCHANGED <<policy, attempts, failureRefs, schedules, effectPosture, lastControl, granted>>
  BY DEF Sup!InjectAdmission
<1>2. ledger' \in Sup!LedgerType /\ ledger' # None /\ ledger'.admission = seen
  BY <1>1, AdmissionTyped
<1>3. Sup!TypeOK'
  BY <1>1, <1>2 DEF SupervisorOK, Sup!TypeOK
<1> QED
  BY <1>1, <1>2, <1>3 DEF SupervisorOK

LEMMA AdmissionStep ==
  ASSUME SupervisorOK, Sup!Admission
  PROVE  /\ SupervisorOK' /\ ledger # None /\ ledger.admission = "NO"
         /\ ledger' # None /\ ledger'.admission = "YES" /\ ~Current.terminal
         /\ UNCHANGED <<attempts, effectPosture>>
<1>1. /\ ledger # None /\ ledger' = [ledger EXCEPT !.admission = "YES"]
      /\ ledger.admission = "NO" /\ ~Current.terminal
      /\ UNCHANGED <<policy, attempts, failureRefs, schedules, effectPosture, lastControl, granted>>
  BY DEF Sup!Admission, Sup!CanAdmit, Sup!Current, Current
<1>2. "YES" \in TriState
  BY DEF TriState
<1>3. ledger' \in Sup!LedgerType /\ ledger' # None /\ ledger'.admission = "YES"
  BY <1>1, <1>2, AdmissionTyped
<1>4. Sup!TypeOK'
  BY <1>1, <1>3 DEF SupervisorOK, Sup!TypeOK
<1> QED
  BY <1>1, <1>3, <1>4 DEF SupervisorOK

LEMMA SetPostureStep ==
  ASSUME SupervisorOK, NEW posture \in EffectPosture, Sup!SetPosture(posture)
  PROVE  SupervisorOK' /\ UNCHANGED <<attempts, ledger>> /\ effectPosture' = posture
<1>1. /\ effectPosture' = posture
      /\ UNCHANGED <<policy, attempts, ledger, failureRefs, schedules, lastControl, granted>>
  BY DEF Sup!SetPosture
<1>2. Sup!TypeOK'
  BY <1>1, Vocabulary DEF SupervisorOK, Sup!TypeOK
<1> QED
  BY <1>1, <1>2 DEF SupervisorOK

(* successor() for the last attempt: it either grants nothing and leaves    *)
(* the chain alone, or appends a live attempt to a scope never admitted.    *)
LEMMA SuccessorStep ==
  ASSUME SupervisorOK, attempts # << >>, ledger # None,
         NEW mode, NEW fresh \in Control, NEW lost,
         Sup!Successor(Len(attempts), mode, fresh, TRUE, lost)
  PROVE  /\ SupervisorOK' /\ ledger' # None /\ ledger'.admission = ledger.admission
         /\ effectPosture' = effectPosture /\ attempts' # << >>
         /\ granted' = 0 => attempts' = attempts /\ lastControl' # "PASS"
         /\ granted' # 0 => ledger.admission = "NO" /\ ~Current'.terminal
         /\ lastControl' \in Control
<1> DEFINE n == Len(attempts)
<1>1. attempts \in Seq(Sup!Attempt) /\ n \in Nat \ {0} /\ DOMAIN attempts = 1 .. n
  BY CurrentAttempt
<1>2. n \notin DOMAIN schedules
  BY <1>1 DEF SupervisorOK
<1>3. ledger \in Sup!LedgerType
  BY DEF SupervisorOK, Sup!TypeOK
<1>4. CASE Sup!Refuse(n, mode, fresh, TRUE)
  <2>1. /\ granted' = 0
        /\ UNCHANGED <<policy, attempts, ledger, failureRefs, schedules, effectPosture>>
    BY <1>4 DEF Sup!Refuse
  <2>2. Sup!EligibilityControl(n, mode, fresh, TRUE) \in Control
    BY Zenon DEF Sup!EligibilityControl, Sup!EffectControl, Control
  <2>3. lastControl' \in Control /\ lastControl' # "PASS"
    BY <1>4, <2>2 DEF Sup!Refuse, Control
  <2>4. Sup!TypeOK'
    BY <2>1, <2>3, Vocabulary DEF SupervisorOK, Sup!TypeOK
  <2> QED
    BY <2>1, <2>3, <2>4 DEF SupervisorOK
<1>5. ASSUME /\ ledger' \in Sup!LedgerType /\ ledger'.admission = ledger.admission
             /\ lastControl' \in {"CIRCUIT_OPEN", "HOLD_AMBIGUOUS"} /\ granted' = 0
             /\ UNCHANGED <<policy, attempts, failureRefs, schedules, effectPosture>>
      PROVE  /\ SupervisorOK' /\ ledger' # None /\ ledger'.admission = ledger.admission
             /\ effectPosture' = effectPosture /\ attempts' # << >>
             /\ attempts' = attempts /\ lastControl' # "PASS" /\ lastControl' \in Control
  <2>1. Sup!TypeOK'
    BY <1>5, Vocabulary DEF SupervisorOK, Sup!TypeOK, Control
  <2> QED
    BY <1>5, <2>1, AbsenceAssumption DEF SupervisorOK, Control
<1>6. CASE Sup!OpenCircuit(n, mode, fresh, TRUE)
  <2>1. ledger' = [ledger EXCEPT !.circuit = "OPEN"]
    BY <1>6 DEF Sup!OpenCircuit
  <2>2. ledger' \in Sup!LedgerType /\ ledger'.admission = ledger.admission
    BY <1>3, <2>1 DEF Sup!LedgerType
  <2> QED
    BY <1>5, <1>6, <2>2 DEF Sup!OpenCircuit
<1>7. CASE Sup!LoseSchedule(n, mode, fresh, TRUE, lost)
  <2>1. ledger' = [ledger EXCEPT !.schedulingKnown = FALSE]
    BY <1>7 DEF Sup!LoseSchedule
  <2>2. ledger' \in Sup!LedgerType /\ ledger'.admission = ledger.admission
    BY <1>3, <2>1 DEF Sup!LedgerType
  <2> QED
    BY <1>5, <1>7, <2>2 DEF Sup!LoseSchedule
<1>8. CASE Sup!Allocate(n, mode, fresh, TRUE, lost)
  <2> DEFINE next == Sup!NewAttempt(ledger.created + 1, n)
  <2>1. /\ attempts' = Append(attempts, next)
        /\ ledger' = [ledger EXCEPT !.created = @ + 1, !.active = n + 1]
        /\ schedules' = Sup!ScheduleOf(n)
        /\ lastControl' = "PASS" /\ granted' = n + 1
        /\ UNCHANGED <<policy, failureRefs, effectPosture>>
    BY <1>8 DEF Sup!Allocate
  <2>2. Sup!EligibilityControl(n, mode, fresh, TRUE) = "PASS"
    BY <1>8 DEF Sup!Allocate, Sup!EligibleFor
  <2>3. ledger.admission # "UNKNOWN" /\ ledger.admission # "YES"
    BY <2>2, Zenon DEF Sup!EligibilityControl, Sup!EffectControl
  <2>4. ledger.admission = "NO"
    BY <1>3, <2>3, Vocabulary DEF Sup!LedgerType, TriState
  <2>5. next \in Sup!Attempt /\ ~next.terminal
    BY <1>1, <1>3 DEF Sup!NewAttempt, Sup!Attempt, Sup!LedgerType
  <2>6. /\ attempts' \in Seq(Sup!Attempt) /\ Len(attempts') = n + 1 /\ DOMAIN attempts' = 1 .. (n + 1)
        /\ attempts'[n + 1] = next
    <3> HIDE DEF next
    <3> QED
      BY <1>1, <2>1, <2>5, AppendProperties, LenProperties
  <2>7. attempts' # << >> /\ ~Current'.terminal
    BY <1>1, <2>5, <2>6, EmptySeq DEF Current
  <2>8. /\ ledger' \in Sup!LedgerType /\ ledger'.admission = ledger.admission
    <3>1. ledger.created + 1 \in Nat /\ n + 1 \in Nat
      BY <1>1, <1>3 DEF Sup!LedgerType
    <3> HIDE DEF n
    <3> QED
      BY <1>3, <2>1, <3>1 DEF Sup!LedgerType
  <2>9. DOMAIN schedules' = DOMAIN schedules \cup {n} /\ \A a \in DOMAIN schedules' : schedules'[a] \in 1 .. (n + 1)
    BY <1>1, <2>1 DEF Sup!ScheduleOf, SupervisorOK, Sup!TypeOK
  <2>10. Sup!TypeOK'
    BY <1>1, <2>1, <2>6, <2>8, <2>9, Vocabulary DEF SupervisorOK, Sup!TypeOK, Control
  <2>11. \A a \in DOMAIN schedules' : a < n + 1
    <3>1. \A a \in DOMAIN schedules : a \in 1 .. n
      BY <1>1 DEF SupervisorOK, Sup!TypeOK
    <3> QED
      BY <1>1, <2>9, <3>1
  <2> QED
    BY <1>1, <2>1, <2>4, <2>6, <2>7, <2>8, <2>10, <2>11, AbsenceAssumption DEF SupervisorOK, Control
<1>9. ~Sup!Retrieve(n)
  BY <1>2 DEF Sup!Retrieve
<1> QED
  BY <1>4, <1>6, <1>7, <1>8, <1>9 DEF Sup!Successor

-----------------------------------------------------------------------------
(* What a step leaves alone: each part of the invariant depends on a few    *)
(* variables only, and on little of the supervisor's.                       *)

LEMMA BuiltFrame == BuiltOK /\ UNCHANGED <<faults, grant, fired>> => BuiltOK'
  BY DEF BuiltOK

LEMMA BasisFrame ==
  ASSUME BasisOK, UNCHANGED <<request, before, baseline, envelope, authority>>,
         attempts' # << >> => attempts # << >>, ledger' = None <=> ledger = None
  PROVE  BasisOK'
  BY DEF BasisOK

LEMMA PlansFrame ==
  ASSUME PlansOK, UNCHANGED <<plan, plans, validations>>, envelope' = None => envelope = None
  PROVE  PlansOK'
  BY DEF PlansOK

LEMMA CommitsFrame ==
  ASSUME CommitsOK, UNCHANGED <<commits, index, claims, plans, validations>>,
         commits # << >> => Len(attempts') = Len(attempts) /\ ledger'.admission = ledger.admission
  PROVE  CommitsOK'
  BY DEF CommitsOK, SingleAdmission

LEMMA ControlFrame ==
  ASSUME ControlOK, UNCHANGED <<pc, control, ret, call>>,
         UNCHANGED <<before, baseline, validations, commits>>,
         attempts' = attempts, envelope' = None <=> envelope = None, plan # None => plan' # None
  PROVE  ControlOK'
  BY DEF ControlOK, Live, Current

(* A step outside realization, from and to a place outside it.              *)
LEMMA StageFrame ==
  ASSUME StageOK, pc \notin Realizing, pc' \notin Realizing,
         UNCHANGED <<claims, invocation, invocations, log, closed, slots, projection>>,
         UNCHANGED <<pending, execution, observed, reconciliation>>,
         claims # {} => commits' = commits /\ index' = index,
         log # << >> => effectPosture' # "NONE_ESTABLISHED",
         pc' = "pre_dispatch" => claims = {}
  PROVE  StageOK'
<1>1. pc # "invoke" /\ pc' # "invoke"
  BY DEF Realizing
<1>2. CASE claims = {}
  BY <1>1, <1>2 DEF StageOK, Untouched
<1>3. CASE claims # {}
  <2>1. Realized /\ UNCHANGED <<commits, index>>
    BY <1>3 DEF StageOK
  <2>2. Realized'
    BY <1>1, <2>1 DEF Realized, Realizing, Commit
  <2> QED
    BY <1>1, <1>3, <2>2 DEF StageOK
<1> QED
  BY <1>2, <1>3

LEMMA EndedFrame ==
  ASSUME EndedOK, UNCHANGED <<index, claims, projection, control, attempts>>,
         pc = "retry" => pc' = "retry" \/ ~Current.terminal, pc' \notin Realizing => pc \notin Realizing
  PROVE  EndedOK'
  BY DEF EndedOK, Projected, Current

LEMMA EndedStop ==
  ASSUME Current'.terminal, control' # "PASS"
  PROVE  EndedOK'
  BY DEF EndedOK

(* A call that returns leaves nothing to hold but a typed result.           *)
LEMMA ControlReturn ==
  ASSUME pc' = "idle", control' \in Control,
         ret' \in ResultType \cup {None}, ret' # None => ret'.commit <= Len(commits')
  PROVE  ControlOK'
  BY DEF ControlOK, Preparing, Planning, Dispatching

-----------------------------------------------------------------------------
(* Results.                                                                 *)

Dispositions == {"TERMINAL", "COMPLETED", "HISTORICAL_RETRIEVAL", "HISTORICAL_INCOMPLETE",
                 "REFUSED_DUPLICATE", "NO_SCOPE_RESET"}

(* The result of a call that is left in this state, or by this step.        *)
LEMMA ResultTyped ==
  ASSUME control \in Control, commits \in Seq(CommitType), execution \in Report \cup {None},
         reconciliation \in Outcome \cup {None}, projection \in Projection \cup {None},
         NEW disposition \in Dispositions
  PROVE  /\ Result(disposition) \in ResultType /\ Result(disposition) # None
         /\ Result(disposition).commit = Len(commits)
         /\ Result(disposition).disposition = disposition
         /\ Result(disposition).commit <= Len(commits)
<1>1. Len(commits) \in Nat
  BY LenProperties
<1>2. /\ Result(disposition) \in ResultType
      /\ Result(disposition).commit = Len(commits)
      /\ Result(disposition).disposition = disposition
  BY <1>1 DEF Result, ResultType, Dispositions
<1>3. Result(disposition) # None
  BY <1>2, AbsenceAssumption
<1> QED
  BY <1>1, <1>2, <1>3

LEMMA ResultTypedNext ==
  ASSUME control' \in Control, commits' \in Seq(CommitType), execution' \in Report \cup {None},
         reconciliation' \in Outcome \cup {None}, projection' \in Projection \cup {None},
         NEW CONSTANT disposition \in Dispositions
  PROVE  /\ Result(disposition)' \in ResultType /\ Result(disposition)' # None
         /\ Result(disposition)'.commit = Len(commits')
         /\ Result(disposition)'.disposition = disposition
         /\ Result(disposition)'.commit <= Len(commits')
<1>1. Len(commits') \in Nat
  BY LenProperties
<1>2. /\ Result(disposition)' \in ResultType
      /\ Result(disposition)'.commit = Len(commits')
      /\ Result(disposition)'.disposition = disposition
  BY <1>1 DEF Result, ResultType, Dispositions
<1>3. Result(disposition)' # None
  BY <1>2, AbsenceAssumption
<1> QED
  BY <1>1, <1>2, <1>3

LEMMA BareTyped ==
  ASSUME NEW disposition \in Dispositions, NEW ctl \in Control, NEW commit \in Nat
  PROVE  /\ Bare(disposition, ctl, commit) \in ResultType
         /\ Bare(disposition, ctl, commit).commit = commit
         /\ Bare(disposition, ctl, commit).disposition = disposition
  BY DEF Bare, ResultType, Dispositions

(* A lookup returns a typed result about a commit there is.                 *)
LEMMA LookupTyped ==
  ASSUME CommitsOK, NEW key \in DOMAIN index, NEW req, NEW binding
  PROVE  /\ Lookup(key, req, binding) \in ResultType
         /\ Lookup(key, req, binding).commit <= Len(commits)
         /\ Lookup(key, req, binding).disposition \notin {"TERMINAL", "COMPLETED"}
<1> DEFINE entry == index[key]
           retrieved == [entry.result EXCEPT !.disposition = "HISTORICAL_RETRIEVAL"]
<1>1. Len(commits) \in Nat
  BY LenProperties DEF CommitsOK
<1>2. /\ Refused("REFUSED_DUPLICATE") \in ResultType
      /\ Refused("REFUSED_DUPLICATE").commit = 0
      /\ Refused("REFUSED_DUPLICATE").disposition = "REFUSED_DUPLICATE"
  BY BareTyped DEF Refused, Dispositions, Control
<1>3. /\ Bare("HISTORICAL_INCOMPLETE", "HOLD_AMBIGUOUS", Len(commits)) \in ResultType
      /\ Bare("HISTORICAL_INCOMPLETE", "HOLD_AMBIGUOUS", Len(commits)).commit = Len(commits)
      /\ Bare("HISTORICAL_INCOMPLETE", "HOLD_AMBIGUOUS", Len(commits)).disposition = "HISTORICAL_INCOMPLETE"
  BY <1>1, BareTyped DEF Dispositions, Control
<1>4. entry.result # None => entry.result \in ResultType /\ entry.result.commit <= Len(commits)
  BY DEF CommitsOK, EntryType
<1>5. entry.result # None => /\ retrieved \in ResultType /\ retrieved.commit <= Len(commits)
                             /\ retrieved.disposition = "HISTORICAL_RETRIEVAL"
  BY <1>4 DEF ResultType
<1> HIDE DEF retrieved
<1>6. \/ Lookup(key, req, binding) = Refused("REFUSED_DUPLICATE")
      \/ Lookup(key, req, binding) = Bare("HISTORICAL_INCOMPLETE", "HOLD_AMBIGUOUS", Len(commits))
      \/ entry.result # None /\ Lookup(key, req, binding) = retrieved
  BY DEF Lookup, retrieved
<1> QED
  BY <1>1, <1>2, <1>3, <1>5, <1>6

LEMMA GrantCheckControl ==
  ASSUME NEW g, NEW d, NEW s, NEW r, NEW p
  PROVE  GrantCheck(g, d, s, r, p) \in Control
  BY Zenon DEF GrantCheck, Control

LEMMA FreshControl ==
  Fresh \in Control /\ FreshForRetry \in Control /\ FreshFinally \in Control /\ WhatControl \in Control
<1>1. \A p : CurrentGrant(p) \in Control
  BY GrantCheckControl DEF CurrentGrant
<1>2. {"HOLD_AMBIGUOUS", "FAIL_NONRETRYABLE", "PASS"} \subseteq Control
  BY DEF Control
<1>3. Fresh \in Control
  BY <1>1, <1>2 DEF Fresh
<1>4. FreshForRetry \in Control
  BY <1>1, <1>2 DEF FreshForRetry
<1>5. FreshFinally \in Control
  BY <1>1, <1>2 DEF FreshFinally
<1> QED
  BY <1>1, <1>2, <1>3, <1>4, <1>5 DEF WhatControl

-----------------------------------------------------------------------------
(* The one commit: there is at most one, it has the index's only entry, and *)
(* it names a plan and a validation there are.                              *)
LEMMA OneCommit ==
  ASSUME CommitsOK, commits # << >>
  PROVE  /\ Len(commits) = 1 /\ DOMAIN commits = {1} /\ Commit = commits[1] /\ Commit \in CommitType
         /\ DOMAIN index = {Commit.key} /\ index[Commit.key] \in EntryType
         /\ Commit.plan \in DOMAIN plans /\ Commit.validation \in DOMAIN validations
         /\ validations[Commit.validation].disposition = "PASS"
         /\ validations[Commit.validation].plan = Commit.plan
         /\ plans[Commit.plan].attempt = Commit.attempt /\ Commit.attempt = Len(attempts)
         /\ index[Commit.key].binding.plan = Commit.plan
         /\ index[Commit.key].binding.mode = plans[Commit.plan].mode
         /\ ledger.admission # "NO"
<1>1. commits \in Seq(CommitType) /\ Len(commits) <= 1
  BY DEF CommitsOK, SingleAdmission
<1>2. Len(commits) \in Nat \ {0} /\ DOMAIN commits = 1 .. Len(commits)
  BY <1>1, EmptySeq, LenProperties
<1>3. Len(commits) = 1 /\ DOMAIN commits = {1}
  BY <1>1, <1>2
<1>4. Commit = commits[1] /\ Commit \in CommitType
  BY <1>1, <1>3, ElementOfSeq DEF Commit
<1>5. DOMAIN index = {Commit.key}
  BY <1>3, <1>4 DEF CommitsOK
<1>6. index[Commit.key] \in EntryType
  BY <1>5 DEF CommitsOK
<1> QED
  BY <1>3, <1>4, <1>5, <1>6 DEF CommitsOK, SingleAdmission

LEMMA NoCommit ==
  ASSUME CommitsOK, commits = << >>
  PROVE  DOMAIN index = {} /\ claims = {} /\ DOMAIN commits = {} /\ Len(commits) = 0
  BY EmptySeq, LenProperties DEF CommitsOK

(* The result retained under the commit's key.                              *)
LEMMA CommitsRetained ==
  ASSUME CommitsOK, commits # << >>, UNCHANGED <<commits, claims, plans, validations>>,
         NEW result \in ResultType, result.commit <= Len(commits),
         index' = [index EXCEPT ![Commit.key].result = result],
         Len(attempts') = Len(attempts), ledger'.admission = ledger.admission
  PROVE  /\ CommitsOK'
         /\ DOMAIN index' = DOMAIN index /\ index'[Commit.key].result = result
         /\ index'[Commit.key].binding = index[Commit.key].binding
<1> DEFINE k == Commit.key
<1>1. DOMAIN index = {k} /\ index[k] \in EntryType
  BY OneCommit
<1>2. [index[k] EXCEPT !.result = result] \in EntryType
  BY <1>1 DEF EntryType
<1>3. /\ [index[k] EXCEPT !.result = result].result = result
      /\ [index[k] EXCEPT !.result = result].binding = index[k].binding
  BY <1>1 DEF EntryType
<1>4. DOMAIN index' = {k} /\ index'[k] = [index[k] EXCEPT !.result = result]
  BY <1>1
<1>5. index'[k] \in EntryType /\ index'[k].result = result /\ index'[k].binding = index[k].binding
  BY <1>2, <1>3, <1>4
<1>6. \A i \in DOMAIN commits : commits[i].key = k
  BY OneCommit
<1>7. SingleAdmission'
  <2>1. SingleAdmission
    BY DEF CommitsOK
  <2> SUFFICES ASSUME NEW i \in DOMAIN commits
               PROVE  LET c == commits[i]
                      IN  /\ validations[c.validation].disposition = "PASS"
                          /\ validations[c.validation].plan = c.plan
                          /\ plans[c.plan].attempt = c.attempt /\ c.attempt = Len(attempts')
                          /\ index'[c.key].binding.plan = c.plan
                          /\ index'[c.key].binding.mode = plans[c.plan].mode
                          /\ ledger'.admission # "NO"
    BY <2>1 DEF SingleAdmission
  <2>2. index'[commits[i].key].binding = index[commits[i].key].binding
    BY <1>5, <1>6
  <2> QED
    BY <2>1, <2>2 DEF SingleAdmission
<1> HIDE DEF k
<1>8. DOMAIN index' = {commits[i].key : i \in DOMAIN commits}
  BY <1>1, <1>4 DEF CommitsOK
<1>9. CommitsOK'
  <2>1. /\ commits' \in Seq(CommitType)
        /\ \A i \in DOMAIN commits' : commits'[i].plan \in DOMAIN plans' /\ commits'[i].validation \in DOMAIN validations'
        /\ claims' \subseteq DOMAIN index'
    BY <1>1, <1>4 DEF CommitsOK
  <2>2. DOMAIN index' = {commits'[i].key : i \in DOMAIN commits'}
    BY <1>8
  <2>3. /\ \A j \in DOMAIN index' : index'[j] \in EntryType
        /\ \A j \in DOMAIN index' : index'[j].result # None => index'[j].result.commit <= Len(commits')
    BY <1>4, <1>5
  <2> QED
    BY <1>7, <2>1, <2>2, <2>3 DEF CommitsOK
<1> QED
  BY <1>1, <1>4, <1>5, <1>9 DEF k

-----------------------------------------------------------------------------
(* stop(), in the three ways a call leaves by it.                           *)

LEMMA StopStep ==
  ASSUME SupervisorOK, attempts # << >>, NEW ctl \in Control \ {"PASS"}, Stop(ctl)
  PROVE  /\ SupervisorOK' /\ control' = ctl /\ control' \in Control /\ EndedOK'
         /\ attempts' # << >> /\ Len(attempts') = Len(attempts) /\ Current'.terminal
         /\ ledger' = None <=> ledger = None
         /\ ledger # None => ledger'.admission = ledger.admission
         /\ effectPosture' = effectPosture
<1>1. EndAttempt(ctl, "OTHER", TRUE) /\ control' = ctl
  BY DEF Stop
<1>2. "OTHER" \in FailureClass
  BY DEF FailureClass
<1>3. /\ SupervisorOK'
      /\ attempts' # << >> /\ Len(attempts') = Len(attempts) /\ Current'.terminal
      /\ ledger' = None <=> ledger = None
      /\ ledger # None => ledger'.admission = ledger.admission
      /\ effectPosture' = effectPosture
  BY <1>1, <1>2, EndAttemptStep
<1> QED
  BY <1>1, <1>3, EndedStop

(* A commit is only made in a bound scope.                                  *)
LEMMA CommitMeansBound ==
  ASSUME IndInv, commits # << >>
  PROVE  ledger # None /\ envelope # None /\ attempts # << >>
<1>1. Commit.plan \in DOMAIN plans
  BY OneCommit DEF IndInv
<1>2. plans # << >>
  BY <1>1, EmptySeq
<1>3. envelope # None
  BY <1>2 DEF IndInv, PlansOK
<1> QED
  BY <1>3 DEF IndInv, BasisOK, SupervisorOK

LEMMA StopCallStep ==
  ASSUME IndInv, attempts # << >>, pc \notin Realizing, NEW ctl \in Control \ {"PASS"},
         StopCall(ctl), UNCHANGED <<faults, grant, fired>>
  PROVE  IndInv'
<1>1. Stop(ctl) /\ pc' = "idle" /\ ret' \in {None, Result("TERMINAL")'}
  BY DEF StopCall, Return
<1>2. /\ UNCHANGED <<request, before, baseline, envelope, authority>>
      /\ UNCHANGED <<plan, plans, validations>>
      /\ UNCHANGED <<commits, index, claims, pending, execution, observed, reconciliation>>
      /\ UNCHANGED <<view, log, invocation, invocations, closed, slots, projection>>
  BY DEF StopCall, provVars, basisVars, planVars, realVars, outVars
<1>3. /\ SupervisorOK' /\ control' \in Control /\ EndedOK'
      /\ attempts' # << >> /\ Len(attempts') = Len(attempts)
      /\ ledger' = None <=> ledger = None
      /\ ledger # None => ledger'.admission = ledger.admission
      /\ effectPosture' = effectPosture
  BY <1>1, StopStep DEF IndInv
<1>4. BuiltOK' /\ BasisOK' /\ PlansOK'
  BY <1>2, <1>3, BuiltFrame, BasisFrame, PlansFrame DEF IndInv
<1>5. CommitsOK'
  BY <1>2, <1>3, CommitMeansBound, CommitsFrame DEF IndInv
<1>6. StageOK'
  BY <1>1, <1>2, <1>3, StageFrame DEF IndInv, StageOK, Realizing
<1>7. ControlOK'
  <2>1. "TERMINAL" \in Dispositions
    BY DEF Dispositions
  <2>2. Result("TERMINAL")' \in ResultType /\ Result("TERMINAL")'.commit <= Len(commits')
    BY <1>3, <1>5, <1>6, <2>1, ResultTypedNext DEF CommitsOK, StageOK
  <2> QED
    BY <1>1, <1>3, <2>2, ControlReturn
<1> QED
  BY <1>3, <1>4, <1>5, <1>6, <1>7 DEF IndInv

-----------------------------------------------------------------------------
(* Calls.                                                                   *)

LEMMA SupervisorFrame == SupervisorOK /\ UNCHANGED supVars => SupervisorOK'
  BY DEF SupervisorOK, Sup!TypeOK, supVars

LEMMA IdleFrame ==
  ASSUME IndInv, Idle
  PROVE  /\ pc = "idle" /\ pc \notin Realizing /\ BuiltOK'
         /\ UNCHANGED <<view, invocation, invocations, log, closed, authority, slots, projection, control>>
         /\ UNCHANGED <<pending, execution, observed, reconciliation, commits, index, claims>>
         /\ UNCHANGED <<faults, grant, fired>>
<1>1. /\ UNCHANGED <<view, invocation, invocations, log, closed, authority, slots, projection, control>>
      /\ UNCHANGED <<pending, execution, observed, reconciliation, commits, index, claims>>
      /\ UNCHANGED <<faults, grant, fired>> /\ pc = "idle"
  BY DEF Idle, provVars, seamVars, realVars, outVars
<1> QED
  BY <1>1, BuiltFrame DEF IndInv, Realizing

LEMMA AnswerStep ==
  ASSUME IndInv, Idle, NEW result \in ResultType, result.commit <= Len(commits), Answer(result)
  PROVE  IndInv'
<1>1. /\ ret' = result /\ UNCHANGED supVars
      /\ UNCHANGED <<request, before, baseline, envelope, plan, plans, validations, pc, call>>
  BY DEF Answer, basisVars, planVars
<1>2. UNCHANGED <<attempts, ledger, effectPosture>> /\ SupervisorOK'
  BY <1>1, SupervisorFrame DEF supVars, IndInv
<1>3. BasisOK' /\ PlansOK' /\ CommitsOK' /\ BuiltOK'
  BY <1>1, <1>2, IdleFrame, BasisFrame, PlansFrame, CommitsFrame DEF IndInv
<1>4. StageOK'
  BY <1>1, <1>2, IdleFrame, StageFrame DEF IndInv, StageOK
<1>5. EndedOK'
  BY <1>1, <1>2, IdleFrame, EndedFrame DEF IndInv
<1>6. ControlOK'
  <2>1. control' \in Control
    BY IdleFrame DEF IndInv, ControlOK
  <2> QED
    BY <1>1, <2>1, IdleFrame, ControlReturn
<1> QED
  BY <1>2, <1>3, <1>4, <1>5, <1>6 DEF IndInv

LEMMA StartScopeStep ==
  ASSUME IndInv, Idle, NEW to \in {"prepare", "run"}, NEW req \in Requests, NEW key \in Keys \cup {None},
         to = "run" => key \in Keys, StartScope(to, req, key)
  PROVE  IndInv'
<1> DEFINE c == [to |-> to, key |-> key, mode |-> req.mode, presented |-> "none"]
<1>1. /\ Sup!Start /\ request' = req /\ pc' = "started" /\ call' = c
      /\ UNCHANGED <<before, baseline, envelope, plan, plans, validations, ret>>
  BY DEF StartScope, Begin, planVars
<1>2. SupervisorOK' /\ attempts' # << >> /\ ~Current'.terminal /\ UNCHANGED <<ledger, effectPosture>>
  BY <1>1, StartStep DEF IndInv
<1>3. attempts = << >>
  BY <1>1 DEF Sup!Start
<1>4. ledger = None /\ envelope = None /\ plans = << >> /\ commits = << >> /\ claims = {} /\ DOMAIN index = {}
  BY <1>3, CommitMeansBound, NoCommit DEF IndInv, SupervisorOK, BasisOK, PlansOK
<1>5. BasisOK'
  <2>1. req # None
    BY RuntimeAssumption, AbsenceAssumption
  <2> QED
    BY <1>1, <1>2, <1>4, <2>1, IdleFrame DEF IndInv, BasisOK
<1>6. PlansOK' /\ CommitsOK'
  BY <1>1, <1>4, IdleFrame, PlansFrame, CommitsFrame DEF IndInv
<1>7. ControlOK'
  <2>1. req.mode \in Mode
    BY RuntimeAssumption DEF Request
  <2>2. c \in CallType /\ c.to = to /\ c.key = key
    BY <2>1 DEF CallType
  <2> HIDE DEF c
  <2>3. control' \in Control /\ ret' \in ResultType \cup {None} /\ (ret' # None => ret'.commit <= Len(commits'))
    BY <1>1, IdleFrame DEF IndInv, ControlOK
  <2> QED
    BY <1>1, <1>2, <1>4, <2>2, <2>3 DEF ControlOK, Live, Preparing, Planning, Dispatching
<1>8. StageOK'
  BY <1>1, <1>2, <1>4, IdleFrame, StageFrame DEF IndInv, StageOK, Realizing
<1>9. EndedOK'
  BY <1>2, <1>4, IdleFrame DEF EndedOK
<1> QED
  BY <1>2, <1>5, <1>6, <1>7, <1>8, <1>9, IdleFrame DEF IndInv

LEMMA CallPrepareStep ==
  ASSUME IndInv, NEW req \in Requests, CallPrepare(req)
  PROVE  IndInv'
  BY StartScopeStep DEF CallPrepare

LEMMA CallRunStep ==
  ASSUME IndInv, NEW req \in Requests, NEW key \in Keys, CallRun(req, key)
  PROVE  IndInv'
<1>1. Idle
  BY DEF CallRun
<1>2. CASE key \in DOMAIN index /\ \E binding : Answer(Lookup(key, req, binding))
  BY <1>1, <1>2, LookupTyped, AnswerStep DEF IndInv
<1>3. CASE Answer(Refused("NO_SCOPE_RESET"))
  <2>1. Refused("NO_SCOPE_RESET") \in ResultType /\ Refused("NO_SCOPE_RESET").commit = 0
    BY BareTyped DEF Refused, Dispositions, Control
  <2>2. Len(commits) \in Nat
    BY LenProperties DEF IndInv, CommitsOK
  <2> QED
    BY <1>1, <1>3, <2>1, <2>2, AnswerStep
<1>4. CASE StartScope("run", req, key)
  BY <1>1, <1>4, StartScopeStep
<1> QED
  BY <1>2, <1>3, <1>4 DEF CallRun

(* A call that begins at a place outside realization, in an open scope.     *)
LEMMA BeginStep ==
  ASSUME IndInv, Idle, UNCHANGED <<supVars, basisVars>>,
         NEW to \in {"realize", "dispatch"}, NEW key \in Keys, NEW mode \in Mode,
         NEW presented \in {"none", "exact", "other"}, NEW entry \in {"plan", "dispatch"},
         Begin(to, key, mode, presented, entry),
         entry = "plan" => envelope # None /\ Live, entry = "dispatch" => commits # << >>
  PROVE  IndInv'
<1> DEFINE c == [to |-> to, key |-> key, mode |-> mode, presented |-> presented]
<1>1. pc' = entry /\ call' = c /\ UNCHANGED <<plan, plans, validations, ret>>
  BY DEF Begin, planVars
<1>2. UNCHANGED <<request, before, baseline, envelope, attempts, ledger, effectPosture>> /\ SupervisorOK'
  BY SupervisorFrame DEF supVars, basisVars, IndInv
<1>3. BasisOK' /\ PlansOK' /\ CommitsOK'
  BY <1>1, <1>2, IdleFrame, BasisFrame, PlansFrame, CommitsFrame DEF IndInv
<1>4. StageOK' /\ EndedOK'
  BY <1>1, <1>2, IdleFrame, StageFrame, EndedFrame DEF IndInv, StageOK, Realizing
<1>5. ControlOK'
  <2>1. c \in CallType /\ c.key = key
    BY DEF CallType
  <2> HIDE DEF c
  <2>2. control' \in Control /\ ret' \in ResultType \cup {None} /\ (ret' # None => ret'.commit <= Len(commits'))
    BY <1>1, IdleFrame DEF IndInv, ControlOK
  <2>3. commits' = commits /\ (Live => Live')
    BY <1>2, IdleFrame DEF Live, Current
  <2> QED
    BY <1>1, <1>2, <2>1, <2>2, <2>3 DEF ControlOK, Preparing, Planning, Dispatching
<1> QED
  BY <1>2, <1>3, <1>4, <1>5, IdleFrame DEF IndInv

LEMMA CallRealizeStep ==
  ASSUME IndInv, NEW key \in Keys, NEW mode \in Mode \cup {None}, CallRealize(key, mode)
  PROVE  IndInv'
<1>1. Idle
  BY DEF CallRealize
<1>2. CASE Answer(Result("TERMINAL"))
  <2>1. "TERMINAL" \in Dispositions
    BY DEF Dispositions
  <2>2. Result("TERMINAL") \in ResultType /\ Result("TERMINAL").commit <= Len(commits)
    BY <2>1, ResultTyped DEF IndInv, CommitsOK, StageOK, ControlOK
  <2> QED
    BY <1>1, <1>2, <2>2, AnswerStep
<1>3. CASE /\ Realizable
           /\ Begin("realize", key, IF mode = None THEN request.mode ELSE mode, "none", "plan")
           /\ UNCHANGED <<supVars, basisVars>>
  <2>1. envelope # None /\ ~Current.terminal
    BY <1>3 DEF Realizable
  <2>2. attempts # << >>
    BY <2>1 DEF IndInv, BasisOK, SupervisorOK
  <2>3. request.mode \in Mode
    BY <2>2, RuntimeAssumption, AbsenceAssumption DEF IndInv, BasisOK, Request
  <2> DEFINE used == IF mode = None THEN request.mode ELSE mode
  <2>4. used \in Mode
    BY <2>3
  <2>5. Begin("realize", key, used, "none", "plan")
    BY <1>3
  <2> HIDE DEF used
  <2> QED
    BY <1>1, <1>3, <2>1, <2>2, <2>4, <2>5, BeginStep DEF Live
<1> QED
  BY <1>2, <1>3 DEF CallRealize

LEMMA CallDispatchStep ==
  ASSUME IndInv, NEW presented \in {"none", "exact", "other"}, CallDispatch(presented)
  PROVE  IndInv'
<1>1. /\ Idle /\ commits # << >> /\ UNCHANGED <<supVars, basisVars>>
      /\ Begin("dispatch", Commit.key, request.mode, presented, "dispatch")
  BY DEF CallDispatch
<1>2. Commit.key \in Keys
  BY <1>1, OneCommit DEF IndInv, CommitType
<1>3. request.mode \in Mode
  <2>1. attempts # << >>
    BY <1>1, CommitMeansBound
  <2> QED
    BY <2>1, RuntimeAssumption, AbsenceAssumption DEF IndInv, BasisOK, Request
<1> QED
  BY <1>1, <1>2, <1>3, BeginStep

-----------------------------------------------------------------------------
(* Plans, and the stages of realize() driven by hand.                       *)

LEMMA BuiltPlan ==
  ASSUME NEW e \in Envelope, NEW id \in Nat, NEW attempt \in Nat, NEW mode \in Mode, NEW defect
  PROVE  LET p == BuildInstruction(e, id, attempt, mode, defect)
         IN  /\ p # None => p \in Plan /\ p.id = id /\ p.steps # << >>
             /\ defect # "infeasible" => p # None
<1> DEFINE step == ProposedStep(e, defect)
           steps == IF defect = "extra_step" THEN <<step, step>> ELSE <<step>>
           built == [id |-> id, attempt |-> attempt, mode |-> mode, steps |-> steps,
                     obligations |-> defect # "obligations"]
<1>1. ExpectedStep(e) \in PlanStep
  BY DEF ExpectedStep, Envelope, PlanStep
<1>2. step \in PlanStep
  <2>1. [ExpectedStep(e) EXCEPT !.target = "APPROVED"] \in PlanStep
    BY <1>1 DEF PlanStep
  <2>2. [ExpectedStep(e) EXCEPT !.object = "OTHER"] \in PlanStep
    BY <1>1 DEF PlanStep
  <2>3. [ExpectedStep(e) EXCEPT !.version = 1, !.integral = FALSE] \in PlanStep
    BY <1>1 DEF PlanStep
  <2>4. [ExpectedStep(e) EXCEPT !.implementation = "unregistered"] \in PlanStep
    BY <1>1 DEF PlanStep
  <2> QED
    BY <1>1, <2>1, <2>2, <2>3, <2>4 DEF ProposedStep
<1> HIDE DEF step
<1>3. steps \in Seq(PlanStep) /\ steps # << >>
  BY <1>2
<1> HIDE DEF steps
<1>4. built \in Plan /\ built.id = id /\ built.steps # << >>
  BY <1>3 DEF Plan
<1>5. BuildInstruction(e, id, attempt, mode, defect) = IF defect = "infeasible" THEN None ELSE built
  BY DEF BuildInstruction, built, steps, step
<1> HIDE DEF built
<1>6. built # None
  BY <1>4, AbsenceAssumption
<1> QED
  BY <1>4, <1>5, <1>6

LEMMA VerdictGate ==
  ASSUME NEW p, NEW q
  PROVE  VerdictOn(p, q) \in Gate
  BY DEF VerdictOn, ValidatePlan, Gate

(* A plan retained as the next one.                                         *)
LEMMA PlansAppended ==
  ASSUME PlansOK, envelope # None, envelope' = envelope,
         NEW p \in Plan, p.id = Len(plans) + 1, plans' = Append(plans, p)
  PROVE  /\ plans' \in Seq(Plan) /\ DOMAIN plans' = DOMAIN plans \cup {p.id} /\ p.id \in DOMAIN plans'
         /\ \A i \in DOMAIN plans' : plans'[i].id = i
         /\ \A i \in DOMAIN plans : plans'[i] = plans[i]
         /\ plans'[p.id] = p
<1> DEFINE n == Len(plans)
<1>1. plans \in Seq(Plan) /\ n \in Nat /\ DOMAIN plans = 1 .. n
  BY LenProperties DEF PlansOK
<1>2. /\ plans' \in Seq(Plan) /\ Len(plans') = n + 1 /\ plans'[n + 1] = p
      /\ \A i \in 1 .. n : plans'[i] = plans[i]
  BY <1>1, AppendProperties
<1>3. DOMAIN plans' = 1 .. (n + 1)
  BY <1>2, LenProperties
<1>4. \A i \in 1 .. n : plans[i].id = i
  BY <1>1 DEF PlansOK
<1> HIDE DEF n
<1>5. p.id = n + 1
  BY DEF n
<1>6. 1 .. (n + 1) = (1 .. n) \cup {n + 1}
  BY <1>1
<1> QED
  BY <1>1, <1>2, <1>3, <1>4, <1>5, <1>6

(* A validation of a retained plan, retained as the next one.               *)
LEMMA ValidationsAppended ==
  ASSUME PlansOK, Len(attempts) \in Nat, NEW p \in Plan, NEW q, NEW kept, p.id \in kept, DOMAIN plans \subseteq kept,
         validations' = Append(validations, ValidationOf(p, q))
  PROVE  /\ validations' \in Seq(ValidationType) /\ validations' # << >>
         /\ DOMAIN validations \subseteq DOMAIN validations'
         /\ \A i \in DOMAIN validations' : validations'[i].id = i /\ validations'[i].plan \in kept
         /\ \A i \in DOMAIN validations : validations'[i] = validations[i]
<1> DEFINE n == Len(validations)
           v == ValidationOf(p, q)
<1>1. validations \in Seq(ValidationType) /\ n \in Nat /\ DOMAIN validations = 1 .. n
  BY LenProperties DEF PlansOK
<1>2. v \in ValidationType /\ v.id = n + 1 /\ v.plan = p.id
  <2>1. VerdictOn(p, q) \in Gate /\ p.id \in Nat /\ n + 1 \in Nat
    BY <1>1, VerdictGate DEF Plan
  <2> QED
    BY <2>1 DEF ValidationOf, ValidationType
<1> HIDE DEF v
<1>3. validations' = Append(validations, v)
  BY DEF v
<1>4. /\ validations' \in Seq(ValidationType) /\ Len(validations') = n + 1 /\ validations'[n + 1] = v
      /\ \A i \in 1 .. n : validations'[i] = validations[i]
  BY <1>1, <1>2, <1>3, AppendProperties
<1>5. DOMAIN validations' = 1 .. (n + 1)
  BY <1>4, LenProperties
<1>6. \A i \in 1 .. n : validations[i].id = i /\ validations[i].plan \in kept
  BY <1>1 DEF PlansOK
<1>7. validations' # << >>
  BY <1>1, <1>4, EmptySeq
<1> HIDE DEF n
<1>8. 1 .. (n + 1) = (1 .. n) \cup {n + 1}
  BY <1>1
<1> QED
  BY <1>1, <1>2, <1>4, <1>5, <1>6, <1>7, <1>8

(* What was committed to stays where it was: plans and validations are only *)
(* added to.                                                                *)
LEMMA CommitsKept ==
  ASSUME CommitsOK, UNCHANGED <<commits, index, claims>>,
         commits # << >> => Len(attempts') = Len(attempts) /\ ledger'.admission = ledger.admission,
         DOMAIN plans \subseteq DOMAIN plans', \A i \in DOMAIN plans : plans'[i] = plans[i],
         DOMAIN validations \subseteq DOMAIN validations',
         \A i \in DOMAIN validations : validations'[i] = validations[i]
  PROVE  CommitsOK'
<1>1. SingleAdmission'
  BY DEF CommitsOK, SingleAdmission
<1> QED
  BY <1>1 DEF CommitsOK

LEMMA CallBuildStep ==
  ASSUME IndInv, NEW mode \in Mode, NEW defect \in StagedDefect, CallBuild(mode, defect)
  PROVE  IndInv'
<1> DEFINE p == BuildInstruction(envelope, Len(plans) + 1, Len(attempts), mode, defect)
<1>1. /\ Idle /\ envelope # None /\ plan' = p /\ plans' = Append(plans, plan')
      /\ UNCHANGED <<validations, supVars, pc, call, ret>>
      /\ UNCHANGED <<request, before, baseline, envelope>>
  BY DEF CallBuild, basisVars
<1>2. UNCHANGED <<attempts, ledger, effectPosture>> /\ SupervisorOK'
  BY <1>1, SupervisorFrame DEF supVars, IndInv
<1>3. plan' # None /\ plan' \in Plan /\ plan'.id = Len(plans) + 1 /\ plan'.steps # << >>
  <2>1. attempts # << >>
    BY <1>1 DEF IndInv, BasisOK, SupervisorOK
  <2>2. Len(attempts) \in Nat /\ Len(plans) \in Nat /\ envelope \in Envelope
    BY <1>1, <2>1, CurrentAttempt, LenProperties DEF IndInv, BasisOK, PlansOK
  <2>3. defect # "infeasible"
    BY DEF StagedDefect
  <2>4. /\ p # None => p \in Plan /\ p.id = Len(plans) + 1 /\ p.steps # << >>
        /\ defect # "infeasible" => p # None
    <3>1. Len(plans) + 1 \in Nat
      BY <2>2
    <3> QED
      BY <2>2, <3>1, BuiltPlan
  <2> HIDE DEF p
  <2> QED
    BY <1>1, <2>3, <2>4
<1>4. /\ plans' \in Seq(Plan) /\ DOMAIN plans \subseteq DOMAIN plans' /\ plan'.id \in DOMAIN plans'
      /\ \A i \in DOMAIN plans' : plans'[i].id = i
      /\ \A i \in DOMAIN plans : plans'[i] = plans[i]
  BY <1>1, <1>3, PlansAppended DEF IndInv
<1>5. BasisOK' /\ BuiltOK'
  BY <1>1, <1>2, IdleFrame, BasisFrame DEF IndInv
<1>6. PlansOK'
  BY <1>1, <1>3, <1>4 DEF IndInv, PlansOK
<1>7. CommitsOK'
  BY <1>1, <1>2, <1>4, IdleFrame, CommitsKept DEF IndInv
<1>8. StageOK' /\ EndedOK'
  BY <1>1, <1>2, IdleFrame, StageFrame, EndedFrame DEF IndInv, StageOK
<1>9. ControlOK'
  BY <1>1, <1>2, <1>3, IdleFrame, ControlFrame DEF IndInv
<1> QED
  BY <1>2, <1>5, <1>6, <1>7, <1>8, <1>9 DEF IndInv

LEMMA CallValidateStep ==
  ASSUME IndInv, NEW p \in {plans[i] : i \in DOMAIN plans} \cup ({plan} \ {None}), CallValidate(p)
  PROVE  IndInv'
<1>1. /\ Idle /\ validations' = Append(validations, ValidationOf(p, plans[p.id]))
      /\ UNCHANGED <<plans, plan, supVars, pc, call, ret>>
      /\ UNCHANGED <<request, before, baseline, envelope>>
  BY DEF CallValidate, basisVars
<1>2. UNCHANGED <<attempts, ledger, effectPosture>> /\ SupervisorOK'
  BY <1>1, SupervisorFrame DEF supVars, IndInv
<1>3. p \in Plan /\ p.id \in DOMAIN plans
  <2>1. CASE p \in {plans[i] : i \in DOMAIN plans}
    BY <2>1, ElementOfSeq, LenProperties DEF IndInv, PlansOK
  <2>2. CASE p \in {plan} \ {None}
    BY <2>2 DEF IndInv, PlansOK
  <2> QED
    BY <2>1, <2>2
<1>4. Len(attempts) \in Nat
  BY LenProperties DEF IndInv, SupervisorOK, Sup!TypeOK
<1>5. /\ validations' \in Seq(ValidationType) /\ validations' # << >>
      /\ DOMAIN validations \subseteq DOMAIN validations'
      /\ \A j \in DOMAIN validations' : validations'[j].id = j /\ validations'[j].plan \in DOMAIN plans
      /\ \A j \in DOMAIN validations : validations'[j] = validations[j]
  BY <1>1, <1>3, <1>4, ValidationsAppended DEF IndInv
<1>6. BasisOK' /\ BuiltOK'
  BY <1>1, <1>2, IdleFrame, BasisFrame DEF IndInv
<1>7. PlansOK'
  BY <1>1, <1>5 DEF IndInv, PlansOK
<1>8. CommitsOK'
  BY <1>1, <1>2, <1>5, IdleFrame, CommitsKept DEF IndInv
<1>9. StageOK' /\ EndedOK'
  BY <1>1, <1>2, IdleFrame, StageFrame, EndedFrame DEF IndInv, StageOK
<1>10. ControlOK'
  <2>1. control' \in Control /\ ret' \in ResultType \cup {None} /\ (ret' # None => ret'.commit <= Len(commits'))
    BY <1>1, IdleFrame DEF IndInv, ControlOK
  <2> QED
    BY <1>1, <2>1, IdleFrame, ControlReturn
<1> QED
  BY <1>2, <1>6, <1>7, <1>8, <1>9, <1>10 DEF IndInv

-----------------------------------------------------------------------------
(* admit(): the commit is the first, it is to the current plan as retained, *)
(* and the last validation retained passed that plan.                       *)
LEMMA AdmitUnderStep ==
  ASSUME IndInv, plan # None, validations # << >>, NEW key \in Keys, AdmitUnder(key)
  PROVE  /\ SupervisorOK' /\ CommitsOK'
         /\ commits = << >> /\ commits' # << >> /\ claims = {} /\ claims' = {}
         /\ ledger # None /\ ledger' # None /\ ~Current.terminal
         /\ UNCHANGED <<attempts, effectPosture>>
         /\ \A k \in DOMAIN index' : index'[k].result = None
<1> DEFINE n == Len(attempts)
           c == [plan |-> plan.id, validation |-> Validation.id, attempt |-> n, key |-> key]
           entry == [request |-> request, binding |-> Binding, result |-> None]
<1>1. /\ Admissible /\ Sup!Admission /\ commits' = Append(commits, c)
      /\ index' = [k \in DOMAIN index \cup {key} |-> IF k = key THEN entry ELSE index[k]]
      /\ UNCHANGED <<plan, plans, validations, claims>>
  BY DEF AdmitUnder, planVars
<1>2. /\ SupervisorOK' /\ ledger # None /\ ledger.admission = "NO"
      /\ ledger' # None /\ ledger'.admission = "YES" /\ ~Current.terminal
      /\ UNCHANGED <<attempts, effectPosture>>
  BY <1>1, AdmissionStep DEF IndInv
<1>3. commits = << >> /\ DOMAIN index = {} /\ claims = {}
  BY <1>2, OneCommit, NoCommit DEF IndInv
<1>4. attempts # << >> /\ n \in Nat /\ request \in Requests
  <2>1. attempts # << >>
    BY <1>2 DEF IndInv, SupervisorOK
  <2> QED
    BY <2>1, CurrentAttempt DEF IndInv, BasisOK
<1>5. /\ validations \in Seq(ValidationType) /\ Len(validations) \in DOMAIN validations
      /\ Validation \in ValidationType /\ Validation.id = Len(validations)
      /\ validations[Validation.id] = Validation
  <2>1. validations \in Seq(ValidationType) /\ Len(validations) \in Nat \ {0} /\ DOMAIN validations = 1 .. Len(validations)
    BY EmptySeq, LenProperties DEF IndInv, PlansOK
  <2>2. Len(validations) \in DOMAIN validations
    BY <2>1
  <2> QED
    BY <2>1, <2>2, ElementOfSeq DEF IndInv, PlansOK, Validation
<1>6. plan \in Plan /\ plan.id \in DOMAIN plans
  BY DEF IndInv, PlansOK
<1>7. /\ plan = plans[plan.id] /\ plan.attempt = n
      /\ Validation.disposition = "PASS" /\ Validation.plan = plan.id
  BY <1>1 DEF Admissible
<1>8. c \in CommitType /\ c.plan = plan.id /\ c.validation = Validation.id /\ c.attempt = n /\ c.key = key
  BY <1>4, <1>5, <1>6 DEF CommitType, ValidationType, Plan
<1>9. Binding \in BindingType /\ Binding.plan = plan.id /\ Binding.mode = plan.mode
  BY <1>5, <1>6 DEF Binding, BindingType, ValidationType, Plan
<1>10. entry \in EntryType /\ entry.binding = Binding /\ entry.result = None
  BY <1>4, <1>9 DEF EntryType
<1> HIDE DEF c, entry
<1>11. commits' = <<c>> /\ commits' \in Seq(CommitType) /\ Len(commits') = 1 /\ commits'[1] = c /\ commits' # << >>
  BY <1>1, <1>3, <1>8
<1>12. DOMAIN commits' = {1}
  BY <1>11
<1>13. DOMAIN index' = {key} /\ index'[key] = entry
  BY <1>1, <1>3
<1>14. SingleAdmission'
  <2>1. validations'[c.validation] = Validation /\ plans'[c.plan] = plan /\ Len(attempts') = n
    BY <1>1, <1>2, <1>5, <1>7, <1>8
  <2>2. index'[c.key].binding.plan = c.plan /\ index'[c.key].binding.mode = plan.mode
    BY <1>8, <1>9, <1>10, <1>13
  <2> QED
    BY <1>2, <1>7, <1>8, <1>11, <1>12, <2>1, <2>2 DEF SingleAdmission
<1>15. CommitsOK'
  <2>1. DOMAIN index' = {commits'[i].key : i \in DOMAIN commits'}
    BY <1>8, <1>11, <1>12, <1>13
  <2>2. c.plan \in DOMAIN plans' /\ c.validation \in DOMAIN validations'
    BY <1>1, <1>5, <1>6, <1>8
  <2> QED
    BY <1>1, <1>3, <1>10, <1>11, <1>12, <1>13, <1>14, <2>1, <2>2 DEF CommitsOK
<1> QED
  BY <1>1, <1>2, <1>3, <1>10, <1>11, <1>13, <1>15

LEMMA CallAdmitStep ==
  ASSUME IndInv, NEW key \in Keys, CallAdmit(key)
  PROVE  IndInv'
<1>1. /\ pc = "idle" /\ plan # None /\ validations # << >> /\ AdmitUnder(key)
      /\ UNCHANGED <<faults, grant, fired, pc, control, call, ret>>
      /\ UNCHANGED <<view, log, invocation, invocations, closed, authority, slots, projection>>
      /\ UNCHANGED <<request, before, baseline, envelope, plan, plans, validations>>
      /\ UNCHANGED <<claims, pending, execution, observed, reconciliation>>
  BY DEF CallAdmit, AdmitUnder, seamVars, provVars, basisVars, planVars, outVars
<1>2. /\ SupervisorOK' /\ CommitsOK'
      /\ commits = << >> /\ commits' # << >> /\ claims = {} /\ claims' = {}
      /\ ledger # None /\ ledger' # None /\ ~Current.terminal
      /\ UNCHANGED <<attempts, effectPosture>>
      /\ \A k \in DOMAIN index' : index'[k].result = None
  BY <1>1, AdmitUnderStep
<1>3. BasisOK' /\ PlansOK' /\ BuiltOK'
  BY <1>1, <1>2, BuiltFrame, BasisFrame, PlansFrame DEF IndInv
<1>4. StageOK'
  BY <1>1, <1>2, StageFrame DEF IndInv, StageOK, Realizing
<1>5. EndedOK'
  <2>1. ~Current'.terminal
    BY <1>2 DEF Current
  <2> QED
    BY <1>2, <2>1, Zenon DEF EndedOK
<1>6. ControlOK'
  <2>1. Len(commits) = 0 /\ Len(commits') \in Nat
    BY <1>2, LenProperties DEF CommitsOK
  <2>2. ret \in ResultType \cup {None} /\ (ret # None => ret.commit \in Nat /\ ret.commit <= Len(commits))
    BY DEF IndInv, ControlOK, ResultType
  <2>3. control' \in Control
    BY <1>1 DEF IndInv, ControlOK
  <2> QED
    BY <1>1, <2>1, <2>2, <2>3, ControlReturn
<1> QED
  BY <1>2, <1>3, <1>4, <1>5, <1>6 DEF IndInv

-----------------------------------------------------------------------------
(* Outside changes.                                                         *)

LEMMA GrantInjected ==
  ASSUME BuiltOK, NEW kind, InjectGrant(kind)
  PROVE  grant' \in Grant
<1> DEFINE base == IF grant = None THEN DefaultGrant ELSE grant
           active == CASE kind = "grant_unknown" -> "UNKNOWN" [] kind = "grant_inactive" -> "NO" [] OTHER -> "YES"
           human == kind \in {"human_reserved", "approval_subject"}
           own == kind = "approval_subject"
<1>1. NoSubject \in Subject
  BY DEF NoSubject, Subject
<1>2. DefaultGrant \in Grant
  BY <1>1 DEF DefaultGrant, OriginalDefinition, Grant, TriState
<1>3. base \in Grant
  BY <1>2 DEF BuiltOK
<1>4. active \in TriState /\ human \in BOOLEAN /\ own \in BOOLEAN
  BY DEF TriState
<1>5. grant' = [base EXCEPT !.active = active, !.human = human, !.subject = NoSubject, !.approved = own]
  BY DEF InjectGrant
<1> HIDE DEF base, active, human, own
<1> QED
  BY <1>1, <1>3, <1>4, <1>5 DEF Grant

LEMMA GrantApproved ==
  ASSUME PlansOK, ApprovePlan
  PROVE  grant' \in Grant
<1> DEFINE named == [kind |-> "plan", ref |-> plan.id]
<1>1. plan \in Plan
  BY DEF ApprovePlan, PlansOK
<1>2. named \in Subject
  BY <1>1 DEF Subject, Plan
<1>3. NoSubject \in Subject
  BY DEF NoSubject, Subject
<1>4. DefaultGrant \in Grant
  BY <1>3 DEF DefaultGrant, OriginalDefinition, Grant, TriState
<1>5. grant' = [DefaultGrant EXCEPT !.human = TRUE, !.approved = TRUE, !.subject = named]
  BY DEF ApprovePlan
<1> HIDE DEF named
<1> QED
  BY <1>2, <1>4, <1>5 DEF Grant

(* A seam may move the authority, the document, the evidence and what was   *)
(* retained, and mark the scope; the chain of attempts, the identity of the *)
(* plan and the stage reached it leaves alone.                              *)
LEMMA InjectChanges ==
  ASSUME IndInv, Inject
  PROVE  /\ SupervisorOK' /\ attempts' = attempts
         /\ ledger' = None <=> ledger = None
         /\ ledger' = ledger \/ ledger'.admission # "NO"
         /\ effectPosture' = effectPosture \/ effectPosture' # "NONE_ESTABLISHED"
         /\ UNCHANGED <<log, invocation, invocations, closed>>
         /\ authority' \in Authoritative
         /\ grant' \in Grant \cup {None}
         /\ envelope' \in Envelope \cup {None} /\ (envelope' = None <=> envelope = None)
         /\ plan' \in Plan \cup {None} /\ (plan' = None <=> plan = None)
         /\ plan # None => plan'.id = plan.id /\ plan'.steps = plan.steps
         /\ pc \in Seam \cup {"idle"}
<1> PICK kind \in {i.kind : i \in {j \in Injections : j.seam = pc}} : Inject!(kind)
  BY DEF Inject
<1>1. pc \in Seam \cup {"idle"}
  BY RuntimeAssumption
<1>2. /\ authority \in Authoritative /\ grant \in Grant \cup {None} /\ envelope \in Envelope \cup {None}
      /\ plan \in Plan \cup {None} /\ SupervisorOK
  BY DEF IndInv, BasisOK, BuiltOK, PlansOK
<1>3. UNCHANGED supVars => SupervisorOK' /\ UNCHANGED <<attempts, ledger, effectPosture>>
  BY <1>2, SupervisorFrame DEF supVars
<1>4. UNCHANGED provVars => UNCHANGED <<log, invocation, invocations, closed>>
  BY DEF provVars
<1>5. CASE /\ kind = "authority"
           /\ authority' = [state |-> "REVIEW", version |-> authority.version + 1]
           /\ UNCHANGED <<supVars, provVars, definition, grant, readFault, transition, envelope, plan>>
  <2>1. authority' \in Authoritative
    BY <1>2, <1>5 DEF Authoritative
  <2> QED
    BY <1>1, <1>2, <1>3, <1>4, <1>5, <2>1
<1>6. CASE /\ kind \in {"observation", "content"} /\ Prov!ForeignWrite(kind)
           /\ UNCHANGED <<supVars, authority, definition, grant, readFault, transition, envelope, plan>>
  <2>1. UNCHANGED <<log, invocation, invocations, closed>>
    BY <1>6 DEF Prov!ForeignWrite
  <2> QED
    BY <1>1, <1>2, <1>3, <1>6, <2>1
<1>7. CASE /\ \/ kind \in {"grant_inactive", "grant_unknown", "human_reserved", "approval_subject"} /\ InjectGrant(kind)
              \/ kind = "plan_approval" /\ ApprovePlan
           /\ UNCHANGED <<supVars, provVars, authority, definition, readFault, transition, envelope, plan>>
  <2>1. grant' \in Grant
    BY <1>7, GrantInjected, GrantApproved DEF IndInv
  <2> QED
    BY <1>1, <1>2, <1>3, <1>4, <1>7, <2>1
<1>8. CASE /\ kind = "definition" /\ definition' = 2
           /\ UNCHANGED <<supVars, provVars, authority, grant, readFault, transition, envelope, plan>>
  BY <1>1, <1>2, <1>3, <1>4, <1>8
<1>9. CASE /\ kind = "missing_read" /\ readFault' = "missing"
           /\ UNCHANGED <<supVars, provVars, authority, definition, grant, transition, envelope, plan>>
  BY <1>1, <1>2, <1>3, <1>4, <1>9
<1>10. CASE /\ \/ kind = "admitted" /\ Sup!InjectAdmission("YES")
               \/ kind = "unknown_admission" /\ Sup!InjectAdmission("UNKNOWN")
               \/ kind = "possible_effect" /\ Sup!SetPosture("POSSIBLE")
               \/ kind \in {"occurred_effect", "dispatch"} /\ Sup!SetPosture("OCCURRED")
               \/ kind = "unknown_effect" /\ Sup!SetPosture("UNKNOWN")
            /\ UNCHANGED <<provVars, authority, definition, grant, readFault, transition, envelope, plan>>
  <2>1. {"YES", "UNKNOWN"} \subseteq TriState /\ {"POSSIBLE", "OCCURRED", "UNKNOWN"} \subseteq EffectPosture
    BY DEF TriState, EffectPosture
  <2>2. ASSUME NEW seen \in {"YES", "UNKNOWN"}, Sup!InjectAdmission(seen)
        PROVE  /\ SupervisorOK' /\ ledger # None /\ ledger' # None /\ ledger'.admission # "NO"
               /\ UNCHANGED <<attempts, effectPosture>>
    BY <1>2, <2>1, <2>2, InjectAdmissionStep
  <2>3. ASSUME NEW posture \in {"POSSIBLE", "OCCURRED", "UNKNOWN"}, Sup!SetPosture(posture)
        PROVE  /\ SupervisorOK' /\ UNCHANGED <<attempts, ledger>> /\ effectPosture' # "NONE_ESTABLISHED"
    BY <1>2, <2>1, <2>3, SetPostureStep
  <2>4. /\ SupervisorOK' /\ attempts' = attempts /\ (ledger' = None <=> ledger = None)
        /\ ledger' = ledger \/ ledger'.admission # "NO"
        /\ effectPosture' = effectPosture \/ effectPosture' # "NONE_ESTABLISHED"
    BY <1>10, <2>2, <2>3
  <2> QED
    BY <1>1, <1>2, <1>4, <1>10, <2>4
<1>11. CASE /\ kind = "envelope" /\ envelope # None
            /\ envelope' = [envelope EXCEPT !.target = "APPROVED"]
            /\ UNCHANGED <<supVars, provVars, authority, definition, grant, readFault, transition, plan>>
  <2>1. envelope' \in Envelope
    BY <1>2, <1>11 DEF Envelope
  <2>2. envelope' # None
    BY <2>1, AbsenceAssumption
  <2> QED
    BY <1>1, <1>2, <1>3, <1>4, <1>11, <2>1, <2>2
<1>12. CASE /\ kind = "plan_mode" /\ plan # None
            /\ plan' = [plan EXCEPT !.mode = "DELEGATED_REALIZATION"]
            /\ UNCHANGED <<supVars, provVars, authority, definition, grant, readFault, transition, envelope>>
  <2>1. plan' \in Plan /\ plan'.id = plan.id /\ plan'.steps = plan.steps
    BY <1>2, <1>12 DEF Plan, Mode
  <2>2. plan' # None
    BY <2>1, AbsenceAssumption
  <2> QED
    BY <1>1, <1>2, <1>3, <1>4, <1>12, <2>1, <2>2
<1>13. CASE /\ kind = "target" /\ transition # None /\ transition' = "APPROVED"
            /\ UNCHANGED <<supVars, provVars, authority, definition, grant, readFault, envelope, plan>>
  BY <1>1, <1>2, <1>3, <1>4, <1>13
<1> QED
  BY <1>5, <1>6, <1>7, <1>8, <1>9, <1>10, <1>11, <1>12, <1>13

LEMMA InjectStep ==
  ASSUME IndInv, Inject
  PROVE  IndInv'
<1>1. /\ UNCHANGED <<faults, request, before, baseline, plans, validations, slots, projection>>
      /\ UNCHANGED <<commits, index, claims, pending, execution, observed, reconciliation>>
      /\ UNCHANGED <<control, pc, call, ret>>
      /\ \E f : fired' = fired \cup {f}
  BY DEF Inject, realVars, ctlVars
<1>2. /\ SupervisorOK' /\ attempts' = attempts
      /\ ledger' = None <=> ledger = None
      /\ ledger' = ledger \/ ledger'.admission # "NO"
      /\ effectPosture' = effectPosture \/ effectPosture' # "NONE_ESTABLISHED"
      /\ UNCHANGED <<log, invocation, invocations, closed>>
      /\ authority' \in Authoritative
      /\ grant' \in Grant \cup {None}
      /\ envelope' \in Envelope \cup {None} /\ (envelope' = None <=> envelope = None)
      /\ plan' \in Plan \cup {None} /\ (plan' = None <=> plan = None)
      /\ plan # None => plan'.id = plan.id /\ plan'.steps = plan.steps
  BY InjectChanges
<1>3. BuiltOK'
  BY <1>1, <1>2, FS_AddElement DEF IndInv, BuiltOK
<1>4. BasisOK'
  BY <1>1, <1>2 DEF IndInv, BasisOK
<1>5. PlansOK'
  BY <1>1, <1>2 DEF IndInv, PlansOK
<1>6. CommitsOK'
  BY <1>1, <1>2 DEF IndInv, CommitsOK, SingleAdmission
<1>7. ControlOK'
  BY <1>1, <1>2, ControlFrame DEF IndInv
<1>8. EndedOK'
  BY <1>1, <1>2, EndedFrame DEF IndInv
<1>9. StageOK'
  <2>1. Untouched => Untouched'
    BY <1>1, <1>2 DEF Untouched
  <2>2. Realized => Realized'
    BY <1>1, <1>2 DEF Realized, Commit
  <2> QED
    BY <1>1, <1>2, <2>1, <2>2 DEF IndInv, StageOK
<1> QED
  BY <1>2, <1>3, <1>4, <1>5, <1>6, <1>7, <1>8, <1>9 DEF IndInv

-----------------------------------------------------------------------------
(* prepare().                                                               *)

LEMMA PreparingState ==
  ASSUME IndInv, pc \in Preparing
  PROVE  /\ attempts # << >> /\ ~Current.terminal /\ envelope = None /\ ledger = None /\ request \in Requests
         /\ commits = << >> /\ claims = {} /\ DOMAIN index = {}
         /\ pc \notin Realizing /\ call \in CallType /\ call.to \in {"prepare", "run"}
         /\ call.to = "run" => call.key \in Keys
<1>1. /\ attempts # << >> /\ ~Current.terminal /\ envelope = None
      /\ call \in CallType /\ call.to \in {"prepare", "run"} /\ (call.to = "run" => call.key \in Keys)
      /\ pc \notin Realizing
  BY DEF IndInv, ControlOK, Live, Preparing, Realizing
<1>2. ledger = None /\ request \in Requests
  BY <1>1 DEF IndInv, BasisOK
<1>3. commits = << >>
  BY <1>1, CommitMeansBound
<1> QED
  BY <1>1, <1>2, <1>3, NoCommit DEF IndInv

LEMMA HoldIntentStep ==
  ASSUME IndInv, HoldIntent
  PROVE  IndInv'
<1>1. pc = "started" /\ UNCHANGED <<faults, grant, fired>> /\ StopCall("HOLD_AMBIGUOUS")
  BY DEF HoldIntent, seamVars
<1>2. "HOLD_AMBIGUOUS" \in Control \ {"PASS"} /\ pc \in Preparing
  BY <1>1 DEF Control, Preparing
<1> QED
  BY <1>1, <1>2, PreparingState, StopCallStep

LEMMA MissInitialStateStep ==
  ASSUME IndInv, MissInitialState
  PROVE  IndInv'
<1>1. pc = "initial" /\ UNCHANGED <<faults, grant, fired>> /\ StopCall("HOLD_AMBIGUOUS")
  BY DEF MissInitialState, LeaveSeam
<1>2. "HOLD_AMBIGUOUS" \in Control \ {"PASS"} /\ pc \in Preparing
  BY <1>1 DEF Control, Preparing
<1> QED
  BY <1>1, <1>2, PreparingState, StopCallStep

LEMMA RefuseWhatStep ==
  ASSUME IndInv, RefuseWhat
  PROVE  IndInv'
<1>1. pc = "what" /\ WhatControl # "PASS" /\ UNCHANGED <<faults, grant, fired>> /\ StopCall(WhatControl)
  BY DEF RefuseWhat, seamVars
<1>2. WhatControl \in Control \ {"PASS"} /\ pc \in Preparing
  BY <1>1, FreshControl DEF Preparing
<1> QED
  BY <1>1, <1>2, PreparingState, StopCallStep

(* A step of prepare() that keeps the attempt: it writes the basis at most. *)
LEMMA PreparingStep ==
  ASSUME IndInv, pc \in Preparing,
         UNCHANGED supVars, UNCHANGED <<faults, grant, fired>>,
         UNCHANGED <<request, envelope, authority, plan, plans, validations>>,
         UNCHANGED <<commits, index, claims, pending, execution, observed, reconciliation>>,
         UNCHANGED <<log, invocation, invocations, closed, slots, projection, control, ret>>,
         before' \in Authoritative \cup {None}, baseline' \in Prov!EffectView \cup {None},
         \/ pc' = "idle"
         \/ pc' = "initial" /\ call' = call
         \/ pc' = "what" /\ call' = call /\ before' # None /\ baseline' # None
  PROVE  IndInv'
<1>1. SupervisorOK' /\ UNCHANGED <<attempts, ledger, effectPosture>>
  BY SupervisorFrame DEF supVars, IndInv
<1>2. BuiltOK' /\ PlansOK' /\ CommitsOK'
  BY <1>1, BuiltFrame, PlansFrame, CommitsFrame DEF IndInv
<1>3. BasisOK'
  BY <1>1, PreparingState DEF IndInv, BasisOK
<1>4. pc' \notin Realizing /\ pc' # "pre_dispatch" /\ pc # "retry"
  BY DEF Realizing, Preparing
<1>5. StageOK' /\ EndedOK'
  BY <1>1, <1>4, PreparingState, StageFrame, EndedFrame DEF IndInv, StageOK
<1>6. ControlOK'
  <2>1. control' \in Control /\ ret' \in ResultType \cup {None} /\ (ret' # None => ret'.commit <= Len(commits'))
    BY DEF IndInv, ControlOK
  <2>2. Live'
    BY <1>1, PreparingState DEF Live, Current
  <2> QED
    BY <2>1, <2>2, PreparingState DEF ControlOK, Preparing, Planning, Dispatching
<1> QED
  BY <1>1, <1>2, <1>3, <1>5, <1>6 DEF IndInv

LEMMA LoseIntentStep ==
  ASSUME IndInv, LoseIntent
  PROVE  IndInv'
<1>1. pc \in Preparing /\ pc' = "idle"
  BY DEF LoseIntent, Preparing
<1>2. before \in Authoritative \cup {None} /\ baseline \in Prov!EffectView \cup {None}
  BY DEF IndInv, BasisOK
<1> QED
  BY <1>1, <1>2, PreparingStep DEF LoseIntent, provVars, seamVars, basisVars, planVars, realVars, outVars

LEMMA StructureIntentStep ==
  ASSUME IndInv, StructureIntent
  PROVE  IndInv'
<1>1. pc \in Preparing /\ pc' = "initial"
  BY DEF StructureIntent, Preparing
<1>2. before \in Authoritative \cup {None} /\ baseline \in Prov!EffectView \cup {None}
  BY DEF IndInv, BasisOK
<1> QED
  BY <1>1, <1>2, PreparingStep DEF StructureIntent, provVars, seamVars, basisVars, planVars, realVars, outVars

LEMMA ReadInitialStateStep ==
  ASSUME IndInv, view \in Prov!EffectView, ReadInitialState
  PROVE  IndInv'
<1>1. pc \in Preparing /\ pc' = "what" /\ baseline' = view /\ before' = authority
  BY DEF ReadInitialState, Preparing
<1>2. before' \in Authoritative /\ before' # None /\ baseline' \in Prov!EffectView /\ baseline' # None
  BY <1>1, AbsenceAssumption DEF IndInv, BasisOK
<1> QED
  BY <1>1, <1>2, PreparingStep DEF ReadInitialState, LeaveSeam, provVars, planVars, realVars, outVars

LEMMA ApproveWhatStep ==
  ASSUME IndInv, ApproveWhat
  PROVE  IndInv'
<1>1. /\ pc = "what" /\ pc \in Preparing /\ envelope' = RetainedEnvelope /\ Sup!Bind
      /\ UNCHANGED <<faults, grant, fired, request, before, baseline, authority, plan, plans, validations>>
      /\ UNCHANGED <<commits, index, claims, pending, execution, observed, reconciliation>>
      /\ UNCHANGED <<log, invocation, invocations, closed, slots, projection, control>>
      /\ \/ pc' = "idle" /\ ret' = None
         \/ call.to = "run" /\ pc' = "plan" /\ UNCHANGED <<call, ret>>
  BY DEF ApproveWhat, Preparing, Return, provVars, seamVars, planVars, realVars, outVars
<1>2. /\ SupervisorOK' /\ ledger' # None /\ UNCHANGED <<attempts, effectPosture>>
      /\ attempts # << >> /\ ~Current.terminal
  BY <1>1, BindStep DEF IndInv, ControlOK, Live
<1>3. before # None /\ baseline # None /\ before \in Authoritative /\ baseline \in Prov!EffectView
  BY <1>1 DEF IndInv, ControlOK, BasisOK
<1>4. RetainedEnvelope \in Envelope
  BY <1>3 DEF RetainedEnvelope, Envelope, Authoritative, Prov!EffectView
<1>5. RetainedEnvelope # None
  BY <1>4, AbsenceAssumption
<1>6. BuiltOK'
  BY <1>1, BuiltFrame DEF IndInv
<1>7. BasisOK'
  BY <1>1, <1>2, <1>3, <1>4, <1>5 DEF IndInv, BasisOK
<1>8. PlansOK' /\ CommitsOK'
  BY <1>1, <1>5, PreparingState, PlansFrame, CommitsFrame DEF IndInv
<1>9. pc' \notin Realizing /\ pc # "retry" /\ pc' # "pre_dispatch"
  BY <1>1 DEF Realizing
<1>10. StageOK' /\ EndedOK'
  BY <1>1, <1>2, <1>9, PreparingState, StageFrame, EndedFrame DEF IndInv, StageOK
<1>11. ControlOK'
  <2>1. control' \in Control /\ ret' \in ResultType \cup {None} /\ (ret' # None => ret'.commit <= Len(commits'))
    BY <1>1 DEF IndInv, ControlOK
  <2>2. Live'
    BY <1>2 DEF Live, Current
  <2> QED
    BY <1>1, <1>5, <2>1, <2>2, PreparingState DEF ControlOK, Preparing, Planning, Dispatching
<1> QED
  BY <1>2, <1>6, <1>7, <1>8, <1>10, <1>11 DEF IndInv

-----------------------------------------------------------------------------
(* realize(): planning.                                                     *)

LEMMA PlanningState ==
  ASSUME IndInv, pc \in Planning
  PROVE  /\ attempts # << >> /\ envelope # None /\ envelope \in Envelope /\ ledger # None
         /\ request \in Requests /\ before # None /\ baseline # None
         /\ pc \notin Realizing /\ call \in CallType /\ call.key \in Keys /\ call.mode \in Mode
<1>1. envelope # None /\ call \in CallType /\ call.key \in Keys /\ pc \notin Realizing
  BY DEF IndInv, ControlOK, Planning, Realizing
<1>2. /\ ledger # None /\ attempts # << >> /\ request \in Requests /\ envelope \in Envelope
      /\ before # None /\ baseline # None
  BY <1>1 DEF IndInv, BasisOK, SupervisorOK
<1>3. call.mode \in Mode
  BY <1>1 DEF CallType
<1> QED
  BY <1>1, <1>2, <1>3

LEMMA ProposalTyped ==
  ASSUME IndInv, pc \in Planning, Proposal # None
  PROVE  Proposal \in Plan /\ Proposal.id = Len(plans) + 1 /\ Proposal.steps # << >>
<1>1. /\ Len(plans) \in Nat /\ Len(attempts) \in Nat /\ envelope \in Envelope /\ call.mode \in Mode
  BY PlanningState, CurrentAttempt, LenProperties DEF IndInv, PlansOK
<1>2. Len(plans) + 1 \in Nat
  BY <1>1
<1> QED
  BY <1>1, <1>2, BuiltPlan DEF Proposal

(* An attempt that ends without a plan, or with a refused one, and returns. *)
LEMMA FailToPlanStep ==
  ASSUME IndInv, FailToPlan
  PROVE  IndInv'
<1>1. /\ pc = "plan" /\ plan' = None /\ Stop("HOLD_AMBIGUOUS") /\ pc' = "idle" /\ ret' = Result("TERMINAL")'
      /\ UNCHANGED <<faults, grant, fired, request, before, baseline, envelope, authority, plans, validations>>
      /\ UNCHANGED <<commits, index, claims, pending, execution, observed, reconciliation>>
      /\ UNCHANGED <<log, invocation, invocations, closed, slots, projection>>
  BY DEF FailToPlan, Return, provVars, seamVars, basisVars, realVars, outVars
<1>2. "HOLD_AMBIGUOUS" \in Control \ {"PASS"} /\ pc \in Planning
  BY <1>1 DEF Control, Planning
<1>3. /\ SupervisorOK' /\ control' \in Control /\ EndedOK'
      /\ attempts' # << >> /\ Len(attempts') = Len(attempts)
      /\ ledger' = None <=> ledger = None
      /\ ledger # None => ledger'.admission = ledger.admission
      /\ effectPosture' = effectPosture
  BY <1>1, <1>2, PlanningState, StopStep DEF IndInv
<1>4. BuiltOK' /\ BasisOK'
  BY <1>1, <1>2, <1>3, PlanningState, BuiltFrame, BasisFrame DEF IndInv
<1>5. PlansOK'
  BY <1>1 DEF IndInv, PlansOK
<1>6. CommitsOK'
  BY <1>1, <1>2, <1>3, PlanningState, CommitsFrame DEF IndInv
<1>7. StageOK'
  BY <1>1, <1>2, <1>3, PlanningState, StageFrame DEF IndInv, StageOK, Realizing
<1>8. ControlOK'
  <2>1. "TERMINAL" \in Dispositions
    BY DEF Dispositions
  <2>2. Result("TERMINAL")' \in ResultType /\ Result("TERMINAL")'.commit <= Len(commits')
    BY <1>3, <1>6, <1>7, <2>1, ResultTypedNext DEF CommitsOK, StageOK
  <2> QED
    BY <1>1, <1>3, <2>2, ControlReturn
<1> QED
  BY <1>3, <1>4, <1>5, <1>6, <1>7, <1>8 DEF IndInv

(* What retaining the proposal with its validation changes.                 *)
LEMMA RetainPlanStep ==
  ASSUME IndInv, RetainPlan,
         attempts' # << >>, Len(attempts') = Len(attempts), ledger' = None <=> ledger = None,
         ledger'.admission = ledger.admission, effectPosture' = effectPosture,
         pc' \notin Realizing, pc' # "pre_dispatch"
  PROVE  /\ BuiltOK' /\ BasisOK' /\ PlansOK' /\ CommitsOK' /\ StageOK'
         /\ plan' # None /\ validations' # << >>
<1>1. /\ pc = "plan" /\ Proposal # None /\ plan' = Proposal /\ plans' = Append(plans, Proposal)
      /\ validations' = Append(validations, ValidationOf(Proposal, Proposal))
      /\ UNCHANGED <<faults, grant, fired, request, before, baseline, envelope, authority>>
      /\ UNCHANGED <<commits, index, claims, pending, execution, observed, reconciliation>>
      /\ UNCHANGED <<log, invocation, invocations, closed, slots, projection>>
  BY DEF RetainPlan, provVars, seamVars, basisVars, realVars, outVars
<1>2. pc \in Planning
  BY <1>1 DEF Planning
<1>3. Proposal \in Plan /\ Proposal.id = Len(plans) + 1 /\ Proposal.steps # << >>
  BY <1>1, <1>2, ProposalTyped
<1>4. Len(attempts) \in Nat
  BY <1>2, PlanningState, CurrentAttempt DEF IndInv
<1>5. /\ plans' \in Seq(Plan) /\ DOMAIN plans' = DOMAIN plans \cup {Proposal.id} /\ Proposal.id \in DOMAIN plans'
      /\ \A i \in DOMAIN plans' : plans'[i].id = i
      /\ \A i \in DOMAIN plans : plans'[i] = plans[i]
  BY <1>1, <1>2, <1>3, PlanningState, PlansAppended DEF IndInv
<1>6. /\ validations' \in Seq(ValidationType) /\ validations' # << >>
      /\ DOMAIN validations \subseteq DOMAIN validations'
      /\ \A i \in DOMAIN validations' : validations'[i].id = i /\ validations'[i].plan \in DOMAIN plans'
      /\ \A i \in DOMAIN validations : validations'[i] = validations[i]
  <2> DEFINE kept == DOMAIN plans'
  <2>1. Proposal.id \in kept /\ DOMAIN plans \subseteq kept
    BY <1>5
  <2> HIDE DEF kept
  <2>2. /\ validations' \in Seq(ValidationType) /\ validations' # << >>
        /\ DOMAIN validations \subseteq DOMAIN validations'
        /\ \A i \in DOMAIN validations' : validations'[i].id = i /\ validations'[i].plan \in kept
        /\ \A i \in DOMAIN validations : validations'[i] = validations[i]
    BY <1>1, <1>3, <1>4, <2>1, ValidationsAppended DEF IndInv
  <2> QED
    BY <2>2 DEF kept
<1>7. BuiltOK' /\ BasisOK'
  BY <1>1, <1>2, PlanningState, BuiltFrame, BasisFrame DEF IndInv
<1>8. PlansOK'
  BY <1>1, <1>2, <1>3, <1>5, <1>6, PlanningState DEF IndInv, PlansOK
<1>9. CommitsOK'
  BY <1>1, <1>5, <1>6, CommitsKept DEF IndInv
<1>10. StageOK'
  BY <1>1, <1>2, PlanningState, StageFrame DEF IndInv, StageOK
<1> QED
  BY <1>1, <1>6, <1>7, <1>8, <1>9, <1>10

LEMMA AcceptPlanStep ==
  ASSUME IndInv, AcceptPlan
  PROVE  IndInv'
<1>1. /\ RetainPlan /\ pc = "plan" /\ pc' = "pre_commit" /\ UNCHANGED <<supVars, control, call, ret>>
      /\ UNCHANGED <<faults, grant, fired, request, before, baseline, envelope>>
      /\ UNCHANGED <<commits, index, claims, projection>>
  BY DEF AcceptPlan, RetainPlan, seamVars, basisVars, realVars, outVars
<1>2. pc \in Planning /\ pc' \notin Realizing
  BY <1>1 DEF Planning, Realizing
<1>3. SupervisorOK' /\ UNCHANGED <<attempts, ledger, effectPosture>>
  BY <1>1, SupervisorFrame DEF supVars, IndInv
<1>4. BuiltOK' /\ BasisOK' /\ PlansOK' /\ CommitsOK' /\ StageOK' /\ plan' # None /\ validations' # << >>
  BY <1>1, <1>2, <1>3, PlanningState, RetainPlanStep
<1>5. EndedOK'
  BY <1>1, <1>2, <1>3, PlanningState, EndedFrame DEF IndInv
<1>6. ControlOK'
  <2>1. control' \in Control /\ ret' \in ResultType \cup {None} /\ (ret' # None => ret'.commit <= Len(commits'))
    BY <1>1 DEF IndInv, ControlOK
  <2>2. Live'
    BY <1>1, <1>3 DEF Live, Current, IndInv, ControlOK
  <2> QED
    BY <1>1, <1>2, <1>4, <2>1, <2>2, PlanningState DEF ControlOK, Preparing, Planning, Dispatching
<1> QED
  BY <1>3, <1>4, <1>5, <1>6 DEF IndInv

LEMMA RefusePlanStep ==
  ASSUME IndInv, RefusePlan
  PROVE  IndInv'
<1> DEFINE retain == ~faults.evidenceMissing
<1>1. /\ RetainPlan /\ pc = "plan" /\ EndAttempt(RefusalControl, PlanFailure, retain)
      /\ \/ pc' = "retry" /\ UNCHANGED <<control, call, ret>>
         \/ control' = lastControl' /\ pc' = "idle" /\ ret' = Result("TERMINAL")'
      /\ UNCHANGED <<request, before, baseline, envelope, commits, index, claims, projection>>
  BY DEF RefusePlan, RetainPlan, Return, basisVars, realVars, outVars
<1>2. pc \in Planning /\ pc' \notin Realizing
  BY <1>1 DEF Planning, Realizing
<1>3. RefusalControl \in Control \ {"PASS"} /\ PlanFailure \in FailureClass /\ retain \in BOOLEAN
  BY DEF RefusalControl, PlanFailure, Control, FailureClass, IndInv, BuiltOK, FixtureFaults
<1>4. attempts # << >> /\ ~Current.terminal /\ ledger # None
  BY <1>1, <1>2, PlanningState DEF IndInv, ControlOK, Live
<1>5. /\ SupervisorOK' /\ attempts' # << >> /\ Len(attempts') = Len(attempts) /\ Current'.terminal
      /\ ledger' = None <=> ledger = None
      /\ ledger'.admission = ledger.admission /\ effectPosture' = effectPosture
      /\ lastControl' = IF retain THEN RefusalControl ELSE "HOLD_AMBIGUOUS"
  <2> HIDE DEF retain
  <2> QED
    BY <1>1, <1>3, <1>4, EndAttemptStep DEF IndInv
<1>6. lastControl' \in Control \ {"PASS"}
  BY <1>3, <1>5 DEF Control
<1>7. BuiltOK' /\ BasisOK' /\ PlansOK' /\ CommitsOK' /\ StageOK' /\ plan' # None /\ validations' # << >>
  BY <1>1, <1>2, <1>5, RetainPlanStep
<1>8. CASE pc' = "retry" /\ UNCHANGED <<control, call, ret>>
  <2>1. EndedOK'
    BY <1>5, <1>8 DEF EndedOK
  <2>2. control' \in Control /\ ret' \in ResultType \cup {None} /\ (ret' # None => ret'.commit <= Len(commits'))
    BY <1>1, <1>8 DEF IndInv, ControlOK
  <2>3. ControlOK'
    BY <1>1, <1>2, <1>5, <1>8, <2>2, PlanningState DEF ControlOK, Preparing, Planning, Dispatching
  <2> QED
    BY <1>5, <1>7, <2>1, <2>3 DEF IndInv
<1>9. CASE control' = lastControl' /\ pc' = "idle" /\ ret' = Result("TERMINAL")'
  <2>1. "TERMINAL" \in Dispositions /\ control' \in Control
    BY <1>6, <1>9 DEF Dispositions
  <2>2. Result("TERMINAL")' \in ResultType /\ Result("TERMINAL")'.commit <= Len(commits')
    BY <1>7, <2>1, ResultTypedNext DEF CommitsOK, StageOK
  <2>3. ControlOK' /\ EndedOK'
    BY <1>5, <1>6, <1>9, <2>1, <2>2, ControlReturn, EndedStop
  <2> QED
    BY <1>5, <1>7, <2>3 DEF IndInv
<1> QED
  BY <1>1, <1>8, <1>9

LEMMA RequestSuccessorStep ==
  ASSUME IndInv, RequestSuccessor
  PROVE  IndInv'
<1>1. /\ pc = "retry" /\ UNCHANGED <<faults, grant, fired>> /\ control' = lastControl'
      /\ Sup!Successor(Len(attempts), call.mode, FreshForRetry, TRUE, faults.scheduleLost)
      /\ UNCHANGED <<request, before, baseline, envelope, authority, plan, plans, validations>>
      /\ UNCHANGED <<commits, index, claims, pending, execution, observed, reconciliation>>
      /\ UNCHANGED <<log, invocation, invocations, closed, slots, projection>>
      /\ \/ granted' = 0 /\ pc' = "idle" /\ ret' = Result("TERMINAL")'
         \/ granted' # 0 /\ pc' = "plan" /\ UNCHANGED <<call, ret>>
  BY DEF RequestSuccessor, LeaveSeam, Return, provVars, basisVars, planVars, realVars, outVars
<1>2. pc \in Planning /\ pc' \notin Realizing /\ pc' # "pre_dispatch"
  BY <1>1 DEF Planning, Realizing
<1>3. attempts # << >> /\ Current.terminal /\ ledger # None
  BY <1>1, <1>2, PlanningState DEF IndInv, ControlOK
<1>4. /\ SupervisorOK' /\ ledger' # None /\ ledger'.admission = ledger.admission
      /\ effectPosture' = effectPosture /\ attempts' # << >>
      /\ granted' = 0 => attempts' = attempts /\ lastControl' # "PASS"
      /\ granted' # 0 => ledger.admission = "NO" /\ ~Current'.terminal
      /\ lastControl' \in Control
  BY <1>1, <1>3, FreshControl, SuccessorStep DEF IndInv
<1>5. granted' # 0 => commits = << >> /\ claims = {} /\ DOMAIN index = {}
  BY <1>4, OneCommit, NoCommit DEF IndInv
<1>6. BuiltOK' /\ BasisOK' /\ PlansOK'
  BY <1>1, <1>3, <1>4, BuiltFrame, BasisFrame, PlansFrame DEF IndInv
<1>7. CommitsOK'
  BY <1>1, <1>4, <1>5, CommitsFrame DEF IndInv
<1>8. StageOK'
  BY <1>1, <1>2, <1>4, PlanningState, StageFrame DEF IndInv, StageOK
<1>9. control' \in Control
  BY <1>1, <1>4
<1>10. CASE granted' = 0 /\ pc' = "idle" /\ ret' = Result("TERMINAL")'
  <2>1. "TERMINAL" \in Dispositions
    BY DEF Dispositions
  <2>2. Result("TERMINAL")' \in ResultType /\ Result("TERMINAL")'.commit <= Len(commits')
    BY <1>7, <1>8, <1>9, <2>1, ResultTypedNext DEF CommitsOK, StageOK
  <2>3. Current'.terminal
    BY <1>3, <1>4, <1>10 DEF Current
  <2>4. ControlOK' /\ EndedOK'
    BY <1>1, <1>4, <1>9, <1>10, <2>2, <2>3, ControlReturn, EndedStop
  <2> QED
    BY <1>4, <1>6, <1>7, <1>8, <2>4 DEF IndInv
<1>11. CASE granted' # 0 /\ pc' = "plan" /\ UNCHANGED <<call, ret>>
  <2>1. ret' \in ResultType \cup {None} /\ (ret' # None => ret'.commit <= Len(commits'))
    BY <1>1, <1>11 DEF IndInv, ControlOK
  <2>2. ControlOK'
    BY <1>1, <1>2, <1>4, <1>9, <1>11, <2>1, PlanningState DEF ControlOK, Live, Preparing, Planning, Dispatching
  <2>3. EndedOK'
    BY <1>1, <1>4, <1>5, <1>11 DEF EndedOK
  <2> QED
    BY <1>4, <1>6, <1>7, <1>8, <2>2, <2>3 DEF IndInv
<1> QED
  BY <1>1, <1>10, <1>11

LEMMA HoldCommitStep ==
  ASSUME IndInv, HoldCommit
  PROVE  IndInv'
<1>1. pc = "pre_commit" /\ Fresh # "PASS" /\ UNCHANGED <<faults, grant, fired>> /\ StopCall(Fresh)
  BY DEF HoldCommit, LeaveSeam
<1>2. Fresh \in Control \ {"PASS"} /\ pc \in Planning
  BY <1>1, FreshControl DEF Planning
<1> QED
  BY <1>1, <1>2, PlanningState, StopCallStep

LEMMA FailToAdmitStep ==
  ASSUME IndInv, FailToAdmit
  PROVE  IndInv'
<1>1. pc = "pre_commit" /\ UNCHANGED <<faults, grant, fired>> /\ StopCall("HOLD_AMBIGUOUS")
  BY DEF FailToAdmit, LeaveSeam
<1>2. "HOLD_AMBIGUOUS" \in Control \ {"PASS"} /\ pc \in Planning
  BY <1>1 DEF Control, Planning
<1> QED
  BY <1>1, <1>2, PlanningState, StopCallStep

LEMMA AdmitStep ==
  ASSUME IndInv, Admit
  PROVE  IndInv'
<1>1. /\ pc = "pre_commit" /\ pc' = "dispatch" /\ AdmitUnder(call.key)
      /\ UNCHANGED <<faults, grant, fired, control, call, ret>>
      /\ UNCHANGED <<view, log, invocation, invocations, closed, authority, slots, projection>>
      /\ UNCHANGED <<request, before, baseline, envelope, plan, plans, validations>>
      /\ UNCHANGED <<pending, execution, observed, reconciliation>>
  BY DEF Admit, AdmitUnder, LeaveSeam, provVars, basisVars, planVars, outVars
<1>2. pc \in Planning /\ pc' \notin Realizing /\ plan # None /\ validations # << >>
  BY <1>1 DEF Planning, Realizing, IndInv, ControlOK
<1>3. /\ SupervisorOK' /\ CommitsOK'
      /\ commits = << >> /\ commits' # << >> /\ claims = {} /\ claims' = {}
      /\ ledger # None /\ ledger' # None /\ ~Current.terminal
      /\ UNCHANGED <<attempts, effectPosture>>
      /\ \A k \in DOMAIN index' : index'[k].result = None
  BY <1>1, <1>2, PlanningState, AdmitUnderStep
<1>4. BasisOK' /\ PlansOK' /\ BuiltOK'
  BY <1>1, <1>3, BuiltFrame, BasisFrame, PlansFrame DEF IndInv
<1>5. StageOK'
  BY <1>1, <1>2, <1>3, PlanningState, StageFrame DEF IndInv, StageOK
<1>6. EndedOK'
  <2>1. ~Current'.terminal
    BY <1>3 DEF Current
  <2> QED
    BY <1>3, <2>1, Zenon DEF EndedOK
<1>7. ControlOK'
  <2>1. Len(commits) = 0 /\ Len(commits') \in Nat /\ Len(commits') > 0
    BY <1>3, EmptySeq, LenProperties DEF CommitsOK
  <2>2. control' \in Control /\ ret' \in ResultType \cup {None} /\ (ret' # None => ret'.commit <= Len(commits'))
    BY <1>1, <2>1 DEF IndInv, ControlOK, ResultType
  <2> QED
    BY <1>1, <1>2, <1>3, <2>2, PlanningState DEF ControlOK, Preparing, Planning, Dispatching
<1> QED
  BY <1>3, <1>4, <1>5, <1>6, <1>7 DEF IndInv

-----------------------------------------------------------------------------
(* dispatch(), up to the invocation.                                        *)

LEMMA DispatchingState ==
  ASSUME IndInv, pc \in Dispatching
  PROVE  /\ commits # << >> /\ attempts # << >> /\ ledger # None /\ envelope # None
         /\ request \in Requests /\ before # None /\ baseline # None
         /\ pc \notin Realizing /\ call \in CallType
<1>1. commits # << >> /\ call \in CallType /\ pc \notin Realizing
  BY DEF IndInv, ControlOK, Dispatching, Realizing
<1>2. ledger # None /\ envelope # None /\ attempts # << >>
  BY <1>1, CommitMeansBound
<1> QED
  BY <1>1, <1>2 DEF IndInv, BasisOK

LEMMA RetrieveDispatchStep ==
  ASSUME IndInv, RetrieveDispatch
  PROVE  IndInv'
<1> DEFINE result == IF call.presented = "other" \/ Binding # index[Commit.key].binding
                     THEN Refused("REFUSED_DUPLICATE") ELSE Lookup(Commit.key, request, None)
<1>1. /\ pc = "dispatch" /\ pc' = "idle" /\ ret' = result /\ UNCHANGED supVars
      /\ UNCHANGED <<faults, grant, fired, request, before, baseline, envelope, authority, plan, plans, validations>>
      /\ UNCHANGED <<commits, index, claims, pending, execution, observed, reconciliation>>
      /\ UNCHANGED <<log, invocation, invocations, closed, slots, projection, control>>
  BY DEF RetrieveDispatch, Return, provVars, seamVars, basisVars, planVars, realVars, outVars
<1>2. pc \in Dispatching /\ pc' \notin Realizing
  BY <1>1 DEF Dispatching, Realizing
<1>3. SupervisorOK' /\ UNCHANGED <<attempts, ledger, effectPosture>>
  BY <1>1, SupervisorFrame DEF supVars, IndInv
<1>4. BuiltOK' /\ BasisOK' /\ PlansOK' /\ CommitsOK'
  BY <1>1, <1>3, BuiltFrame, BasisFrame, PlansFrame, CommitsFrame DEF IndInv
<1>5. StageOK' /\ EndedOK'
  BY <1>1, <1>2, <1>3, DispatchingState, StageFrame, EndedFrame DEF IndInv, StageOK
<1>6. ControlOK'
  <2>1. Refused("REFUSED_DUPLICATE") \in ResultType /\ Refused("REFUSED_DUPLICATE").commit = 0
    BY BareTyped DEF Refused, Dispositions, Control
  <2>2. Lookup(Commit.key, request, None) \in ResultType /\ Lookup(Commit.key, request, None).commit <= Len(commits)
    <3>1. Commit.key \in DOMAIN index
      BY <1>2, DispatchingState, OneCommit DEF IndInv
    <3> QED
      BY <3>1, LookupTyped DEF IndInv
  <2>3. Len(commits) \in Nat
    BY LenProperties DEF IndInv, CommitsOK
  <2>4. result \in ResultType /\ result.commit <= Len(commits)
    BY <2>1, <2>2, <2>3
  <2> HIDE DEF result
  <2>5. control' \in Control
    BY <1>1 DEF IndInv, ControlOK
  <2> QED
    BY <1>1, <2>4, <2>5, ControlReturn
<1> QED
  BY <1>3, <1>4, <1>5, <1>6 DEF IndInv

LEMMA BeginDispatchStep ==
  ASSUME IndInv, BeginDispatch
  PROVE  IndInv'
<1>1. /\ pc = "dispatch" /\ ~Claimed /\ pc' = "pre_dispatch" /\ UNCHANGED supVars
      /\ UNCHANGED <<faults, grant, fired, request, before, baseline, envelope, authority, plan, plans, validations>>
      /\ UNCHANGED <<commits, index, claims, pending, execution, observed, reconciliation>>
      /\ UNCHANGED <<log, invocation, invocations, closed, slots, projection, control, call, ret>>
  BY DEF BeginDispatch, provVars, seamVars, basisVars, planVars, realVars, outVars
<1>2. pc \in Dispatching /\ pc' \notin Realizing
  BY <1>1 DEF Dispatching, Realizing
<1>3. SupervisorOK' /\ UNCHANGED <<attempts, ledger, effectPosture>>
  BY <1>1, SupervisorFrame DEF supVars, IndInv
<1>4. BuiltOK' /\ BasisOK' /\ PlansOK' /\ CommitsOK'
  BY <1>1, <1>3, BuiltFrame, BasisFrame, PlansFrame, CommitsFrame DEF IndInv
<1>5. claims = {}
  BY <1>1 DEF Claimed, IndInv, StageOK, Realized
<1>6. StageOK' /\ EndedOK'
  BY <1>1, <1>2, <1>3, <1>5, DispatchingState, StageFrame, EndedFrame DEF IndInv, StageOK
<1>7. ControlOK'
  <2>1. control' \in Control /\ ret' \in ResultType \cup {None} /\ (ret' # None => ret'.commit <= Len(commits'))
    BY <1>1 DEF IndInv, ControlOK
  <2> QED
    BY <1>1, <1>2, <2>1, DispatchingState DEF ControlOK, Preparing, Planning, Dispatching
<1> QED
  BY <1>3, <1>4, <1>6, <1>7 DEF IndInv

LEMMA RaiseDispatchStep ==
  ASSUME IndInv, RaiseDispatch
  PROVE  IndInv'
<1>1. /\ pc = "pre_dispatch" /\ pc' = "idle" /\ UNCHANGED supVars
      /\ UNCHANGED <<faults, grant, fired, request, before, baseline, envelope, authority, plan, plans, validations>>
      /\ UNCHANGED <<commits, index, claims, pending, execution, observed, reconciliation>>
      /\ UNCHANGED <<log, invocation, invocations, closed, slots, projection, control, ret>>
  BY DEF RaiseDispatch, LeaveSeam, provVars, basisVars, planVars, realVars, outVars
<1>2. pc \in Dispatching /\ pc' \notin Realizing
  BY <1>1 DEF Dispatching, Realizing
<1>3. SupervisorOK' /\ UNCHANGED <<attempts, ledger, effectPosture>>
  BY <1>1, SupervisorFrame DEF supVars, IndInv
<1>4. BuiltOK' /\ BasisOK' /\ PlansOK' /\ CommitsOK'
  BY <1>1, <1>3, BuiltFrame, BasisFrame, PlansFrame, CommitsFrame DEF IndInv
<1>5. StageOK' /\ EndedOK'
  BY <1>1, <1>2, <1>3, DispatchingState, StageFrame, EndedFrame DEF IndInv, StageOK
<1>6. ControlOK'
  <2>1. control' \in Control /\ ret' \in ResultType \cup {None} /\ (ret' # None => ret'.commit <= Len(commits'))
    BY <1>1 DEF IndInv, ControlOK
  <2> QED
    BY <1>1, <2>1, ControlReturn
<1> QED
  BY <1>3, <1>4, <1>5, <1>6 DEF IndInv

LEMMA StopDispatchStep ==
  ASSUME IndInv, pc = "pre_dispatch", NEW ctl \in Control \ {"PASS"}, StopDispatch(ctl)
  PROVE  IndInv'
<1> DEFINE result == Result("TERMINAL")'
<1>1. /\ Stop(ctl) /\ pc' = "idle" /\ ret' = result
      /\ index' = [index EXCEPT ![Commit.key].result = ret']
      /\ UNCHANGED <<faults, grant, fired, request, before, baseline, envelope, authority, plan, plans, validations>>
      /\ UNCHANGED <<commits, claims, pending, execution, observed, reconciliation>>
      /\ UNCHANGED <<log, invocation, invocations, closed, slots, projection>>
  BY DEF StopDispatch, Finish, Return, LeaveSeam, provVars, basisVars, planVars, outVars
<1>2. pc \in Dispatching /\ pc' \notin Realizing /\ claims = {}
  BY <1>1 DEF Dispatching, Realizing, IndInv, StageOK
<1>3. /\ SupervisorOK' /\ control' \in Control /\ EndedOK'
      /\ attempts' # << >> /\ Len(attempts') = Len(attempts)
      /\ ledger' = None <=> ledger = None
      /\ ledger # None => ledger'.admission = ledger.admission
      /\ effectPosture' = effectPosture
  BY <1>1, <1>2, DispatchingState, StopStep DEF IndInv
<1>4. BuiltOK' /\ BasisOK' /\ PlansOK'
  BY <1>1, <1>2, <1>3, DispatchingState, BuiltFrame, BasisFrame, PlansFrame DEF IndInv
<1>5. StageOK'
  BY <1>1, <1>2, <1>3, DispatchingState, StageFrame DEF IndInv, StageOK
<1>6. result \in ResultType /\ result.commit <= Len(commits')
  <2>1. "TERMINAL" \in Dispositions
    BY DEF Dispositions
  <2>2. commits' \in Seq(CommitType)
    BY <1>1 DEF IndInv, CommitsOK
  <2> QED
    BY <1>3, <1>5, <2>1, <2>2, ResultTypedNext DEF StageOK
<1> HIDE DEF result
<1>7. ControlOK'
  BY <1>1, <1>3, <1>6, ControlReturn
<1>8. CommitsOK'
  BY <1>1, <1>2, <1>3, <1>6, DispatchingState, CommitsRetained DEF IndInv
<1> QED
  BY <1>3, <1>4, <1>5, <1>7, <1>8 DEF IndInv

LEMMA RefuseDispatchStep ==
  ASSUME IndInv, RefuseDispatch
  PROVE  IndInv'
  BY StopDispatchStep DEF RefuseDispatch, Control

LEMMA HoldDispatchStep ==
  ASSUME IndInv, HoldDispatch
  PROVE  IndInv'
  BY FreshControl, StopDispatchStep DEF HoldDispatch

(* The requests a handler may make, the approved one included, are ones     *)
(* whose value fits their kind.                                             *)
LEMMA RequestedTyped ==
  ASSUME IndInv, plan # None
  PROVE  Requested \in Seq(Prov!Carriable)
<1> DEFINE own == [kind |-> "STATE", value |-> plan.steps[1].target, object |-> plan.steps[1].object]
<1>1. plan.steps \in Seq(PlanStep) /\ plan.steps # << >>
  BY DEF IndInv, PlansOK, Plan
<1>2. plan.steps[1] \in PlanStep
  <2>1. Len(plan.steps) \in Nat \ {0}
    BY <1>1, EmptySeq, LenProperties
  <2>2. 1 \in 1 .. Len(plan.steps)
    BY <2>1
  <2> QED
    BY <1>1, <2>2, ElementOfSeq
<1>3. own \in Prov!Carriable
  BY <1>2 DEF PlanStep, Prov!Carriable, Prov!ActionRequest
<1>4. faults.requests # None => faults.requests \in Seq(Prov!Carriable)
  BY DEF IndInv, BuiltOK, FixtureFaults
<1>5. \/ Requested = << >>
      \/ faults.requests # None /\ Requested = faults.requests
      \/ Requested = <<own>>
  BY DEF Requested
<1> HIDE DEF own
<1>6. << >> \in Seq(Prov!Carriable) /\ <<own>> \in Seq(Prov!Carriable)
  BY <1>3
<1> QED
  BY <1>4, <1>5, <1>6

LEMMA InvokeStep ==
  ASSUME IndInv, Invoke
  PROVE  IndInv'
<1>1. /\ pc = "pre_dispatch" /\ Unsubstituted /\ claims' = claims \cup {Commit.key} /\ Sup!SetPosture("POSSIBLE")
      /\ invocation' = Len(commits) /\ invocations' = invocations + 1 /\ closed' = FALSE /\ log' = log
      /\ pending' = Requested /\ pc' = "invoke"
      /\ UNCHANGED <<faults, grant, fired, request, before, baseline, envelope, authority, plan, plans, validations>>
      /\ UNCHANGED <<commits, index, execution, observed, reconciliation, slots, projection, control, call, ret>>
  BY DEF Invoke, Prov!OpenInterval, LeaveSeam, basisVars, planVars, outVars
<1>2. pc \in Dispatching /\ pc' \in Realizing /\ claims = {}
  BY <1>1 DEF Dispatching, Realizing, IndInv, StageOK
<1>3. SupervisorOK' /\ UNCHANGED <<attempts, ledger>> /\ effectPosture' # "NONE_ESTABLISHED"
  <2>1. "POSSIBLE" \in EffectPosture
    BY DEF EffectPosture
  <2> QED
    BY <1>1, <2>1, SetPostureStep DEF IndInv
<1>4. BuiltOK' /\ BasisOK' /\ PlansOK'
  BY <1>1, <1>3, BuiltFrame, BasisFrame, PlansFrame DEF IndInv
<1>5. DOMAIN index = {Commit.key} /\ claims' = {Commit.key}
  BY <1>1, <1>2, DispatchingState, OneCommit DEF IndInv
<1>6. CommitsOK'
  BY <1>1, <1>3, <1>5 DEF IndInv, CommitsOK, SingleAdmission
<1>7. ~Current.terminal /\ plan # None /\ plan.id = Commit.plan
  BY <1>1 DEF Unsubstituted
<1>8. index[Commit.key].result = None
  BY <1>2, <1>5, <1>7 DEF IndInv, EndedOK
<1>9. StageOK'
  <2>1. Untouched
    BY <1>2 DEF IndInv, StageOK
  <2>2. Realized'
    BY <1>1, <1>2, <1>5, <1>7, <1>8, <2>1, DispatchingState DEF Realized, Untouched, Commit, Realizing
  <2>3. pending' \in Seq(Prov!Carriable)
    BY <1>1, <1>7, RequestedTyped
  <2> QED
    BY <1>1, <1>3, <1>5, <2>2, <2>3 DEF IndInv, StageOK
<1>10. EndedOK'
  <2>1. ~Current'.terminal
    BY <1>3, <1>7 DEF Current
  <2> QED
    BY <1>2, <1>5, <2>1, Zenon DEF EndedOK
<1>11. ControlOK'
  <2>1. control' \in Control /\ ret' \in ResultType \cup {None} /\ (ret' # None => ret'.commit <= Len(commits'))
    BY <1>1 DEF IndInv, ControlOK
  <2> QED
    BY <1>1, <1>2, <2>1, DispatchingState DEF ControlOK, Preparing, Planning, Dispatching, Realizing
<1> QED
  BY <1>3, <1>4, <1>6, <1>9, <1>10, <1>11 DEF IndInv

-----------------------------------------------------------------------------
(* The realization.                                                         *)

LEMMA RealizingState ==
  ASSUME IndInv, pc \in Realizing
  PROVE  /\ claims # {} /\ Realized /\ commits # << >> /\ claims = {Commit.key}
         /\ plan # None /\ plan.id = Commit.plan /\ invocation = Len(commits) /\ invocations = 1
         /\ attempts # << >> /\ ledger # None /\ envelope # None /\ before # None /\ baseline # None
         /\ call \in CallType /\ projection = None /\ (projection' = None => ~Projected')
         /\ index[Commit.key].result = None
<1>1. claims # {}
  BY DEF IndInv, StageOK, Untouched
<1>2. Realized
  BY <1>1 DEF IndInv, StageOK
<1>3. commits # << >> /\ claims = {Commit.key} /\ invocation = Len(commits) /\ invocations = 1
  BY <1>2 DEF Realized
<1>4. plan # None /\ plan.id = Commit.plan /\ index[Commit.key].result = None
  BY <1>2 DEF Realized
<1>5. projection = None
  BY <1>2 DEF Realized, Realizing
<1>6. call \in CallType
  BY DEF IndInv, ControlOK, Realizing
<1>7. attempts # << >> /\ ledger # None /\ envelope # None
  BY <1>3, CommitMeansBound
<1>8. before # None /\ baseline # None
  BY <1>7 DEF IndInv, BasisOK
<1> QED
  BY <1>1, <1>2, <1>3, <1>4, <1>5, <1>6, <1>7, <1>8 DEF Projected

(* A step from one place of the realization to another.                     *)
LEMMA RealizingStep ==
  ASSUME IndInv, pc \in Realizing, pc' \in Realizing,
         SupervisorOK', attempts' # << >>, Len(attempts') = Len(attempts),
         ledger' # None, ledger'.admission = ledger.admission,
         UNCHANGED <<faults, grant, fired, request, before, baseline, envelope, authority, plan, plans, validations>>,
         UNCHANGED <<commits, index, claims, call, ret>>, control' \in Control
  PROVE  BuiltOK' /\ BasisOK' /\ PlansOK' /\ CommitsOK' /\ ControlOK' /\ pc' # "retry"
<1>1. BuiltOK' /\ BasisOK' /\ PlansOK' /\ CommitsOK'
  BY RealizingState, BuiltFrame, BasisFrame, PlansFrame, CommitsFrame DEF IndInv
<1>2. ret' \in ResultType \cup {None} /\ (ret' # None => ret'.commit <= Len(commits'))
  BY DEF IndInv, ControlOK
<1> QED
  BY <1>1, <1>2, RealizingState DEF ControlOK, Preparing, Planning, Dispatching, Realizing

(* Nothing of the ended attempt can be wrong while the realization goes on. *)
LEMMA EndedRealizing ==
  ASSUME IndInv, pc \in Realizing, pc' \in Realizing, UNCHANGED <<claims, projection>>,
         UNCHANGED <<attempts, control>> \/ control' # "PASS"
  PROVE  EndedOK'
<1>1. claims' # {}
  BY RealizingState
<1>2. pc # "retry" /\ ~Projected
  BY RealizingState DEF Realizing, Projected
<1> QED
  BY <1>1, <1>2 DEF IndInv, EndedOK, Current

LEMMA ApplyRequestStep ==
  ASSUME IndInv, ApplyRequest
  PROVE  IndInv'
<1>1. /\ pc = "invoke" /\ pc' = "invoke" /\ pending # << >> /\ pending' = Tail(pending) /\ UNCHANGED supVars
      /\ UNCHANGED <<faults, grant, fired, request, before, baseline, envelope, authority, plan, plans, validations>>
      /\ UNCHANGED <<commits, index, claims, call, ret, control>>
      /\ UNCHANGED <<execution, observed, reconciliation, slots, projection, invocation, invocations, closed>>
  BY DEF ApplyRequest, Prov!Apply, seamVars, basisVars, planVars, outVars, ctlVars
<1>2. pc \in Realizing /\ pc' \in Realizing
  BY <1>1 DEF Realizing
<1>3. SupervisorOK' /\ UNCHANGED <<attempts, ledger, effectPosture>>
  BY <1>1, SupervisorFrame DEF supVars, IndInv
<1>4. BuiltOK' /\ BasisOK' /\ PlansOK' /\ CommitsOK' /\ ControlOK'
  <2>1. control' \in Control
    BY <1>1 DEF IndInv, ControlOK
  <2> QED
    BY <1>1, <1>2, <1>3, <2>1, RealizingState, RealizingStep
<1>5. EndedOK'
  BY <1>1, <1>2, <1>3, EndedRealizing
<1>6. StageOK'
  <2>1. pending' \in Seq(Prov!Carriable)
    BY <1>1, HeadTailProperties DEF IndInv, StageOK
  <2>2. Realized'
    BY <1>1, <1>2, RealizingState DEF Realized, Commit
  <2> QED
    BY <1>1, <1>2, <1>3, <2>1, <2>2, RealizingState DEF IndInv, StageOK
<1> QED
  BY <1>3, <1>4, <1>5, <1>6 DEF IndInv

LEMMA ReportedTyped ==
  ASSUME BuiltOK
  PROVE  Reported \in Report /\ Reported # None
<1>1. Reported \in Report
  BY DEF Reported, BuiltOK, FixtureFaults, Report
<1> QED
  BY <1>1, AbsenceAssumption

LEMMA CompleteExecutionStep ==
  ASSUME IndInv, CompleteExecution
  PROVE  IndInv'
<1>1. /\ pc = "invoke" /\ pc' = "executed" /\ Sup!SetPosture(PostureAfter) /\ closed' = TRUE /\ execution' = Reported
      /\ UNCHANGED <<faults, grant, fired, request, before, baseline, envelope, authority, plan, plans, validations>>
      /\ UNCHANGED <<commits, index, claims, call, ret, control>>
      /\ UNCHANGED <<pending, observed, reconciliation, slots, projection, log, invocation, invocations>>
  BY DEF CompleteExecution, Prov!CloseInterval, seamVars, basisVars, planVars, outVars
<1>2. pc \in Realizing /\ pc' \in Realizing
  BY <1>1 DEF Realizing
<1>3. PostureAfter \in EffectPosture /\ (log # << >> => PostureAfter # "NONE_ESTABLISHED")
  BY DEF PostureAfter, EffectPosture
<1>4. SupervisorOK' /\ UNCHANGED <<attempts, ledger>> /\ (log # << >> => effectPosture' # "NONE_ESTABLISHED")
  BY <1>1, <1>3, SetPostureStep DEF IndInv
<1>5. BuiltOK' /\ BasisOK' /\ PlansOK' /\ CommitsOK' /\ ControlOK'
  <2>1. control' \in Control
    BY <1>1 DEF IndInv, ControlOK
  <2> QED
    BY <1>1, <1>2, <1>4, <2>1, RealizingState, RealizingStep
<1>6. EndedOK'
  BY <1>1, <1>2, <1>4, EndedRealizing
<1>7. StageOK'
  <2>1. execution' \in Report /\ execution' # None
    BY <1>1, ReportedTyped DEF IndInv
  <2>2. Realized'
    BY <1>1, <1>2, <2>1, RealizingState DEF Realized, Commit, Realizing
  <2> QED
    BY <1>1, <1>2, <1>4, <2>1, <2>2, RealizingState DEF IndInv, StageOK
<1> QED
  BY <1>4, <1>5, <1>6, <1>7 DEF IndInv

LEMMA RecordExecutionStep ==
  ASSUME IndInv, RecordExecution
  PROVE  IndInv'
<1>1. /\ pc = "executed" /\ pc' = "post_execution"
      /\ UNCHANGED <<faults, grant, fired, request, before, baseline, envelope, authority, plan, plans, validations>>
      /\ UNCHANGED <<commits, index, claims, call, ret>>
      /\ UNCHANGED <<pending, execution, observed, reconciliation, slots, projection, log, invocation, invocations, closed>>
  BY DEF RecordExecution, provVars, seamVars, basisVars, planVars, realVars, outVars
<1>2. pc \in Realizing /\ pc' \in Realizing
  BY <1>1 DEF Realizing
<1>3. /\ SupervisorOK' /\ attempts' # << >> /\ Len(attempts') = Len(attempts)
      /\ ledger' # None /\ ledger'.admission = ledger.admission /\ effectPosture' = effectPosture
      /\ control' \in Control
      /\ UNCHANGED <<attempts, control>> \/ control' # "PASS"
  <2>1. CASE UNCHANGED <<supVars, control>>
    BY <1>2, <2>1, RealizingState, SupervisorFrame DEF supVars, IndInv, ControlOK
  <2>2. ASSUME NEW ctl \in Control \ {"PASS"}, Stop(ctl)
        PROVE  /\ SupervisorOK' /\ attempts' # << >> /\ Len(attempts') = Len(attempts)
               /\ ledger' # None /\ ledger'.admission = ledger.admission /\ effectPosture' = effectPosture
               /\ control' \in Control /\ control' # "PASS"
    BY <1>2, <2>2, RealizingState, StopStep DEF IndInv
  <2>3. {"HOLD_AMBIGUOUS", "FAIL_NONRETRYABLE"} \subseteq Control \ {"PASS"}
    BY DEF Control
  <2> QED
    BY <2>1, <2>2, <2>3 DEF RecordExecution
<1>4. BuiltOK' /\ BasisOK' /\ PlansOK' /\ CommitsOK' /\ ControlOK'
  BY <1>1, <1>2, <1>3, RealizingState, RealizingStep
<1>5. EndedOK'
  BY <1>1, <1>2, <1>3, EndedRealizing
<1>6. StageOK'
  <2>1. Realized'
    BY <1>1, <1>2, RealizingState DEF Realized, Commit, Realizing
  <2> QED
    BY <1>1, <1>2, <1>3, <2>1, RealizingState DEF IndInv, StageOK
<1> QED
  BY <1>3, <1>4, <1>5, <1>6 DEF IndInv


LEMMA OutcomeTyped ==
  ASSUME NEW r, NEW o, NEW b, NEW i, NEW c, NEW t, NEW m
  PROVE  Reconcile(r, o, b, i, c, t, m) \in Outcome
  BY Zenon DEF Reconcile, Outcome

LEMMA ReconcileEffectsStep ==
  ASSUME IndInv, ReconcileEffects
  PROVE  IndInv'
<1>1. /\ pc = "post_execution" /\ pc' = "reserve" /\ UNCHANGED supVars
      /\ UNCHANGED <<faults, grant, fired, request, before, baseline, envelope, authority, plan, plans, validations>>
      /\ UNCHANGED <<commits, index, claims, call, ret, control>>
      /\ UNCHANGED <<pending, execution, slots, projection, log, invocation, invocations, closed>>
  BY DEF ReconcileEffects, LeaveSeam, provVars, basisVars, planVars, outVars
<1>2. pc \in Realizing /\ pc' \in Realizing
  BY <1>1 DEF Realizing
<1>3. SupervisorOK' /\ UNCHANGED <<attempts, ledger, effectPosture>>
  BY <1>1, SupervisorFrame DEF supVars, IndInv
<1>4. BuiltOK' /\ BasisOK' /\ PlansOK' /\ CommitsOK' /\ ControlOK'
  <2>1. control' \in Control
    BY <1>1 DEF IndInv, ControlOK
  <2> QED
    BY <1>1, <1>2, <1>3, <2>1, RealizingState, RealizingStep
<1>5. EndedOK'
  BY <1>1, <1>2, <1>3, EndedRealizing
<1>6. reconciliation' \in Outcome /\ reconciliation' # None
  <2>1. reconciliation' \in Outcome
    BY OutcomeTyped DEF ReconcileEffects
  <2> QED
    BY <2>1, AbsenceAssumption
<1>7. StageOK'
  <2>1. Realized'
    BY <1>1, <1>2, <1>6, RealizingState DEF Realized, Commit, Realizing
  <2> QED
    BY <1>1, <1>2, <1>3, <1>6, <2>1, RealizingState DEF IndInv, StageOK
<1> QED
  BY <1>3, <1>4, <1>5, <1>7 DEF IndInv

LEMMA ReserveOutcomeSlotStep ==
  ASSUME IndInv, ReserveOutcomeSlot
  PROVE  IndInv'
<1>1. /\ pc = "reserve" /\ pc' \in {"final", "settle"} /\ UNCHANGED supVars
      /\ pc' = "final" <=> reconciliation = "RECONCILED_SUCCESS"
      /\ slots' = Append(slots, None)
      /\ UNCHANGED <<faults, grant, fired, request, before, baseline, envelope, authority, plan, plans, validations>>
      /\ UNCHANGED <<commits, index, claims, call, ret, control>>
      /\ UNCHANGED <<pending, execution, observed, reconciliation, projection, log, invocation, invocations, closed>>
  BY DEF ReserveOutcomeSlot, seamVars, provVars, basisVars, planVars, realVars
<1>2. pc \in Realizing /\ pc' \in Realizing
  BY <1>1 DEF Realizing
<1>3. SupervisorOK' /\ UNCHANGED <<attempts, ledger, effectPosture>>
  BY <1>1, SupervisorFrame DEF supVars, IndInv
<1>4. BuiltOK' /\ BasisOK' /\ PlansOK' /\ CommitsOK' /\ ControlOK'
  <2>1. control' \in Control
    BY <1>1 DEF IndInv, ControlOK
  <2> QED
    BY <1>1, <1>2, <1>3, <2>1, RealizingState, RealizingStep
<1>5. EndedOK'
  BY <1>1, <1>2, <1>3, EndedRealizing
<1>6. StageOK'
  <2>1. slots' = <<None>> /\ projection' = None
    BY <1>1, <1>2, RealizingState DEF Realized
  <2>2. Realized'
    BY <1>1, <1>2, <2>1, RealizingState DEF Realized, Commit, Realizing
  <2> QED
    BY <1>1, <1>2, <1>3, <2>2, RealizingState DEF IndInv, StageOK
<1> QED
  BY <1>3, <1>4, <1>5, <1>6 DEF IndInv

(* The realization over: the result is retained, the slot is the outcome's  *)
(* or was lost, and either a projection was published or the attempt ended. *)
LEMMA FinishStep ==
  ASSUME IndInv, pc \in {"reserve", "settle", "final"}, Finish("COMPLETED"),
         UNCHANGED <<faults, grant, fired, request, before, baseline, envelope, plan, plans, validations>>,
         UNCHANGED <<commits, claims, pending, execution, observed, reconciliation>>,
         UNCHANGED <<log, invocation, invocations, closed>>,
         authority' \in Authoritative,
         \/ projection' = None /\ slots' = << >>
         \/ projection' \in Projection /\ slots' = <<projection'>>,
         \/ UNCHANGED <<supVars, control>> /\ Projected'
         \/ \E ctl \in Control \ {"PASS"} : Stop(ctl)
  PROVE  IndInv'
<1> DEFINE result == Result("COMPLETED")'
<1>1. /\ pc' = "idle" /\ ret' = result /\ index' = [index EXCEPT ![Commit.key].result = ret']
  BY DEF Finish, Return
<1>2. pc \in Realizing /\ pc' \notin Realizing
  BY <1>1 DEF Realizing
<1>3. /\ SupervisorOK' /\ control' \in Control
      /\ attempts' # << >> /\ Len(attempts') = Len(attempts)
      /\ ledger' # None /\ ledger'.admission = ledger.admission /\ effectPosture' = effectPosture
      /\ Projected' \/ (Current'.terminal /\ control' # "PASS")
  <2>1. CASE UNCHANGED <<supVars, control>> /\ Projected'
    BY <1>2, <2>1, RealizingState, SupervisorFrame DEF supVars, IndInv, ControlOK
  <2>2. CASE \E ctl \in Control \ {"PASS"} : Stop(ctl)
    BY <1>2, <2>2, RealizingState, StopStep DEF IndInv
  <2> QED
    BY <2>1, <2>2
<1>4. BuiltOK' /\ PlansOK'
  BY BuiltFrame, PlansFrame DEF IndInv
<1>5. BasisOK'
  BY <1>2, <1>3, RealizingState DEF IndInv, BasisOK
<1>6. /\ projection' \in Projection \cup {None}
      /\ \/ slots' = << >> /\ projection' = None
         \/ slots' = <<projection'>> /\ projection' # None
  BY AbsenceAssumption
<1>7. result \in ResultType /\ result.commit <= Len(commits') /\ result # None
  <2>1. "COMPLETED" \in Dispositions
    BY DEF Dispositions
  <2>2. commits' \in Seq(CommitType) /\ execution' \in Report \cup {None} /\ reconciliation' \in Outcome \cup {None}
    BY DEF IndInv, CommitsOK, StageOK
  <2> QED
    BY <1>3, <1>6, <2>1, <2>2, ResultTypedNext
<1> HIDE DEF result
<1>8. ControlOK'
  BY <1>1, <1>3, <1>7, ControlReturn
<1>9. CommitsOK' /\ index'[Commit.key].result = result
  BY <1>1, <1>2, <1>3, <1>7, RealizingState, CommitsRetained DEF IndInv
<1>10. StageOK'
  <2>1. Realized /\ Commit' = Commit /\ claims' # {}
    BY <1>2, RealizingState DEF Commit
  <2>2. index'[Commit'.key].result # None
    BY <1>7, <1>9, <2>1
  <2>3. pc' = "idle" /\ closed'
    BY <1>1, <2>1 DEF Realized
  <2>4. execution' # None /\ reconciliation' # None
    BY <2>1 DEF Realized
  <2>5. Realized'
    BY <1>2, <1>6, <2>1, <2>2, <2>3, <2>4 DEF Realized
  <2> QED
    BY <1>3, <1>6, <2>1, <2>3, <2>5 DEF IndInv, StageOK
<1>11. EndedOK'
  <2>1. claims' # {}
    BY <1>2, RealizingState
  <2> QED
    BY <1>3, <2>1, Zenon DEF EndedOK
<1> QED
  BY <1>3, <1>4, <1>5, <1>8, <1>9, <1>10, <1>11 DEF IndInv

LEMMA LoseOutcomeSlotStep ==
  ASSUME IndInv, LoseOutcomeSlot
  PROVE  IndInv'
<1>1. /\ pc = "reserve" /\ Stop("HOLD_AMBIGUOUS") /\ projection' = None /\ Finish("COMPLETED")
      /\ UNCHANGED <<faults, grant, fired, request, before, baseline, envelope, plan, plans, validations>>
      /\ UNCHANGED <<commits, claims, pending, execution, observed, reconciliation>>
      /\ UNCHANGED <<log, invocation, invocations, closed, authority, slots>>
  BY DEF LoseOutcomeSlot, seamVars, provVars, basisVars, planVars
<1>2. slots' = << >>
  BY <1>1, RealizingState DEF Realized, Realizing
<1>3. authority' \in Authoritative
  BY <1>1 DEF IndInv, BasisOK
<1>4. "HOLD_AMBIGUOUS" \in Control \ {"PASS"}
  BY DEF Control
<1> QED
  BY <1>1, <1>2, <1>3, <1>4, FinishStep

(* A publication: only the decision to project, and only with no failure    *)
(* configured, moves the authority.                                         *)
LEMMA PublishStep ==
  ASSUME IndInv, pc \in {"settle", "final"}, UNCHANGED <<faults, grant, fired>>,
         NEW decision \in Decision, Publish(decision),
         decision = "PROJECT" => envelope.target = "REVIEW"
  PROVE  IndInv'
<1> DEFINE failed  == decision = "PROJECT" /\ faults.publication # ""
           applied == decision = "PROJECT" /\ ~failed
           final   == IF failed THEN "DO_NOT_PROJECT" ELSE decision
           write   == IF failed THEN "FAILED" ELSE IF applied THEN "APPLIED" ELSE "NOT_ATTEMPTED"
           reason  == IF final = "HOLD_PROJECTION" THEN "HOLD_AMBIGUOUS" ELSE "FAIL_NONRETRYABLE"
<1>1. /\ projection' = [decision |-> final, write |-> write]
      /\ slots' = [slots EXCEPT ![Len(slots)] = projection']
      /\ authority' = AuthorityAfter(decision)
      /\ \/ applied /\ UNCHANGED <<supVars, control>>
         \/ ~applied /\ Stop(reason)
      /\ Finish("COMPLETED")
      /\ UNCHANGED <<request, before, baseline, envelope, plan, plans, validations>>
      /\ UNCHANGED <<commits, claims, pending, execution, observed, reconciliation>>
      /\ UNCHANGED <<log, invocation, invocations, closed>>
  BY DEF Publish, provVars, basisVars, planVars
<1>2. projection' \in Projection
  BY <1>1 DEF Projection, Decision
<1>3. slots' = <<projection'>>
  <2>1. slots = <<None>>
    BY RealizingState DEF Realized, Realizing
  <2>2. slots' = [<<None>> EXCEPT ![1] = projection']
    BY <1>1, <2>1
  <2> QED
    BY <2>2
<1>4. authority' \in Authoritative
  <2>1. authority \in Authoritative
    BY DEF IndInv, BasisOK
  <2>2. authority' = authority \/ (envelope.target = "REVIEW" /\ authority' = Advanced)
    BY <1>1 DEF AuthorityAfter
  <2>3. envelope.target = "REVIEW" => Advanced \in Authoritative
    BY <2>1 DEF Advanced, Authoritative
  <2> QED
    BY <2>1, <2>2, <2>3
<1>5. \/ UNCHANGED <<supVars, control>> /\ Projected'
      \/ \E ctl \in Control \ {"PASS"} : Stop(ctl)
  <2>1. CASE applied
    <3>1. projection'.decision = "PROJECT" /\ projection' # None
      BY <1>1, <1>2, <2>1, AbsenceAssumption
    <3> QED
      BY <1>1, <2>1, <3>1 DEF Projected
  <2>2. CASE ~applied
    <3>1. reason \in Control \ {"PASS"}
      BY DEF Control
    <3> QED
      BY <1>1, <2>2, <3>1
  <2> QED
    BY <2>1, <2>2
<1> HIDE DEF failed, applied, final, write, reason
<1> QED
  BY <1>1, <1>2, <1>3, <1>4, <1>5, FinishStep

LEMMA SettleNonSuccessStep ==
  ASSUME IndInv, SettleNonSuccess
  PROVE  IndInv'
<1>1. \E decision \in {"DO_NOT_PROJECT", "HOLD_PROJECTION"} : Publish(decision)
  BY DEF SettleNonSuccess
<1>2. pc = "settle" /\ UNCHANGED <<faults, grant, fired>>
  BY DEF SettleNonSuccess, seamVars
<1> QED
  BY <1>1, <1>2, PublishStep DEF Decision

(* What the final check lets pass is the basis the plan was approved on.    *)
LEMMA FreshFinallyMeans ==
  ASSUME FreshFinally = "PASS"
  PROVE  SameBasis /\ SameDocument(observed.view) /\ SameHistory /\ CurrentGrant(PlanRef) = "PASS"
  BY DEF FreshFinally

LEMMA SettleSuccessStep ==
  ASSUME IndInv, SettleSuccess
  PROVE  IndInv'
<1>1. pc = "final" /\ UNCHANGED <<faults, grant, fired>> /\ Publish(DecisionOf(FreshFinally))
  BY DEF SettleSuccess, LeaveSeam
<1>2. DecisionOf(FreshFinally) \in Decision
  BY DEF DecisionOf, Decision
<1>3. DecisionOf(FreshFinally) = "PROJECT" => FreshFinally = "PASS"
  BY DEF DecisionOf
<1>4. DecisionOf(FreshFinally) = "PROJECT" => envelope.target = "REVIEW"
  BY <1>3, FreshFinallyMeans DEF SameBasis, RetainedEnvelope
<1> QED
  BY <1>1, <1>2, <1>4, PublishStep

-----------------------------------------------------------------------------
(* The document and the log.  Only five steps touch them, or what they are  *)
(* compared with; every other step leaves both as they were.                *)

Quiet == UNCHANGED <<view, log, invocation, invocations, closed, baseline, claims>> /\ pc' \notin {"what", "invoke"}

LEMMA QuietCalls ==
  ASSUME Call \/ Staged
  PROVE  Quiet
<1>1. ASSUME NEW to, NEW req, NEW key, Idle, StartScope(to, req, key) PROVE Quiet
  BY <1>1 DEF Quiet, Idle, StartScope, Begin, provVars, realVars
<1>2. ASSUME NEW result, Idle, Answer(result) PROVE Quiet
  BY <1>2 DEF Quiet, Idle, Answer, provVars, basisVars, realVars
<1>3. ASSUME NEW req \in Requests, CallPrepare(req) PROVE Quiet
  BY <1>1, <1>3 DEF CallPrepare
<1>4. ASSUME NEW req \in Requests, NEW key \in Keys, CallRun(req, key) PROVE Quiet
  BY <1>1, <1>2, <1>4 DEF CallRun
<1>5. ASSUME NEW key \in Keys, NEW mode \in Mode \cup {None}, CallRealize(key, mode) PROVE Quiet
  <2>1. CASE Idle /\ Answer(Result("TERMINAL"))
    BY <1>2, <2>1
  <2>2. CASE Idle /\ pc' = "plan" /\ UNCHANGED basisVars
    BY <2>2 DEF Quiet, Idle, provVars, realVars, basisVars
  <2> QED
    BY <1>5, <2>1, <2>2 DEF CallRealize, Begin
<1>6. ASSUME NEW presented, CallDispatch(presented) PROVE Quiet
  BY <1>6 DEF Quiet, CallDispatch, Idle, Begin, provVars, basisVars, realVars
<1>7. ASSUME NEW mode, NEW defect, CallBuild(mode, defect) PROVE Quiet
  BY <1>7 DEF Quiet, CallBuild, Idle, provVars, basisVars, realVars
<1>8. ASSUME NEW p, CallValidate(p) PROVE Quiet
  BY <1>8 DEF Quiet, CallValidate, Idle, provVars, basisVars, realVars
<1>9. ASSUME NEW key, CallAdmit(key) PROVE Quiet
  BY <1>9 DEF Quiet, CallAdmit, AdmitUnder, provVars, basisVars
<1> QED
  BY <1>3, <1>4, <1>5, <1>6, <1>7, <1>8, <1>9 DEF Call, Staged

Loud == ReadInitialState \/ Invoke \/ ApplyRequest \/ CompleteExecution

LEMMA QuietSteps ==
  ASSUME Step, ~Loud
  PROVE  Quiet
<1>1. ASSUME NEW ctl, StopCall(ctl) PROVE Quiet
  BY <1>1 DEF Quiet, StopCall, Return, provVars, basisVars, realVars
<1>2. CASE HoldIntent \/ MissInitialState \/ RefuseWhat \/ HoldCommit \/ FailToAdmit
  BY <1>1, <1>2 DEF HoldIntent, MissInitialState, RefuseWhat, HoldCommit, FailToAdmit
<1>3. CASE LoseIntent \/ StructureIntent
  BY <1>3 DEF Quiet, LoseIntent, StructureIntent, provVars, basisVars, realVars
<1>4. CASE ApproveWhat
  BY <1>4 DEF Quiet, ApproveWhat, Return, provVars, realVars
<1>5. CASE FailToPlan
  BY <1>5 DEF Quiet, FailToPlan, Return, provVars, basisVars, realVars
<1>6. CASE AcceptPlan
  BY <1>6 DEF Quiet, AcceptPlan, RetainPlan, provVars, basisVars, realVars
<1>7. CASE RefusePlan
  BY <1>7 DEF Quiet, RefusePlan, RetainPlan, Return, provVars, basisVars, realVars
<1>8. CASE RequestSuccessor
  BY <1>8 DEF Quiet, RequestSuccessor, Return, provVars, basisVars, realVars
<1>9. CASE Admit
  BY <1>9 DEF Quiet, Admit, AdmitUnder, provVars, basisVars
<1>10. CASE RetrieveDispatch \/ BeginDispatch \/ RaiseDispatch
  BY <1>10 DEF Quiet, RetrieveDispatch, BeginDispatch, RaiseDispatch, Return, provVars, basisVars, realVars
<1>11. CASE RefuseDispatch \/ HoldDispatch
  BY <1>11 DEF Quiet, RefuseDispatch, HoldDispatch, StopDispatch, Finish, Return, provVars, basisVars
<1>12. CASE RecordExecution
  BY <1>12 DEF Quiet, RecordExecution, provVars, basisVars, realVars
<1>13. CASE ReconcileEffects
  BY <1>13 DEF Quiet, ReconcileEffects, provVars, basisVars
<1>14. CASE LoseOutcomeSlot
  BY <1>14 DEF Quiet, LoseOutcomeSlot, Finish, Return, provVars, basisVars
<1>15. CASE ReserveOutcomeSlot
  BY <1>15 DEF Quiet, ReserveOutcomeSlot, provVars, basisVars, realVars
<1>16. ASSUME NEW decision, Publish(decision) PROVE Quiet
  BY <1>16 DEF Quiet, Publish, Finish, Return, provVars, basisVars
<1>17. CASE SettleNonSuccess \/ SettleSuccess
  BY <1>16, <1>17 DEF SettleNonSuccess, SettleSuccess
<1> QED
  BY <1>2, <1>3, <1>4, <1>5, <1>6, <1>7, <1>8, <1>9, <1>10, <1>11, <1>12, <1>13, <1>14, <1>15, <1>17
     DEF Step, Loud

LEMMA EffectsFrame ==
  ASSUME EffectsOK, Quiet
  PROVE  EffectsOK'
  BY DEF EffectsOK, Quiet, Prov!ProvTypeOK

(* An unrelated write leaves a typed document, one version on.              *)
LEMMA ForeignWriteStep ==
  ASSUME Prov!ProvTypeOK, NEW kind, Prov!ForeignWrite(kind)
  PROVE  view' \in Prov!EffectView /\ view'.version = view.version + 1
<1>1. view \in Prov!EffectView /\ view.version + 1 \in Nat
  BY DEF Prov!ProvTypeOK, Prov!EffectView
<1>2. \/ view' = [view EXCEPT !.version = @ + 1, !.state = "REVIEW", !.writer = Prov!Foreign]
      \/ view' = [view EXCEPT !.version = @ + 1, !.digest = "different", !.writer = Prov!Foreign]
  BY DEF Prov!ForeignWrite
<1>3. Prov!Foreign \in Nat \cup {None}
  BY DEF Prov!Foreign
<1> QED
  BY <1>1, <1>2, <1>3 DEF Prov!EffectView

LEMMA InjectView ==
  ASSUME Inject, Prov!ProvTypeOK
  PROVE  /\ view' = view \/ (view' \in Prov!EffectView /\ view'.version = view.version + 1)
         /\ UNCHANGED <<log, invocation, invocations, closed, baseline, before, claims, pc>>
         /\ pc \notin {"what", "invoke"}
<1> PICK kind \in {i.kind : i \in {j \in Injections : j.seam = pc}} : Inject!(kind)
  BY DEF Inject
<1>1. pc \notin {"what", "invoke"}
  BY RuntimeAssumption DEF Seam
<1>2. UNCHANGED provVars \/ Prov!ForeignWrite(kind)
  OBVIOUS
<1>3. CASE UNCHANGED provVars
  BY <1>1, <1>3 DEF provVars, realVars, ctlVars
<1>4. CASE Prov!ForeignWrite(kind)
  <2>1. view' \in Prov!EffectView /\ view'.version = view.version + 1
    BY <1>4, ForeignWriteStep
  <2> QED
    BY <1>1, <1>4, <2>1 DEF Prov!ForeignWrite, realVars, ctlVars
<1> QED
  BY <1>2, <1>3, <1>4

(* The document moved on by one version, and nothing else of the record.    *)
LEMMA EffectsMovedOn ==
  ASSUME IndInv, EffectsOK, view' \in Prov!EffectView, view'.version = view.version + 1,
         UNCHANGED <<log, invocation, invocations, closed, baseline, claims, pc>>, pc \notin {"what", "invoke"}
  PROVE  EffectsOK'
<1>1. view.version \in Nat /\ (baseline # None => baseline.version \in Nat)
  BY DEF EffectsOK, IndInv, BasisOK, Prov!ProvTypeOK, Prov!EffectView
<1>2. log # << >> => log[Len(log)].after.version \in Nat
  <2>1. log \in Seq(Prov!Action)
    BY DEF EffectsOK, Prov!ProvTypeOK
  <2>2. log # << >> => Len(log) \in 1 .. Len(log)
    BY <2>1, EmptySeq, LenProperties
  <2>3. log # << >> => log[Len(log)] \in Prov!Action
    BY <2>1, <2>2, ElementOfSeq
  <2> QED
    BY <2>3 DEF Prov!Action, Prov!EffectView
<1>3. Prov!ProvTypeOK'
  BY DEF EffectsOK, Prov!ProvTypeOK
<1> QED
  BY <1>1, <1>2, <1>3 DEF EffectsOK

LEMMA InjectEffects ==
  ASSUME IndInv, EffectsOK, Inject
  PROVE  EffectsOK'
<1>1. /\ view' = view \/ (view' \in Prov!EffectView /\ view'.version = view.version + 1)
      /\ UNCHANGED <<log, invocation, invocations, closed, baseline, before, claims, pc>>
      /\ pc \notin {"what", "invoke"}
  BY InjectView DEF EffectsOK
<1>2. CASE view' = view
  BY <1>1, <1>2, EffectsFrame DEF Quiet
<1>3. CASE view' \in Prov!EffectView /\ view'.version = view.version + 1
  BY <1>1, <1>3, EffectsMovedOn
<1> QED
  BY <1>1, <1>2, <1>3

LEMMA ReadInitialStateEffects ==
  ASSUME IndInv, EffectsOK, ReadInitialState
  PROVE  EffectsOK'
<1>1. /\ pc \in Preparing /\ pc' = "what" /\ baseline' = view /\ before' = authority
      /\ UNCHANGED <<view, log, invocation, invocations, closed, claims, authority>>
  BY DEF ReadInitialState, Preparing, provVars, realVars, outVars
<1>2. view.version \in Nat /\ Prov!ProvTypeOK'
  BY <1>1 DEF EffectsOK, Prov!ProvTypeOK, Prov!EffectView
<1>3. claims' = {}
  BY <1>1, PreparingState
<1> QED
  BY <1>1, <1>2, <1>3 DEF EffectsOK

(* What is found fresh is the document that was approved, to the last field.*)
LEMMA FreshMeans ==
  ASSUME Fresh = "PASS"
  PROVE  SameBasis /\ SameDocument(baseline) /\ CurrentGrant(PlanRef) = "PASS"
  BY DEF Fresh

LEMMA InvokeEffects ==
  ASSUME IndInv, EffectsOK, Invoke
  PROVE  EffectsOK' /\ view = baseline
<1>1. /\ pc = "pre_dispatch" /\ pc' = "invoke" /\ Fresh = "PASS"
      /\ invocation' = Len(commits) /\ invocations' = invocations + 1 /\ closed' = FALSE
      /\ UNCHANGED <<view, log, baseline>>
  BY DEF Invoke, Prov!OpenInterval, basisVars
<1>2. claims = {} /\ log = << >> /\ baseline # None
  BY <1>1, DispatchingState DEF IndInv, StageOK, Untouched, Dispatching
<1>3. view = baseline
  BY <1>1, <1>2, FreshMeans DEF SameDocument, EffectsOK
<1>4. Prov!ProvTypeOK'
  <2>1. Len(commits) \in Nat
    BY LenProperties DEF IndInv, CommitsOK
  <2>2. Prov!ProvTypeOK
    BY DEF EffectsOK
  <2>3. invocations \in Nat /\ invocations' = invocations + 1 /\ invocation' \in Nat
    BY <1>1, <2>1, <2>2 DEF Prov!ProvTypeOK
  <2>4. invocations' \in Nat
    BY <2>3
  <2>5. closed' \in BOOLEAN
    BY <1>1
  <2> QED
    BY <1>1, <2>2, <2>3, <2>4, <2>5 DEF Prov!ProvTypeOK
<1>5. EffectsOK'
  <2>1. view.version \in Nat
    BY DEF EffectsOK, Prov!ProvTypeOK, Prov!EffectView
  <2> QED
    BY <1>1, <1>2, <1>3, <1>4, <2>1 DEF EffectsOK
<1> QED
  BY <1>3, <1>5

LEMMA CompleteExecutionEffects ==
  ASSUME IndInv, EffectsOK, CompleteExecution
  PROVE  EffectsOK'
<1>1. /\ pc = "invoke" /\ pc' = "executed" /\ closed' = TRUE
      /\ UNCHANGED <<view, log, invocation, invocations, baseline, claims>>
  BY DEF CompleteExecution, Prov!CloseInterval, basisVars
<1> QED
  BY <1>1 DEF EffectsOK, Prov!ProvTypeOK

(* A write leaves a typed document, one version on.                         *)
LEMMA WrittenTyped ==
  ASSUME Prov!ProvTypeOK, invocation \in Nat, NEW r \in Prov!Carriable
  PROVE  Prov!Written(r) \in Prov!EffectView /\ Prov!Written(r).version = view.version + 1
<1> DEFINE state  == IF r.kind = "STATE" THEN r.value ELSE view.state
           exists == IF r.kind = "EXISTS" THEN r.value = "true" ELSE view.exists
           digest == IF r.kind = "CONTENT_WRITE" THEN r.value ELSE view.digest
<1>1. view \in Prov!EffectView
  BY DEF Prov!ProvTypeOK
<1>2. /\ r.kind = "STATE" => r.value \in {"DRAFT", "REVIEW", "APPROVED"}
      /\ r.kind = "CONTENT_WRITE" => r.value \in {"original", "different"}
  BY DEF Prov!Carriable
<1>3. /\ state \in {"DRAFT", "REVIEW", "APPROVED"} /\ digest \in {"original", "different"}
      /\ view.version \in Nat /\ view.version + 1 \in Nat
  BY <1>1, <1>2 DEF Prov!EffectView
<1>4. exists \in BOOLEAN
  BY <1>1 DEF Prov!EffectView
<1>5. Prov!Written(r) = [state |-> state, exists |-> exists, digest |-> digest, version |-> view.version + 1,
                         predecessor |-> view.version, writer |-> invocation]
  BY DEF Prov!Written
<1> HIDE DEF state, exists, digest
<1> QED
  BY <1>3, <1>4, <1>5 DEF Prov!EffectView

(* apply(): one typed action is logged, from the document as it was to the  *)
(* document as it is.                                                       *)
LEMMA ApplyStep ==
  ASSUME Prov!ProvTypeOK, invocation \in Nat, NEW r \in Prov!Carriable, NEW target, NEW version, NEW diagnostic,
         Prov!Apply(r, target, version, diagnostic)
  PROVE  /\ Prov!ProvTypeOK' /\ log' # << >> /\ Len(log') = Len(log) + 1
         /\ log = << >> => log'[1].before = view
         /\ log # << >> => log'[1] = log[1]
         /\ log'[Len(log')].after = view'
         /\ view' = view \/ view'.version = view.version + 1
<1> DEFINE allowed == Prov!Allowed(r, target, version)
           applied == allowed \/ Prov!AppliedInvalidly(r, diagnostic)
           after   == IF applied THEN Prov!Written(r) ELSE view
           action  == [invocation |-> invocation, request |-> r, applied |-> applied, forbidden |-> ~allowed,
                       before |-> view, after |-> after]
<1>1. log' = Append(log, action) /\ view' = after /\ UNCHANGED <<invocation, invocations, closed>>
  BY DEF Prov!Apply
<1>2. view \in Prov!EffectView /\ log \in Seq(Prov!Action)
  BY DEF Prov!ProvTypeOK
<1>3. after \in Prov!EffectView /\ (after = view \/ after.version = view.version + 1)
  BY <1>2, WrittenTyped
<1>4. allowed \in BOOLEAN /\ applied \in BOOLEAN
  <2>1. allowed \in BOOLEAN
    BY DEF Prov!Allowed
  <2>2. applied = TRUE \/ applied = FALSE
    OBVIOUS
  <2> QED
    BY <2>1, <2>2
<1>5. r \in Prov!ActionRequest
  BY DEF Prov!Carriable
<1> HIDE DEF allowed, applied, after
<1>6. action \in Prov!Action /\ action.before = view /\ action.after = after
  BY <1>2, <1>3, <1>4, <1>5 DEF Prov!Action
<1> HIDE DEF action
<1>7. /\ log' \in Seq(Prov!Action) /\ Len(log') = Len(log) + 1 /\ log'[Len(log) + 1] = action
      /\ \A i \in 1 .. Len(log) : log'[i] = log[i]
  BY <1>1, <1>2, <1>6, AppendProperties
<1>8. Len(log) \in Nat /\ (log = << >> <=> Len(log) = 0)
  BY <1>2, EmptySeq, LenProperties
<1>9. log' # << >>
  BY <1>7, <1>8, EmptySeq
<1>10. Prov!ProvTypeOK'
  BY <1>1, <1>3, <1>7 DEF Prov!ProvTypeOK
<1> QED
  BY <1>1, <1>3, <1>6, <1>7, <1>8, <1>9, <1>10

LEMMA ApplyRequestEffects ==
  ASSUME IndInv, EffectsOK, ApplyRequest
  PROVE  EffectsOK' /\ (view' = view \/ view'.version = view.version + 1)
<1>1. /\ pc = "invoke" /\ pc' = "invoke" /\ pending # << >>
      /\ Prov!Apply(Head(pending), plan.steps[1].target, plan.steps[1].version, faults.invalidWrites)
      /\ UNCHANGED <<claims, baseline>>
  BY DEF ApplyRequest, basisVars, ctlVars
<1>2. Head(pending) \in Prov!Carriable
  BY <1>1, HeadTailProperties DEF IndInv, StageOK
<1>3. invocation \in Nat /\ claims # {} /\ baseline # None
  <2>1. invocation = Len(commits) /\ claims # {} /\ baseline # None
    BY <1>1, RealizingState DEF Realizing
  <2> QED
    BY <2>1, LenProperties DEF IndInv, CommitsOK
<1>4. /\ Prov!ProvTypeOK' /\ log' # << >>
      /\ log = << >> => log'[1].before = view
      /\ log # << >> => log'[1] = log[1]
      /\ log'[Len(log')].after = view'
      /\ view' = view \/ view'.version = view.version + 1
  BY <1>1, <1>2, <1>3, ApplyStep DEF EffectsOK
<1>5. view'.version \in Nat
  BY <1>4 DEF Prov!ProvTypeOK, Prov!EffectView
<1>6. EffectsOK'
  BY <1>1, <1>3, <1>4, <1>5 DEF EffectsOK
<1> QED
  BY <1>4, <1>6

-----------------------------------------------------------------------------
(* The invariant is inductive.                                              *)

Inv == IndInv /\ EffectsOK

LEMMA InitInv == Init => Inv
<1> SUFFICES ASSUME Init PROVE Inv
  OBVIOUS
<1>1. /\ policy \in Policies \cup {None} /\ attempts = << >> /\ ledger = None /\ failureRefs = {}
      /\ schedules = [a \in {} |-> 0] /\ effectPosture = "NONE_ESTABLISHED" /\ lastControl = "PASS" /\ granted = 0
  BY DEF Init, Sup!Init
<1>2. view = Prov!InitialView /\ log = << >> /\ invocation = None /\ invocations = 0 /\ closed = FALSE
  BY DEF Init, Prov!ProvInit
<1> DEFINE none == << >>
<1>3. none \in Seq(Nat) /\ Len(none) = 0 /\ 1 .. Len(none) = {}
  BY EmptySeq
<1>4. DOMAIN none = {}
  BY <1>3, LenProperties
<1>5. /\ plans = none /\ validations = none /\ commits = none /\ attempts = none /\ pending = none
  BY <1>1 DEF Init
<1>6. /\ none \in Seq(Plan) /\ none \in Seq(ValidationType) /\ none \in Seq(CommitType)
       /\ none \in Seq(Prov!Carriable) /\ none \in Seq(Sup!Attempt) /\ none \in Seq(Prov!Action)
  BY EmptySeq
<1>7. DOMAIN schedules = {} /\ DOMAIN index = {}
  BY <1>1 DEF Init
<1> HIDE DEF none
<1>8. SupervisorOK
  <2>1. Sup!TypeOK
    BY <1>1, <1>3, <1>4, <1>5, <1>6, <1>7, Vocabulary DEF Sup!TypeOK, Control, EffectPosture
  <2> QED
    BY <1>1, <1>7, <2>1 DEF SupervisorOK
<1>9. BuiltOK
  BY RuntimeAssumption, FS_EmptySet DEF Init, BuiltOK
<1>10. BasisOK
  BY <1>1 DEF Init, BasisOK, Authoritative
<1>11. PlansOK
  BY <1>4, <1>5, <1>6 DEF Init, PlansOK
<1>12. CommitsOK
  <2>1. SingleAdmission
    BY <1>3, <1>4, <1>5 DEF SingleAdmission
  <2>2. claims = {}
    BY DEF Init
  <2> QED
    BY <1>4, <1>5, <1>6, <1>7, <2>1, <2>2 DEF CommitsOK
<1>13. ControlOK
  BY DEF Init, ControlOK, Control, Preparing, Planning, Dispatching
<1>14. StageOK
  BY <1>2, <1>5, <1>6 DEF Init, StageOK, Untouched, Realizing
<1>15. EndedOK
  <2>1. attempts = << >> /\ claims = {}
    BY <1>1 DEF Init
  <2> QED
    BY <1>7, <2>1 DEF EndedOK
<1>16. EffectsOK
  <2>1. Prov!ProvTypeOK
    BY <1>2, EmptySeq DEF Prov!ProvTypeOK, Prov!InitialView, Prov!EffectView
  <2> QED
    BY <1>2, <2>1 DEF Init, EffectsOK
<1> QED
  BY <1>8, <1>9, <1>10, <1>11, <1>12, <1>13, <1>14, <1>15, <1>16 DEF Inv, IndInv

LEMMA StutterInv == Inv /\ UNCHANGED vars => Inv'
<1> SUFFICES ASSUME Inv, UNCHANGED vars PROVE Inv'
  OBVIOUS
<1>1. UNCHANGED supVars /\ UNCHANGED <<attempts, ledger, effectPosture>>
  BY DEF vars, supVars
<1>2. /\ UNCHANGED <<faults, grant, fired, request, before, baseline, envelope, authority, plan, plans, validations>>
      /\ UNCHANGED <<commits, index, claims, pending, execution, observed, reconciliation>>
      /\ UNCHANGED <<view, log, invocation, invocations, closed, slots, projection, control, pc, call, ret>>
  BY DEF vars, provVars, seamVars, basisVars, planVars, realVars, outVars, ctlVars
<1>3. SupervisorOK' /\ BuiltOK' /\ BasisOK' /\ PlansOK' /\ CommitsOK' /\ ControlOK'
  BY <1>1, <1>2, SupervisorFrame, BuiltFrame, BasisFrame, PlansFrame, CommitsFrame, ControlFrame DEF Inv, IndInv
<1>4. StageOK'
  <2>1. Untouched => Untouched'
    BY <1>2 DEF Untouched
  <2>2. Realized => Realized'
    BY <1>2 DEF Realized, Commit
  <2> QED
    BY <1>1, <1>2, <2>1, <2>2 DEF Inv, IndInv, StageOK
<1>5. EndedOK'
  BY <1>1, <1>2, EndedFrame DEF Inv, IndInv
<1>6. EffectsOK'
  BY <1>2 DEF Inv, EffectsOK, Prov!ProvTypeOK
<1> QED
  BY <1>3, <1>4, <1>5, <1>6 DEF Inv, IndInv

LEMMA NextInv == Inv /\ Next => Inv'
<1> SUFFICES ASSUME Inv, Next PROVE Inv'
  OBVIOUS
<1>1. IndInv /\ EffectsOK
  BY DEF Inv
<1>2. CASE Call
  <2>1. IndInv'
    BY <1>1, <1>2, CallPrepareStep, CallRunStep, CallRealizeStep, CallDispatchStep DEF Call
  <2> QED
    BY <1>1, <1>2, <2>1, QuietCalls, EffectsFrame DEF Inv
<1>3. CASE Staged
  <2>1. IndInv'
    BY <1>1, <1>3, CallBuildStep, CallValidateStep, CallAdmitStep DEF Staged
  <2> QED
    BY <1>1, <1>3, <2>1, QuietCalls, EffectsFrame DEF Inv
<1>4. CASE Inject
  BY <1>1, <1>4, InjectStep, InjectEffects DEF Inv
<1>5. CASE ReadInitialState
  <2>1. view \in Prov!EffectView
    BY <1>1 DEF EffectsOK, Prov!ProvTypeOK
  <2> QED
    BY <1>1, <1>5, <2>1, ReadInitialStateStep, ReadInitialStateEffects DEF Inv
<1>6. CASE Invoke
  BY <1>1, <1>6, InvokeStep, InvokeEffects DEF Inv
<1>7. CASE ApplyRequest
  BY <1>1, <1>7, ApplyRequestStep, ApplyRequestEffects DEF Inv
<1>8. CASE CompleteExecution
  BY <1>1, <1>8, CompleteExecutionStep, CompleteExecutionEffects DEF Inv
<1>9. CASE Step /\ ~Loud
  <2>1. HoldIntent \/ LoseIntent \/ StructureIntent \/ MissInitialState \/ RefuseWhat \/ ApproveWhat => IndInv'
    BY <1>1, HoldIntentStep, LoseIntentStep, StructureIntentStep, MissInitialStateStep, RefuseWhatStep,
       ApproveWhatStep
  <2>2. FailToPlan \/ AcceptPlan \/ RefusePlan \/ RequestSuccessor => IndInv'
    BY <1>1, FailToPlanStep, AcceptPlanStep, RefusePlanStep, RequestSuccessorStep
  <2>3. HoldCommit \/ FailToAdmit \/ Admit => IndInv'
    BY <1>1, HoldCommitStep, FailToAdmitStep, AdmitStep
  <2>4. RetrieveDispatch \/ BeginDispatch \/ RaiseDispatch \/ RefuseDispatch \/ HoldDispatch \/ RecordExecution => IndInv'
    BY <1>1, RetrieveDispatchStep, BeginDispatchStep, RaiseDispatchStep, RefuseDispatchStep, HoldDispatchStep,
       RecordExecutionStep
  <2>5. ReconcileEffects \/ LoseOutcomeSlot \/ ReserveOutcomeSlot \/ SettleNonSuccess \/ SettleSuccess => IndInv'
    BY <1>1, ReconcileEffectsStep, LoseOutcomeSlotStep, ReserveOutcomeSlotStep, SettleNonSuccessStep,
       SettleSuccessStep
  <2>6. IndInv'
    BY <1>9, <2>1, <2>2, <2>3, <2>4, <2>5 DEF Step, Loud
  <2> QED
    BY <1>1, <1>9, <2>6, QuietSteps, EffectsFrame DEF Inv
<1> QED
  BY <1>2, <1>3, <1>4, <1>5, <1>6, <1>7, <1>8, <1>9 DEF Next, Loud

(* The invariant the theorems rest on.                                      *)
LEMMA Inductive == Spec => []Inv
<1>1. Inv /\ [Next]_vars => Inv'
  BY NextInv, StutterInv
<1> QED
  BY InitInv, <1>1, PTL DEF Spec

-----------------------------------------------------------------------------
(* Theorems.                                                                *)

(* Every variable the runtime owns stays in its type, whatever is called,   *)
(* injected or reported: a plan is found under its identity, a validation   *)
(* names a plan there is, a retained result a commit there is.              *)
THEOREM TypeCorrect == Spec => []RuntimeTypeOK
<1>1. Inv => RuntimeTypeOK
  <2> SUFFICES ASSUME Inv PROVE RuntimeTypeOK
    OBVIOUS
  <2>1. /\ authority \in Authoritative /\ envelope \in Envelope \cup {None}
        /\ plan \in Plan \cup {None} /\ plans \in Seq(Plan) /\ \A i \in DOMAIN plans : plans[i].id = i
    BY DEF Inv, IndInv, BasisOK, PlansOK
  <2>2. \A i \in DOMAIN validations :
          validations[i].id = i /\ validations[i].plan \in DOMAIN plans /\ validations[i].disposition \in Gate
    <3>1. validations \in Seq(ValidationType)
      BY DEF Inv, IndInv, PlansOK
    <3>2. \A i \in DOMAIN validations : validations[i] \in ValidationType
      BY <3>1, ElementOfSeq, LenProperties
    <3> QED
      BY <3>2 DEF Inv, IndInv, PlansOK, ValidationType
  <2>3. /\ execution \in Report \cup {None} /\ reconciliation \in Outcome \cup {None}
        /\ claims \subseteq DOMAIN index /\ \A k \in DOMAIN index : index[k].result \in ResultType \cup {None}
    BY DEF Inv, IndInv, StageOK, CommitsOK, EntryType
  <2>4. control \in Control /\ ret \in ResultType \cup {None} /\ (ret # None => ret.commit <= Len(commits))
    BY DEF Inv, IndInv, ControlOK
  <2> QED
    BY <2>1, <2>2, <2>3, <2>4 DEF RuntimeTypeOK
<1> QED
  BY Inductive, <1>1, PTL

(* However often and on whatever keys the caller comes back, and whatever   *)
(* stages it drives by hand, the scope commits at most once, to a plan of   *)
(* the last attempt that passed validation as it was retained.              *)
THEOREM CommitsOnce == Spec => []SingleAdmission
<1>1. Inv => SingleAdmission
  BY DEF Inv, IndInv, CommitsOK
<1> QED
  BY Inductive, <1>1, PTL

(* A commit a caller finds incomplete was never invoked: the call that      *)
(* invokes one gives the turn back only with its result retained.           *)
THEOREM IncompleteNeverInvoked == Spec => []IncompleteMeansUninvoked
<1>1. Inv => IncompleteMeansUninvoked
  <2> SUFFICES ASSUME Inv, pc = "idle"
      PROVE  /\ \A k \in DOMAIN index : index[k].result = None => k \notin claims
             /\ claims = {} => invocations = 0 /\ log = << >> /\ slots = << >>
    BY DEF IncompleteMeansUninvoked
  <2>1. pc \notin Realizing
    BY DEF Realizing
  <2>2. claims # {} => claims = {Commit.key} /\ index[Commit.key].result # None
    BY <2>1 DEF Inv, IndInv, StageOK, Realized
  <2>3. claims = {} => invocations = 0 /\ log = << >> /\ slots = << >>
    BY DEF Inv, IndInv, StageOK, Untouched
  <2> QED
    BY <2>2, <2>3
<1> QED
  BY Inductive, <1>1, PTL

(* An attempt that reached the document, or tried to, is never on record as *)
(* effect-free, whatever its handler reported.                              *)
THEOREM EffectsAreCovered == Spec => []PostureCoversEffects
<1>1. Inv => PostureCoversEffects
  BY DEF Inv, IndInv, StageOK, PostureCoversEffects
<1> QED
  BY Inductive, <1>1, PTL

(* There is at most one outcome slot, for an executed and reconciled        *)
(* commit; no call leaves it open, and it holds the projection reported.    *)
THEOREM OutcomeIsOne == Spec => []OneOutcome
<1>1. Inv => OneOutcome
  <2> SUFFICES ASSUME Inv PROVE OneOutcome
    OBVIOUS
  <2>1. CASE claims = {}
    <3>1. slots = << >> /\ projection = None
      BY <2>1 DEF Inv, IndInv, StageOK, Untouched
    <3>2. Len(slots) = 0 /\ DOMAIN slots = {}
      BY <3>1
    <3> QED
      BY <3>1, <3>2 DEF OneOutcome
  <2>2. CASE claims # {}
    <3>1. Realized
      BY <2>2 DEF Inv, IndInv, StageOK
    <3>2. pc \in {"idle"} \cup Preparing \cup Planning \cup Dispatching \cup Realizing
      BY DEF Inv, IndInv, ControlOK
    <3>3. slots # << >> => execution # None /\ reconciliation # None
      BY <3>1 DEF Realized
    <3>4. slots \in {<< >>, <<None>>, <<projection>>}
      BY <3>1 DEF Realized, Realizing
    <3>5. Len(slots) <= 1
      <4>1. \A n \in {0, 1} : n <= 1
        OBVIOUS
      <4>2. Len(slots) \in {0, 1}
        <5>1. CASE slots = << >>
          BY <5>1
        <5>2. CASE slots = <<None>>
          BY <5>2
        <5>3. CASE slots = <<projection>>
          BY <5>3
        <5> QED
          BY <3>4, <5>1, <5>2, <5>3
      <4> QED
        BY <4>1, <4>2
    <3>6. pc = "idle" => \/ slots = << >> /\ projection = None
                         \/ slots = <<projection>> /\ projection # None
      BY <3>1 DEF Realized, Realizing
    <3>7. pc = "idle" => /\ \A i \in DOMAIN slots : slots[i] # None
                         /\ projection = IF slots = << >> THEN None ELSE slots[1]
      BY <3>6
    <3> QED
      BY <3>3, <3>5, <3>7 DEF OneOutcome
  <2> QED
    BY <2>1, <2>2
<1> QED
  BY Inductive, <1>1, PTL
=============================================================================
