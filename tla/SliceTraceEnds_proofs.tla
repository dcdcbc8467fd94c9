----------------------- MODULE SliceTraceEnds_proofs -----------------------
(***************************************************************************)
(* Proofs about what the trace says of attempts: it ends an attempt        *)
(* exactly when the supervisor does, and explains every successor.         *)
(*                                                                         *)
(* A step is described by what it tells (Told): the events it appends, and *)
(* whether the last of them ends the current attempt.  One lemma shows     *)
(* that telling so keeps the trace true, and one case per step shows that  *)
(* it tells so.                                                            *)
(***************************************************************************)
EXTENDS SliceTrace_proofs

-----------------------------------------------------------------------------
(* The attempt a realization runs in stays open until its execution fails.  *)
OpenOK == pc \in Realizing /\ (pc \in {"invoke", "executed"} \/ execution = "SUCCESS") => ~Current.terminal

LEMMA OpenInit == Init => OpenOK
  BY DEF Init, OpenOK, Realizing

(* No call goes straight into a realization.                                *)
LEMMA CallEntry ==
  ASSUME Call \/ Staged
  PROVE  pc' \notin Realizing
<1>1. ASSUME NEW to, NEW key, NEW mode, NEW presented, NEW entry, Begin(to, key, mode, presented, entry)
      PROVE  pc' = entry
  BY <1>1 DEF Begin
<1>2. ASSUME NEW result, pc = "idle", Answer(result) PROVE pc' = "idle"
  BY <1>2 DEF Answer
<1>3. ASSUME NEW to, NEW req, NEW key, StartScope(to, req, key) PROVE pc' = "started"
  BY <1>1, <1>3 DEF StartScope
<1>4. CASE Call
  BY <1>1, <1>2, <1>3, <1>4 DEF Call, CallPrepare, CallRun, CallRealize, CallDispatch, Idle, Realizing
<1>5. CASE Staged
  BY <1>5 DEF Staged, CallBuild, CallValidate, CallAdmit, Idle, Realizing
<1> QED
  BY <1>4, <1>5

LEMMA InjectAttempts ==
  ASSUME Inject
  PROVE  UNCHANGED <<attempts, pc, execution, lastControl>>
  BY DEF Inject, ctlVars, realVars, supVars, Sup!InjectAdmission, Sup!SetPosture

(* Most steps leave for a place outside the realization.                    *)
LEMMA StepEntry ==
  ASSUME Step, ~Invoke, ~ApplyRequest, ~CompleteExecution, ~RecordExecution, ~ReconcileEffects, ~ReserveOutcomeSlot
  PROVE  pc' \notin Realizing
<1>1. ASSUME NEW result, Return(result) PROVE pc' = "idle"
  BY <1>1 DEF Return
<1>2. ASSUME NEW ctl, StopCall(ctl) PROVE pc' = "idle"
  BY <1>2 DEF StopCall, Return
<1>3. ASSUME NEW disposition, Finish(disposition) PROVE pc' = "idle"
  BY <1>3 DEF Finish, Return
<1>4. HoldIntent \/ MissInitialState \/ RefuseWhat \/ HoldCommit \/ FailToAdmit => pc' = "idle"
  BY <1>2 DEF HoldIntent, MissInitialState, RefuseWhat, HoldCommit, FailToAdmit
<1>5. LoseIntent \/ StructureIntent \/ ReadInitialState => pc' \in {"idle", "initial", "what"}
  BY DEF LoseIntent, StructureIntent, ReadInitialState
<1>6. ApproveWhat \/ RequestSuccessor \/ AcceptPlan \/ RefusePlan => pc' \in {"idle", "plan", "pre_commit", "retry"}
  BY DEF ApproveWhat, RequestSuccessor, AcceptPlan, RefusePlan, Return
<1>7. FailToPlan \/ Admit \/ RetrieveDispatch \/ BeginDispatch \/ RaiseDispatch => pc' \in {"idle", "dispatch", "pre_dispatch"}
  BY <1>1 DEF FailToPlan, Admit, RetrieveDispatch, BeginDispatch, RaiseDispatch, Return
<1>8. RefuseDispatch \/ HoldDispatch => pc' = "idle"
  BY <1>3 DEF RefuseDispatch, HoldDispatch, StopDispatch
<1>9. LoseOutcomeSlot => pc' = "idle"
  BY <1>3 DEF LoseOutcomeSlot
<1>10. ASSUME NEW decision, Publish(decision) PROVE pc' = "idle"
  BY <1>3, <1>10 DEF Publish
<1>11. SettleNonSuccess \/ SettleSuccess => pc' = "idle"
  BY <1>10 DEF SettleNonSuccess, SettleSuccess
<1> QED
  BY <1>4, <1>5, <1>6, <1>7, <1>8, <1>9, <1>11 DEF Step, Realizing

LEMMA OpenStep ==
  ASSUME Inv, OpenOK, [Next]_vars
  PROVE  OpenOK'
<1>1. CASE UNCHANGED vars
  BY <1>1 DEF OpenOK, Current, vars, supVars, realVars, ctlVars
<1>2. CASE Call \/ Staged
  BY <1>2, CallEntry DEF OpenOK
<1>3. CASE Inject
  BY <1>3, InjectAttempts DEF OpenOK, Current
<1>4. CASE Invoke
  <2>1. ~Current.terminal /\ attempts' = attempts
    BY <1>4 DEF Invoke, Unsubstituted, Sup!SetPosture
  <2> QED
    BY <2>1 DEF OpenOK, Current
<1>5. CASE ApplyRequest \/ CompleteExecution
  <2>1. pc = "invoke" /\ attempts' = attempts
    BY <1>5 DEF ApplyRequest, CompleteExecution, Sup!SetPosture, supVars
  <2> QED
    BY <2>1 DEF OpenOK, Current, Realizing
<1>6. CASE RecordExecution
  <2>1. pc = "executed" /\ pc' = "post_execution" /\ execution' = execution
        /\ (execution = "SUCCESS" => attempts' = attempts)
    BY <1>6 DEF RecordExecution, realVars, supVars
  <2> QED
    BY <2>1 DEF OpenOK, Current, Realizing
<1>7. CASE ReconcileEffects \/ ReserveOutcomeSlot
  <2>1. /\ pc \in {"post_execution", "reserve"} /\ pc' \in {"reserve", "settle", "final"}
        /\ UNCHANGED <<attempts, execution>>
    BY <1>7 DEF ReconcileEffects, ReserveOutcomeSlot, realVars, supVars
  <2> QED
    BY <2>1 DEF OpenOK, Current, Realizing
<1>8. CASE Step /\ ~Invoke /\ ~ApplyRequest /\ ~CompleteExecution /\ ~RecordExecution /\ ~ReconcileEffects
             /\ ~ReserveOutcomeSlot
  BY <1>8, StepEntry DEF OpenOK
<1> QED
  BY <1>1, <1>2, <1>3, <1>4, <1>5, <1>6, <1>7, <1>8 DEF Next


-----------------------------------------------------------------------------
(* What a step tells.                                                       *)

Terminal(n) == n \in DOMAIN attempts /\ attempts[n].terminal

FailureEvent(e) == e.by = "supervisor" /\ e.type \in FailureTypes

(* An event that ends nothing, and resumes nothing that has ended.          *)
Harmless(e, last) ==
  /\ e.attempt <= last
  /\ ~FailureEvent(e)
  /\ e.type \in Resumed => ~Terminal(e.attempt)

AllHarmless(s, last) == \A k \in DOMAIN s : Harmless(s[k], last)

(* Attempts are only added, and only the current one can end, with the last *)
(* event of the step.                                                       *)
Told(new, ends) ==
  /\ Emit(new)
  /\ DOMAIN attempts \subseteq DOMAIN attempts'
  /\ \A n \in DOMAIN attempts' : attempts'[n].terminal <=> Terminal(n) \/ (ends /\ n = Len(attempts))
  /\ ends => /\ Len(attempts) \in DOMAIN attempts /\ ~Terminal(Len(attempts)) /\ new # << >>
             /\ FailureEvent(new[Len(new)]) /\ new[Len(new)].attempt = Len(attempts)
             /\ new[Len(new)].type \notin Resumed
  /\ \A k \in DOMAIN new : Harmless(new[k], Len(attempts')) \/ (ends /\ k = Len(new))

(* No event names an attempt to come; and an attempt ends in the trace when *)
(* it ends in the supervisor, once, with nothing attempted after it.        *)
EndsOK ==
  /\ \A i \in DOMAIN events : events[i].attempt <= Len(attempts)
  /\ \A n \in DOMAIN attempts :
       /\ attempts[n].terminal <=> Failure(n) # {}
       /\ \A i, j \in Failure(n) : i = j
       /\ \A i \in Failure(n), j \in At(Resumed, n) : j < i

LEMMA FailuresAre ==
  ASSUME NEW n
  PROVE  /\ Failure(n) = {i \in DOMAIN events : FailureEvent(events[i]) /\ events[i].attempt = n}
         /\ At(Resumed, n) = {i \in DOMAIN events : events[i].type \in Resumed /\ events[i].attempt = n}
  BY DEF Failure, At, FailureEvent

(* Both hold of the next state too.                                         *)
LEMMA FailuresWillBe ==
  ASSUME NEW n
  PROVE  /\ Failure(n)' = {i \in DOMAIN events' : FailureEvent(events'[i]) /\ events'[i].attempt = n}
         /\ At(Resumed, n)' = {i \in DOMAIN events' : events'[i].type \in Resumed /\ events'[i].attempt = n}
  BY DEF Failure, At, FailureEvent

(* One sequence of events after another.                                    *)
LEMMA ExtendedBy ==
  ASSUME NEW s \in Seq(EventType), NEW t \in Seq(EventType)
  PROVE  /\ Len(s) \in Nat /\ Len(t) \in Nat /\ s \o t \in Seq(EventType)
         /\ DOMAIN s = 1 .. Len(s) /\ DOMAIN t = 1 .. Len(t)
         /\ DOMAIN (s \o t) = 1 .. Len(s) + Len(t)
         /\ \A i \in 1 .. Len(s) : i \in DOMAIN (s \o t) /\ (s \o t)[i] = s[i]
         /\ \A k \in 1 .. Len(t) : Len(s) + k \in DOMAIN (s \o t) /\ (s \o t)[Len(s) + k] = t[k]
         /\ \A i \in DOMAIN (s \o t) : i \in 1 .. Len(s) \/ \E k \in 1 .. Len(t) : i = Len(s) + k
<1> DEFINE u == s \o t
<1>1. Len(s) \in Nat /\ Len(t) \in Nat /\ DOMAIN s = 1 .. Len(s) /\ DOMAIN t = 1 .. Len(t)
  BY LenProperties
<1>2. /\ u \in Seq(EventType) /\ Len(u) = Len(s) + Len(t)
      /\ \A i \in 1 .. Len(s) + Len(t) : u[i] = IF i <= Len(s) THEN s[i] ELSE t[i - Len(s)]
  BY ConcatProperties
<1> HIDE DEF u
<1>3. DOMAIN u = 1 .. Len(s) + Len(t)
  BY <1>2, LenProperties
<1>4. \A i \in 1 .. Len(s) : i \in 1 .. Len(s) + Len(t) /\ i <= Len(s)
  BY <1>1
<1>5. \A k \in 1 .. Len(t) : /\ Len(s) + k \in 1 .. Len(s) + Len(t) /\ ~(Len(s) + k <= Len(s))
                             /\ (Len(s) + k) - Len(s) = k
  BY <1>1
<1>6. \A i \in 1 .. Len(s) + Len(t) :
        i \in 1 .. Len(s) \/ (i - Len(s) \in 1 .. Len(t) /\ i = Len(s) + (i - Len(s)))
  BY <1>1
<1>7. \A i \in 1 .. Len(s) : i \in DOMAIN u /\ u[i] = s[i]
  BY <1>2, <1>3, <1>4
<1>8. \A k \in 1 .. Len(t) : Len(s) + k \in DOMAIN u /\ u[Len(s) + k] = t[k]
  BY <1>2, <1>3, <1>5
<1> QED
  BY <1>1, <1>2, <1>3, <1>6, <1>7, <1>8 DEF u

LEMMA ToldKeeps ==
  ASSUME Inv, Inv', events \in Seq(EventType), EndsOK,
         NEW new \in Seq(EventType), NEW ends \in BOOLEAN, Told(new, ends)
  PROVE  EndsOK'
<1> DEFINE N == Len(events)
           M == Len(new)
           last == Len(attempts)
<1>1. /\ N \in Nat /\ M \in Nat /\ DOMAIN events = 1 .. N /\ DOMAIN new = 1 .. M
      /\ \A i \in 1 .. N : i \in DOMAIN events' /\ events'[i] = events[i]
      /\ \A k \in 1 .. M : N + k \in DOMAIN events' /\ events'[N + k] = new[k]
      /\ \A i \in DOMAIN events' : i \in 1 .. N \/ \E k \in 1 .. M : i = N + k
  BY ExtendedBy DEF Told, Emit
<1>2. /\ last \in Nat /\ DOMAIN attempts = 1 .. last
      /\ Len(attempts') \in Nat /\ DOMAIN attempts' = 1 .. Len(attempts')
  <2>1. attempts \in Seq(Sup!Attempt) /\ attempts' \in Seq(Sup!Attempt)
    BY DEF Inv, IndInv, SupervisorOK, Sup!TypeOK
  <2> QED
    BY <2>1, LenProperties
<1>3. last <= Len(attempts')
  <2>1. DOMAIN attempts \subseteq DOMAIN attempts'
    BY DEF Told
  <2>2. last # 0 => last \in 1 .. Len(attempts')
    BY <1>2, <2>1
  <2> QED
    BY <1>2, <2>2
<1>4. /\ \A i \in 1 .. N : events[i].attempt \in Nat /\ events[i].attempt <= last
      /\ \A k \in 1 .. M : new[k].attempt \in Nat
  <2>1. \A i \in 1 .. N : events[i] \in EventType
    BY <1>1, ElementOfSeq
  <2>2. \A k \in 1 .. M : new[k] \in EventType
    BY <1>1, ElementOfSeq
  <2> QED
    BY <1>1, <2>1, <2>2 DEF EventType, EndsOK
<1>5. ends => /\ M \in 1 .. M /\ FailureEvent(new[M]) /\ new[M].attempt = last /\ new[M].type \notin Resumed
              /\ ~Terminal(last) /\ last \in DOMAIN attempts
  <2>1. new # << >> => M # 0
    BY EmptySeq
  <2> QED
    BY <1>1, <2>1 DEF Told
<1>6. \A k \in 1 .. M : Harmless(new[k], Len(attempts')) \/ (ends /\ k = M)
  BY <1>1 DEF Told
<1>7. \A i \in DOMAIN events' : events'[i].attempt <= Len(attempts')
  <2>1. \A k \in 1 .. M : new[k].attempt <= Len(attempts')
    <3>1. \A k \in 1 .. M : new[k].attempt <= Len(attempts') \/ new[k].attempt = last
      BY <1>5, <1>6 DEF Harmless
    <3> QED
      BY <1>3, <3>1
  <2>2. \A i \in 1 .. N : events[i].attempt <= Len(attempts')
    <3> HIDE DEF N, last
    <3> QED
      BY <1>2, <1>3, <1>4
  <2> QED
    BY <1>1, <2>1, <2>2
<1> SUFFICES ASSUME NEW n \in DOMAIN attempts'
             PROVE  /\ attempts'[n].terminal <=> Failure(n)' # {}
                    /\ \A i, j \in Failure(n)' : i = j
                    /\ \A i \in Failure(n)', j \in At(Resumed, n)' : j < i
  BY <1>7 DEF EndsOK
<1> DEFINE F == {i \in DOMAIN events : FailureEvent(events[i]) /\ events[i].attempt = n}
           R == {i \in DOMAIN events : events[i].type \in Resumed /\ events[i].attempt = n}
           Fx == {i \in DOMAIN events' : FailureEvent(events'[i]) /\ events'[i].attempt = n}
           Rx == {i \in DOMAIN events' : events'[i].type \in Resumed /\ events'[i].attempt = n}
           here == ends /\ n = last
<1>8. /\ Terminal(n) <=> F # {}
      /\ \A i, j \in F : i = j
      /\ \A i \in F, j \in R : j < i
  <2>1. CASE n \in DOMAIN attempts
    <3>1. F = Failure(n) /\ R = At(Resumed, n)
      BY FailuresAre
    <3> HIDE DEF F, R
    <3>2. /\ attempts[n].terminal <=> F # {}
          /\ \A i, j \in F : i = j
          /\ \A i \in F, j \in R : j < i
      BY <2>1, <3>1 DEF EndsOK
    <3> QED
      BY <2>1, <3>2 DEF Terminal
  <2>2. CASE n \notin DOMAIN attempts
    <3>1. n > last
      BY <1>2, <2>2
    <3>2. F = {}
      BY <1>1, <1>2, <1>4, <3>1
    <3> QED
      BY <2>2, <3>2 DEF Terminal
  <2> QED
    BY <2>1, <2>2
<1>9. F \subseteq 1 .. N /\ R \subseteq 1 .. N /\ F \subseteq Fx
  BY <1>1
<1>10. here => M \in 1 .. M /\ N + M \in Fx /\ ~Terminal(n)
  BY <1>1, <1>5
<1>11. \A i \in Fx : i \in F \/ (here /\ i = N + M)
  <2>1. \A i \in Fx : i \in 1 .. N => i \in F
    BY <1>1
  <2>2. ASSUME NEW k \in 1 .. M, N + k \in Fx PROVE here /\ k = M
    <3>1. FailureEvent(new[k]) /\ new[k].attempt = n
      BY <1>1, <2>2
    <3>2. ends /\ k = M
      BY <1>6, <3>1 DEF Harmless
    <3> QED
      BY <1>5, <3>1, <3>2
  <2> HIDE DEF F, Fx, N, M, last
  <2>3. \A i \in Fx : i \in 1 .. N \/ \E k \in 1 .. M : i = N + k
    BY <1>1 DEF Fx
  <2> QED
    BY <2>1, <2>2, <2>3
<1>12. \A j \in Rx : j \in R \/ \E k \in 1 .. M : j = N + k /\ ~Terminal(n) /\ (ends => k # M)
  <2>1. \A j \in Rx : j \in 1 .. N => j \in R
    BY <1>1
  <2>2. ASSUME NEW k \in 1 .. M, N + k \in Rx PROVE ~Terminal(n) /\ (ends => k # M)
    <3>1. new[k].type \in Resumed /\ new[k].attempt = n
      BY <1>1, <2>2
    <3>2. ~(ends /\ k = M)
      BY <1>5, <3>1
    <3> QED
      BY <1>6, <3>1, <3>2 DEF Harmless
  <2> HIDE DEF R, Rx, N, M, last
  <2>3. \A j \in Rx : j \in 1 .. N \/ \E k \in 1 .. M : j = N + k
    BY <1>1 DEF Rx
  <2> QED
    BY <2>1, <2>2, <2>3
<1> HIDE DEF F, R, Fx, Rx, N, M, last
<1>13. Fx # {} <=> F # {} \/ here
  BY <1>9, <1>10, <1>11
<1>14. attempts'[n].terminal <=> Terminal(n) \/ here
  BY DEF Told, last
<1>15. \A i, j \in Fx : i = j
  BY <1>8, <1>10, <1>11
<1>16. \A i \in Fx, j \in Rx : j < i
  <2>1. \A i \in F, j \in Rx : j < i
    BY <1>8, <1>12
  <2>2. ASSUME here, NEW j \in Rx PROVE j < N + M
    <3>1. M \in 1 .. M
      BY <1>10, <2>2
    <3>2. CASE j \in R
      BY <1>1, <1>9, <3>1, <3>2
    <3>3. CASE \E k \in 1 .. M : j = N + k /\ (ends => k # M)
      BY <1>1, <2>2, <3>3
    <3> QED
      BY <1>12, <3>2, <3>3
  <2> QED
    BY <1>11, <2>1, <2>2
<1>17. Failure(n)' = Fx /\ At(Resumed, n)' = Rx
  BY FailuresWillBe DEF Fx, Rx
<1>18. attempts'[n].terminal <=> Fx # {}
  BY <1>8, <1>13, <1>14
<1> QED
  BY <1>15, <1>16, <1>17, <1>18


-----------------------------------------------------------------------------
(* Building blocks: what is reported without ending the attempt.            *)

LEMMA HarmlessNothing == \A last : AllHarmless(<< >>, last)
  BY DEF AllHarmless

LEMMA HarmlessJoined ==
  ASSUME NEW s \in Seq(EventType), NEW t \in Seq(EventType), NEW last,
         AllHarmless(s, last), AllHarmless(t, last)
  PROVE  AllHarmless(s \o t, last)
<1> DEFINE u == s \o t
<1>1. /\ DOMAIN s = 1 .. Len(s) /\ DOMAIN t = 1 .. Len(t)
      /\ \A i \in 1 .. Len(s) : u[i] = s[i]
      /\ \A k \in 1 .. Len(t) : u[Len(s) + k] = t[k]
      /\ \A i \in DOMAIN u : i \in 1 .. Len(s) \/ \E k \in 1 .. Len(t) : i = Len(s) + k
  BY ExtendedBy
<1> HIDE DEF u
<1>2. \A i \in DOMAIN u : Harmless(u[i], last)
  BY <1>1 DEF AllHarmless
<1> QED
  BY <1>2 DEF AllHarmless, u

LEMMA OneHarmless ==
  ASSUME NEW e, NEW last, Harmless(e, last)
  PROVE  AllHarmless(<<e>>, last)
  BY DEF AllHarmless

(* A note of the runtime on an attempt that is still open.                  *)
LEMMA NoteHarmless ==
  ASSUME Inv, NEW type, NEW outcome, type \in Resumed => ~Current.terminal
  PROVE  AllHarmless(Note(type, outcome), Len(attempts))
<1> DEFINE e == TraceEvent("runtime", type, Len(attempts), outcome)
<1>1. e.by = "runtime" /\ e.type = type /\ e.attempt = Len(attempts)
  BY DEF TraceEvent
<1>2. Len(attempts) <= Len(attempts)
  BY AttemptsCounted
<1>3. Harmless(e, Len(attempts))
  <2> HIDE DEF e
  <2> QED
    BY <1>1, <1>2 DEF Harmless, FailureEvent, Terminal, Current
<1> QED
  BY <1>3, OneHarmless DEF Note

LEMMA SupervisedHarmless ==
  ASSUME NEW type, type \notin FailureTypes, NEW attempt \in Nat, NEW last \in Nat, attempt <= last, NEW ctl,
         type \in Resumed => ~Terminal(attempt)
  PROVE  AllHarmless(Supervised(type, attempt, ctl), last)
<1> DEFINE e == TraceEvent("supervisor", type, attempt, ctl)
<1>1. e.by = "supervisor" /\ e.type = type /\ e.attempt = attempt
  BY DEF TraceEvent
<1>2. Harmless(e, last)
  <2> HIDE DEF e
  <2> QED
    BY <1>1 DEF Harmless, FailureEvent
<1> QED
  BY <1>2, OneHarmless DEF Supervised

Telling == \E new \in Seq(EventType), ends \in BOOLEAN : Told(new, ends)

(* A step that leaves the attempts alone, and reports only harmless events. *)
LEMMA TellQuietly ==
  ASSUME Inv, NEW new \in Seq(EventType), AllHarmless(new, Len(attempts)), Emit(new), attempts' = attempts
  PROVE  Telling
<1>1. Told(new, FALSE)
  BY DEF Told, Terminal, AllHarmless
<1> QED
  BY <1>1 DEF Telling

(* A step that ends the attempt if it is open, and reports it then.         *)
LEMMA TellEnding ==
  ASSUME Inv, attempts # << >>, NEW quiet \in Seq(EventType), AllHarmless(quiet, Len(attempts)),
         NEW ctl \in Control, NEW given, NEW class, NEW retain, EndAttempt(given, class, retain),
         Emit(quiet \o Ending(ctl))
  PROVE  Telling
<1>1. /\ Len(attempts) \in DOMAIN attempts /\ Len(attempts) \in Nat /\ DOMAIN attempts = 1 .. Len(attempts)
      /\ Current \in Sup!Attempt
  BY CurrentAttempt DEF Inv, IndInv
<1>2. Sup!CanFail <=> ~Current.terminal
  BY DEF Sup!CanFail, Sup!Current, Current
<1>3. CASE Current.terminal
  <2>1. attempts' = attempts /\ Ending(ctl) = << >>
    BY <1>2, <1>3 DEF EndAttempt, Sup!Fail, supVars, Ending
  <2>2. Emit(quiet)
    BY <2>1, ConcatEmptySeq DEF Emit
  <2> QED
    BY <2>1, <2>2, TellQuietly
<1>4. CASE ~Current.terminal
  <2> DEFINE e == TraceEvent("supervisor", FailureType(ctl), Len(attempts), ctl)
             new == quiet \o <<e>>
             M == Len(quiet) + 1
  <2>1. /\ e.by = "supervisor" /\ e.type \in FailureTypes /\ e.attempt = Len(attempts)
        /\ e \in EventType /\ e.type \notin Resumed
    <3>1. e.by = "supervisor" /\ e.type = FailureType(ctl) /\ e.attempt = Len(attempts)
      BY DEF TraceEvent
    <3>2. FailureType(ctl) \in FailureTypes /\ FailureType(ctl) \in EventName /\ FailureType(ctl) \notin Resumed
      BY DEF FailureType, FailureTypes, EventName, Resumed
    <3>3. e \in EventType
      BY <1>1, <3>2 DEF TraceEvent, EventType, Said
    <3> QED
      BY <3>1, <3>2, <3>3
  <2>2. Emit(new)
    BY <1>2, <1>4 DEF Ending, Supervised
  <2> HIDE DEF e
  <2>3. /\ new \in Seq(EventType) /\ Len(new) = M /\ Len(quiet) \in Nat /\ DOMAIN new = 1 .. M
        /\ new[M] = e /\ \A k \in 1 .. Len(quiet) : new[k] = quiet[k]
    <3>1. <<e>> \in Seq(EventType) /\ Len(<<e>>) = 1 /\ <<e>>[1] = e
      BY <2>1
    <3>2. /\ new \in Seq(EventType) /\ Len(new) = Len(quiet) + Len(<<e>>) /\ Len(quiet) \in Nat
          /\ \A i \in 1 .. Len(quiet) + Len(<<e>>) :
               new[i] = IF i <= Len(quiet) THEN quiet[i] ELSE <<e>>[i - Len(quiet)]
      BY <3>1, ConcatProperties, LenProperties
    <3>3. /\ M \in 1 .. M /\ ~(M <= Len(quiet)) /\ M - Len(quiet) = 1
          /\ \A i \in 1 .. Len(quiet) : i \in 1 .. M /\ i <= Len(quiet)
      BY <3>2
    <3> HIDE DEF new
    <3>4. DOMAIN new = 1 .. M
      BY <3>1, <3>2, LenProperties
    <3> QED
      BY <3>1, <3>2, <3>3, <3>4
  <2> HIDE DEF new
  <2>4. attempts' = [attempts EXCEPT ![Len(attempts)] = [Current EXCEPT !.terminal = TRUE, !.failure = class]]
    BY <1>2, <1>4 DEF EndAttempt, Sup!Fail, Current
  <2>5. /\ DOMAIN attempts' = DOMAIN attempts
        /\ \A n \in DOMAIN attempts' :
             attempts'[n].terminal <=> Terminal(n) \/ n = Len(attempts)
    <3> DEFINE ended == [Current EXCEPT !.terminal = TRUE, !.failure = class]
    <3>1. ended.terminal = TRUE
      BY <1>1 DEF Sup!Attempt
    <3> HIDE DEF ended
    <3>2. /\ DOMAIN attempts' = DOMAIN attempts
          /\ \A n \in DOMAIN attempts : attempts'[n] = IF n = Len(attempts) THEN ended ELSE attempts[n]
      BY <2>4 DEF ended
    <3> QED
      BY <3>1, <3>2 DEF Terminal
  <2>6. Len(attempts') = Len(attempts)
    <3>1. attempts \in Seq(Sup!Attempt)
      BY DEF Inv, IndInv, SupervisorOK, Sup!TypeOK
    <3>2. Len([attempts EXCEPT ![Len(attempts)] = [Current EXCEPT !.terminal = TRUE, !.failure = class]])
            = Len(attempts)
      BY <3>1
    <3> QED
      BY <2>4, <3>2
  <2>7. Told(new, TRUE)
    <3>1. \A k \in DOMAIN new : Harmless(new[k], Len(attempts')) \/ k = M
      BY <2>3, <2>6, LenProperties DEF AllHarmless
    <3>2. /\ new # << >> /\ FailureEvent(new[Len(new)]) /\ new[Len(new)].attempt = Len(attempts)
          /\ new[Len(new)].type \notin Resumed
      BY <2>1, <2>3, EmptySeq DEF FailureEvent
    <3>3. ~Terminal(Len(attempts))
      BY <1>4 DEF Terminal, Current
    <3> QED
      BY <1>1, <2>2, <2>3, <2>5, <3>1, <3>2, <3>3 DEF Told
  <2> QED
    BY <2>3, <2>7 DEF Telling
<1> QED
  BY <1>3, <1>4


-----------------------------------------------------------------------------
(* What each step tells.                                                    *)

(* Preparation and planning report on an attempt that is open.              *)
LEMMA PreparationHarmless ==
  ASSUME Inv, attempts # << >>, ~Current.terminal
  PROVE  /\ AllHarmless(IntentEvents, Len(attempts)) /\ AllHarmless(WhatEvents, Len(attempts))
         /\ AllHarmless(ApprovalEvents, Len(attempts)) /\ AllHarmless(PlanEvents, Len(attempts))
<1>1. \A type, outcome : AllHarmless(Note(type, outcome), Len(attempts))
  BY NoteHarmless
<1>2. AllHarmless(IntentEvents, Len(attempts)) /\ AllHarmless(PlanEvents, Len(attempts))
  BY <1>1, HarmlessNothing DEF IntentEvents, PlanEvents
<1>3. /\ "PASS" \in Said /\ "CandidateSelected" \in EventName /\ "TransitionValidated" \in EventName
      /\ "TransitionAuthorized" \in EventName /\ "AttemptStarted" \in EventName /\ "PASS" \in Control
  BY DEF Said, Control, EventName
<1>4. AllHarmless(WhatEvents, Len(attempts))
  <2> DEFINE first == IF faults.unselectable THEN << >> ELSE Note("CandidateSelected", "PASS")
             second == IF ~faults.unselectable /\ ValidWhat THEN Note("TransitionValidated", "PASS") ELSE << >>
  <2>1. /\ first \in Seq(EventType) /\ second \in Seq(EventType)
        /\ AllHarmless(first, Len(attempts)) /\ AllHarmless(second, Len(attempts))
    BY <1>1, <1>3, Noted, NothingReported, HarmlessNothing
  <2>2. WhatEvents = first \o second
    BY DEF WhatEvents
  <2> HIDE DEF first, second
  <2> QED
    BY <2>1, <2>2, HarmlessJoined
<1>5. AllHarmless(ApprovalEvents, Len(attempts))
  <2> DEFINE authorized == Note("TransitionAuthorized", "PASS")
             started == Supervised("AttemptStarted", Len(attempts), "PASS")
  <2>1. ~Terminal(Len(attempts)) /\ "AttemptStarted" \notin FailureTypes /\ Len(attempts) \in Nat
    BY AttemptsCounted DEF Terminal, Current, FailureTypes
  <2>2. Len(attempts) <= Len(attempts)
    BY <2>1
  <2>3. /\ authorized \in Seq(EventType) /\ started \in Seq(EventType) /\ WhatEvents \in Seq(EventType)
        /\ AllHarmless(authorized, Len(attempts)) /\ AllHarmless(started, Len(attempts))
    BY <1>1, <1>3, <2>1, <2>2, Noted, SupervisedTyped, PreparationTyped, SupervisedHarmless
  <2>4. ApprovalEvents = (WhatEvents \o authorized) \o started
    BY DEF ApprovalEvents
  <2> HIDE DEF authorized, started
  <2>5. WhatEvents \o authorized \in Seq(EventType) /\ AllHarmless(WhatEvents \o authorized, Len(attempts))
    BY <1>4, <2>3, HarmlessJoined, Joined
  <2> QED
    BY <2>3, <2>4, <2>5, HarmlessJoined
<1> QED
  BY <1>2, <1>4, <1>5

LEMMA EndingOnly ==
  ASSUME Inv, attempts # << >>, NEW ctl \in Control,
         NEW given, NEW class, NEW retain, EndAttempt(given, class, retain), Emit(Ending(ctl))
  PROVE  Telling
<1>1. << >> \o Ending(ctl) = Ending(ctl)
  BY EndingTyped, ConcatEmptySeq
<1>2. Emit(<< >> \o Ending(ctl))
  BY <1>1 DEF Emit
<1> QED
  BY <1>2, NothingReported, HarmlessNothing, TellEnding

LEMMA PrepareTells ==
  ASSUME Inv,
         \/ HoldIntent /\ Emit(IntentEvents \o Ending("HOLD_AMBIGUOUS"))
         \/ StructureIntent /\ Emit(IntentEvents)
         \/ MissInitialState /\ Emit(Ending("HOLD_AMBIGUOUS"))
         \/ RefuseWhat /\ Emit(WhatEvents \o Ending(WhatControl))
         \/ ApproveWhat /\ Emit(ApprovalEvents)
  PROVE  Telling
<1>1. pc \in Preparing
  BY DEF HoldIntent, StructureIntent, MissInitialState, RefuseWhat, ApproveWhat, Preparing
<1>2. attempts # << >> /\ ~Current.terminal
  BY <1>1, PreparingState DEF Inv
<1>3. "HOLD_AMBIGUOUS" \in Control
  BY DEF Control
<1>4. CASE HoldIntent /\ Emit(IntentEvents \o Ending("HOLD_AMBIGUOUS"))
  <2>1. EndAttempt("HOLD_AMBIGUOUS", "OTHER", TRUE)
    BY <1>4 DEF HoldIntent, StopCall, Stop
  <2> QED
    BY <1>2, <1>3, <1>4, <2>1, PreparationTyped, PreparationHarmless, TellEnding
<1>5. CASE StructureIntent /\ Emit(IntentEvents)
  <2>1. attempts' = attempts
    BY <1>5 DEF StructureIntent, supVars
  <2> QED
    BY <1>2, <1>5, <2>1, PreparationTyped, PreparationHarmless, TellQuietly
<1>6. CASE MissInitialState /\ Emit(Ending("HOLD_AMBIGUOUS"))
  <2>1. EndAttempt("HOLD_AMBIGUOUS", "OTHER", TRUE)
    BY <1>6 DEF MissInitialState, StopCall, Stop
  <2> QED
    BY <1>2, <1>3, <1>6, <2>1, EndingOnly
<1>7. CASE RefuseWhat /\ Emit(WhatEvents \o Ending(WhatControl))
  <2>1. EndAttempt(WhatControl, "OTHER", TRUE)
    BY <1>7 DEF RefuseWhat, StopCall, Stop
  <2>2. WhatControl \in Control
    BY FreshControl
  <2> QED
    BY <1>2, <1>7, <2>1, <2>2, PreparationTyped, PreparationHarmless, TellEnding
<1>8. CASE ApproveWhat /\ Emit(ApprovalEvents)
  <2>1. attempts' = attempts
    BY <1>8 DEF ApproveWhat, Sup!Bind
  <2> QED
    BY <1>2, <1>8, <2>1, PreparationTyped, PreparationHarmless, TellQuietly
<1> QED
  BY <1>4, <1>5, <1>6, <1>7, <1>8

LEMMA PlanTells ==
  ASSUME Inv,
         \/ FailToPlan /\ Emit(Ending("HOLD_AMBIGUOUS"))
         \/ AcceptPlan /\ Emit(PlanEvents)
         \/ RefusePlan /\ Emit(PlanEvents \o Ending(RefusalControl))
         \/ HoldCommit /\ Emit(Ending(Fresh))
         \/ FailToAdmit /\ Emit(Ending("HOLD_AMBIGUOUS"))
         \/ Admit /\ Emit(Note("TransitionCommitted", "PASS"))
  PROVE  Telling
<1>1. pc \in {"plan", "pre_commit"}
  BY DEF FailToPlan, AcceptPlan, RefusePlan, RetainPlan, HoldCommit, FailToAdmit, Admit
<1>2. attempts # << >> /\ ~Current.terminal
  BY <1>1 DEF Inv, IndInv, ControlOK, Live
<1>3. "HOLD_AMBIGUOUS" \in Control /\ RefusalControl \in Control /\ Fresh \in Control
  BY FreshControl DEF Control, RefusalControl
<1>4. CASE FailToPlan /\ Emit(Ending("HOLD_AMBIGUOUS"))
  <2>1. EndAttempt("HOLD_AMBIGUOUS", "OTHER", TRUE)
    BY <1>4 DEF FailToPlan, Stop
  <2> QED
    BY <1>2, <1>3, <1>4, <2>1, EndingOnly
<1>5. CASE AcceptPlan /\ Emit(PlanEvents)
  <2>1. attempts' = attempts
    BY <1>5 DEF AcceptPlan, supVars
  <2> QED
    BY <1>2, <1>5, <2>1, PreparationTyped, PreparationHarmless, TellQuietly
<1>6. CASE RefusePlan /\ Emit(PlanEvents \o Ending(RefusalControl))
  <2>1. EndAttempt(RefusalControl, PlanFailure, ~faults.evidenceMissing)
    BY <1>6 DEF RefusePlan
  <2> QED
    BY <1>2, <1>3, <1>6, <2>1, PreparationTyped, PreparationHarmless, TellEnding
<1>7. CASE HoldCommit /\ Emit(Ending(Fresh))
  <2>1. EndAttempt(Fresh, "OTHER", TRUE)
    BY <1>7 DEF HoldCommit, StopCall, Stop
  <2> QED
    BY <1>2, <1>3, <1>7, <2>1, EndingOnly
<1>8. CASE FailToAdmit /\ Emit(Ending("HOLD_AMBIGUOUS"))
  <2>1. EndAttempt("HOLD_AMBIGUOUS", "OTHER", TRUE)
    BY <1>8 DEF FailToAdmit, StopCall, Stop
  <2> QED
    BY <1>2, <1>3, <1>8, <2>1, EndingOnly
<1>9. CASE Admit /\ Emit(Note("TransitionCommitted", "PASS"))
  <2>1. attempts' = attempts
    BY <1>9 DEF Admit, AdmitUnder, Sup!Admission
  <2>2. "TransitionCommitted" \in EventName /\ "PASS" \in Said
    BY DEF EventName, Said, Control
  <2> QED
    BY <1>2, <1>9, <2>1, <2>2, Noted, NoteHarmless, TellQuietly
<1> QED
  BY <1>4, <1>5, <1>6, <1>7, <1>8, <1>9


(* What the supervisor reports of eligibility ends and resumes nothing.     *)
LEMMA EligibilityHarmless ==
  ASSUME Inv, NEW last \in Nat, Len(attempts) <= last
  PROVE  \A ctl : /\ AllHarmless(Eligibility(ctl), last)
                  /\ AllHarmless(Supervised("NewAttemptAuthorized", Len(attempts), ctl), last)
                  /\ AllHarmless(Supervised("CircuitOpened", Len(attempts), ctl), last)
                  /\ AllHarmless(Supervised("HumanEscalationRequired", Len(attempts), ctl), last)
<1>1. /\ {"RetryEligibilityDetermined", "NewAttemptAuthorized", "CircuitOpened", "HumanEscalationRequired"}
           \cap (FailureTypes \cup Resumed) = {}
      /\ Len(attempts) \in Nat
  BY AttemptsCounted DEF FailureTypes, Resumed
<1> QED
  BY <1>1, SupervisedHarmless DEF Eligibility

(* A granted successor: the attempt before it is told eligible, and it      *)
(* starts.                                                                  *)
LEMMA AllocationEvents ==
  ASSUME Inv, attempts # << >>
  PROVE  /\ Eligibility("REJECT_RETRYABLE") \o Activation \in Seq(EventType)
         /\ AllHarmless(Eligibility("REJECT_RETRYABLE") \o Activation, Len(attempts) + 1)
<1>1. /\ Len(attempts) \in Nat /\ Len(attempts) + 1 \in Nat /\ DOMAIN attempts = 1 .. Len(attempts)
      /\ Len(attempts) <= Len(attempts) + 1 /\ Len(attempts) + 1 <= Len(attempts) + 1
      /\ Len(attempts) + 1 \notin 1 .. Len(attempts)
  BY CurrentAttempt DEF Inv, IndInv
<1>2. /\ "REJECT_RETRYABLE" \in Control /\ "PASS" \in Control
      /\ {"RetryEligibilityDetermined", "NewAttemptAuthorized", "AttemptStarted"} \subseteq EventName
      /\ "AttemptStarted" \notin FailureTypes
  BY DEF Control, EventName, FailureTypes
<1> DEFINE told == Eligibility("REJECT_RETRYABLE")
           authorized == Supervised("NewAttemptAuthorized", Len(attempts), "PASS")
           started == Supervised("AttemptStarted", Len(attempts) + 1, "PASS")
<1>3. told \in Seq(EventType) /\ authorized \in Seq(EventType) /\ started \in Seq(EventType)
  BY <1>1, <1>2, SupervisedTyped DEF Eligibility
<1>4. AllHarmless(told, Len(attempts) + 1) /\ AllHarmless(authorized, Len(attempts) + 1)
  BY <1>1, EligibilityHarmless
<1>5. AllHarmless(started, Len(attempts) + 1)
  <2>1. ~Terminal(Len(attempts) + 1)
    BY <1>1 DEF Terminal
  <2> QED
    BY <1>1, <1>2, <2>1, SupervisedHarmless
<1>6. Activation = authorized \o started
  BY DEF Activation
<1> HIDE DEF told, authorized, started
<1>7. Activation \in Seq(EventType) /\ AllHarmless(Activation, Len(attempts) + 1)
  BY <1>3, <1>4, <1>5, <1>6, HarmlessJoined, Joined
<1>8. told \o Activation \in Seq(EventType) /\ AllHarmless(told \o Activation, Len(attempts) + 1)
  BY <1>3, <1>4, <1>7, HarmlessJoined, Joined
<1> QED
  BY <1>8 DEF told

(* A successor is granted by an allocation; otherwise the chain stays.      *)
LEMMA SuccessorGranted ==
  ASSUME Inv, RequestSuccessor
  PROVE  /\ attempts # << >> /\ Current.terminal /\ Len(attempts) \in Nat /\ DOMAIN attempts = 1 .. Len(attempts)
         /\ \/ /\ Sup!Allocate(Len(attempts), call.mode, FreshForRetry, TRUE, faults.scheduleLost)
               /\ Sup!EligibleFor(Len(attempts), call.mode, FreshForRetry, TRUE)
               /\ ~Sup!Exhausted /\ ~faults.scheduleLost
            \/ /\ attempts' = attempts
               /\ ~(/\ Sup!EligibleFor(Len(attempts), call.mode, FreshForRetry, TRUE)
                    /\ ~Sup!Exhausted /\ ~faults.scheduleLost)
<1> DEFINE n == Len(attempts)
<1>1. attempts # << >> /\ Current.terminal
  BY DEF RequestSuccessor, Inv, IndInv, ControlOK
<1>2. n \in Nat /\ DOMAIN attempts = 1 .. n /\ n \notin DOMAIN schedules
  <2>1. n \in Nat \ {0} /\ DOMAIN attempts = 1 .. n
    BY <1>1, CurrentAttempt DEF Inv, IndInv
  <2> QED
    BY <2>1 DEF Inv, IndInv, SupervisorOK
<1> HIDE DEF n
<1>3. Sup!Successor(n, call.mode, FreshForRetry, TRUE, faults.scheduleLost)
  BY DEF RequestSuccessor, n
<1>4. ~Sup!Retrieve(n)
  BY <1>2 DEF Sup!Retrieve
<1>5. CASE Sup!Refuse(n, call.mode, FreshForRetry, TRUE)
  <2>1. attempts' = attempts /\ ~Sup!EligibleFor(n, call.mode, FreshForRetry, TRUE)
    BY <1>5 DEF Sup!Refuse, Sup!EligibleFor
  <2> QED
    BY <1>1, <1>2, <2>1 DEF n
<1>6. CASE Sup!OpenCircuit(n, call.mode, FreshForRetry, TRUE)
  <2>1. attempts' = attempts /\ Sup!Exhausted
    BY <1>6 DEF Sup!OpenCircuit
  <2> QED
    BY <1>1, <1>2, <2>1 DEF n
<1>7. CASE Sup!LoseSchedule(n, call.mode, FreshForRetry, TRUE, faults.scheduleLost)
  <2>1. attempts' = attempts /\ faults.scheduleLost
    BY <1>7 DEF Sup!LoseSchedule
  <2> QED
    BY <1>1, <1>2, <2>1 DEF n
<1>8. CASE Sup!Allocate(n, call.mode, FreshForRetry, TRUE, faults.scheduleLost)
  <2>1. /\ Sup!EligibleFor(n, call.mode, FreshForRetry, TRUE) /\ ~Sup!Exhausted /\ ~faults.scheduleLost
    BY <1>8 DEF Sup!Allocate
  <2> QED
    BY <1>1, <1>2, <1>8, <2>1 DEF n
<1> QED
  BY <1>3, <1>4, <1>5, <1>6, <1>7, <1>8 DEF Sup!Successor

LEMMA AllocationGrows ==
  ASSUME Inv, attempts # << >>, NEW mode, NEW fresh, NEW lost,
         Sup!Allocate(Len(attempts), mode, fresh, TRUE, lost)
  PROVE  /\ Len(attempts') = Len(attempts) + 1 /\ DOMAIN attempts' = DOMAIN attempts \cup {Len(attempts) + 1}
         /\ ~attempts'[Len(attempts) + 1].terminal
         /\ \A n \in DOMAIN attempts : attempts'[n] = attempts[n] /\ n # Len(attempts) + 1
<1> DEFINE first == Sup!NewAttempt(ledger.created + 1, Len(attempts))
<1>1. attempts' = Append(attempts, first) /\ first.terminal = FALSE
  BY DEF Sup!Allocate, Sup!NewAttempt
<1>2. attempts \in Seq(Sup!Attempt) /\ Len(attempts) \in Nat /\ DOMAIN attempts = 1 .. Len(attempts)
  BY CurrentAttempt DEF Inv, IndInv
<1> HIDE DEF first
<1>3. /\ Len(attempts') = Len(attempts) + 1 /\ DOMAIN attempts' = 1 .. Len(attempts) + 1
      /\ attempts'[Len(attempts) + 1] = first
      /\ \A i \in 1 .. Len(attempts) : attempts'[i] = attempts[i]
  BY <1>1, <1>2
<1> QED
  BY <1>1, <1>2, <1>3

LEMMA SuccessorTells ==
  ASSUME Inv, Inv', RequestSuccessor, Emit(SuccessorEvents)
  PROVE  Telling
<1>1. attempts # << >> /\ Len(attempts) \in Nat /\ DOMAIN attempts = 1 .. Len(attempts)
  BY SuccessorGranted
<1>2. Len(attempts) <= Len(attempts)
  BY <1>1
<1>3. lastControl' \in Control
  BY Vocabulary DEF Inv, IndInv, SupervisorOK, Sup!TypeOK
<1>4. CASE /\ Sup!Allocate(Len(attempts), call.mode, FreshForRetry, TRUE, faults.scheduleLost)
           /\ Sup!EligibleFor(Len(attempts), call.mode, FreshForRetry, TRUE)
           /\ ~Sup!Exhausted /\ ~faults.scheduleLost
  <2> DEFINE new == Eligibility("REJECT_RETRYABLE") \o Activation
  <2>1. SuccessorEvents = new
    BY <1>4 DEF SuccessorEvents
  <2>2. new \in Seq(EventType) /\ AllHarmless(new, Len(attempts) + 1)
    BY <1>1, AllocationEvents
  <2> HIDE DEF new
  <2>3. Told(new, FALSE)
    BY <1>1, <1>4, <2>1, <2>2, AllocationGrows DEF Told, AllHarmless, Terminal
  <2> QED
    BY <2>2, <2>3 DEF Telling
<1>5. CASE /\ attempts' = attempts
           /\ ~(/\ Sup!EligibleFor(Len(attempts), call.mode, FreshForRetry, TRUE)
                /\ ~Sup!Exhausted /\ ~faults.scheduleLost)
  <2> DEFINE opened == Supervised("CircuitOpened", Len(attempts), "CIRCUIT_OPEN")
             escalated == Supervised("HumanEscalationRequired", Len(attempts), "CIRCUIT_OPEN")
             told == Eligibility("REJECT_RETRYABLE")
             lost == Eligibility("HOLD_AMBIGUOUS")
  <2>1. \/ SuccessorEvents = Eligibility(lastControl')
        \/ SuccessorEvents = told \o (opened \o escalated)
        \/ SuccessorEvents = told \o lost
    BY <1>5 DEF SuccessorEvents
  <2>2. /\ {"REJECT_RETRYABLE", "HOLD_AMBIGUOUS", "CIRCUIT_OPEN"} \subseteq Control
        /\ {"RetryEligibilityDetermined", "CircuitOpened", "HumanEscalationRequired"} \subseteq EventName
    BY DEF Control, EventName
  <2>3. /\ opened \in Seq(EventType) /\ escalated \in Seq(EventType)
        /\ told \in Seq(EventType) /\ lost \in Seq(EventType)
    BY <1>1, <2>2, SupervisedTyped DEF Eligibility
  <2>4. /\ AllHarmless(opened, Len(attempts)) /\ AllHarmless(escalated, Len(attempts))
        /\ AllHarmless(told, Len(attempts)) /\ AllHarmless(lost, Len(attempts))
        /\ \A ctl : AllHarmless(Eligibility(ctl), Len(attempts))
    BY <1>1, <1>2, EligibilityHarmless
  <2>5. AllHarmless(Eligibility(lastControl'), Len(attempts))
    BY <2>4
  <2> HIDE DEF opened, escalated, told, lost
  <2>6. opened \o escalated \in Seq(EventType) /\ AllHarmless(opened \o escalated, Len(attempts))
    BY <2>3, <2>4, HarmlessJoined, Joined
  <2>7. AllHarmless(told \o (opened \o escalated), Len(attempts)) /\ AllHarmless(told \o lost, Len(attempts))
    BY <2>3, <2>4, <2>6, HarmlessJoined
  <2>8. SuccessorEvents \in Seq(EventType) /\ AllHarmless(SuccessorEvents, Len(attempts))
    BY <1>3, <2>1, <2>5, <2>7, SuccessorTyped
  <2> QED
    BY <1>5, <2>8, TellQuietly
<1> QED
  BY <1>4, <1>5, SuccessorGranted


LEMMA DispatchTells ==
  ASSUME Inv,
         \/ HoldDispatch /\ Emit(Ending(Fresh))
         \/ RefuseDispatch /\ Emit(Ending("FAIL_NONRETRYABLE"))
  PROVE  Telling
<1>1. pc \in Dispatching
  BY DEF HoldDispatch, RefuseDispatch, Dispatching
<1>2. attempts # << >>
  BY <1>1, DispatchingState DEF Inv
<1>3. "FAIL_NONRETRYABLE" \in Control /\ Fresh \in Control
  BY FreshControl DEF Control
<1>4. CASE HoldDispatch /\ Emit(Ending(Fresh))
  <2>1. EndAttempt(Fresh, "OTHER", TRUE)
    BY <1>4 DEF HoldDispatch, StopDispatch, Stop
  <2> QED
    BY <1>2, <1>3, <1>4, <2>1, EndingOnly
<1>5. CASE RefuseDispatch /\ Emit(Ending("FAIL_NONRETRYABLE"))
  <2>1. EndAttempt("FAIL_NONRETRYABLE", "OTHER", TRUE)
    BY <1>5 DEF RefuseDispatch, StopDispatch, Stop
  <2> QED
    BY <1>2, <1>3, <1>5, <2>1, EndingOnly
<1> QED
  BY <1>4, <1>5

LEMMA ExecutionTells ==
  ASSUME Inv, Inv',
         \/ CompleteExecution /\ Emit(Note("ExecutionCompleted", Reported))
         \/ RecordExecution /\ Emit(IF execution = "SUCCESS" THEN << >> ELSE Ending(control'))
         \/ ReconcileEffects /\ Emit(ReconciliationEvents)
  PROVE  Telling
<1>1. {"ExecutionCompleted", "TransitionReconciled", "ReconciliationFailed"} \cap Resumed = {}
  BY DEF Resumed
<1>2. {"ExecutionCompleted", "TransitionReconciled", "ReconciliationFailed"} \subseteq EventName
  BY DEF EventName
<1>3. \A type \in {"ExecutionCompleted", "TransitionReconciled", "ReconciliationFailed"} : \A outcome :
        AllHarmless(Note(type, outcome), Len(attempts))
  BY <1>1, NoteHarmless
<1>4. CASE CompleteExecution /\ Emit(Note("ExecutionCompleted", Reported))
  <2>1. attempts' = attempts
    BY <1>4 DEF CompleteExecution, Sup!SetPosture
  <2>2. Reported \in Said
    BY ReportedTyped DEF Said, Inv, IndInv
  <2> QED
    BY <1>2, <1>3, <1>4, <2>1, <2>2, Noted, TellQuietly
<1>5. CASE RecordExecution /\ Emit(IF execution = "SUCCESS" THEN << >> ELSE Ending(control'))
  <2>1. attempts # << >>
    <3>1. pc \in Realizing
      BY <1>5 DEF RecordExecution, Realizing
    <3> QED
      BY <3>1, RealizingState DEF Inv
  <2>2. CASE execution = "SUCCESS"
    <3>1. attempts' = attempts /\ Emit(<< >>)
      BY <1>5, <2>2 DEF RecordExecution, supVars
    <3> QED
      BY <3>1, NothingReported, HarmlessNothing, TellQuietly
  <2>3. CASE execution # "SUCCESS"
    <3>1. EndAttempt(control', "OTHER", TRUE) /\ Emit(Ending(control'))
      BY <1>5, <2>3 DEF RecordExecution, Stop
    <3>2. control' \in Control
      BY DEF Inv, IndInv, ControlOK
    <3> QED
      BY <2>1, <3>1, <3>2, EndingOnly
  <2> QED
    BY <2>2, <2>3
<1>6. CASE ReconcileEffects /\ Emit(ReconciliationEvents)
  <2>1. attempts' = attempts /\ reconciliation' \in Said
    BY <1>6, OutcomeTyped DEF ReconcileEffects, Said, supVars
  <2>2. ReconciliationEvents \in Seq(EventType) /\ AllHarmless(ReconciliationEvents, Len(attempts))
    BY <1>2, <1>3, <2>1, Noted DEF ReconciliationEvents
  <2> QED
    BY <1>6, <2>1, <2>2, TellQuietly
<1> QED
  BY <1>4, <1>5, <1>6

LEMMA LoseSlotTells ==
  ASSUME Inv, LoseOutcomeSlot, Emit(Ending("HOLD_AMBIGUOUS"))
  PROVE  Telling
<1>1. pc \in Realizing /\ EndAttempt("HOLD_AMBIGUOUS", "OTHER", TRUE)
  BY DEF LoseOutcomeSlot, Realizing, Stop
<1>2. attempts # << >>
  BY <1>1, RealizingState DEF Inv
<1>3. "HOLD_AMBIGUOUS" \in Control
  BY DEF Control
<1> QED
  BY <1>1, <1>2, <1>3, EndingOnly

(* A publication that projects ends nothing, in an attempt that is open;    *)
(* any other ends the attempt.                                              *)
LEMMA PublicationEnds ==
  ASSUME Inv, ReconciledOK, OpenOK, SettleNonSuccess \/ SettleSuccess
  PROVE  /\ projection'.decision = "PROJECT" => attempts' = attempts /\ ~Current.terminal
         /\ projection'.decision # "PROJECT" => EndAttempt(control', "OTHER", TRUE)
<1>1. ASSUME NEW decision, Publish(decision)
      PROVE  IF projection'.decision = "PROJECT" THEN decision = "PROJECT" /\ UNCHANGED supVars
             ELSE EndAttempt(control', "OTHER", TRUE)
  BY <1>1 DEF Publish, Stop
<1>2. CASE SettleNonSuccess
  <2>1. PICK decision \in {"DO_NOT_PROJECT", "HOLD_PROJECTION"} : Publish(decision)
    BY <1>2 DEF SettleNonSuccess
  <2>2. projection'.decision # "PROJECT" /\ EndAttempt(control', "OTHER", TRUE)
    BY <1>1, <2>1
  <2> QED
    BY <2>2
<1>3. CASE SettleSuccess
  <2>1. pc = "final" /\ Publish(DecisionOf(FreshFinally))
    BY <1>3 DEF SettleSuccess
  <2>2. reconciliation = "RECONCILED_SUCCESS"
    BY <2>1, RealizingState DEF Inv, Realizing, Realized
  <2>3. ~Current.terminal
    BY <2>1, <2>2 DEF ReconciledOK, OpenOK, Realizing
  <2> QED
    BY <1>1, <2>1, <2>3 DEF supVars
<1> QED
  BY <1>2, <1>3

LEMMA SettleTells ==
  ASSUME Inv, Inv', ReconciledOK, OpenOK, SettleNonSuccess \/ SettleSuccess, Emit(ProjectionEvents)
  PROVE  Telling
<1>1. projection'.decision \in Decision /\ control' \in Control
  BY SettledTyped DEF Projection, Inv, IndInv, ControlOK
<1>2. attempts # << >> /\ Len(attempts) \in Nat
  <2>1. pc \in Realizing
    BY DEF SettleNonSuccess, SettleSuccess, Realizing
  <2> QED
    BY <2>1, RealizingState, AttemptsCounted DEF Inv
<1> DEFINE e == TraceEvent("projector", ProjectionType(projection'.decision), Len(attempts), projection'.decision)
<1>3. /\ e \in EventType /\ e.by = "projector" /\ e.attempt = Len(attempts)
      /\ e.type = ProjectionType(projection'.decision)
  <2>1. ProjectionType(projection'.decision) \in EventName
    BY DEF ProjectionType, EventName
  <2> QED
    BY <1>1, <1>2, <2>1 DEF TraceEvent, EventType, Said
<1>4. e.type \in Resumed => projection'.decision = "PROJECT"
  BY <1>3 DEF ProjectionType, Resumed
<1>5. Published = << >> \/ Published = <<e>>
  BY DEF Published
<1> HIDE DEF e
<1>6. Harmless(e, Len(attempts))
  <2>1. Len(attempts) <= Len(attempts)
    BY <1>2
  <2>2. projection'.decision = "PROJECT" => ~Terminal(Len(attempts))
    BY PublicationEnds DEF Terminal, Current
  <2> QED
    BY <1>3, <1>4, <2>1, <2>2 DEF Harmless, FailureEvent
<1>7. Published \in Seq(EventType) /\ AllHarmless(Published, Len(attempts))
  BY <1>3, <1>5, <1>6, OneHarmless, OneEvent, NothingReported, HarmlessNothing
<1>8. CASE projection'.decision = "PROJECT"
  <2>1. Published \o << >> = Published
    BY <1>7, ConcatEmptySeq
  <2>2. Emit(Published)
    BY <1>8, <2>1 DEF ProjectionEvents, Emit
  <2> QED
    BY <1>7, <1>8, <2>2, PublicationEnds, TellQuietly
<1>9. CASE projection'.decision # "PROJECT"
  <2>1. Emit(Published \o Ending(control'))
    BY <1>9 DEF ProjectionEvents
  <2>2. EndAttempt(control', "OTHER", TRUE)
    BY <1>9, PublicationEnds
  <2> QED
    BY <1>1, <1>2, <1>7, <2>1, <2>2, TellEnding
<1> QED
  BY <1>8, <1>9

LEMMA UnreportableAttempts ==
  ASSUME Unreportable
  PROVE  attempts' = attempts
<1>1. LoseIntent \/ ReadInitialState \/ RetrieveDispatch \/ BeginDispatch \/ RaiseDispatch => attempts' = attempts
  BY DEF LoseIntent, ReadInitialState, RetrieveDispatch, BeginDispatch, RaiseDispatch, supVars
<1>2. Invoke \/ ApplyRequest \/ ReserveOutcomeSlot => attempts' = attempts
  BY DEF Invoke, ApplyRequest, ReserveOutcomeSlot, supVars, Sup!SetPosture
<1> QED
  BY <1>1, <1>2 DEF Unreportable

LEMMA SilentTells ==
  ASSUME Inv, attempts' = attempts, Emit(<< >>)
  PROVE  Telling
  BY NothingReported, HarmlessNothing, TellQuietly

(* A call starts the first attempt, or none.                                *)
LEMMA CallTells ==
  ASSUME Inv, Call, Emit(CallEvents)
  PROVE  Telling
<1>1. attempts' = attempts \/ Sup!Start
  <2>1. ASSUME NEW result, Answer(result) PROVE attempts' = attempts
    BY <2>1 DEF Answer, supVars
  <2>2. ASSUME NEW to, NEW req, NEW key, StartScope(to, req, key) PROVE Sup!Start
    BY <2>2 DEF StartScope
  <2> QED
    BY <2>1, <2>2 DEF Call, CallPrepare, CallRun, CallRealize, CallDispatch, supVars
<1>2. CASE attempts' = attempts
  <2>1. CallEvents = << >>
    BY <1>2, AttemptsCounted DEF CallEvents
  <2> QED
    BY <1>2, <2>1, SilentTells
<1>3. CASE Sup!Start
  <2> DEFINE new == Supervised("AttemptStarted", 1, "PASS")
             first == Sup!NewAttempt(1, 0)
  <2>1. attempts = << >> /\ attempts' = <<first>> /\ first.terminal = FALSE
    BY <1>3 DEF Sup!Start, Sup!NewAttempt
  <2> HIDE DEF first
  <2>2. /\ Len(attempts) = 0 /\ DOMAIN attempts = {} /\ Len(attempts') = 1 /\ DOMAIN attempts' = {1}
        /\ attempts'[1] = first
    BY <2>1
  <2>3. CallEvents = new
    BY <2>2 DEF CallEvents
  <2>4. "AttemptStarted" \in EventName \ FailureTypes /\ "PASS" \in Control /\ ~Terminal(1) /\ 1 \in Nat /\ 1 <= 1
    BY <2>2 DEF EventName, FailureTypes, Control, Terminal
  <2>5. new \in Seq(EventType) /\ AllHarmless(new, 1)
    BY <2>4, SupervisedTyped, SupervisedHarmless
  <2> HIDE DEF new
  <2>6. Told(new, FALSE)
    BY <2>1, <2>2, <2>3, <2>5 DEF Told, AllHarmless, Terminal
  <2> QED
    BY <2>5, <2>6 DEF Telling
<1> QED
  BY <1>1, <1>2, <1>3

LEMMA TraceTells ==
  ASSUME TraceInv, ReconciledOK, OpenOK, TraceNext
  PROVE  Telling
<1>1. Inv /\ Inv'
  BY TraceNextIsNext, StepInv DEF TraceInv
<1>2. CASE Call /\ Emit(CallEvents)
  BY <1>1, <1>2, CallTells
<1>3. CASE Inject /\ Emit(<< >>)
  BY <1>1, <1>3, InjectAttempts, SilentTells
<1>4. CASE Unreportable /\ Emit(<< >>)
  BY <1>1, <1>4, UnreportableAttempts, SilentTells
<1>5. CASE TraceStep /\ ~(Unreportable /\ Emit(<< >>))
  BY <1>1, <1>5, PrepareTells, PlanTells, SuccessorTells, DispatchTells, ExecutionTells, LoseSlotTells, SettleTells
     DEF TraceStep
<1> QED
  BY <1>2, <1>3, <1>4, <1>5 DEF TraceNext

-----------------------------------------------------------------------------
(* The trace ends an attempt exactly when it ends in the supervisor.        *)

EndsInv == TraceInv /\ ReconciledOK /\ OpenOK /\ EndsOK

LEMMA EndsInit == TraceInit => EndsInv
<1> SUFFICES ASSUME TraceInit PROVE EndsInv
  OBVIOUS
<1>1. Init /\ events = << >>
  BY DEF TraceInit
<1>2. TraceInv /\ ReconciledOK /\ OpenOK
  BY <1>1, InitInv, ReconciledInit, OpenInit, NothingReported DEF TraceInv
<1>3. attempts = << >>
  BY <1>1 DEF Init, Sup!Init
<1>4. EndsOK
  BY <1>1, <1>3 DEF EndsOK
<1> QED
  BY <1>2, <1>4 DEF EndsInv

LEMMA EndsStep ==
  ASSUME EndsInv, [TraceNext]_traceVars
  PROVE  EndsInv'
<1>1. Inv' /\ ReconciledOK' /\ OpenOK'
  BY TraceNextIsNext, StepInv, ReconciledStep, OpenStep DEF EndsInv, TraceInv
<1>2. CASE TraceNext
  <2>1. PICK new \in Seq(EventType), ends \in BOOLEAN : Told(new, ends)
    BY <1>2, TraceTells DEF EndsInv, Telling
  <2>2. events' \in Seq(EventType)
    BY <2>1, TraceGrows DEF EndsInv, TraceInv, Told
  <2>3. EndsOK'
    BY <1>1, <2>1, ToldKeeps DEF EndsInv, TraceInv
  <2> QED
    BY <1>1, <2>2, <2>3 DEF EndsInv, TraceInv
<1>3. CASE UNCHANGED traceVars
  <2>1. UNCHANGED <<events, attempts>>
    BY <1>3 DEF traceVars, vars, supVars
  <2>2. EndsOK'
    BY <2>1 DEF EndsInv, EndsOK, Failure, At
  <2> QED
    BY <1>1, <2>1, <2>2 DEF EndsInv, TraceInv
<1> QED
  BY <1>2, <1>3

LEMMA EndsInductive == TraceSpec => []EndsInv
  BY EndsInit, EndsStep, PTL DEF TraceSpec

(* An attempt ends in the trace exactly when it ends in the supervisor,     *)
(* once, whichever stop ended it and however often stop() is called again,  *)
(* and nothing is attempted under it afterwards (retry.py:83-100,           *)
(* runtime.py:138-146).                                                     *)
THEOREM TerminalIsReported == TraceSpec => []TerminalReported
<1>1. EndsInv => TerminalReported
  <2> SUFFICES ASSUME EndsInv, NEW n \in DOMAIN attempts
               PROVE  Cardinality(Failure(n)) <= 1
    BY DEF EndsInv, EndsOK, TerminalReported
  <2>1. \A i, j \in Failure(n) : i = j
    BY DEF EndsInv, EndsOK
  <2>2. CASE Failure(n) = {}
    BY <2>2, FS_EmptySet
  <2>3. CASE Failure(n) # {}
    <3>1. PICK i : Failure(n) = {i}
      BY <2>1, <2>3
    <3> QED
      BY <3>1, FS_Singleton
  <2> QED
    BY <2>2, <2>3
<1> QED
  BY <1>1, EndsInductive, PTL
=============================================================================
