----------------------- MODULE EffectProvider_proofs -----------------------
(***************************************************************************)
(* Theorems about EffectProvider for every set of requests and every       *)
(* bound.                                                                  *)
(*                                                                         *)
(* That an approved transition is carried out once, and that the document  *)
(* names its writer, are statements about the whole log; neither is        *)
(* inductive.  VersionsAdvance orders the log by version up to the         *)
(* document as it is, AppliedIsSigned says what an applied action leaves   *)
(* behind, and OneInvocation says what an unopened interval looks like.    *)
(***************************************************************************)
EXTENDS EffectProvider, SequenceTheorems, TLAPS

OneInvocation ==
  IF invocation = None
  THEN log = << >> /\ invocations = 0 /\ view.writer \in {None, Foreign}
  ELSE invocation \in Nat \ {Foreign} /\ invocations = 1

VersionsAdvance ==
  /\ \A i \in 1 .. Len(log) :
       log[i].before.version <= log[i].after.version /\ log[i].after.version <= view.version
  /\ \A i, j \in 1 .. Len(log) : i < j => log[i].after.version <= log[j].before.version

AppliedIsSigned ==
  \A i \in 1 .. Len(log) :
    /\ log[i].applied => /\ log[i].after.version = log[i].before.version + 1
                         /\ log[i].after.writer = invocation
    /\ ~log[i].forbidden => log[i].applied

IndInv ==
  /\ ProvTypeOK
  /\ OneInvocation
  /\ VersionsAdvance
  /\ AppliedIsSigned
  /\ LogIsContinuous
  /\ WriterIsTruthful

-----------------------------------------------------------------------------
(* What the invariant says of the log and the document, in one place.       *)
LEMMA LogTyped ==
  ASSUME ProvTypeOK
  PROVE  /\ log \in Seq(Action) /\ Len(log) \in Nat
         /\ \A i \in 1 .. Len(log) : log[i] \in Action
         /\ view \in EffectView /\ view.version \in Nat
<1>1. log \in Seq(Action) /\ Len(log) \in Nat
  BY LenProperties DEF ProvTypeOK
<1>2. \A i \in 1 .. Len(log) : log[i] \in Action
  BY <1>1, ElementOfSeq
<1>3. view \in EffectView /\ view.version \in Nat
  BY DEF ProvTypeOK, EffectView
<1> QED
  BY <1>1, <1>2, <1>3

(* A write leaves a typed document, one version on, signed.                 *)
LEMMA WrittenTyped ==
  ASSUME ProvTypeOK, invocation \in Nat, NEW request \in ActionRequests
  PROVE  /\ Written(request) \in EffectView
         /\ Written(request).version = view.version + 1
         /\ Written(request).writer = invocation
<1>1. view \in EffectView
  BY DEF ProvTypeOK
<1>2. /\ request.kind = "STATE" => request.value \in {"DRAFT", "REVIEW", "APPROVED"}
      /\ request.kind = "CONTENT_WRITE" => request.value \in {"original", "different"}
  BY RequestsAssumption DEF Carriable
<1> DEFINE state == IF request.kind = "STATE" THEN request.value ELSE view.state
           exists == IF request.kind = "EXISTS" THEN request.value = "true" ELSE view.exists
           digest == IF request.kind = "CONTENT_WRITE" THEN request.value ELSE view.digest
<1>3. /\ state \in {"DRAFT", "REVIEW", "APPROVED"} /\ digest \in {"original", "different"}
      /\ view.version \in Nat /\ view.version + 1 \in Nat
  BY <1>1, <1>2 DEF EffectView
<1>4. exists \in BOOLEAN
  BY <1>1 DEF EffectView
<1>5. Written(request) = [state |-> state, exists |-> exists, digest |-> digest,
                          version |-> view.version + 1, predecessor |-> view.version,
                          writer |-> invocation]
  BY DEF Written
<1> HIDE DEF state, exists, digest
<1> QED
  BY <1>3, <1>4, <1>5 DEF EffectView

LEMMA InitIndInv == ProvInit => IndInv
<1> SUFFICES ASSUME ProvInit PROVE IndInv
  OBVIOUS
<1>1. log = << >> /\ Len(log) = 0 /\ log \in Seq(Action) /\ 1 .. Len(log) = {}
  BY EmptySeq DEF ProvInit
<1>2. ProvTypeOK
  BY <1>1 DEF ProvInit, ProvTypeOK, InitialView, EffectView
<1>3. OneInvocation
  BY <1>1 DEF ProvInit, OneInvocation, InitialView
<1>4. VersionsAdvance /\ AppliedIsSigned /\ LogIsContinuous
  BY <1>1 DEF ProvInit, VersionsAdvance, AppliedIsSigned, LogIsContinuous
<1>5. WriterIsTruthful
  BY DEF ProvInit, WriterIsTruthful
<1> QED
  BY <1>2, <1>3, <1>4, <1>5 DEF IndInv

LEMMA OpenPreserves ==
  ASSUME IndInv, NEW commit \in 1 .. 2, OpenInterval(commit)
  PROVE  IndInv'
<1> USE DEF IndInv
<1>1. /\ invocation = None /\ log = << >> /\ invocations = 0 /\ view.writer \in {None, Foreign}
      /\ invocation' = commit /\ invocations' = 1 /\ closed' = FALSE
      /\ UNCHANGED <<view, log>>
      /\ commit \in Nat \ {Foreign} /\ commit # None
  BY NoneAssumption DEF OpenInterval, OneInvocation, Foreign
<1>2. Len(log) = 0 /\ 1 .. Len(log) = {}
  BY <1>1
<1>3. ProvTypeOK'
  BY <1>1 DEF ProvTypeOK
<1>4. OneInvocation'
  BY <1>1 DEF OneInvocation
<1>5. VersionsAdvance' /\ AppliedIsSigned' /\ LogIsContinuous'
  BY <1>1, <1>2 DEF VersionsAdvance, AppliedIsSigned, LogIsContinuous
<1>6. WriterIsTruthful'
  BY <1>1, <1>2 DEF WriterIsTruthful
<1> QED
  BY <1>3, <1>4, <1>5, <1>6

LEMMA ClosePreserves ==
  ASSUME IndInv, invocation # None, CloseInterval
  PROVE  IndInv'
<1> USE DEF IndInv
<1>1. closed' = TRUE /\ UNCHANGED <<view, log, invocation, invocations>>
  BY DEF CloseInterval
<1>2. ProvTypeOK' /\ OneInvocation' /\ VersionsAdvance' /\ AppliedIsSigned' /\ WriterIsTruthful'
  BY <1>1 DEF ProvTypeOK, OneInvocation, VersionsAdvance, AppliedIsSigned, WriterIsTruthful
<1>3. LogIsContinuous'
  BY <1>1 DEF LogIsContinuous
<1> QED
  BY <1>2, <1>3

LEMMA ForeignPreserves ==
  ASSUME IndInv, invocation = None \/ closed, NEW kind, ForeignWrite(kind)
  PROVE  IndInv'
<1> USE DEF IndInv
<1>1. /\ view' \in EffectView /\ view'.version = view.version + 1 /\ view'.writer = Foreign
      /\ UNCHANGED <<log, invocation, invocations, closed>>
  <2>1. view \in EffectView /\ view.version + 1 \in Nat
    BY LogTyped
  <2>2. CASE kind = "observation"
    BY <2>1, <2>2 DEF ForeignWrite, EffectView, Foreign
  <2>3. CASE kind # "observation"
    BY <2>1, <2>3 DEF ForeignWrite, EffectView, Foreign
  <2> QED
    BY <2>2, <2>3
<1>2. ProvTypeOK' /\ OneInvocation'
  BY <1>1 DEF ProvTypeOK, OneInvocation
<1>3. VersionsAdvance'
  <2>1. \A i \in 1 .. Len(log) : log[i].after.version \in Nat
    BY LogTyped DEF Action, EffectView
  <2> QED
    BY <1>1, <2>1, LogTyped DEF VersionsAdvance
<1>4. AppliedIsSigned'
  BY <1>1 DEF AppliedIsSigned
<1>5. LogIsContinuous'
  BY <1>1 DEF LogIsContinuous, OneInvocation
<1>6. WriterIsTruthful'
  BY <1>1 DEF WriterIsTruthful, OneInvocation, AppliedIsSigned
<1> QED
  BY <1>2, <1>3, <1>4, <1>5, <1>6

LEMMA ApplyPreserves ==
  ASSUME IndInv, NEW request \in ActionRequests, NEW target, NEW version,
         NEW diagnostic \in BOOLEAN, Apply(request, target, version, diagnostic)
  PROVE  IndInv'
<1> USE DEF IndInv
<1> DEFINE n == Len(log)
           allowed == Allowed(request, target, version)
           applied == allowed \/ AppliedInvalidly(request, diagnostic)
           after == IF applied THEN Written(request) ELSE view
           new == [invocation |-> invocation, request |-> request,
                   applied |-> applied, forbidden |-> ~allowed,
                   before |-> view, after |-> after]
<1>1. /\ invocation # None /\ ~closed /\ log' = Append(log, new) /\ view' = after
      /\ UNCHANGED <<invocation, invocations, closed>>
  BY DEF Apply
<1>2. invocation \in Nat \ {Foreign} /\ invocations = 1
  BY <1>1 DEF OneInvocation
<1>3. /\ after \in EffectView
      /\ applied => after.version = view.version + 1 /\ after.writer = invocation
      /\ ~applied => after = view
  BY <1>2, WrittenTyped, LogTyped
<1>4. applied \in BOOLEAN /\ allowed \in BOOLEAN /\ (allowed => applied)
  BY DEF Allowed, AppliedInvalidly
<1>5. new \in Action
  BY <1>2, <1>3, <1>4, LogTyped, RequestsAssumption DEF Action, Carriable
<1>6. /\ new.before = view /\ new.after = after /\ new.applied = applied
      /\ new.forbidden = ~allowed /\ new.invocation = invocation
  OBVIOUS
<1> HIDE DEF new, after, applied, allowed
<1>7. /\ log' \in Seq(Action) /\ Len(log') = n + 1 /\ log'[n + 1] = new
      /\ \A i \in 1 .. n : log'[i] = log[i]
      /\ n \in Nat
      /\ \A i \in 1 .. n + 1 : i \in 1 .. n \/ i = n + 1
  BY <1>1, <1>5, LogTyped, AppendProperties
<1>8. ProvTypeOK'
  BY <1>1, <1>3, <1>7 DEF ProvTypeOK
<1>9. OneInvocation'
  BY <1>1, <1>2, NoneAssumption DEF OneInvocation
<1>10. view.version \in Nat /\ view.version <= after.version /\ after.version \in Nat
  BY <1>3, LogTyped DEF EffectView
<1>11. VersionsAdvance'
  <2>1. \A i \in 1 .. n : /\ log[i].before.version \in Nat /\ log[i].after.version \in Nat
                          /\ log[i].before.version <= log[i].after.version
                          /\ log[i].after.version <= view.version
    BY LogTyped DEF VersionsAdvance, Action, EffectView
  <2>2. \A i \in 1 .. n + 1 : log'[i].before.version <= log'[i].after.version
                              /\ log'[i].after.version <= view'.version
    BY <1>1, <1>6, <1>7, <1>10, <2>1
  <2>3. ASSUME NEW i \in 1 .. n + 1, NEW j \in 1 .. n + 1, i < j
        PROVE  log'[i].after.version <= log'[j].before.version
    <3>1. i \in 1 .. n
      BY <1>7, <2>3
    <3>2. CASE j \in 1 .. n
      BY <1>7, <2>3, <3>1, <3>2 DEF VersionsAdvance
    <3>3. CASE j = n + 1
      BY <1>6, <1>7, <2>1, <3>1, <3>3
    <3> QED
      BY <1>7, <3>2, <3>3
  <2> QED
    BY <1>7, <2>2, <2>3 DEF VersionsAdvance
<1>12. AppliedIsSigned'
  <2>1. /\ new.applied => new.after.version = new.before.version + 1 /\ new.after.writer = invocation
        /\ ~new.forbidden => new.applied
    BY <1>3, <1>4, <1>6
  <2>2. SUFFICES ASSUME NEW i \in 1 .. n + 1
                 PROVE  /\ log'[i].applied => /\ log'[i].after.version = log'[i].before.version + 1
                                              /\ log'[i].after.writer = invocation
                        /\ ~log'[i].forbidden => log'[i].applied
    BY <1>1, <1>7 DEF AppliedIsSigned
  <2>3. CASE i = n + 1
    BY <1>7, <2>1, <2>3
  <2>4. CASE i \in 1 .. n
    BY <1>7, <2>4 DEF AppliedIsSigned
  <2> QED
    BY <1>7, <2>3, <2>4
<1>13. LogIsContinuous'
  <2>1. \A i \in 1 .. n + 1 : log'[i].invocation = invocation
    BY <1>6, <1>7 DEF LogIsContinuous
  <2>2. ASSUME NEW i \in 1 .. n + 1, i < n + 1
        PROVE  log'[i].after = log'[i + 1].before
    <3>1. i \in 1 .. n /\ (i < n => i + 1 \in 1 .. n)
      BY <1>7, <2>2
    <3>2. CASE i < n
      BY <1>7, <3>1, <3>2 DEF LogIsContinuous
    <3>3. CASE i = n
      <4>1. log # << >>
        BY <1>7, <3>1, EmptySeq, LogTyped
      <4>2. log[n].after = view
        BY <1>1, <4>1 DEF LogIsContinuous
      <4> QED
        BY <1>6, <1>7, <3>1, <3>3, <4>2
    <3> QED
      BY <1>7, <2>2, <3>1, <3>2, <3>3
  <2>3. log'[Len(log')].after = view'
    BY <1>1, <1>6, <1>7
  <2> QED
    BY <1>1, <1>2, <1>7, <2>1, <2>2, <2>3 DEF LogIsContinuous
<1>14. WriterIsTruthful'
  <2>1. CASE applied
    <3>1. view'.writer = invocation' /\ log'[n + 1].applied /\ log'[n + 1].after = view'
      BY <1>1, <1>3, <1>6, <1>7, <2>1
    <3>2. n + 1 \in 1 .. Len(log')
      BY <1>7
    <3> QED
      BY <3>1, <3>2 DEF WriterIsTruthful
  <2>2. CASE ~applied
    <3>1. view' = view /\ ~log'[n + 1].applied /\ invocation' = invocation
      BY <1>1, <1>3, <1>6, <1>7, <2>2
    <3>2. (\E i \in 1 .. Len(log') : log'[i].applied /\ log'[i].after = view')
          <=> (\E i \in 1 .. n : log[i].applied /\ log[i].after = view)
      BY <1>7, <3>1
    <3> QED
      BY <3>1, <3>2 DEF WriterIsTruthful
  <2> QED
    BY <2>1, <2>2
<1> QED
  BY <1>8, <1>9, <1>11, <1>12, <1>13, <1>14

(* The invariant holds whatever a handler requests.                         *)
THEOREM Inductive == ProvSpec => []IndInv
<1>1. ProvInit => IndInv
  BY InitIndInv
<1>2. IndInv /\ [ProvNext]_provVars => IndInv'
  <2> SUFFICES ASSUME IndInv, [ProvNext]_provVars PROVE IndInv'
    OBVIOUS
  <2>1. CASE UNCHANGED provVars
    BY <2>1 DEF provVars, IndInv, ProvTypeOK, OneInvocation, VersionsAdvance, AppliedIsSigned,
                LogIsContinuous, WriterIsTruthful
  <2>2. CASE ProvNext
    BY <2>2, OpenPreserves, ApplyPreserves, ClosePreserves, ForeignPreserves DEF ProvNext
  <2> QED
    BY <2>1, <2>2
<1> QED
  BY <1>1, <1>2, PTL DEF ProvSpec

(* Type correctness of the provider's fields (fixture.py:50-59).            *)
THEOREM ProvTypeCorrect == ProvSpec => []ProvTypeOK
<1>1. IndInv => ProvTypeOK
  BY DEF IndInv
<1> QED
  BY <1>1, Inductive, PTL

(* The log explains the document action by action (fixture.py:69-104).      *)
THEOREM LogContinuous == ProvSpec => []LogIsContinuous
<1>1. IndInv => LogIsContinuous
  BY DEF IndInv
<1> QED
  BY <1>1, Inductive, PTL

(* No sequence of requests carries the approved transition out twice for    *)
(* one version (fixture.py:74-79).                                          *)
THEOREM AllowedOnce == ProvSpec => []AllowedAtMostOnce
<1>1. IndInv => AllowedAtMostOnce
  <2> SUFFICES ASSUME IndInv,
                      NEW i \in 1 .. Len(log), NEW j \in 1 .. Len(log),
                      ~log[i].forbidden, ~log[j].forbidden,
                      log[i].before.version = log[j].before.version
               PROVE  i = j
    BY DEF AllowedAtMostOnce
  <2>1. \A k \in {i, j} : /\ log[k].before.version \in Nat
                          /\ log[k].after.version = log[k].before.version + 1
    <3>1. log[i] \in Action /\ log[j] \in Action /\ log[i].applied /\ log[j].applied
      BY LogTyped DEF IndInv, AppliedIsSigned
    <3> QED
      BY <3>1 DEF IndInv, AppliedIsSigned, Action, EffectView
  <2>2. ~(i < j) /\ ~(j < i)
    BY <2>1 DEF IndInv, VersionsAdvance
  <2> QED
    BY <2>2, LogTyped DEF IndInv
<1> QED
  BY <1>1, Inductive, PTL

(* The document is signed by the invocation exactly while its last change   *)
(* is an applied action (fixture.py:84-92, 155-167).                        *)
THEOREM WriterTruthful == ProvSpec => []WriterIsTruthful
<1>1. IndInv => WriterIsTruthful
  BY DEF IndInv
<1> QED
  BY <1>1, Inductive, PTL
=============================================================================
