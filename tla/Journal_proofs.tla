--------------------------- MODULE Journal_proofs ---------------------------
(***************************************************************************)
(* Theorems about Journal for every set of names and values and every      *)
(* bound.                                                                  *)
(*                                                                         *)
(* The trace, the slots and the account of the authority each lean on what *)
(* is retained: a new event is chained to the last one under an identity   *)
(* nobody has retained, a new slot takes the identity drawn for it, and    *)
(* publishing completes one slot only because no two share a reference.    *)
(* Nothing in reserve() or publish() sees to that.  It holds because what  *)
(* is retained was supplied by name or drawn before (JournalTypeOK), so    *)
(* that the next serial number is free (NextIsFree).  IndInv adds to the   *)
(* four invariants that slots have distinct, retained references and that  *)
(* every evaluation names a retained one.  That records are only ever      *)
(* added (RecordsStep) carries each part over a step.                      *)
(***************************************************************************)
EXTENDS Journal, SequenceTheorems, FiniteSetTheorems, TLAPS

(* No two slots share a reference, and it is retained.                      *)
SlotsDistinct ==
  /\ \A i \in DOMAIN slots : slots[i].ref \in Retained
  /\ \A i, j \in DOMAIN slots : slots[i].ref = slots[j].ref => i = j

(* An evaluation names what was retained before it.                         *)
EvaluationsNamed ==
  \A id \in Retained : records[id] \in Decided => records[id].slot \in Retained

IndInv ==
  /\ JournalTypeOK
  /\ TraceIsCausal
  /\ SlotsDistinct
  /\ EvaluationsNamed
  /\ EvaluatedOnce
  /\ AuthorityAccounted

-----------------------------------------------------------------------------
(* Put adds a reference and changes nothing that was there.                 *)
LEMMA PutAdds ==
  ASSUME NEW old, NEW ref, NEW record
  PROVE  /\ DOMAIN Put(old, ref, record) = DOMAIN old \cup {ref}
         /\ \A r \in DOMAIN old : Put(old, ref, record)[r] = old[r]
         /\ ref \notin DOMAIN old => Put(old, ref, record)[ref] = record
BY DEF Put

(* An action that puts at most two records keeps what is retained.          *)
LEMMA PutKeeps ==
  ASSUME NEW ref, NEW record, NEW other, NEW later,
         \/ records' = Put(records, ref, record)
         \/ records' = Put(Put(records, ref, record), other, later)
  PROVE  RecordsKept
<1> DEFINE once == Put(records, ref, record)
<1> HIDE DEF once
<1>1. \A r \in DOMAIN records : r \in DOMAIN once /\ once[r] = records[r]
  BY DEF once, Put
<1>2. \A r \in DOMAIN once : r \in DOMAIN Put(once, other, later) /\ Put(once, other, later)[r] = once[r]
  BY DEF Put
<1>3. CASE records' = once
  BY <1>1, <1>3 DEF RecordsKept
<1>4. CASE records' = Put(once, other, later)
  BY <1>1, <1>2, <1>4 DEF RecordsKept
<1> QED
  BY <1>3, <1>4 DEF once

(* No operation drops or replaces a record.                                 *)
LEMMA RecordsStep ==
  ASSUME [Next]_vars
  PROVE  RecordsKept
<1>1. ASSUME UNCHANGED records
      PROVE  RecordsKept
  BY <1>1 DEF RecordsKept
<1>2. CASE NewId \/ ExternalChange \/ UNCHANGED vars
  BY <1>1, <1>2 DEF NewId, ExternalChange, vars
<1>3. ASSUME NEW ref, NEW value, Retain(ref, value)
      PROVE  RecordsKept
  BY <1>3, PutKeeps DEF Retain
<1>4. ASSUME NEW id, NEW refs, EmitEvent(id, refs)
      PROVE  RecordsKept
  BY <1>4, PutKeeps DEF EmitEvent
<1>5. ASSUME NEW ref, NEW inputs, Reserve(ref, inputs)
      PROVE  RecordsKept
  BY <1>5, PutKeeps DEF Reserve
<1>6. ASSUME NEW ref, NEW id, NEW eventId, NEW decision, Publish(ref, id, eventId, decision)
      PROVE  RecordsKept
  BY <1>6, PutKeeps DEF Publish
<1> QED
  BY <1>2, <1>3, <1>4, <1>5, <1>6
     DEF Next, EmitNow, EmitDrawn, ReserveDrawn, PublishUnavailable, PublishRecorded

-----------------------------------------------------------------------------
(* The identity drawn next, and the one after it, name nothing yet.         *)
LEMMA NextIsFree ==
  ASSUME JournalTypeOK
  PROVE  serial + 1 \notin Retained /\ serial + 2 \notin Retained
BY NamesAssumption DEF JournalTypeOK, Retained, Drawn

(* What project() passes to publish(): identities drawn in the step, that   *)
(* of the event free and left out only where nothing is projected.          *)
Passed(id, eventId, decision) ==
  /\ serial' \in Nat /\ serial' >= serial /\ id \in 1 .. serial'
  /\ eventId # 0 => eventId \in 1 .. serial' /\ eventId \notin Retained /\ eventId # id
  /\ decision = "PROJECT" => eventId # 0

LEMMA PublishedBy ==
  ASSUME JournalTypeOK, NEW ref,
         PublishUnavailable(ref) \/ \E decision \in Decision : PublishRecorded(ref, decision)
  PROVE  \E id \in Nat, eventId \in Nat, decision \in Decision :
           Publish(ref, id, eventId, decision) /\ Passed(id, eventId, decision)
<1>1. serial \in Nat /\ serial + 2 \notin Retained
  BY NextIsFree DEF JournalTypeOK
<1>2. CASE PublishUnavailable(ref)
  <2>1. Publish(ref, serial + 1, 0, "DO_NOT_PROJECT") /\ serial' = serial + 1
    BY <1>2 DEF PublishUnavailable
  <2>2. Passed(serial + 1, 0, "DO_NOT_PROJECT") /\ "DO_NOT_PROJECT" \in Decision
    BY <1>1, <2>1 DEF Passed, Decision
  <2> QED
    BY <1>1, <2>1, <2>2
<1>3. ASSUME NEW decision \in Decision, PublishRecorded(ref, decision)
      PROVE  \E id \in Nat, eventId \in Nat : Publish(ref, id, eventId, decision) /\ Passed(id, eventId, decision)
  <2>1. Publish(ref, serial + 1, serial + 2, decision) /\ serial' = serial + 2
    BY <1>3 DEF PublishRecorded
  <2>2. Passed(serial + 1, serial + 2, decision)
    BY <1>1, <2>1 DEF Passed
  <2> QED
    BY <1>1, <2>1, <2>2
<1> QED
  BY <1>2, <1>3

-----------------------------------------------------------------------------
(* An event of typed parts is typed.                                        *)
LEMMA EventTyped ==
  ASSUME JournalTypeOK, NEW id \in Nat, NEW refs \in SUBSET Ref
  PROVE  EventOf(id, refs) \in Event
<1>1. events \in Seq(Event) /\ Len(events) \in Nat
  BY LenProperties DEF JournalTypeOK
<1>2. LastEvent \in Nat
  <2>1. CASE events = << >>
    BY <2>1 DEF LastEvent
  <2>2. CASE events # << >>
    <3>1. Len(events) \in 1 .. Len(events)
      BY <1>1, <2>2, EmptySeq
    <3>2. events[Len(events)] \in Event
      BY <1>1, <3>1, ElementOfSeq
    <3> QED
      BY <2>2, <3>2 DEF LastEvent, Event
  <2> QED
    BY <2>1, <2>2
<1> QED
  BY <1>1, <1>2 DEF EventOf, Event

(* Whatever is retained may be referred to.                                 *)
LEMMA RetainedAreRefs ==
  ASSUME JournalTypeOK
  PROVE  /\ Retained \subseteq Ref
         /\ Drawn \subseteq Nat
BY DEF JournalTypeOK, Retained, Drawn, Ref

(* The trace grows by one event that is retained under its own identity and *)
(* refers to what is retained: it stays one chain.                          *)
LEMMA EmittedIsCausal ==
  ASSUME JournalTypeOK, TraceIsCausal, RecordsKept,
         NEW id \in Nat, NEW refs \in SUBSET Ref,
         events' = Append(events, EventOf(id, refs)),
         id \in DOMAIN records', records'[id] = EventOf(id, refs),
         refs \subseteq DOMAIN records'
  PROVE  TraceIsCausal'
<1> DEFINE n == Len(events)
           new == EventOf(id, refs)
<1>1. events \in Seq(Event) /\ n \in Nat /\ DOMAIN events = 1 .. n
  BY LenProperties DEF JournalTypeOK
<1>2. new \in Event
  BY EventTyped
<1>3. /\ new.id = id /\ new.sequence = n + 1 /\ new.refs = refs
      /\ new.cause = IF n = 0 THEN 0 ELSE events[n].id
  <2>1. events = << >> <=> n = 0
    BY <1>1, EmptySeq
  <2> QED
    BY <2>1 DEF EventOf, LastEvent
<1> HIDE DEF new
<1>4. /\ DOMAIN events' = 1 .. n + 1
      /\ \A i \in 1 .. n : events'[i] = events[i]
      /\ events'[n + 1] = new
  BY <1>1, <1>2, AppendProperties, LenProperties DEF new
<1>5. ASSUME NEW i \in 1 .. n
      PROVE  /\ events'[i].sequence = i
             /\ events'[i].cause = IF i = 1 THEN 0 ELSE events'[i - 1].id
             /\ events'[i].id \in DOMAIN records' /\ records'[events'[i].id] = events'[i]
             /\ events'[i].refs \subseteq DOMAIN records'
  <2>1. events'[i] = events[i] /\ (i # 1 => events'[i - 1] = events[i - 1])
    BY <1>1, <1>4
  <2>2. /\ events[i].sequence = i
        /\ events[i].cause = IF i = 1 THEN 0 ELSE events[i - 1].id
        /\ events[i].id \in DOMAIN records /\ records[events[i].id] = events[i]
        /\ events[i].refs \subseteq DOMAIN records
    BY <1>1 DEF TraceIsCausal, Retained
  <2> QED
    BY <2>1, <2>2 DEF RecordsKept
<1>6. events'[n + 1].cause = IF n + 1 = 1 THEN 0 ELSE events'[n + 1 - 1].id
  <2>1. CASE n = 0
    BY <1>3, <1>4, <2>1 DEF new
  <2>2. CASE n # 0
    <3>1. n \in 1 .. n /\ n + 1 - 1 = n /\ n + 1 # 1
      BY <1>1, <2>2
    <3>2. events'[n + 1].cause = events[n].id
      BY <1>3, <1>4, <2>2 DEF new
    <3> QED
      BY <1>4, <3>1, <3>2
  <2> QED
    BY <2>1, <2>2
<1>7. /\ events'[n + 1].sequence = n + 1
      /\ events'[n + 1].id \in DOMAIN records' /\ records'[events'[n + 1].id] = events'[n + 1]
      /\ events'[n + 1].refs \subseteq DOMAIN records'
  BY <1>3, <1>4 DEF new
<1>8. \A i \in 1 .. n + 1 : i \in 1 .. n \/ i = n + 1
  BY <1>1
<1>9. \A i \in DOMAIN events' :
        /\ events'[i].sequence = i
        /\ events'[i].cause = IF i = 1 THEN 0 ELSE events'[i - 1].id
        /\ events'[i].id \in DOMAIN records' /\ records'[events'[i].id] = events'[i]
        /\ events'[i].refs \subseteq DOMAIN records'
  BY <1>4, <1>5, <1>6, <1>7, <1>8
<1> QED
  BY <1>9 DEF TraceIsCausal, Retained

(* Publishing completes one slot and keeps the others.                      *)
LEMMA CompletedSlots ==
  ASSUME JournalTypeOK, SlotsDistinct,
         NEW decision \in Decision, NEW i \in DOMAIN slots
  PROVE  LET done == Completed(slots[i].ref, decision)
         IN  /\ done \in Seq(Slot) /\ Len(done) = Len(slots) /\ DOMAIN done = DOMAIN slots
             /\ \A j \in DOMAIN slots :
                  /\ done[j].ref = slots[j].ref
                  /\ done[j].decision = IF j = i THEN decision ELSE slots[j].decision
<1> DEFINE n == Len(slots)
           done == Completed(slots[i].ref, decision)
<1>1. slots \in Seq(Slot) /\ n \in Nat /\ DOMAIN slots = 1 .. n
  BY LenProperties DEF JournalTypeOK
<1>2. \A j \in 1 .. n : slots[j] \in Slot
  BY <1>1, ElementOfSeq
<1>3. DOMAIN done = 1 .. n
  BY <1>1 DEF Completed
<1>4. \A j \in 1 .. n : done[j] = IF j = i THEN [slots[j] EXCEPT !.decision = decision] ELSE slots[j]
  BY <1>1 DEF Completed, SlotsDistinct
<1>5. \A j \in 1 .. n : done[j] \in Slot
  BY <1>2, <1>4 DEF Slot
<1>6. done \in [1 .. n -> Slot]
  BY <1>3, <1>5 DEF Completed
<1> HIDE DEF done
<1>7. done \in Seq(Slot)
  BY <1>1, <1>6, SeqDef
<1>8. Len(done) = n
  BY <1>1, <1>3, <1>7, LenProperties
<1>9. \A j \in 1 .. n : /\ done[j].ref = slots[j].ref
                        /\ done[j].decision = IF j = i THEN decision ELSE slots[j].decision
  BY <1>2, <1>4 DEF Slot
<1> QED
  BY <1>1, <1>3, <1>7, <1>8, <1>9 DEF done

-----------------------------------------------------------------------------
(* One lemma per conjunct of the invariant.                                 *)

RecordsTyped(kept, n) ==
  /\ DOMAIN kept \subseteq Names \cup (1 .. n)
  /\ \A r \in DOMAIN kept : kept[r] \in Values \cup Decided \cup Event

LEMMA PutTyped ==
  ASSUME NEW old, NEW n, RecordsTyped(old, n),
         NEW ref \in Names \cup (1 .. n), NEW record \in Values \cup Decided \cup Event
  PROVE  RecordsTyped(Put(old, ref, record), n)
BY DEF RecordsTyped, Put

LEMMA InitIndInv == Init => IndInv
<1> SUFFICES ASSUME Init PROVE IndInv
  OBVIOUS
<1>1. /\ events = << >> /\ slots = << >> /\ DOMAIN records = {}
      /\ DOMAIN events = {} /\ DOMAIN slots = {}
      /\ events \in Seq(Event) /\ slots \in Seq(Slot)
  BY EmptySeq, LenProperties DEF Init
<1>2. JournalTypeOK
  BY <1>1 DEF Init, JournalTypeOK
<1>3. TraceIsCausal /\ SlotsDistinct /\ EvaluationsNamed /\ EvaluatedOnce
  BY <1>1 DEF TraceIsCausal, SlotsDistinct, EvaluationsNamed, EvaluatedOnce, Retained
<1>4. AuthorityAccounted
  <2>1. Projected = {}
    BY <1>1 DEF Projected
  <2> QED
    BY <2>1, FS_EmptySet DEF Init, AuthorityAccounted
<1> QED
  BY <1>2, <1>3, <1>4 DEF IndInv

LEMMA TypePreserved ==
  ASSUME IndInv, [Next]_vars
  PROVE  JournalTypeOK'
<1> USE DEF IndInv
<1>0. /\ RecordsTyped(records, serial)
      /\ serial \in Nat /\ outside \in Nat /\ Len(events) \in Nat
      /\ events \in Seq(Event) /\ slots \in Seq(Slot)
      /\ authority \in [state : {"DRAFT", "REVIEW"}, version : Nat]
  BY LenProperties DEF JournalTypeOK, RecordsTyped, Drawn
<1> DEFINE Typed ==
             /\ RecordsTyped(records', serial')
             /\ serial' \in Nat /\ outside' \in Nat
             /\ events' \in Seq(Event) /\ slots' \in Seq(Slot)
             /\ authority' \in [state : {"DRAFT", "REVIEW"}, version : Nat]
<1>1. SUFFICES Typed
  BY DEF JournalTypeOK, RecordsTyped, Drawn
<1>2. ASSUME UNCHANGED vars PROVE Typed
  BY <1>0, <1>2 DEF vars
<1>3. ASSUME NewId PROVE Typed
  BY <1>0, <1>3 DEF NewId, RecordsTyped
<1>4. ASSUME ExternalChange PROVE Typed
  BY <1>0, <1>4 DEF ExternalChange
<1>5. ASSUME NEW ref \in Names \cup Drawn, NEW value \in Values, Retain(ref, value)
      PROVE  RecordsTyped(records', serial')
  BY <1>0, <1>5, PutTyped DEF Retain, Drawn
<1>6. ASSUME NEW id \in Nat, NEW refs \in SUBSET Retained, EmitEvent(id, refs),
             serial' \in Nat, serial' >= serial, id \in 1 .. serial'
      PROVE  RecordsTyped(records', serial') /\ events' \in Seq(Event)
  <2>1. EventOf(id, refs) \in Event
    BY <1>6, EventTyped, RetainedAreRefs
  <2>2. RecordsTyped(records, serial')
    BY <1>0, <1>6 DEF RecordsTyped
  <2>3. RecordsTyped(records', serial')
    BY <1>6, <2>1, <2>2, PutTyped DEF EmitEvent
  <2> QED
    BY <1>0, <1>6, <2>1, <2>3, AppendProperties DEF EmitEvent
<1>7. ASSUME NEW inputs \in Values, ReserveDrawn(inputs)
      PROVE  Typed
  <2>1. [ref |-> serial + 1, decision |-> None] \in Slot
    BY <1>0 DEF Slot
  <2>2. /\ serial' = serial + 1 /\ serial + 1 \in 1 .. serial'
        /\ RecordsTyped(records, serial')
    BY <1>0, <1>7 DEF ReserveDrawn, RecordsTyped
  <2>3. RecordsTyped(records', serial')
    BY <1>7, <2>2, PutTyped DEF ReserveDrawn, Reserve
  <2>4. slots' \in Seq(Slot)
    BY <1>0, <1>7, <2>1, AppendProperties DEF ReserveDrawn, Reserve
  <2> QED
    BY <1>0, <1>7, <2>2, <2>3, <2>4 DEF ReserveDrawn, Reserve
<1>8. ASSUME NEW ref \in Drawn, NEW id \in Nat, NEW eventId \in Nat, NEW decision \in Decision,
             Publish(ref, id, eventId, decision), Passed(id, eventId, decision)
      PROVE  Typed
  <2>1. slots' \in Seq(Slot)
    <3>1. PICK i \in DOMAIN slots : slots[i].ref = ref
      BY <1>8 DEF Publish, Open
    <3> QED
      BY <1>8, <3>1, CompletedSlots DEF Publish
  <2>2. authority' \in [state : {"DRAFT", "REVIEW"}, version : Nat] /\ outside' \in Nat
    BY <1>0, <1>8 DEF Publish, AuthorityAfter
  <2>3. DecisionOf(ref, decision) \in Decided /\ serial' \in Nat /\ id \in 1 .. serial'
    BY <1>8 DEF DecisionOf, Decided, Drawn, Passed
  <2>4. RecordsTyped(records, serial')
    BY <1>0, <1>8 DEF RecordsTyped, Passed
  <2>5. RecordsTyped(Put(records, id, DecisionOf(ref, decision)), serial')
    BY <2>3, <2>4, PutTyped
  <2>6. CASE eventId = 0
    BY <1>0, <1>8, <2>1, <2>2, <2>3, <2>5, <2>6 DEF Publish
  <2>7. CASE eventId # 0
    <3>1. EventOf(eventId, {id, ref}) \in Event
      BY EventTyped, RetainedAreRefs DEF Ref
    <3>2. RecordsTyped(records', serial')
      BY <1>8, <2>5, <2>7, <3>1, PutTyped DEF Publish, Passed
    <3>3. events' = Append(events, EventOf(eventId, {id, ref}))
      BY <1>8, <2>7 DEF Publish
    <3>4. events' \in Seq(Event)
      BY <1>0, <3>1, <3>3, AppendProperties
    <3> QED
      BY <2>1, <2>2, <2>3, <3>2, <3>4
  <2> QED
    BY <2>6, <2>7
<1>9. ASSUME NEW refs \in SUBSET Retained, EmitNow(refs)
      PROVE  Typed
  <2>1. serial' \in Nat /\ serial' >= serial /\ serial + 1 \in 1 .. serial' /\ serial + 1 \in Nat
    BY <1>0, <1>9 DEF EmitNow
  <2>2. EmitEvent(serial + 1, refs)
    BY <1>9 DEF EmitNow
  <2> QED
    BY <1>0, <1>6, <2>1, <2>2 DEF EmitEvent
<1>10. ASSUME NEW refs \in SUBSET Retained, NEW id \in Drawn, EmitDrawn(id, refs)
       PROVE  Typed
  <2>1. serial' = serial /\ id \in 1 .. serial' /\ id \in Nat
    BY <1>0, <1>10 DEF EmitDrawn, Drawn
  <2>2. EmitEvent(id, refs)
    BY <1>10 DEF EmitDrawn
  <2> QED
    BY <1>0, <1>6, <2>1, <2>2 DEF EmitEvent
<1>11. ASSUME NEW ref \in Names \cup Drawn, NEW value \in Values, Retain(ref, value)
       PROVE  Typed
  BY <1>0, <1>5, <1>11 DEF Retain
<1>12. ASSUME NEW ref \in Drawn,
              PublishUnavailable(ref) \/ \E decision \in Decision : PublishRecorded(ref, decision)
       PROVE  Typed
  <2> HIDE DEF Typed
  <2> QED
    BY <1>8, <1>12, PublishedBy
<1> QED
  <2> HIDE DEF Typed
  <2> QED
    BY <1>2, <1>3, <1>4, <1>7, <1>9, <1>10, <1>11, <1>12, Zenon DEF Next

LEMMA TracePreserved ==
  ASSUME IndInv, [Next]_vars
  PROVE  TraceIsCausal'
<1> USE DEF IndInv
<1>1. RecordsKept
  BY RecordsStep
<1>2. ASSUME UNCHANGED events
      PROVE  TraceIsCausal'
  BY <1>1, <1>2 DEF TraceIsCausal, RecordsKept, Retained
<1>3. ASSUME NEW id \in Nat, NEW refs \in SUBSET Retained, EmitEvent(id, refs)
      PROVE  TraceIsCausal'
  <2>1. /\ refs \in SUBSET Ref
        /\ id \in DOMAIN records' /\ records'[id] = EventOf(id, refs)
    BY <1>3, PutAdds, RetainedAreRefs DEF EmitEvent, Retained, Put
  <2>2. refs \subseteq DOMAIN records'
    BY <1>1, <1>3 DEF RecordsKept, Retained
  <2> QED
    BY <1>1, <1>3, <2>1, <2>2, EmittedIsCausal DEF EmitEvent
<1>4. ASSUME NEW ref \in Drawn, NEW id \in Nat, NEW eventId \in Nat, NEW decision \in Decision,
             Publish(ref, id, eventId, decision), Passed(id, eventId, decision)
      PROVE  TraceIsCausal'
  <2>1. CASE eventId = 0
    BY <1>2, <1>4, <2>1 DEF Publish
  <2>2. CASE eventId # 0
    <3> DEFINE once == Put(records, id, DecisionOf(ref, decision))
               new == EventOf(eventId, {id, ref})
    <3>1. /\ eventId \in Nat /\ {id, ref} \in SUBSET Ref
      BY RetainedAreRefs DEF Ref
    <3>2. ref \in Retained
      BY <1>4 DEF Publish, Open, SlotsDistinct
    <3>3. /\ records' = Put(once, eventId, new) /\ events' = Append(events, new)
          /\ eventId \notin DOMAIN records /\ eventId # id
      BY <1>4, <2>2 DEF Publish, Passed, Retained
    <3>4. DOMAIN once = DOMAIN records \cup {id}
      BY DEF Put
    <3> HIDE DEF once
    <3>5. /\ eventId \in DOMAIN records' /\ records'[eventId] = new
          /\ {id, ref} \subseteq DOMAIN records'
      BY <3>2, <3>3, <3>4 DEF Put, Retained
    <3> QED
      BY <1>1, <3>1, <3>3, <3>5, EmittedIsCausal
  <2> QED
    BY <2>1, <2>2
<1>5. ASSUME NEW refs \in SUBSET Retained, EmitNow(refs)
      PROVE  TraceIsCausal'
  BY <1>3, <1>5 DEF EmitNow, JournalTypeOK
<1>6. ASSUME NEW refs \in SUBSET Retained, NEW id \in Drawn, EmitDrawn(id, refs)
      PROVE  TraceIsCausal'
  BY <1>3, <1>6 DEF EmitDrawn, Drawn
<1> QED
  <2>1. ASSUME NEW ref \in Drawn,
               PublishUnavailable(ref) \/ \E decision \in Decision : PublishRecorded(ref, decision)
        PROVE  TraceIsCausal'
    BY <1>4, <2>1, PublishedBy
  <2> QED
    BY <1>2, <1>5, <1>6, <2>1
       DEF Next, NewId, ExternalChange, Retain, ReserveDrawn, Reserve, vars

LEMMA SlotsPreserved ==
  ASSUME IndInv, [Next]_vars
  PROVE  SlotsDistinct'
<1> USE DEF IndInv
<1>1. RecordsKept
  BY RecordsStep
<1>2. ASSUME UNCHANGED slots
      PROVE  SlotsDistinct'
  BY <1>1, <1>2 DEF SlotsDistinct, RecordsKept, Retained
<1>3. ASSUME NEW inputs \in Values, ReserveDrawn(inputs)
      PROVE  SlotsDistinct'
  <2> DEFINE ref == serial + 1
             n == Len(slots)
             new == [ref |-> ref, decision |-> None]
  <2>1. /\ slots \in Seq(Slot) /\ n \in Nat /\ DOMAIN slots = 1 .. n /\ new \in Slot
    BY LenProperties DEF JournalTypeOK, Slot
  <2>2. slots' = Append(slots, new) /\ new.ref = ref /\ ref \notin DOMAIN records
    BY <1>3, NextIsFree DEF ReserveDrawn, Reserve, Retained
  <2> HIDE DEF new
  <2>3. /\ DOMAIN slots' = 1 .. n + 1 /\ slots'[n + 1] = new
        /\ \A i \in 1 .. n : slots'[i] = slots[i]
    BY <2>1, <2>2, AppendProperties, LenProperties
  <2>4. ref \in DOMAIN records'
    BY <1>3 DEF ReserveDrawn, Reserve, Put
  <2>5. \A i \in 1 .. n : slots'[i].ref \in DOMAIN records
    BY <2>1, <2>3 DEF SlotsDistinct, Retained
  <2>6. \A i \in 1 .. n + 1 : i \in 1 .. n \/ i = n + 1
    BY <2>1
  <2>7. \A i \in DOMAIN slots' : slots'[i].ref \in DOMAIN records'
    BY <1>1, <2>2, <2>3, <2>4, <2>5, <2>6 DEF RecordsKept
  <2>8. \A i, j \in DOMAIN slots' : slots'[i].ref = slots'[j].ref => i = j
    BY <2>1, <2>2, <2>3, <2>5, <2>6 DEF SlotsDistinct
  <2> QED
    BY <2>7, <2>8 DEF SlotsDistinct, Retained
<1>4. ASSUME NEW ref, NEW id, NEW eventId, NEW decision \in Decision,
             Publish(ref, id, eventId, decision)
      PROVE  SlotsDistinct'
  <2>1. PICK i \in DOMAIN slots : slots[i].ref = ref
    BY <1>4 DEF Publish, Open
  <2>2. /\ DOMAIN slots' = DOMAIN slots
        /\ \A j \in DOMAIN slots : slots'[j].ref = slots[j].ref
    BY <1>4, <2>1, CompletedSlots DEF Publish
  <2> QED
    BY <1>1, <2>2 DEF SlotsDistinct, RecordsKept, Retained
<1> QED
  BY <1>2, <1>3, <1>4
     DEF Next, NewId, ExternalChange, Retain, EmitNow, EmitDrawn, EmitEvent,
         PublishUnavailable, PublishRecorded, Decision, vars

(* An event, or what a caller retains, is no evaluation.                    *)
LEMMA OthersUndecided == Values \cap Decided = {} /\ Event \cap Decided = {}
<1>1. ASSUME NEW e \in Event, e \in Decided
      PROVE  FALSE
  <2>1. DOMAIN e = {"id", "sequence", "cause", "refs"} /\ DOMAIN e = {"slot", "decision"}
    BY <1>1 DEF Event, Decided
  <2> QED
    BY <2>1
<1> QED
  BY <1>1, ValuesAssumption

(* The evaluations of one reference among given records and events.         *)
EvaluationsIn(kept, ref) == {id \in DOMAIN kept : kept[id] \in Decided /\ kept[id].slot = ref}

EvaluatedIn(kept, trace, ref, decision) ==
  IF decision = None
  THEN EvaluationsIn(kept, ref) = {}
  ELSE \E id \in DOMAIN kept :
         /\ EvaluationsIn(kept, ref) = {id}
         /\ kept[id].decision = decision
         /\ decision = "PROJECT" => \E e \in DOMAIN trace : {id, ref} \subseteq trace[e].refs

(* Records and events are added, none of them an evaluation of ref: its     *)
(* evaluation stands.                                                       *)
LEMMA EvaluationStands ==
  ASSUME NEW kept, NEW later, NEW trace, NEW longer, NEW ref, NEW decision,
         \A r \in DOMAIN kept : r \in DOMAIN later /\ later[r] = kept[r],
         \A e \in DOMAIN trace : e \in DOMAIN longer /\ longer[e] = trace[e],
         \A r \in DOMAIN later \ DOMAIN kept : later[r] \in Decided => later[r].slot # ref,
         EvaluatedIn(kept, trace, ref, decision)
  PROVE  EvaluatedIn(later, longer, ref, decision)
<1>1. EvaluationsIn(later, ref) = EvaluationsIn(kept, ref)
  BY DEF EvaluationsIn
<1>2. CASE decision = None
  BY <1>1, <1>2 DEF EvaluatedIn
<1>3. CASE decision # None
  <2>1. PICK id \in DOMAIN kept :
          /\ EvaluationsIn(kept, ref) = {id}
          /\ kept[id].decision = decision
          /\ decision = "PROJECT" => \E e \in DOMAIN trace : {id, ref} \subseteq trace[e].refs
    BY <1>3 DEF EvaluatedIn
  <2>2. /\ id \in DOMAIN later /\ later[id].decision = decision
        /\ decision = "PROJECT" => \E e \in DOMAIN longer : {id, ref} \subseteq longer[e].refs
    BY <2>1
  <2> QED
    BY <1>1, <1>3, <2>1, <2>2 DEF EvaluatedIn
<1> QED
  BY <1>2, <1>3

(* The trace only grows.                                                    *)
LEMMA EventsStep ==
  ASSUME JournalTypeOK, NEW new \in Event, events' = Append(events, new)
  PROVE  /\ DOMAIN events' = 1 .. Len(events) + 1 /\ events'[Len(events) + 1] = new
         /\ \A e \in DOMAIN events : e \in DOMAIN events' /\ events'[e] = events[e]
<1>1. events \in Seq(Event) /\ Len(events) \in Nat /\ DOMAIN events = 1 .. Len(events)
  BY LenProperties DEF JournalTypeOK
<1>2. /\ DOMAIN events' = 1 .. Len(events) + 1 /\ events'[Len(events) + 1] = new
      /\ \A e \in 1 .. Len(events) : events'[e] = events[e]
  BY <1>1, AppendProperties, LenProperties
<1> QED
  BY <1>1, <1>2

LEMMA EvaluationsPreserved ==
  ASSUME IndInv, [Next]_vars
  PROVE  EvaluationsNamed' /\ EvaluatedOnce'
<1> USE DEF IndInv
<1> DEFINE Kept == \A r \in DOMAIN records : r \in DOMAIN records' /\ records'[r] = records[r]
           Grown == \A e \in DOMAIN events : e \in DOMAIN events' /\ events'[e] = events[e]
           Undecided == \A r \in DOMAIN records' \ DOMAIN records : records'[r] \notin Decided
           Named == \A r \in DOMAIN records' :
                      records'[r] \in Decided => records'[r].slot \in DOMAIN records'
           Once == \A i \in DOMAIN slots' :
                     EvaluatedIn(records', events', slots'[i].ref, slots'[i].decision)
<1>1. /\ Kept
      /\ \A r \in DOMAIN records : records[r] \in Decided => records[r].slot \in DOMAIN records
      /\ \A i \in DOMAIN slots : slots[i].ref \in DOMAIN records
      /\ \A i \in DOMAIN slots : EvaluatedIn(records, events, slots[i].ref, slots[i].decision)
  BY RecordsStep
     DEF RecordsKept, EvaluationsNamed, SlotsDistinct, EvaluatedOnce, EvaluatedAs, Evaluations,
         EvaluatedIn, EvaluationsIn, Retained
<1>2. SUFFICES Named /\ Once
  BY DEF EvaluationsNamed, EvaluatedOnce, EvaluatedAs, Evaluations, EvaluatedIn, EvaluationsIn, Retained
<1>3. ASSUME Grown, Undecided
      PROVE  /\ Named
             /\ \A i \in DOMAIN slots :
                  EvaluatedIn(records', events', slots[i].ref, slots[i].decision)
  BY <1>1, <1>3, EvaluationStands
<1>4. CASE UNCHANGED <<records, events, slots>>
  BY <1>3, <1>4
<1>5. ASSUME NEW ref, NEW value \in Values, Retain(ref, value)
      PROVE  Named /\ Once
  <2>1. Undecided
    BY <1>5, OthersUndecided DEF Retain, Put
  <2> QED
    BY <1>3, <1>5, <2>1 DEF Retain
<1>6. ASSUME NEW id \in Nat, NEW refs \in SUBSET Retained, EmitEvent(id, refs)
      PROVE  Named /\ Once
  <2>1. EventOf(id, refs) \in Event
    BY EventTyped, RetainedAreRefs
  <2>2. Undecided
    BY <1>6, <2>1, OthersUndecided DEF EmitEvent, Put
  <2>3. Grown
    BY <1>6, <2>1, EventsStep DEF EmitEvent
  <2> QED
    BY <1>3, <1>6, <2>2, <2>3 DEF EmitEvent
<1>7. ASSUME NEW inputs \in Values, ReserveDrawn(inputs)
      PROVE  Named /\ Once
  <2> DEFINE n == Len(slots)
             new == [ref |-> serial + 1, decision |-> None]
  <2>1. Undecided /\ Grown
    BY <1>7, OthersUndecided DEF ReserveDrawn, Reserve, Put
  <2>2. slots \in Seq(Slot) /\ n \in Nat /\ DOMAIN slots = 1 .. n /\ new \in Slot
    BY LenProperties DEF JournalTypeOK, Slot
  <2>3. EvaluatedIn(records', events', new.ref, new.decision)
    BY <1>1, <2>1, NextIsFree DEF EvaluatedIn, EvaluationsIn, Retained
  <2>4. slots' = Append(slots, new)
    BY <1>7 DEF ReserveDrawn, Reserve
  <2> HIDE DEF new
  <2>5. /\ DOMAIN slots' = 1 .. n + 1 /\ slots'[n + 1] = new
        /\ \A i \in 1 .. n : slots'[i] = slots[i]
    BY <2>2, <2>4, AppendProperties, LenProperties
  <2>6. \A i \in 1 .. n + 1 : i \in 1 .. n \/ i = n + 1
    BY <2>2
  <2> QED
    BY <1>3, <2>1, <2>2, <2>3, <2>5, <2>6
<1>8. ASSUME NEW ref \in Drawn, NEW id \in Nat, NEW eventId \in Nat, NEW decision \in Decision,
             Publish(ref, id, eventId, decision), Passed(id, eventId, decision)
      PROVE  Named /\ Once
  <2> DEFINE record == DecisionOf(ref, decision)
             new == EventOf(eventId, {id, ref})
  <2>1. PICK i \in DOMAIN slots : slots[i].ref = ref /\ slots[i].decision = None
    BY <1>8 DEF Publish, Open
  <2>2. /\ DOMAIN slots' = DOMAIN slots
        /\ \A j \in DOMAIN slots :
             /\ slots'[j].ref = slots[j].ref
             /\ slots'[j].decision = IF j = i THEN decision ELSE slots[j].decision
    BY <1>8, <2>1, CompletedSlots DEF Publish
  <2>3. /\ record \in Decided /\ record.slot = ref /\ record.decision = decision
        /\ decision # None
    BY NoneAssumption DEF DecisionOf, Decided, Drawn
  <2>4. new \in Event /\ new.refs = {id, ref}
    <3>1. new \in Event
      BY EventTyped, RetainedAreRefs DEF Ref
    <3> QED
      BY <3>1 DEF EventOf
  <2> HIDE DEF record, new
  <2>5. /\ id \notin DOMAIN records /\ id \in DOMAIN records' /\ records'[id] = record
        /\ \A r \in DOMAIN records' \ DOMAIN records : r # id => records'[r] = new
    BY <1>8 DEF Publish, Retained, Put, record, new
  <2>6. \A r \in DOMAIN records' \ DOMAIN records : records'[r] \in Decided => r = id
    BY <2>4, <2>5, OthersUndecided
  <2>7. Grown /\ (decision = "PROJECT" => \E e \in DOMAIN events' : events'[e] = new)
    <3>1. CASE eventId = 0
      BY <1>8, <3>1 DEF Publish, Passed
    <3>2. CASE eventId # 0
      <4>1. events' = Append(events, new)
        BY <1>8, <3>2 DEF Publish, new
      <4>2. Len(events) \in Nat /\ Len(events) + 1 \in 1 .. Len(events) + 1
        BY LenProperties DEF JournalTypeOK
      <4> QED
        BY <2>4, <4>1, <4>2, EventsStep
    <3> QED
      BY <3>1, <3>2
  <2>8. Named
    BY <1>1, <2>1, <2>3, <2>5, <2>6
  <2>9. EvaluatedIn(records', events', ref, decision)
    <3>1. EvaluationsIn(records, ref) = {}
      BY <1>1, <2>1 DEF EvaluatedIn
    <3>2. EvaluationsIn(records', ref) = {id}
      BY <1>1, <2>3, <2>5, <2>6, <3>1 DEF EvaluationsIn
    <3> QED
      BY <2>3, <2>4, <2>5, <2>7, <3>2 DEF EvaluatedIn
  <2>10. ASSUME NEW j \in DOMAIN slots, j # i
         PROVE  EvaluatedIn(records', events', slots[j].ref, slots[j].decision)
    <3>1. slots[j].ref # ref
      BY <2>1, <2>10 DEF SlotsDistinct
    <3>2. \A r \in DOMAIN records' \ DOMAIN records :
            records'[r] \in Decided => records'[r].slot # slots[j].ref
      BY <2>3, <2>5, <2>6, <3>1
    <3> QED
      BY <1>1, <2>7, <3>2, EvaluationStands
  <2> QED
    BY <2>1, <2>2, <2>8, <2>9, <2>10
<1>9. ASSUME NEW ref \in Drawn,
             PublishUnavailable(ref) \/ \E decision \in Decision : PublishRecorded(ref, decision)
      PROVE  Named /\ Once
  <2> HIDE DEF Named, Once
  <2> QED
    BY <1>8, <1>9, PublishedBy
<1>10. CASE NewId \/ ExternalChange \/ UNCHANGED vars
  BY <1>4, <1>10 DEF NewId, ExternalChange, vars
<1>11. ASSUME NEW refs \in SUBSET Retained, EmitNow(refs)
       PROVE  Named /\ Once
  BY <1>6, <1>11 DEF EmitNow, JournalTypeOK
<1>12. ASSUME NEW refs \in SUBSET Retained, NEW id \in Drawn, EmitDrawn(id, refs)
       PROVE  Named /\ Once
  BY <1>6, <1>12 DEF EmitDrawn, Drawn
<1> QED
  <2> HIDE DEF Named, Once
  <2> QED
    BY <1>5, <1>7, <1>9, <1>10, <1>11, <1>12 DEF Next

LEMMA AccountPreserved ==
  ASSUME IndInv, [Next]_vars
  PROVE  AuthorityAccounted'
<1> USE DEF IndInv
<1>1. /\ IsFiniteSet(Projected) /\ Cardinality(Projected) \in Nat
      /\ slots \in Seq(Slot) /\ Len(slots) \in Nat /\ DOMAIN slots = 1 .. Len(slots)
      /\ authority.version \in Nat /\ outside \in Nat
  <2>1. slots \in Seq(Slot) /\ Len(slots) \in Nat /\ DOMAIN slots = 1 .. Len(slots)
    BY LenProperties DEF JournalTypeOK
  <2>2. Projected \in SUBSET (1 .. Len(slots))
    BY <2>1 DEF Projected
  <2>3. IsFiniteSet(1 .. Len(slots))
    BY <2>1, FS_Interval
  <2> QED
    BY <2>1, <2>2, <2>3, FS_Subset, FS_CardinalityType DEF JournalTypeOK
<1>2. ASSUME Projected' = Projected, UNCHANGED <<authority, outside>>
      PROVE  AuthorityAccounted'
  BY <1>2 DEF AuthorityAccounted
<1>3. ASSUME UNCHANGED slots
      PROVE  Projected' = Projected
  BY <1>3 DEF Projected
<1>4. CASE ExternalChange
  BY <1>1, <1>3, <1>4 DEF ExternalChange, AuthorityAccounted
<1>5. ASSUME NEW inputs, ReserveDrawn(inputs)
      PROVE  AuthorityAccounted'
  <2> DEFINE ref == serial + 1
             n == Len(slots)
             new == [ref |-> ref, decision |-> None]
  <2>1. new \in Slot /\ slots' = Append(slots, new) /\ new.decision = None
    BY <1>5 DEF Slot, ReserveDrawn, Reserve, JournalTypeOK
  <2> HIDE DEF new
  <2>2. /\ DOMAIN slots' = 1 .. n + 1 /\ slots'[n + 1] = new
        /\ \A i \in 1 .. n : slots'[i] = slots[i]
    BY <1>1, <2>1, AppendProperties, LenProperties
  <2>3. None # "PROJECT"
    BY NoneAssumption DEF Decision
  <2>4. \A i \in 1 .. n + 1 : i \in 1 .. n \/ i = n + 1
    BY <1>1
  <2>5. \A i \in 1 .. n : i \in 1 .. n + 1
    BY <1>1
  <2>6. Projected' = Projected
    BY <1>1, <2>1, <2>2, <2>3, <2>4, <2>5 DEF Projected
  <2> QED
    BY <1>2, <1>5, <2>6 DEF ReserveDrawn, Reserve
<1>6. ASSUME NEW ref, NEW id, NEW eventId, NEW decision \in Decision,
             Publish(ref, id, eventId, decision)
      PROVE  AuthorityAccounted'
  <2>1. PICK i \in DOMAIN slots : slots[i].ref = ref /\ slots[i].decision = None
    BY <1>6 DEF Publish, Open
  <2>2. /\ DOMAIN slots' = DOMAIN slots
        /\ \A j \in DOMAIN slots :
             slots'[j].decision = IF j = i THEN decision ELSE slots[j].decision
    BY <1>6, <2>1, CompletedSlots DEF Publish
  <2>3. i \notin Projected
    BY <2>1, NoneAssumption DEF Projected, Decision
  <2>4. CASE decision = "PROJECT"
    <3>1. Projected' = Projected \cup {i}
      BY <2>1, <2>2, <2>4 DEF Projected
    <3>2. Cardinality(Projected \cup {i}) = Cardinality(Projected) + 1
      BY <1>1, <2>3, FS_AddElement
    <3>3. authority'.version = authority.version + 1 /\ outside' = outside
      BY <1>6, <2>4 DEF Publish, AuthorityAfter
    <3> QED
      BY <1>1, <3>1, <3>2, <3>3 DEF AuthorityAccounted
  <2>5. CASE decision # "PROJECT"
    <3>1. Projected' = Projected
      BY <2>2, <2>3, <2>5 DEF Projected
    <3> QED
      BY <1>2, <1>6, <2>5, <3>1 DEF Publish, AuthorityAfter
  <2> QED
    BY <2>4, <2>5
<1> QED
  BY <1>2, <1>3, <1>4, <1>5, <1>6
     DEF Next, NewId, Retain, EmitNow, EmitDrawn, EmitEvent,
         PublishUnavailable, PublishRecorded, Decision, vars

(* The invariant holds in every behaviour of the journal.                   *)
THEOREM Inductive == Spec => []IndInv
<1>1. Init => IndInv
  BY InitIndInv
<1>2. IndInv /\ [Next]_vars => IndInv'
  BY TypePreserved, TracePreserved, SlotsPreserved, EvaluationsPreserved, AccountPreserved DEF IndInv
<1> QED
  BY <1>1, <1>2, PTL DEF Spec

(* Type correctness: only names and drawn identities are retained.          *)
THEOREM TypeCorrect == Spec => []JournalTypeOK
<1>1. IndInv => JournalTypeOK
  BY DEF IndInv
<1> QED
  BY <1>1, Inductive, PTL

(* The trace of a run is one causal chain whatever the order identities are *)
(* drawn and used in (event(), journal.py:58-87).                           *)
THEOREM TraceCausal == Spec => []TraceIsCausal
<1>1. IndInv => TraceIsCausal
  BY DEF IndInv
<1> QED
  BY <1>1, Inductive, PTL

(* A reserved slot has one final evaluation or none, although reserve()     *)
(* would name a second slot by the same reference and publish() tests an    *)
(* open slot and a new identity only (journal.py:89-118): project() draws   *)
(* every identity it passes (reconciliation.py:121, 162, 183).              *)
THEOREM SlotsEvaluatedOnce == Spec => []EvaluatedOnce
<1>1. IndInv => EvaluatedOnce
  BY DEF IndInv
<1> QED
  BY <1>1, Inductive, PTL

(* The authority moves exactly once per slot projected and per change from  *)
(* outside (publish(), journal.py:98-118).                                  *)
THEOREM AuthorityExplained == Spec => []AuthorityAccounted
<1>1. IndInv => AuthorityAccounted
  BY DEF IndInv
<1> QED
  BY <1>1, Inductive, PTL

-----------------------------------------------------------------------------
(* The refinement.                                                          *)

Decisions == [i \in DOMAIN slots |-> slots[i].decision]

(* The slots the abstract history sees are a sequence as long as the real   *)
(* ones.                                                                    *)
LEMMA DecisionsTyped ==
  ASSUME JournalTypeOK
  PROVE  /\ slots \in Seq(Slot) /\ Len(slots) \in Nat /\ DOMAIN slots = 1 .. Len(slots)
         /\ Decisions \in Seq(Decision \cup {None})
         /\ Len(Decisions) = Len(slots)
<1>1. slots \in Seq(Slot) /\ Len(slots) \in Nat /\ DOMAIN slots = 1 .. Len(slots)
  BY LenProperties DEF JournalTypeOK
<1>2. \A i \in 1 .. Len(slots) : slots[i].decision \in Decision \cup {None}
  <2>1. \A i \in 1 .. Len(slots) : slots[i] \in Slot
    BY <1>1, ElementOfSeq
  <2> QED
    BY <2>1 DEF Slot
<1>3. Decisions \in [1 .. Len(slots) -> Decision \cup {None}]
  BY <1>1, <1>2 DEF Decisions
<1>4. Decisions \in Seq(Decision \cup {None})
  BY <1>1, <1>3, SeqDef
<1>5. DOMAIN Decisions = 1 .. Len(slots)
  BY <1>1 DEF Decisions
<1> QED
  BY <1>1, <1>4, <1>5, LenProperties

(* Appending an event grows the trace.                                      *)
LEMMA TraceGrows ==
  ASSUME JournalTypeOK, NEW new \in Event, events' = Append(events, new)
  PROVE  History!Grown /\ Len(events') > Len(events)
<1>1. events \in Seq(Event) /\ Len(events) \in Nat
  BY LenProperties DEF JournalTypeOK
<1>2. Len(events') = Len(events) + 1 /\ \A i \in 1 .. Len(events) : events'[i] = events[i]
  BY <1>1, AppendProperties
<1> QED
  BY <1>1, <1>2 DEF History!Grown

LEMMA HistoryStep ==
  ASSUME IndInv, [Next]_vars
  PROVE  [History!Next]_History!vars
<1> USE DEF IndInv
<1>1. CASE UNCHANGED <<events, slots, authority, outside>>
  BY <1>1 DEF History!vars
<1>2. CASE ExternalChange
  BY <1>2 DEF ExternalChange, History!Next, History!Outside
<1>3. ASSUME NEW id \in Nat, NEW refs \in SUBSET Retained, EmitEvent(id, refs)
      PROVE  [History!Next]_History!vars
  <2>1. EventOf(id, refs) \in Event
    BY EventTyped, RetainedAreRefs
  <2>2. History!Grown
    BY <1>3, <2>1, TraceGrows DEF EmitEvent
  <2> QED
    BY <1>3, <2>2 DEF EmitEvent, History!Next, History!Enter
<1>4. ASSUME NEW inputs, ReserveDrawn(inputs)
      PROVE  [History!Next]_History!vars
  <2> DEFINE ref == serial + 1
             n == Len(slots)
             new == [ref |-> ref, decision |-> None]
  <2>1. slots \in Seq(Slot) /\ n \in Nat /\ DOMAIN slots = 1 .. n /\ new \in Slot
    BY DecisionsTyped DEF Slot, JournalTypeOK
  <2>2. slots' = Append(slots, new) /\ new.decision = None
    BY <1>4 DEF ReserveDrawn, Reserve
  <2> HIDE DEF new
  <2>3. /\ slots' \in Seq(Slot) /\ DOMAIN slots' = 1 .. n + 1 /\ slots'[n + 1] = new
        /\ \A i \in 1 .. n : slots'[i] = slots[i]
    BY <2>1, <2>2, AppendProperties, LenProperties
  <2>4. /\ Decisions \in Seq(Decision \cup {None}) /\ Len(Decisions) = n
        /\ DOMAIN Decisions = 1 .. n
    BY DecisionsTyped, LenProperties
  <2>5. Decisions' \in [1 .. n + 1 -> Decision \cup {None}]
    <3>1. \A i \in 1 .. n + 1 : slots'[i] \in Slot
      BY <2>1, <2>3, ElementOfSeq, LenProperties
    <3> QED
      BY <2>3, <3>1 DEF Decisions, Slot
  <2>6. Decisions' \in Seq(Decision \cup {None}) /\ Len(Decisions') = n + 1
    <3>1. Decisions' \in Seq(Decision \cup {None})
      BY <2>1, <2>5, SeqDef
    <3> QED
      BY <2>1, <2>5, <3>1, LenProperties
  <2>7. /\ Append(Decisions, None) \in Seq(Decision \cup {None})
        /\ Len(Append(Decisions, None)) = n + 1
        /\ \A i \in 1 .. n : Append(Decisions, None)[i] = Decisions[i]
        /\ Append(Decisions, None)[n + 1] = None
    BY <2>4, AppendProperties
  <2>8. \A i \in 1 .. n : Decisions'[i] = Decisions[i]
    BY <2>1, <2>3 DEF Decisions
  <2>9. Decisions'[n + 1] = None
    BY <2>1, <2>2, <2>3 DEF Decisions
  <2>10. \A i \in 1 .. n + 1 : i \in 1 .. n \/ i = n + 1
    BY <2>1
  <2>11. Decisions' = Append(Decisions, None)
    BY <2>6, <2>7, <2>8, <2>9, <2>10, SeqEqual
  <2> QED
    BY <1>4, <2>11 DEF ReserveDrawn, Reserve, Decisions, History!Next, History!Reserve
<1>5. ASSUME NEW ref \in Drawn, NEW id \in Nat, NEW eventId \in Nat, NEW decision \in Decision,
             Publish(ref, id, eventId, decision), Passed(id, eventId, decision)
      PROVE  [History!Next]_History!vars
  <2>1. PICK i \in DOMAIN slots : slots[i].ref = ref /\ slots[i].decision = None
    BY <1>5 DEF Publish, Open
  <2>2. /\ DOMAIN slots' = DOMAIN slots
        /\ \A j \in DOMAIN slots :
             slots'[j].decision = IF j = i THEN decision ELSE slots[j].decision
    BY <1>5, <2>1, CompletedSlots DEF Publish
  <2>3. Decisions' = [Decisions EXCEPT ![i] = decision] /\ Decisions[i] = None
    BY <2>1, <2>2 DEF Decisions
  <2>4. i \in 1 .. Len(Decisions)
    BY <2>1, DecisionsTyped
  <2>5. /\ UNCHANGED outside
        /\ IF decision = "PROJECT" THEN authority'.version = authority.version + 1
                                   ELSE UNCHANGED authority
    BY <1>5 DEF Publish, AuthorityAfter
  <2>6. History!Grown /\ (decision = "PROJECT" => Len(events') > Len(events))
    <3>1. CASE eventId = 0
      <4>1. UNCHANGED events /\ decision # "PROJECT"
        BY <1>5, <3>1 DEF Publish, Passed
      <4>2. Len(events) \in Nat
        BY LenProperties DEF JournalTypeOK
      <4> QED
        BY <4>1, <4>2 DEF History!Grown
    <3>2. CASE eventId # 0
      <4>1. EventOf(eventId, {id, ref}) \in Event
        BY <3>2, EventTyped, RetainedAreRefs DEF Ref
      <4> QED
        BY <1>5, <3>2, <4>1, TraceGrows DEF Publish
    <3> QED
      BY <3>1, <3>2
  <2>7. History!Decide(i, decision)
    BY <2>3, <2>5, <2>6 DEF Decisions, History!Decide
  <2>8. \E k \in 1 .. Len(Decisions), d \in Decision : History!Decide(k, d)
    BY <2>4, <2>7
  <2>9. History!Next
    BY <2>8 DEF Decisions, Decision, History!Decision, History!Next
  <2> QED
    BY <2>9
<1>6. ASSUME NEW refs \in SUBSET Retained, EmitNow(refs)
      PROVE  [History!Next]_History!vars
  BY <1>3, <1>6 DEF EmitNow, JournalTypeOK
<1>7. ASSUME NEW refs \in SUBSET Retained, NEW id \in Drawn, EmitDrawn(id, refs)
      PROVE  [History!Next]_History!vars
  BY <1>3, <1>7 DEF EmitDrawn, Drawn
<1>8. ASSUME NEW ref \in Drawn,
             PublishUnavailable(ref) \/ \E decision \in Decision : PublishRecorded(ref, decision)
      PROVE  [History!Next]_History!vars
  BY <1>5, <1>8, PublishedBy
<1> QED
  BY <1>1, <1>2, <1>4, <1>6, <1>7, <1>8 DEF Next, NewId, Retain, vars

(* The journal implements the record of a run: whatever its callers do, the *)
(* trace only grows, a slot is decided once, and the authority moves only   *)
(* with the decision and the event that report it (journal.py:58-118).      *)
THEOREM HistoryImplemented == Spec => HistoryKept
<1>1. Init => History!Init
  BY EmptySeq DEF Init, History!Init
<1>2. IndInv /\ [Next]_vars => [History!Next]_History!vars
  BY HistoryStep
<1> QED
  BY <1>1, <1>2, Inductive, PTL DEF Spec, HistoryKept, History!Spec

(* RecordsImmutable needs no invariant: retention is final by itself.       *)
THEOREM RecordsFinal == Spec => RecordsImmutable
<1>1. [Next]_vars => [RecordsKept]_vars
  BY RecordsStep
<1> QED
  BY <1>1, PTL DEF Spec, RecordsImmutable
=============================================================================
