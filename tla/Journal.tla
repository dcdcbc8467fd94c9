------------------------------- MODULE Journal -------------------------------
(***************************************************************************)
(* The journal of one run (journal.py): records retained under a reference *)
(* for good, the trace of events, the outcome slots and the authoritative  *)
(* state, held in one immutable aggregate that every operation replaces.   *)
(* Anyone retains and reports anything in any order; slots are reserved    *)
(* and published by project(), as often as it is called.                   *)
(*                                                                         *)
(* A reference is a name the caller supplies or the serial number of an    *)
(* identity new_id() drew.  An identity may be drawn long before it is     *)
(* used: admit() and dispatch() draw the one of their event first.  An     *)
(* operation that raises changes nothing: it is one that is not enabled.   *)
(***************************************************************************)
EXTENDS Contracts, Sequences, FiniteSets

CONSTANTS
  Names,           \* references callers bring along: fixture rules, intents, grants
  Values,          \* what they retain
  MaxSerial,       \* bound on the identities drawn
  MaxOutside       \* bound on the changes from outside

ASSUME NoneAssumption == None \notin Decision
ASSUME NamesAssumption == Names \cap Nat = {}
ASSUME BoundsAssumption == MaxSerial \in Nat /\ MaxOutside \in Nat

VARIABLES
  records,         \* reference |-> what is retained under it
  events,          \* the trace
  slots,           \* outcome slots in the order they were reserved
  authority,       \* [state, version]
  serial,          \* identities drawn so far
  outside          \* history: how often the authority moved from outside

vars == <<records, events, slots, authority, serial, outside>>

Ref == Names \cup Nat

(* "cause" is the identity of the event before, 0 for the first.            *)
Event == [id : Nat, sequence : Nat, cause : Nat, refs : SUBSET Ref]
Slot == [ref : Nat, decision : Decision \cup {None}]
Decided == [slot : Nat, decision : Decision]

(* Only publish() ever retains a decision.                                  *)
ASSUME ValuesAssumption == Values \cap Decided = {}

DecisionOf(ref, decision) == [slot |-> ref, decision |-> decision]

Drawn == 1 .. serial
Retained == DOMAIN records

Init ==
  /\ records = [r \in {} |-> None]
  /\ events = << >> /\ slots = << >>
  /\ authority = [state |-> "DRAFT", version |-> 1]
  /\ serial = 0 /\ outside = 0

(* A reference that is taken keeps its record.                              *)
Put(old, ref, record) ==
  [r \in DOMAIN old \cup {ref} |-> IF r \in DOMAIN old THEN old[r] ELSE record]

NewId ==
  /\ serial < MaxSerial
  /\ serial' = serial + 1
  /\ UNCHANGED <<records, events, slots, authority, outside>>

(* Mutant: a reference has whatever was retained under it last.             *)
RetainOver(ref, record) ==
  /\ records' = [r \in Retained \cup {ref} |-> IF r = ref THEN record ELSE records[r]]
  /\ UNCHANGED <<events, slots, authority, serial, outside>>

(* retain(): the same record again is accepted and changes nothing, a       *)
(* different one raises.                                                    *)
Retain(ref, record) ==
  /\ ref \in Retained => records[ref] = record
  /\ records' = Put(records, ref, record)
  /\ UNCHANGED <<events, slots, authority, serial, outside>>

(* Mutant: the cause is the identity drawn last.                            *)
LastDrawn == serial

LastEvent == IF events = << >> THEN 0 ELSE events[Len(events)].id

EventOf(id, refs) ==
  [id |-> id, sequence |-> Len(events) + 1, cause |-> LastEvent, refs |-> refs]

(* event(): every reference must be retained; the event is retained under   *)
(* its own identity, drawn before or now.                                   *)
EmitEvent(id, refs) ==
  /\ refs \subseteq Retained
  /\ id \notin Retained
  /\ records' = Put(records, id, EventOf(id, refs))
  /\ events' = Append(events, EventOf(id, refs))
  /\ UNCHANGED <<slots, authority, outside>>

EmitDrawn(id, refs) == EmitEvent(id, refs) /\ UNCHANGED serial

(* Mutant: the event names itself and draws no identity.                    *)
EmitUndrawn(refs) == serial < MaxSerial /\ EmitEvent(serial + 1, refs) /\ UNCHANGED serial

EmitNow(refs) ==
  /\ serial < MaxSerial
  /\ EmitEvent(serial + 1, refs)
  /\ serial' = serial + 1

(* reserve() checks nothing but retain()'s immutability: a reference that   *)
(* names a slot already would name a second one.                            *)
Reserve(ref, inputs) ==
  /\ ref \in Retained => records[ref] = inputs
  /\ records' = Put(records, ref, inputs)
  /\ slots' = Append(slots, [ref |-> ref, decision |-> None])
  /\ UNCHANGED <<events, authority, outside>>

(* Its one caller is project(), which draws the slot's identity first       *)
(* (reconciliation.py:121).                                                 *)
ReserveDrawn(inputs) ==
  /\ serial < MaxSerial
  /\ Reserve(serial + 1, inputs)
  /\ serial' = serial + 1

Open(ref) == \E i \in DOMAIN slots : slots[i].ref = ref /\ slots[i].decision = None

(* Mutant: the open slots are completed, whatever they are called.          *)
CompletedWhereOpen(ref, decision) ==
  [i \in DOMAIN slots |->
     IF slots[i].decision = None THEN [slots[i] EXCEPT !.decision = decision] ELSE slots[i]]

Completed(ref, decision) ==
  [i \in DOMAIN slots |-> IF slots[i].ref = ref THEN [slots[i] EXCEPT !.decision = decision] ELSE slots[i]]

(* Mutant: the authority moves whatever was decided.                        *)
AuthorityWhenever(decision) == [state |-> "REVIEW", version |-> authority.version + 1]

AuthorityAfter(decision) ==
  IF decision = "PROJECT" THEN [state |-> "REVIEW", version |-> authority.version + 1] ELSE authority

(* publish(): decision, event and authority in one assignment, without a    *)
(* look at the event; 0 stands for none.                                    *)
Publish(ref, id, eventId, decision) ==
  /\ Open(ref)
  /\ id \notin Retained
  /\ IF eventId = 0
     THEN /\ records' = Put(records, id, DecisionOf(ref, decision))
          /\ UNCHANGED events
     ELSE /\ records' = Put(Put(records, id, DecisionOf(ref, decision)), eventId, EventOf(eventId, {id, ref}))
          /\ events' = Append(events, EventOf(eventId, {id, ref}))
  /\ slots' = Completed(ref, decision)
  /\ authority' = AuthorityAfter(decision)
  /\ UNCHANGED outside

(* project() draws the identity of its decision, then that of the event     *)
(* that follows the last one (reconciliation.py:162, 183).                  *)
PublishRecorded(ref, decision) ==
  /\ serial + 2 <= MaxSerial /\ events # << >>
  /\ Publish(ref, serial + 1, serial + 2, decision)
  /\ serial' = serial + 2

(* Mutant: a publication that fails at its event keeps its decision.        *)
PublishUndemoted(ref) ==
  /\ serial < MaxSerial
  /\ \E decision \in Decision : Publish(ref, serial + 1, 0, decision)
  /\ serial' = serial + 1

(* It passes no event only where the publication failed at its event, and   *)
(* then it has withdrawn the projection (reconciliation.py:155-160).        *)
PublishUnavailable(ref) ==
  /\ serial < MaxSerial
  /\ Publish(ref, serial + 1, 0, "DO_NOT_PROJECT")
  /\ serial' = serial + 1

(* external_change("authority") replaces the aggregate from outside.        *)
ExternalChange ==
  /\ outside < MaxOutside
  /\ outside' = outside + 1
  /\ authority' = [state |-> "REVIEW", version |-> authority.version + 1]
  /\ UNCHANGED <<records, events, slots, serial>>

Next ==
  \/ NewId \/ ExternalChange
  \/ \E ref \in Names \cup Drawn, value \in Values : Retain(ref, value)
  \/ \E refs \in SUBSET Retained : EmitNow(refs) \/ \E id \in Drawn : EmitDrawn(id, refs)
  \/ \E inputs \in Values : ReserveDrawn(inputs)
  \/ \E ref \in Drawn : PublishUnavailable(ref) \/ \E decision \in Decision : PublishRecorded(ref, decision)

Spec == Init /\ [][Next]_vars
-----------------------------------------------------------------------------
(* Properties.                                                              *)

(* Every variable stays in its type, and only names and identities that     *)
(* were drawn are retained or name a slot.                                  *)
JournalTypeOK ==
  /\ DOMAIN records \subseteq Names \cup Drawn
  /\ \A r \in DOMAIN records : records[r] \in Values \cup Decided \cup Event
  /\ events \in Seq(Event) /\ slots \in Seq(Slot)
  /\ authority \in [state : {"DRAFT", "REVIEW"}, version : Nat]
  /\ serial \in Nat /\ outside \in Nat

(* Read back, the trace is one chain: dense sequence numbers, each event    *)
(* caused by the one before it and retained under its own identity, though  *)
(* identities are drawn out of order, and everything it refers to is there. *)
TraceIsCausal ==
  \A i \in DOMAIN events :
    /\ events[i].sequence = i
    /\ events[i].cause = IF i = 1 THEN 0 ELSE events[i - 1].id
    /\ events[i].id \in Retained /\ records[events[i].id] = events[i]
    /\ events[i].refs \subseteq Retained

Evaluations(ref) == {id \in Retained : records[id] \in Decided /\ records[id].slot = ref}

EvaluatedAs(ref, decision) ==
  IF decision = None
  THEN Evaluations(ref) = {}
  ELSE \E id \in Retained :
         /\ Evaluations(ref) = {id}
         /\ records[id].decision = decision
         /\ decision = "PROJECT" => \E e \in DOMAIN events : {id, ref} \subseteq events[e].refs

(* A slot has one final evaluation or none, though publish() asks only for  *)
(* an open slot and a new identity: an open slot has none retained under    *)
(* whatever identity, a decided slot reads back as its one, and an event of *)
(* the trace names both where it was projected.                             *)
EvaluatedOnce == \A i \in DOMAIN slots : EvaluatedAs(slots[i].ref, slots[i].decision)

Projected == {i \in DOMAIN slots : slots[i].decision = "PROJECT"}

(* The authority's version is accounted for: one step per slot projected,   *)
(* one per change from outside, and nothing else.                           *)
AuthorityAccounted == authority.version = 1 + Cardinality(Projected) + outside

RecordsKept == \A r \in DOMAIN records : r \in DOMAIN records' /\ records'[r] = records[r]

(* What is retained stays, and stays the same.                              *)
RecordsImmutable == [][RecordsKept]_vars

(* The journal keeps the history of a run.                                  *)
History == INSTANCE RunHistory WITH
  version <- authority.version,
  trace   <- events,
  slots   <- [i \in DOMAIN slots |-> slots[i].decision]

HistoryKept == History!Spec
=============================================================================
