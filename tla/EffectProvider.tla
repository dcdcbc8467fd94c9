--------------------------- MODULE EffectProvider ---------------------------
(***************************************************************************)
(* The trusted in-memory provider (fixture.py): one observable document,   *)
(* a log of every action requested within the one admitted invocation, and *)
(* reads of both.  Only the provider changes the document; a handler can   *)
(* only request.                                                           *)
(***************************************************************************)
EXTENDS Contracts, Sequences

CONSTANTS
  ActionRequests,  \* the requests a handler may make: [kind, value, object]
  MaxVersion,      \* bound on outside writes: none past this version
  MaxActions       \* bound on the length of the action log

VARIABLES
  view,            \* the document as it is
  log,             \* the actions of the invocation, in order
  invocation,      \* the commit whose invocation was opened, or None
  invocations,     \* how many invocations were opened
  closed           \* the interval of the invocation is closed

provVars == <<view, log, invocation, invocations, closed>>

ActionRequest == [kind : {"STATE", "CONTENT_WRITE", "EXISTS", "DELETE"},
                  value : {"DRAFT", "REVIEW", "APPROVED", "original", "different", "true", "false"},
                  object : {"DOC-001", "OTHER"}]

(* A value is one its kind of request can carry.                            *)
Carriable ==
  {r \in ActionRequest :
     /\ r.kind = "STATE" => r.value \in {"DRAFT", "REVIEW", "APPROVED"}
     /\ r.kind = "CONTENT_WRITE" => r.value \in {"original", "different"}}

ASSUME RequestsAssumption == ActionRequests \subseteq Carriable
ASSUME NoneAssumption == None \notin Nat

Foreign == 0       \* the unrelated writer; commits are numbered from 1

EffectView == [state : {"DRAFT", "REVIEW", "APPROVED"}, exists : BOOLEAN,
               digest : {"original", "different"}, version : Nat,
               predecessor : Nat \cup {None}, writer : Nat \cup {None}]

InitialView == [state |-> "DRAFT", exists |-> TRUE, digest |-> "original", version |-> 1,
                predecessor |-> None, writer |-> None]

Action == [invocation : Nat, request : ActionRequest, applied : BOOLEAN,
           forbidden : BOOLEAN, before : EffectView, after : EffectView]

ProvTypeOK ==
  /\ view \in EffectView
  /\ log \in Seq(Action)
  /\ invocation \in Nat \cup {None}
  /\ invocations \in Nat
  /\ closed \in BOOLEAN

ProvInit ==
  /\ view = InitialView
  /\ log = << >>
  /\ invocation = None
  /\ invocations = 0
  /\ closed = FALSE

(* Mutant: nothing refuses a second invocation.                             *)
ReopenInterval(commit) ==
  /\ invocation' = commit
  /\ invocations' = invocations + 1
  /\ closed' = FALSE
  /\ UNCHANGED <<view, log>>

(* open_interval(): a second invocation raises.                             *)
OpenInterval(commit) ==
  /\ invocation = None
  /\ invocation' = commit
  /\ invocations' = invocations + 1
  /\ closed' = FALSE
  /\ UNCHANGED <<view, log>>

(* Lines 74-79: exactly the approved transition of the untouched document.  *)
Allowed(request, target, version) ==
  /\ request = [kind |-> "STATE", value |-> "REVIEW", object |-> "DOC-001"]
  /\ target = "REVIEW"
  /\ view.state = "DRAFT" /\ view.version = version

(* Lines 80-81: the diagnostic flag lets a forbidden write through.         *)
AppliedInvalidly(request, diagnostic) ==
  diagnostic /\ request.kind \in {"STATE", "CONTENT_WRITE", "EXISTS"} /\ request.object = "DOC-001"

(* Mutant: the value is taken for a state whatever the kind of request.     *)
WrittenAsState(request) ==
  [view EXCEPT !.state = request.value, !.version = @ + 1,
               !.predecessor = view.version, !.writer = invocation]

(* Mutant: a write keeps the version it found.                              *)
WrittenInPlace(request) ==
  [view EXCEPT !.state = IF request.kind = "STATE" THEN request.value ELSE @,
               !.predecessor = view.version, !.writer = invocation]

(* Mutant: the writer of a change is not recorded.                          *)
WrittenAnonymously(request) ==
  [view EXCEPT !.state = IF request.kind = "STATE" THEN request.value ELSE @,
               !.version = @ + 1, !.predecessor = view.version]

Written(request) ==
  [state   |-> IF request.kind = "STATE" THEN request.value ELSE view.state,
   exists  |-> IF request.kind = "EXISTS" THEN request.value = "true" ELSE view.exists,
   digest  |-> IF request.kind = "CONTENT_WRITE" THEN request.value ELSE view.digest,
   version |-> view.version + 1, predecessor |-> view.version, writer |-> invocation]

(* apply(): every request is logged, applied or not, and an unallowed one   *)
(* is logged as forbidden even when the diagnostic flag applied it.         *)
Apply(request, target, version, diagnostic) ==
  LET allowed == Allowed(request, target, version)
      applied == allowed \/ AppliedInvalidly(request, diagnostic)
      after   == IF applied THEN Written(request) ELSE view
  IN  /\ invocation # None /\ ~closed
      /\ log' = Append(log, [invocation |-> invocation, request |-> request,
                             applied |-> applied, forbidden |-> ~allowed,
                             before |-> view, after |-> after])
      /\ view' = after
      /\ UNCHANGED <<invocation, invocations, closed>>

CloseInterval ==
  /\ closed' = TRUE
  /\ UNCHANGED <<view, log, invocation, invocations>>

(* external_change(): an unrelated writer moves the document to REVIEW, or  *)
(* changes its content.  Predecessor is left as it was.                     *)
ForeignWrite(kind) ==
  /\ view.version < MaxVersion
  /\ view' = IF kind = "observation"
             THEN [view EXCEPT !.version = @ + 1, !.state = "REVIEW", !.writer = Foreign]
             ELSE [view EXCEPT !.version = @ + 1, !.digest = "different", !.writer = Foreign]
  /\ UNCHANGED <<log, invocation, invocations, closed>>

(* observe() with its observation faults.  A conflicting read retains a     *)
(* second observation of the same version in another state.                 *)
ReadFault == {"", "missing", "incomplete", "dropped", "unclosed", "conflicting"}

Observe(fault) ==
  IF fault = "missing" THEN None
  ELSE [view        |-> view,
        closed      |-> closed /\ fault # "unclosed",
        complete    |-> fault \notin {"incomplete", "dropped"},
        actions     |-> IF fault = "dropped" THEN << >> ELSE log,
        conflicting |-> fault = "conflicting"]

-----------------------------------------------------------------------------
(* The provider under any handler.  Seams lie outside an open interval, so  *)
(* no unrelated write falls inside one.                                     *)
ProvNext ==
  \/ \E commit \in 1..2 : OpenInterval(commit)
  \/ Len(log) < MaxActions /\
     \E request \in ActionRequests, version \in 1..MaxVersion, diagnostic \in BOOLEAN :
       Apply(request, "REVIEW", version, diagnostic)
  \/ invocation # None /\ CloseInterval
  \/ (invocation = None \/ closed) /\ \E kind \in {"observation", "content"} : ForeignWrite(kind)

ProvSpec == ProvInit /\ [][ProvNext]_provVars

(* The log is a continuous history of the interval: each action starts      *)
(* where the one before it ended, and belongs to the invocation, which is   *)
(* the only one there ever is.                                              *)
LogIsContinuous ==
  /\ invocations <= 1
  /\ \A i \in 1 .. Len(log) :
       /\ log[i].invocation = invocation
       /\ i < Len(log) => log[i].after = log[i + 1].before
  /\ log # << >> /\ ~closed => log[Len(log)].after = view

(* Whatever a handler requests, in any order and with forbidden writes let  *)
(* through (one may even put the document back into DRAFT), the approved    *)
(* transition is carried out at most once for the version it was approved   *)
(* for.                                                                     *)
AllowedAtMostOnce ==
  \A i, j \in 1 .. Len(log) :
    ~log[i].forbidden /\ ~log[j].forbidden /\ log[i].before.version = log[j].before.version => i = j

(* The document names the invocation as its writer exactly while the last   *)
(* change to it was one of the invocation's applied actions.                *)
WriterIsTruthful ==
  invocation # None =>
    (view.writer = invocation <=> \E i \in 1 .. Len(log) : log[i].applied /\ log[i].after = view)
=============================================================================
