------------------------- MODULE GovernedTransition -------------------------
(***************************************************************************)
(* What the runtime promises of one governed transition, whatever is       *)
(* planned, retried, reported or retained on the way: the realization is   *)
(* invoked once and only on the approved basis, the document is touched by *)
(* it alone, and the authoritative state moves once, by a publication that *)
(* finds the basis, the one required effect and the permission in place.   *)
(* Everything else that changes them comes from outside.                   *)
(***************************************************************************)
EXTENDS Contracts

VARIABLES
  authority,       \* [state, version]: the authoritative state
  document,        \* [state, version, digest]: what is observable
  permitted,       \* the authority evidence in force permits the transition
  basis,           \* the [authority, document] approved, or None
  stage,           \* "open", "approved", "invoked", "published"
  outside          \* how many changes came from outside

vars == <<authority, document, permitted, basis, stage, outside>>

Realized(from) ==
  [from EXCEPT !.state = "REVIEW", !.version = @ + 1]

Init ==
  /\ authority = [state |-> "DRAFT", version |-> 1]
  /\ document = [state |-> "DRAFT", version |-> 1, digest |-> "original"]
  /\ permitted = FALSE
  /\ basis = None /\ stage = "open" /\ outside = 0

Outside ==
  /\ outside' = outside + 1
  /\ authority' \in {authority, [state |-> "REVIEW", version |-> authority.version + 1]}
  /\ document' = document \/ document'.version = document.version + 1
  /\ permitted' \in BOOLEAN
  /\ UNCHANGED <<basis, stage>>

Approve ==
  /\ stage = "open"
  /\ authority.state = "DRAFT" /\ document.state = "DRAFT"
  /\ permitted'
  /\ basis' = [authority |-> authority, document |-> document]
  /\ stage' = "approved"
  /\ UNCHANGED <<authority, document, outside>>

(* Another plan is chosen, and a permission may name one plan only.         *)
Choose ==
  /\ stage = "approved"
  /\ permitted' \in BOOLEAN
  /\ UNCHANGED <<authority, document, basis, stage, outside>>

Invoke ==
  /\ stage = "approved" /\ permitted
  /\ basis = [authority |-> authority, document |-> document]
  /\ stage' = "invoked"
  /\ UNCHANGED <<authority, document, permitted, basis, outside>>

Effect ==
  /\ stage = "invoked"
  /\ document'.version = document.version + 1
  /\ UNCHANGED <<authority, permitted, basis, stage, outside>>

Publish ==
  /\ stage = "invoked" /\ permitted
  /\ authority = basis.authority
  /\ document = Realized(basis.document)
  /\ authority' = Realized(authority)
  /\ stage' = "published"
  /\ UNCHANGED <<document, permitted, basis, outside>>

Next == Outside \/ Approve \/ Choose \/ Invoke \/ Effect \/ Publish

Spec == Init /\ [][Next]_vars
=============================================================================
