--------------------------- MODULE Reconciliation ---------------------------
(***************************************************************************)
(* reconcile() of reconciliation.py, as operators: the outcome is decided  *)
(* from independent evidence (the provider's read and its action log)      *)
(* against the basis the plan was approved on.                             *)
(*                                                                         *)
(*   observed  the provider's read, or None                                *)
(*   baseline  the document the transition was approved on                 *)
(*   interval  the log the provider retained when it closed the interval   *)
(*   commit    the commit whose invocation the result reports              *)
(***************************************************************************)
EXTENDS Contracts, Sequences

Actions(observed) == IF observed = None THEN << >> ELSE observed.actions

(* Lines 16-20: a request that was denied, or that touched anything but the *)
(* document's state, is forbidden even if a later one repaired it.          *)
ForbiddenAction(a) ==
  \/ a.forbidden
  \/ a.request.object # "DOC-001" \/ a.request.kind # "STATE" \/ a.request.value # "REVIEW"
  \/ a.before.digest # a.after.digest \/ a.before.exists # a.after.exists

Forbidden(observed) ==
  \E i \in DOMAIN Actions(observed) : ForbiddenAction(Actions(observed)[i])

(* Lines 21-31: the whole closed interval was read.                         *)
Complete(observed, interval) ==
  /\ observed # None
  /\ observed.closed /\ observed.complete
  /\ observed.actions = interval

(* Lines 13 and 47-54: authority moved, or the document was changed by a    *)
(* writer other than this commit.  An untouched baseline is not stale.      *)
Unchanged(observed, baseline) ==
  /\ observed.view.state = baseline.state
  /\ observed.view.version = baseline.version
  /\ observed.view.writer = baseline.writer

Stale(observed, baseline, commit, authorityMoved) ==
  \/ authorityMoved
  \/ observed # None /\ observed.view.writer # commit /\ ~Unchanged(observed, baseline)

(* Mutant: a handler that does not know what it did is not asked.           *)
AmbiguousByRead(observed, report) == observed # None /\ observed.conflicting

(* Lines 14 and 37-46.                                                      *)
Ambiguous(observed, report) ==
  report = "UNKNOWN" \/ (observed # None /\ observed.conflicting)

(* Lines 55-62: the object and provider are fixed here, so what can differ  *)
(* is the invocation an action belongs to.                                  *)
Identified(observed, commit) ==
  observed # None /\ \A i \in DOMAIN observed.actions : observed.actions[i].invocation = commit

(* Lines 63-71: the one required effect, and its lineage from the baseline. *)
OnTarget(observed, baseline, commit, target) ==
  /\ observed # None
  /\ observed.view.state = target /\ observed.view.exists
  /\ observed.view.digest = baseline.digest
  /\ observed.view.version = baseline.version + 1
  /\ observed.view.predecessor = baseline.version
  /\ observed.view.writer = commit
  /\ Len(observed.actions) = 1
  /\ observed.actions[1].applied
  /\ observed.actions[1].before.version = baseline.version
  /\ observed.actions[1].after.version = baseline.version + 1

(* Lines 72-83: the first finding that holds classifies the realization.    *)
Reconcile(report, observed, baseline, interval, commit, target, authorityMoved) ==
  IF Forbidden(observed) \/ report = "FAILURE" THEN "RECONCILIATION_FAILED"
  ELSE IF Stale(observed, baseline, commit, authorityMoved) THEN "STALE_STATE"
  ELSE IF Ambiguous(observed, report) THEN "RECONCILIATION_AMBIGUOUS"
  ELSE IF ~Complete(observed, interval) THEN "UNRESOLVED"
  ELSE IF ~Identified(observed, commit) \/ ~OnTarget(observed, baseline, commit, target)
       THEN "RECONCILIATION_FAILED"
  ELSE "RECONCILED_SUCCESS"
=============================================================================
