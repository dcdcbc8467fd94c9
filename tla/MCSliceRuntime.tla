--------------------------- MODULE MCSliceRuntime ---------------------------
(***************************************************************************)
(* Small instances of SliceRuntime.  A run fixes what the runtime may be   *)
(* built with; each set holds one value per branch it takes in the code.   *)
(***************************************************************************)
EXTENDS SliceRuntime

(* Retry policies: a budget, a threshold, a disabled and an invalid one     *)
(* (Init adds none).                                                        *)
PolicyOf(enabled, max, threshold) ==
  [typed |-> TRUE, enabled |-> enabled, allows |-> TRUE, max |-> max, threshold |-> threshold]

PlainPolicies == {PolicyOf(TRUE, 2, None)}
RetryPolicies == {PolicyOf(TRUE, 3, None), PolicyOf(TRUE, 3, 1), PolicyOf(FALSE, 1, None), PolicyOf(TRUE, 0, None)}

(* Authority evidence: the exact grant, and one reserved to a human who has *)
(* or has not approved the request.                                         *)
HumanGrant(approved) ==
  [DefaultGrant EXCEPT !.human = TRUE, !.approved = approved, !.subject = [kind |-> "request", ref |-> 1]]

RetryGrants == {DefaultGrant, HumanGrant(FALSE)}
EffectGrants == {DefaultGrant, HumanGrant(TRUE)}

(* Requests: both modes, and one whose target is not allowed.               *)
RequestOf(id, mode, target) == [id |-> id, mode |-> mode, known |-> TRUE, target |-> target]

BothModes == {RequestOf(1, m, "REVIEW") : m \in Mode}
RetryRequests == BothModes \cup {RequestOf(2, "EXPLICIT_PLAN", "APPROVED")}

-----------------------------------------------------------------------------
(* Fixture faults: none, or one of each kind.                               *)
NoFaults ==
  [insufficient |-> FALSE, readMissing |-> FALSE, unselectable |-> FALSE, defects |-> << >>,
   requests |-> None, invalidWrites |-> FALSE, report |-> "SUCCESS", raises |-> FALSE,
   observation |-> "", publication |-> "", slotUnavailable |-> FALSE, commitUnretained |-> FALSE,
   evidenceMissing |-> FALSE, scheduleLost |-> FALSE, substituted |-> FALSE, planningFails |-> FALSE]

Defective == {<<d>> : d \in Defect \ {""}} \cup {<<"target", "object">>, <<"target", "object", "source">>,
              <<"target", "obligations">>}

RetryFaults ==
  {[NoFaults EXCEPT !.insufficient = TRUE], [NoFaults EXCEPT !.readMissing = TRUE],
   [NoFaults EXCEPT !.unselectable = TRUE], [NoFaults EXCEPT !.commitUnretained = TRUE],
   [NoFaults EXCEPT !.substituted = TRUE], NoFaults,
   [NoFaults EXCEPT !.slotUnavailable = TRUE], [NoFaults EXCEPT !.requests = << >>],
   [NoFaults EXCEPT !.defects = <<"target">>, !.evidenceMissing = TRUE],
   [NoFaults EXCEPT !.defects = <<"target">>, !.scheduleLost = TRUE]}
  \cup {[NoFaults EXCEPT !.defects = d] : d \in Defective}

Req(kind, value) == [kind |-> kind, value |-> value, object |-> "DOC-001"]
HandlerRequests ==
  {None, << >>, <<Req("STATE", "REVIEW"), Req("STATE", "REVIEW")>>, <<Req("CONTENT_WRITE", "different")>>,
   <<Req("STATE", "REVIEW"), Req("STATE", "DRAFT")>>, <<Req("STATE", "APPROVED"), Req("STATE", "REVIEW")>>,
   <<[Req("STATE", "REVIEW") EXCEPT !.object = "OTHER"]>>}

PlainFaults == {NoFaults}

EffectFaults ==
  {[NoFaults EXCEPT !.requests = r, !.invalidWrites = w, !.report = p] :
     r \in HandlerRequests, w \in BOOLEAN, p \in Report}
  \cup {[NoFaults EXCEPT !.requests = r, !.raises = TRUE] : r \in {None, << >>}}
  \cup {[NoFaults EXCEPT !.observation = o] : o \in Prov!ReadFault}
  \cup {[NoFaults EXCEPT !.publication = "write"], [NoFaults EXCEPT !.publication = "event"], [NoFaults EXCEPT !.slotUnavailable = TRUE],
        [NoFaults EXCEPT !.planningFails = TRUE]}

-----------------------------------------------------------------------------
(* Injections: every kind at every seam it can be raised at.                *)
Kinds == {"authority", "observation", "content", "grant_inactive", "grant_unknown", "human_reserved",
          "approval_subject", "definition", "missing_read", "admitted", "unknown_admission",
          "possible_effect", "occurred_effect", "dispatch", "unknown_effect", "envelope", "plan_mode", "target"}

(* These raise where there is no ledger, envelope, plan or transition yet.  *)
Late == {"admitted", "unknown_admission", "envelope", "plan_mode", "target"}

(* Of the kinds that do the same before a commit, one.                      *)
Synonyms == {"dispatch", "possible_effect", "approval_subject"}

RetryInjections == [seam : {"initial", "retry", "pre_commit"}, kind : Kinds \ Synonyms]
                   \ [seam : {"initial"}, kind : Late]
EffectInjections == [seam : {"pre_dispatch", "post_execution", "final"}, kind : Kinds]

(* Two changes in one run: between calls, and at the seams they pass.       *)
StagedInjections ==
  [seam : {"idle"}, kind : {"plan_approval", "human_reserved", "authority"}]
  \cup [seam : {"retry"}, kind : {"possible_effect"}] \cup [seam : {"pre_commit"}, kind : {"definition"}]
  \cup [seam : {"pre_dispatch"}, kind : {"plan_mode", "grant_unknown"}]
  \cup [seam : {"final"}, kind : {"observation", "human_reserved"}]

StagedRequests == {RequestOf(1, "EXPLICIT_PLAN", "REVIEW"), RequestOf(0, "EXPLICIT_PLAN", "REVIEW")}
StagedFaults == {NoFaults} \cup {[NoFaults EXCEPT !.defects = <<d>>] : d \in {"target", "infeasible"}}
StagedGrants == {DefaultGrant}

NoActionRequests == {}
=============================================================================
