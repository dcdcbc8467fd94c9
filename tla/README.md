# Verification project: GSRR agent harness, slice 01

This directory models `src/gsrr_slice01` of the repository: a harness that lets
a planner propose how a document is moved from `DRAFT` to `REVIEW`, lets a
capability carry the plan out once, and moves the *authoritative* state only
when independent evidence shows that exactly the approved effect happened. The
models are translated from the source; the documents under `specification/`
and `docs/` are quoted only where the code does something else.

## Inventory

The program is one process and one thread. A `SliceRuntime` object is the
scope of one operation: a caller makes synchronous calls on it (`run`,
`prepare`, `realize`, `admit`, `dispatch`), one at a time. What makes it hard is
not threads but

* the outside world, which may change the authority, the document, the grant,
  the definition or the runtime's own records at six named *seams* between the
  reads of a call (`inject`, runtime.py:100): `initial`, `retry`, `pre_commit`,
  `pre_dispatch`, `post_execution`, `final`;
* partial failure at every retention and publication step;
* a handler whose requests and report cannot be trusted;
* callers that repeat calls in any order, with the same keys or new ones.

| Component (source) | State | Operations | Talks to | What makes it correct |
|---|---|---|---|---|
| Contracts (`contracts.py`) | none | `RetryPolicy.valid` | everyone | an invalid policy is never used as a budget |
| Supervisor (`retry.py`) | attempts, scope ledger, failure evidence, schedules, effect posture | `start`, `bind`, `fail`, `admission`, `successor` | called by the runtime, which also writes the posture and (at a seam) the admission | one chain of attempts within the budget, terminal attempts immutable, a closed scope stays closed |
| Provider and capability (`fixture.py`) | the document, the action log, the one invocation | `open_interval`, `apply`, `close_interval`, `observe`, `external_change`; `invoke` | called by the runtime; handlers only return requests | the log is a continuous history of the one invocation, attribution is true |
| Governance (`governance.py`) | none | `grant_check`, `envelope`, `build_instruction`, `validate_plan` | called by the runtime and reconciliation | only an exact plan under a valid grant passes |
| Reconciliation (`reconciliation.py`) | none of its own | `reconcile`, `project` | reads provider and aggregate, publishes to the journal, stops the runtime | a projection is earned by evidence, never by a report |
| Runtime (`runtime.py`) | the approved basis, plans and validations, commit, index, claims, results | `prepare`, `realize`, `admit`, `dispatch`, `run` | all of the above | at most one commit, one invocation, one projection; duplicates change nothing; every non-success is terminal |
| Journal (`journal.py`) | aggregate: authority, records, events, outcome slots | `retain`, `event`, `reserve`, `publish` | called by everyone | records immutable, one decision per slot, publication in one assignment |
| Examples, package entry | none | | | not modelled |

## Modules

| Module | Models | Extends |
|---|---|---|
| `Contracts` | enumerations, `None`, retry policy and its validity | |
| `RetrySupervisor` | the supervisor under any caller, one action per operation and per return of `successor` | `Contracts` |
| `RetrySupervisor_proofs` | the inductive invariant and the theorems | `RetrySupervisor`, TLAPS |
| `Governance` | the decisions of `governance.py` as operators | `Contracts` |
| `EffectProvider` | the provider under any handler | `Contracts` |
| `EffectProvider_proofs` | its inductive invariant and theorems | `EffectProvider`, TLAPS |
| `Reconciliation` | `reconcile()` as operators, one per finding | `Contracts` |
| `SliceRuntime` | the composition: calls, seams, and one step per stretch of code between them | `Governance`, `Reconciliation`; instances of `RetrySupervisor` and `EffectProvider` |
| `SliceRuntime_proofs` | the runtime's inductive invariant, one lemma per action, and its invariants | `SliceRuntime`, TLAPS |
| `SliceRuntimeSteps_proofs` | its action properties, and the refinements of `RetrySupervisor` and `GovernedTransition` | `SliceRuntime_proofs` |
| `GovernedTransition` | what the runtime promises about authority and document, in six actions | `Contracts` |
| `Journal` | the journal, one action per operation and per call `project` makes | `Contracts` |
| `Journal_proofs` | its inductive invariant, the theorems and the refinement of `RunHistory` | `Journal`, TLAPS |
| `RunHistory` | what the record of a run promises, in four actions | `Contracts` |
| `SliceTrace` | the runtime with the events its steps append, in the code's order | `SliceRuntime` |
| `SliceTrace_proofs` | that a step that reports is a step of the runtime, and the refinement of `RunHistory` | `SliceTrace`, `SliceRuntimeSteps_proofs` |
| `SliceTraceEnds_proofs` | that the trace ends an attempt exactly when the supervisor does | `SliceTrace_proofs` |
| `SliceTraceCauses_proofs` | that the trace explains commits, projections, successors and outcomes | `SliceTraceEnds_proofs` |
| `MCRetrySupervisor`, `MCEffectProvider`, `MCSliceRuntime`, `MCJournal`, `MCSliceTrace` | instances for TLC | |

### How the runtime corresponds to the code

`pc` is `"idle"` between calls, otherwise the stretch of code a call is in;
a `pc` with the name of a seam is the point where `inject(seam)` runs. `Inject`
may fire there before the step that leaves it, and only on the first visit of the
seam, as each configured injection fires once. The code fixes the injections
when the runtime is built and fires them in order; the model chooses them when
they fire, which gives the same behaviours. A call that returns sets `ret` to
the `RunResult`; a call that raises is one whose action is not enabled, except
that an exception which leaves something behind is a step: `LoseIntent`, where
`retain` refuses the identity of the intent after the attempt was started, and
`RaiseDispatch`, where `dispatch` has run its seam and then finds no plan to
compare with (planning again, under the same commit, failed). Identity 0 stands
for the identities the journal refuses.

Between calls a caller may drive the stages of `realize` by hand, as the tests
do: `CallBuild`, `CallValidate` and `CallAdmit` (grouped as `Staged`), and the
evidence may be replaced: a seam `"idle"` is an injection point that the code
leaves to its caller (`runtime.grant = ...`). `CallValidate` takes any plan there
is, as retained or as a seam left the current one; `validate_plan` compares it
with the retained one first. `admit` makes no freshness check,
so `CallAdmit` makes none; the checks of `dispatch` follow.

| Code | Actions |
|---|---|
| `run` | `CallRun` (lookup, refused scope reset, or a started scope) |
| `prepare` | `CallPrepare`, `HoldIntent`/`LoseIntent`/`StructureIntent`, `MissInitialState`/`ReadInitialState`, `RefuseWhat`/`ApproveWhat` |
| `realize` | `CallRealize`, `FailToPlan`/`AcceptPlan`/`RefusePlan`, `RequestSuccessor`, `HoldCommit`/`FailToAdmit`/`Admit` |
| `build_instruction`, `validate_plan`, `admit` by hand | `CallBuild`, `CallValidate`, `CallAdmit` |
| `dispatch` | `CallDispatch`, `RetrieveDispatch`/`BeginDispatch`, `RaiseDispatch`/`RefuseDispatch`/`HoldDispatch`/`Invoke`, `ApplyRequest`, `CompleteExecution`, `RecordExecution`, `ReconcileEffects` |
| `project` | `LoseOutcomeSlot`/`ReserveOutcomeSlot`, `SettleNonSuccess`/`SettleSuccess` |
| `inject` | `Inject` |

Supervisor and provider are instances: a step of the runtime conjoins the action
of the component it calls, so their guards and effects are those of the modules
that are checked (and proved) on their own. `bind` itself checks only that there
is an attempt and no ledger (`Bind`); that the attempt is open is its caller's
doing, so it is the guard of `CallBind`, the form in which the supervisor's own
run calls it, and the refinement shows that `prepare` never binds otherwise.

### How the journal and the trace correspond to the code

`Journal` has one action per operation of `journal.py`, called by anyone in any
order. A reference is a name the caller brings along (a rule, a grant, an
intent) or the serial number `new_id` drew; the code's drawn identities carry
the run and a kind and so never equal a name, which `NamesAssumption` states.
`event` comes in two forms, with an identity drawn before (`EmitDrawn`, used by
`admit` and `dispatch`) or by the call (`EmitNow`). `Reserve` and `Publish` are
the operations as they stand: `reserve` checks no more than `retain` does, so a
reference that names a slot already would name a second one, and `publish` takes
whatever event it is given. Both have one caller, `project`, which
draws the identities of slot, decision and event in the statement before it uses
them and passes no event only after it has withdrawn a projection; `ReserveDrawn`,
`PublishRecorded` and `PublishUnavailable` are its calls, and the only ones in
`Next`. What the journal promises of slots it promises to this caller.
Operations that raise change nothing and are not enabled.

`SliceTrace` conjoins to every step of the runtime the events it appends. The
trace is a history variable, no step reads it, so the behaviours are the
runtime's. An event keeps its reporter, type, attempt and outcome: identities,
sequence numbers and causation are properties of `Journal`. The plans made by
hand report nothing and stay with `runtime_staged`, as does `CallAdmit`, whose
one event is `Admit`'s.

Both implement `RunHistory`: the journal for any caller of `retain` and `event`,
and the runtime with the trace. So what the abstract history promises (a trace that only grows, slots
decided once, authority that moves only with its decision and its event) holds at
both levels, and every other move of the authority is counted as outside.

### What is abstracted

Identities are positions: an attempt, plan, validation or commit is the number
it was created under, and the commit's number is its invocation's and its
writer's name (0 is the unrelated writer). References that can only be compared
with themselves within one runtime (transition, approval, snapshot and evidence
ids, the capability descriptor) are left out. A definition is its version. The
comparisons of a grant with fixed identities are one Boolean, `scoped`; so are
the type tests of a policy, `typed`. Fixture faults that lead to the same return
are one switch (`insufficient`, `unselectable`, `substituted`). In
`SliceRuntime` the aggregate is its authority and its outcome slots; records and
their references are `Journal`'s. The fields of an event other than those above,
read counters and JSON evidence are not modelled.

## Runs

| Run | Bounds | States | Shows |
|---|---|---|---|
| `supervisor` | budgets and thresholds to 3, every kind of policy | 11136 | the supervisor's five invariants and two action properties under any caller |
| `provider` | 3 requests of each kind, versions to the bound of the cfg, 2 commits | 66015 | the log and attribution properties under any handler |
| `runtime_retry` | 4 policies and none, 2 grants, 20 faults, 3 requests, 2 keys, one injection of any kind at any of the first three seams | about 116 000 | types, `SingleAdmission`, `NonSuccessIsTerminal`, that the runtime implements the supervisor, and that every call returns |
| `runtime_staged` | 1 key, a defective plan or none, 2 plans and 2 validations by hand, 2 requests (one of them refused by the journal), two changes in one run out of nine, between calls and at four seams | about 1.7 million | `SingleAdmission`, `IncompleteMeansUninvoked`, `ApprovalNotTransferred` and `TransitionGoverned` when the stages are driven separately |
| `journal` | 1 name, 2 values, 4 identities, 1 change from outside | about 508 000 | the journal's four invariants, `EvaluatedOnce` among them, `RecordsImmutable`, and that it implements `RunHistory` |
| `trace_retry` | as `runtime_retry` with two injections and an intent the journal refuses | about 517 000 | `TerminalReported`, `SuccessorExplained` |
| `trace_effects` | one policy and none, 2 grants, 53 fault settings, both modes, 2 keys, one injection at any of the last three seams | about 1.2 million | `ProjectionIsEarned`, `PostureCoversEffects`, `OneOutcome`, `RealizationIsFinal`, `CausesReported`, `OutcomeReported`, and that the runtime implements `GovernedTransition` and `RunHistory` |
| `find_replay`, `find_known_key`, `find_reserved`, `find_intent` | no fault, at most one injection | | one counterexample each, see below |

Three attempts are enough for a middle one, a first and a last; two keys for a
retained and a new one. One injection is enough to put every kind of outside
change at every seam; `trace_retry` and `runtime_staged` combine two. Two plans
and two validations by hand are enough for a validation of the other plan, of
the same plan again, and of a plan of an earlier attempt; `MaxStaged` is 0, and
`Staged` disabled, in the other runs of the runtime. Four identities are a slot,
a decision, and an event before and at its publication.
The longest handler is two requests in the composition and three in the
provider's own run. `MaxVersion` bounds only unrelated writes, which no
run here reaches. `MaxActions` bounds the provider's log in its own run.
Deadlock is checked everywhere: an idle runtime always answers a call.

**Fairness.** `SliceRuntime!Spec` assumes `WF_vars(Step)`: the code of a call is
straight-line Python that runs once it is called. Callers and outside changes
are not fair. `CallReturns` rests on nothing else; it would fail if the retry
loop did not end, or if a step of a call could be reached with no way on (a second
`open_interval`, say, which raises).

**The abstract specification.** `GovernedTransition` knows only the authority,
the document, whether the evidence in force permits the transition, the basis
that was approved, and a stage. `Invoke` needs the basis unchanged and the
permission in place; `Publish` needs the authority as approved, the document
exactly one realized step from the approved one, and the permission. `Choose` is
the choice of another plan before the invocation: it may change whether a
plan-bound approval permits the transition, and nothing else. Everything else is
`Outside`, and `Outside` is counted: the mapping takes the count from
the fired injections, so no step of the runtime itself can pass for an outside
change. The stage is read off the projection, the provider's invocation count
and the envelope.

## Disagreements between code and documents

1. `find_replay`. A hold at `pre_dispatch` leaves the key unclaimed. A second
   `dispatch()` is then not a lookup: it finds the attempt terminal, stops with
   `FAIL_NONRETRYABLE` and rewrites the retained hold (runtime.py:479,
   531-535). contracts.md:666 has a retained incomplete attempt return its held
   state.
2. `find_known_key`. `realize(key)` does not consult the index. With the key
   of a projected commit it plans and validates again, fails freshness at
   `pre_commit` and ends the successful attempt. contracts.md:662 and
   requirement S01-R10 have the key looked up before fresh reads. (Nothing is
   invoked or published again: `RealizationIsFinal` holds.)
3. `find_reserved`. A human reservation found by the final check becomes
   `DO_NOT_PROJECT` with control `FAIL_NONRETRYABLE` (reconciliation.py:147,
   203). contracts.md:614 distinguishes it from a plain failure, as the code does
   at every other check.

4. `find_intent`. `prepare` starts the attempt before it retains the intent
   (runtime.py:221, 233). An empty or colliding identity raises there, and no
   later call ends the attempt. Requirement S01-R21 has every non-success
   attempt terminal, with its evidence.

## What is proved

**The supervisor.** In `RetrySupervisor_proofs`, for every set `Policies` of retry policies
(`PoliciesAssumption`) and a `None` that is none of the values it is compared
with (`NoneAssumption`). TLC evaluates both assumptions in the `supervisor` run.

The properties are not inductive on their own. `AttemptBudget` needs to know
that the ledger counts the attempts, and that the earlier attempts failed with
the one eligible class (otherwise the threshold, which counts failures of the
*current* class, says nothing of the length of the chain). `IndInv` therefore
conjoins type correctness, ledger agreement, lineage, the domain of the
schedules and the justification of successors (a chain longer than one exists
only under a valid, enabled policy whose identity the ledger kept). Each
operation is one lemma; `Inductive` puts them together, the invariants follow
by implication, and the two action properties from the invariant and the
lemmas' cases. `RuntimeDrivesSupervisor` (below) carries these theorems over to
the attempts of a runtime.

**The journal.** In `Journal_proofs`, for every set of names disjoint from the
identities (`NamesAssumption`), every set of values that are not decisions
(`ValuesAssumption`: only `publish` retains one) and every bound
(`BoundsAssumption`), with a `None` that is no decision (`NoneAssumption`).
`RecordsStep` (no action drops or replaces a record) needs no invariant and gives
`RecordsImmutable`; it also carries the other parts over each step. `IndInv` is
the conjunction of the four invariants with two facts that no code checks and
that follow only from where identities come from: no two slots share a reference
(`SlotsDistinct`: a reference just drawn is retained nowhere, `NextIsFree`, and
every slot's is), and a retained decision names a retained slot
(`EvaluationsNamed`). `EvaluatedOnce` needs both: a publication retains one more
decision, and it is the slot's first only because the slot was open, and of no
other slot only because no other has its name. The event that reports a
publication refers to retained records for the same reason, and the authority
counts the projected slots because exactly one slot is completed. The refinement
`HistoryImplemented` maps the slots to their decisions: `Publish` is `Decide` of
the one open slot, `ReserveDrawn` appends `None`, both event forms are `Enter`, and
what is retained stutters.

**The provider.** In `EffectProvider_proofs`, for every set of requests whose
values fit their kind (`RequestsAssumption`) and every bound. `AllowedAtMostOnce`
and `WriterIsTruthful` quantify over the whole log and are not inductive: `IndInv`
adds that the log's versions advance up to the document's (`VersionsAdvance`),
that an applied action advances by one and is signed (`AppliedIsSigned`), and
what an unopened interval looks like (`OneInvocation`).

**The runtime.** For every set of policies, grants, faults, requests, keys and
injections, and every bound, that fits the types the code declares
(`RuntimeAssumption`), with a `None` that is none of the values it stands in for
(`AbsenceAssumption`).

*The invariant* (`SliceRuntime_proofs`). None of the runtime's invariants is
inductive: each rests on how far the code has come. `Inv` says, per place of the
code (`pc`), what exists by then:

| Part | Says | Needed because |
|---|---|---|
| `SupervisorOK` | the supervisor's types, no schedule beyond the last attempt, nothing bound before an attempt | every stop ends the *current* attempt, every bind opens the ledger of one |
| `BuiltOK` | faults and grant in their types, the fired injections finite | the handler's requests are typed, injections can be counted |
| `BasisOK` | the basis exists before the envelope, envelope and ledger come together | a freshness check reads all of them |
| `PlansOK` | plans and validations are found under their identity; a current plan is a retained one | a plan may be replaced, mutated by a seam, or built by hand |
| `CommitsOK` | `SingleAdmission`, the index knows exactly the committed keys, a claim is of one of them | the ledger's admission closes the only way to a second commit |
| `ControlOK` | what each `pc` relies on: open attempt, envelope, plan, validations | the guards of the code do not repeat it |
| `StageOK` | before the claim nothing of the realization exists (`Untouched`); after it, what exists says where the realization stands (`Realized`) | dispatch may be called again at any time |
| `EndedOK` | an attempt that ended without a projection has a control that says why | `stop` may be called twice |
| `EffectsOK` | document versions only grow, so a document at the baseline's (or the last logged write's) version is that very document | the code compares a few fields and concludes the whole |

Every action has a lemma; parts it does not touch are carried by a frame lemma.
`Inductive` puts them together and gives `TypeCorrect`, `CommitsOnce`,
`IncompleteNeverInvoked`, `EffectsAreCovered` and `OutcomeIsOne`.

*The steps* (`SliceRuntimeSteps_proofs`). `OnlyInvokeInvokes` and
`OnlySettleProjects` say which step invokes and which publishes, and under which
check; from them and the invariant:

* `RuntimeDrivesSupervisor`: every step is a step of `RetrySupervisor` or leaves
  it alone. The supervisor's budget, lineage and finality theorems therefore
  hold of the attempts of a runtime.
* `ApprovalStays`: `ApprovalNotTransferred`, since the plan the check asks about
  is the committed one.
* `ProjectionEarned`: adds `ReconciledOK`, the evidence a reconciled success was
  decided on, which must survive until the publication; the final check then
  finds the log and the document of that evidence.
* `RealizationStays`: once the claim has its result, every way back into the
  code is an answer, or a plan that can no longer be admitted.
* `NonSuccessEnds`: adds `ReturnsOK` (a caller who was answered finds the attempt
  over), and `PlanlessOK` for the dispatch that raises: a commit is left without a
  plan only by ending the attempt, and a successor is never asked for without one. It assumes that no request has an identity the journal refuses: `find_intent`
  is the counterexample without it, and `trace_retry` runs with such requests.
* `RuntimeIsGoverned`: the refinement of `GovernedTransition`. `ApproveWhat` is
  `Approve`, `Invoke` is `Invoke`, `ApplyRequest` is `Effect` or changes nothing,
  the publication that projects is `Publish`, each `Inject` is one `Outside`, and
  all the rest is `Choose` or a stutter (`Unmoved`).

*The trace* (`SliceTrace_proofs`). The trace is a history variable: `TraceNextIsNext`
shows that a step that reports is a step of the runtime, so `Inv` and every theorem
above hold of it. `TraceInv` adds that the events are a sequence of typed events,
which is what makes appending to it `Grown`. `RunHistoryKept` then maps
`ReserveOutcomeSlot` to `Reserve`, the two publications to `Decide` of the one slot
there is (`StageOK`), an injection that moves the authority to `Outside`, and every
other step to `Enter`. The authority moves in a publication only when
`projection` is written and not failed, and that is when its event is appended.

*The end of an attempt* (`SliceTraceEnds_proofs`). `TerminalReported` speaks of every
attempt and of the order of events, but a step touches only the current attempt and
appends a short list. `Told(new, ends)` describes a step by that list: no attempt is
dropped, none ends but the current one, and it ends exactly when the last event of
the list says so; every other event is `Harmless` (it ends nothing, and resumes no
attempt that has ended). `ToldKeeps` shows once that telling so keeps the trace true,
and one lemma per group of steps shows that it tells so. A publication that projects
resumes an attempt that must still be open: `OpenOK` says that a realization keeps its
attempt open until its execution fails, and it needs the pc and the execution together.

*What the trace says of the work* (`SliceTraceCauses_proofs`). `CausesReported` looks
back from an event over the whole trace; it is inductive only with `BackedOK`, which
says what the trace already holds when the code is somewhere (`pre_commit`: a plan that
passed for this attempt) or something exists (an envelope, a commit, an execution, a
reconciled success). Lists are shown caused from their front, event by event.
`SuccessorsAreExplained` adds that every attempt but the first is explained by four
events of the trace (`Explained`), which stays so as the trace grows; for the attempt
just granted, `EndsOK` gives the end of the one before it, and `UncommittedScope` that
nothing was committed: the ledger still says so, and `BackedOK` ties the commit to its
event. `OutcomesAreReported` adds `DecidedOK`, the projection and its report; a decision
whose event was lost is explained by the end of its attempt (`EndedOK` and `EndsOK`).

TLC evaluates the assumptions in `supervisor`, `journal`, `provider` and the
runs of the runtime.

**Only model-checked.** `CallReturns`: liveness under fairness is beyond the prover.
Every other property of a passing run is a theorem, `NonSuccessIsTerminal` under the
hypothesis above.

## Plan

Done: every module above, and every safety property of the runs proved. Next:

1. The supervisor's budget, lineage and finality as theorems stated of the runtime's
   own attempts, from `RuntimeDrivesSupervisor`.
2. What a grant, a plan verdict and a reconciliation allow, as lemmas about the
   operators of `Governance` and `Reconciliation` (the first two are used unfolded in
   `SliceRuntimeSteps_proofs`).

## Not modelled

`plain` (JSON evidence), `artifact_types`, read counters, event wording and the
fields of artifacts no decision reads: they change no state and carry no
control. The examples are two scripted calls whose behaviours the runtime's runs
contain. The package entry is a docstring. The tests that call `supervisor.fail`
and `supervisor.successor` on a runtime by hand are covered by `supervisor`,
which lets any caller do so, not by the composition.
