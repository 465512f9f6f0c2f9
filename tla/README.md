# A TLA+ model of kairos-aggregator

TLA+ modules for the two services of this repository and its two qualification
harnesses, the TLC runs that check them on small instances, and TLAPS proofs of
their main safety properties for every instance. File and line numbers refer to
`kairos_aggregator/` unless another directory is given.

## 1. The system

| Component | State | Operations | Talks to |
|---|---|---|---|
| **Candidate review service** `candidate_service.py` | `system_mode`, six bounded caches (route digests by route id and by message id, cutoffs, contexts, processed routes, unpublished reviews), one `asyncio.Lock` | a consumer per stream: four evidence streams, control, routes; `_review_route` under the lock | calls the store and the brain; publishes `DECISION_CONTEXT`, then `CANDIDATE_REVIEW`; acknowledges |
| **Candidate review brain** `candidate_review.py` | none | `review_with_context`: checks before the call, `gateway.complete`, checks after it, conflict guard; `deterministic_defer` | the model gateway |
| **Context store** `decision_context.py` | `_entries`, `_digests`, `_bar_slots` (bounded), `quarantined_kinds` | `ingest`, `build`, `integrity_error`, `require_retained_observation` | called by the service between two awaits |
| **Aggregator service** (legacy DRY_RUN path) `service.py` | `system_mode`, seven bounded caches (snapshots and seen ids, signals and heard ids, waiting decisions, processed decisions, unpublished commands) | four consumers; the three evidence and control consumers also retry the waiting decisions | calls the compiler and the brain; publishes `TACTICAL_COMMAND`; acknowledges decisions from any task |
| **Tactical brain** `decider.py` | none | `decide`: call, validate, entry threshold, safe command | the model gateway |
| **Compiler** `compiler.py` | none | calibrated text bias; prompt context | - |
| **Settings** `config.py` | constants | - | read by all |
| **Qualification harnesses** `shadow_qualification.py` (V1), `context_qualification.py` (V2) | observations, a report file | check the command line and the corpus; for every case make a new candidate service, feed it sources and the route, judge its review; write the report; exit code | the candidate service with a capturing bus; a scripted, synthetic or real gateway; the file system |
| Prompts, corpora, entry points | constant data | - | - |
| Bus, gateway, outbox (`kairos_core`, `kairos_llm`, `kairos_persistence`) | not in the repository | at-least-once delivery, publication, acknowledgement, paid calls | both services |

Each service is one asyncio process: between two `await`s a handler runs alone,
at an `await` any other ready callback may run. What is hard follows from that:

- **state used across an await**: mode, quarantine, freshness and time to live
  are read before a publication or a model call and used after it;
- **retries**: a failed publication or acknowledgement brings the message back,
  the model has been paid, the answer is in a bounded cache;
- **bounded caches that must agree** (content and digest, bar and slot, cutoff
  and context, context and review, snapshot and seen id) and are evicted apart;
- **causality**: evidence must not enter a cut because it, or the route, came
  late, and the wall clock may be set back;
- **several tasks on one decision** in the legacy service;
- **restarts**, which lose every cache but not the streams;
- **state shared between cases** of a harness run, and a **report file** that other
  processes may write, while calls fail, processes are killed and power is lost.

What makes each component correct:

- the *store*: a first receipt is never rewritten, conflicting identities never
  both serve as evidence, a cut shows exactly what was declared and cited and
  does not change once its time has passed;
- the *candidate service*: an acknowledged route has been answered, a delivered
  model verdict stands on a delivered, causal, complete and fresh context, in each life
  of the process a route has one cut and one review, and one paid call unless its
  evidence opposes it, and every route settles;
- the *legacy service*: an acknowledged decision has been answered, the model is
  asked only about the exact cited evidence in a mode that allows it, commands
  are coherent, retained evidence is known evidence, every decision settles;
- the *harnesses*: a case whose evidence is withheld, stale or late fails closed
  whatever ran before it, a complete case asks exactly once, V1 never asks, the
  run ends, and its report is at every moment absent or whole;
- the *caches*: they hold at most their limit and evict the oldest key.

`PROJECT.json` lists the components with their status and, under `hazards`, each
of these difficulties at the line where it bites with the properties that cover it.

## 2. Modules

```
BoundedCache ---- CandidateContextStore ---- CandidateReview --- ReviewRefinement --- MCReview, ReviewRefinementProofs
   |    |               |          |               |     |             |
   |    |             MCStore      |               |     |       ReviewContract (INSTANCE)
   |    |                  ...StoreProofs -- CandidateReviewProofs -- CandidateEvidenceProofs
   |    |                                                |
   |    |                                          Qualification --- MCQualification, QualificationProofs
   |    |                                                |
   |    |              AtomicReport (INSTANCE) --- ReportFile --- ReportFileProofs
   |    +-- BoundedCacheProofs
   +---- AggregatorService (with TacticalDecider) -- MCService, AggregatorServiceProofs
```

**`BoundedCache`** A cache is a function from keys to `[age, value]`; ages are
gapless and the key of the highest age is the one `popitem(last=False)` takes.
`Remember` is assign + `move_to_end` + evict, `Insert` is a plain assignment +
evict, `Discard` is `pop(k, None)`.

**`CandidateContextStore`** `entries`, `digests`, `barSlots`, `quarantined` are
the four fields of the store, `now` the wall clock. A delivery is a record that
stands for its canonical content: equal records are equal hashes. `ingest` is one
of `IdentityConflict`, `BarConflict`, `Accept`; a delivery that none of them
takes is one the code rejects or ignores with nothing changed. `Build` is
`build`: `Snapshot` for market and macro, `ClosedBars` for the declared tail
(with the dict comprehension's choice between two deliveries of one bar),
`CitedText` for the cited ids; an unavailable source is the empty set.
`RetainedObservation` is `require_retained_observation`, a set of at most one.

**`CandidateReview`** EXTENDS the store with the service and its brain. `pc[h]`
says at which await a call of `_handle_route` is suspended (`waiting` for the
lock, `sendContext`, `model`, `resendContext`, `sendReview`, `acking`); in
`admitted` it holds the lock and runs without an await, so no other callback may
run (`LoopFree`). From `admitted` one of eight steps runs `_review_route` up to
its next await: `RejectReused` (line 167), `SkipProcessed` (171), `RefuseCached`
(176-179), `ResendCached` (180-182), `DeferUnseen` (187-206 and 225-247 with no
context), `Capture` (206-222), `Recapture` (a retry with its context, 222).
`DeferAfterContext` and `Dispatch` are lines 223-234 and the checks of
`_review_prepared`; `ModelReturns` is everything from the gateway's answer to the
next publication, and `AnswerLost` the answer that never gets there: an opposed
`ALLOW` with eight reason codes, to which the guard adds a ninth outside the `try`
(`candidate_review.py:342-347`), so that a `ValidationError` leaves the handler with
nothing cached. `Return` and `Raise` leave the lock; only `Return` leads to the
acknowledgement. `AdmissionReason`, `StartReason` and `FinishReason` are the
ladders of reasons, in the order of the code.

**`ReviewContract`** is the abstract specification of the candidate service: per
route a stage (`open`, `cut`, `asked`, `decided`, `done`), one owner message, one
cut and one verdict, no locks, caches or handlers. A cut is frozen before it is
shown and asked about, a model's verdict needs an asked question and stands on that
cut, the answer about a cut that opposes its route may be lost (`Lose`), which
leaves the route as it was before the question, a verdict may be given more than
once but does not change, and only a settled route is acknowledged; `Die` forgets
everything except what was published and paid. A question is counted as it is asked;
once an opposing cut of the route is shown the contract no longer insists on the
count. **`ReviewRefinement`** maps the runtime to it: the stage is read from the
caches the code decides by (`_processed_routes`, `_review_cache`, `_context_cache`)
and from who is at the model. `MeetsContract` is the contract under that mapping. It
holds as long as no cache is full, which is what `MCReviewOnce` and, where answers
are lost, `MCReviewLive` check and `ReviewRefinementProofs` proves; `MCReviewStuck`
and the notes below say what happens when one is.

**`TacticalDecider`** The validator of `TacticalModelOutput`, the entry threshold
and the safe command.

**`AggregatorService`** One `pc`/`job` per consumer task. `SnapshotArrives`,
`SentimentArrives` and `ControlArrives` are the handlers up to
`_retry_pending_decisions`, which copies the waiting decisions into the task's
queue; `DecisionArrives` is the router's envelope. `Skip`, `Resend`, `Postpone`,
`Abstain` and `Ask` are the outcomes of `_handle_router` up to its first await;
`RouteIssue`, `SnapshotIssue`, `TooMany`, `SentimentIssue` are its checks by the
evidence they look at, `Waits` the conditions of the two `_defer` calls and
`Sound` that no check speaks against the decision. A publication that fails
inside a retry ends the whole loop (`PublishFails`), as the exception does.

**`ReportFile`** is `_write_report`, the same code in both harnesses, with a step
per system call: `Refuse` and `Check` (lines 558-559 of V1), `Create` (560-565),
`Write` (567-569), `Sync` (570), `Rename` (571), `CleanUp` (the `finally`, 572-573).
`CallFails` raises from any of them, a failed write leaving a part of the report.
Several processes write to one path; `Kill` and `PowerLoss` come at any point. A
file is its content (`none`, `part`, `all`) and whether it was flushed; `onDisk` is
what the directory entry on disk names: a power loss goes back to it, and a file
that was never flushed loses a part. **`AtomicReport`** is what a reader of the path
may see: nothing or one whole report, changed only by a publication or a power loss.

**`Qualification`** EXTENDS `CandidateReview` and `ReportFile` and adds the harness.
`RefuseRun` and `StartRun` are the gates of `_run`; `BeginCase` makes the service,
`FeedTaken` and `FeedRefused` are one awaited handler each, `GiveRoute` calls
`_handle_route`, `Serve` are the steps of `CandidateReview` up to its return,
`Judge` compares the one published review with the case, `Conclude`,
`PublishReport` and `Finished` write the report and choose the exit code. Both
harnesses are one module because they differ in data: V2 has all four sources, a
fixed clock, and tolerates the refusal of a text; V1 has texts only, a moving
clock, a command line and perhaps a real gateway, which may answer anything. The
service of a case is made by `CandidateReview!NewService`, the constructor that a
restart runs as well.

**MC modules** give the constants values.
**Proof modules** hold the theorems of the module they are named after.

### Abstractions

- Times are small numbers; `ttl_ms` and the rest are compared the way the code does.
- A payload is what the properties tell apart: identity, kind, symbol, times,
  bar digest, and a `body` that makes two contents differ. A defect (malformed,
  out of scope, refused as a receipt) is a label on the delivery.
- `TextScore` gives the sign of a material text score; the arithmetic itself is
  in `AggregatorService!CalibratedBias`, in integers, so that the order of
  summation and the rounding of floats are not represented.
- A message that fails validation is not delivered to `_review_route` or the
  legacy handlers: it raises before any state changes.
- A context the store built is taken to validate for its route, a built review not
  to have mutated its intent, and the `CandidateReviewV1` contract, which is not in
  the repository, to accept what line 349 of the brain builds. `BuildMayFail` lets
  the contract refuse a context when it is built.
- A model answer is an exception, an unusable result, or a decision; of its reason
  codes only their number matters, and only where the guard adds one: `fullAllow`
  is an `ALLOW` with eight codes other than the guard's. The scripted gateways of
  the harnesses give one code, so that no answer is lost there.
- A declared tail is a set of digests: one declared twice is declared once.
- `LoopFree` forbids other callbacks between two awaits, not the clock.
- The legacy `_snapshots` (by symbol) and `_sentiments` are written and never
  read and are left out.
- The cases of a corpus, which the code moves a minute or a millisecond apart, are
  laid over one another: all routes have one `routed_at`. Cases then share message
  identities, which makes leaks between them visible rather than hiding them.
- V1 takes the flags for macro and text context from its settings (both `False` by
  default), V2 sets both. The run sets both: V1 has neither market snapshot nor
  bar, so that no context of it is complete in either case.
- A model case costs one reservation; `HardMaximum` and the planned cost count
  them. Amounts of money are not modelled.
- The durable outbox behind Redis (`README.md`, "Runtime delivery durability")
  is not in the repository. A publication is delivered, or raises and may have
  been delivered all the same.

## 3. Runs

Deadlock is checked in the run of the store. The runs of the services set
`CHECK_DEADLOCK FALSE`: with a bounded clock and finitely many messages the
system really ends once everything is acknowledged.

| Run | Question | Bounds that matter |
|---|---|---|
| `MCStore` | pairs stay paired, receipts stay, cuts are exact and stable, the lookup agrees, conflicting bars never serve together | 15 deliveries of all kinds, half of them to be refused; size 2, so almost every arrival evicts, while the two slots fit; clock set back |
| `MCReviewClock` | grounds and dates of reviews | clock 0..3 set back at any point; route early, in its window, late; market evidence expires after one tick; a conflict route with `CONFLICT_SAFE` on and off |
| `MCReviewOnce` | in each life one cut, one review, one call where nothing opposes the route; acknowledged only after a review; does the runtime implement `ReviewContract`? | two handlers, one route id sent under two message ids, a context the contract may refuse, every failure, one restart at any point; caches never fill |
| `MCReviewLive` | conflicts at the answer, opposed verdicts, lost answers: does the runtime still implement `ReviewContract`, and does every route settle? | a conflict route that cites an opposing text, a conflicting snapshot at any await, a clock that passes the deadline; every answer, those the guard loses among them, and every failure; fairness as below |
| `MCServiceEvidence` | what the model is asked about, in which mode, and what a command may be | four modes at any await, a signal that may be younger than the snapshot, skew 1, clock 0..1; seven answers around the validator and the threshold |
| `MCServiceLive` | is retained evidence known and fixed, an acknowledged decision answered, the model asked at most once per task, and does every decision settle? | all caches of size 1, two signals, a snapshot id reused one tick later, evidence that may never come or be evicted, a decision that expires after one tick, one restart, all four tasks on one decision |
| `MCQualification` | do faults fail closed, complete cases ask once, does V1 never ask, is the report atomic, does a run end? | both packaged corpora case by case (times scaled), a variant of each with a vetoing model, an unopposed guard case, an untraded symbol with all its sources, repeated and contradicted evidence; nine command lines around every gate; a second process that overwrites, failing calls, kills, power loss |

One route or decision is enough for most questions because routes meet only in
the lock and in the caches: the lock is exercised with two handlers, cache
pressure in `MCReviewStuck`, where a second and a third route do nothing but
fill caches. `_consume` handles one envelope at a time, so that two handlers in
one process occur only when `_handle_route` is called concurrently; the second
handler is there to check the lock.

Each property of a passing run has a mutant in `PROJECT.json`: a plausible slip
in a mapped definition with which TLC finds the property violated. The slips are
defined beside the definitions they replace, under a comment that begins "Fault:".

### What the code does not do as documented

Five runs end in a counterexample that the code follows step by step.

| Run | Code | Statement | What happens |
|---|---|---|---|
| `MCReviewResend` | `candidate_service.py:178` | `docs/DECISION-CONTEXT-v1.md:41` | a conflict known during the context's republication does not stop the cached review |
| `MCReviewStuck` | `candidate_service.py:176` | `README.md:25-30` | a review outlives its context and is refused for ever |
| `MCStoreSlotEviction` | `decision_context.py:153` | `docs/DECISION-CONTEXT-v1.md:15` | the slot of a retained bar is evicted, a conflicting bar is accepted |
| `MCServiceTwice` | `service.py:139` | `tests/test_service.py:240`, `README.md:108` | two tasks pay for one decision and publish two commands |
| `MCReviewAgain` | `candidate_review.py:343` | `README.md:25-27` | an opposed `ALLOW` with eight reason codes raises after the paid call; the redelivery pays again |

`MCReviewStuck` and `MCStoreSlotEviction` need caches to fill and use caches of two
and three entries; the defaults are 10 000, which makes the case rare and not
impossible. `MCReviewResend` and `MCServiceTwice` need no pressure at all, only a
message at the wrong await. `MCReviewAgain` needs neither: the calls repeat with
every redelivery until the review deadline, after which the next one defers without
a call (`EveryRouteSettles` in `MCReviewLive`).

The passing runs keep clear of more limits of the code, by their bounds:

- caches of `MCReviewOnce` never fill. With `CacheSize` 1 and two routes a cutoff
  is evicted together with the context it protects and the retry publishes a
  second cut (`candidate_service.py:203`, against the comment at :204); with
  `CacheSize` 2 and three routes an unpublished review is evicted and its retry
  calls the model again (`candidate_service.py:93`, against `README.md:30`; in
  part admitted by `docs/DECISION-CONTEXT-v1.md:43-46`).
- no property says that a mode suppresses a call. The mode is read at
  `candidate_service.py:191`, before the context is published, so a call may start
  in `LOCAL_QUANT_MODE` (`README.md:142` promises more).
- the text of the packaged `future_text` case is dated at `routed_at + 1000`, which
  is the clock of the case, and `decision_context.py:104` refuses only what is later
  than the clock. The comment at `context_qualification.py:403` says that it "is
  rejected at ingestion"; it is stored, and left out of the cut because its event
  is later than the route. The verdict is the one the corpus expects, and the
  `except` branch is never taken by the packaged corpus.
- without `--overwrite`, the report path is found free at
  `shadow_qualification.py:558` and replaced at 571: of two runs that both find it
  free the second replaces the report of the first, against the message at 559
  (`ReportFile` has both steps; no property forbids it).
- whether the report may be written is found out after the run
  (`shadow_qualification.py:669-670`): a path that is taken discards the record of a
  paid run, with exit code 2.
- a selection with `--case` need not contain the required categories: that of the
  forbidden case alone ends with exit code 0 in V1, which `LegacyNeverDispatches`
  allows because no case of it is for the model.

### Fairness

`Fairness` in `CandidateReview` and `AggregatorService` is what the scheduling
gives: weak fairness of every step a handler takes by itself and of the gateway's
answer (asyncio runs ready callbacks, gateway calls time out); strong fairness of
each successful publication and acknowledgement and of the redelivery of an
unacknowledged envelope, since these are enabled again and again with failures in
between. The legacy service asks less: of all its tasks' publications, and of all
their acknowledgements, some succeed. Nothing is assumed about control messages,
evidence or restarts. Time passes: the clock is fair, because `DecisionsSettle`
rests on the decision's time to live and `EveryRouteSettles`, where the guard loses
one answer after another, on the review deadline.

`FairQualification` is weak fairness of the harness alone: the handlers it awaits
end, its gateway answers or times out (20 s, no retries, lines 593-595 of V1), and
the system calls of the report return or fail. Nothing is assumed about the other
process, the operating system or the clock, and a killed run need not end.

## 4. Proofs

Checked by TLAPS for all values of the constants under the named assumptions
(`MessagesAssumption`, `RoutesAssumption`, `SettingsAssumption`,
`ReviewAssumption`, `StreamsAssumption`, `LimitsAssumption`,
`QualificationAssumption`: types of the deliveries and ranges of the settings as
in `config.py`, plus two facts of the contracts: a bar digest determines its
symbol and slot, a route's deadline is not before its routing; and for the
harnesses, that the messages and routes are those their cases are made into).

- **Caches** (`BoundedCacheProofs`): the three operators preserve `IsCache`; the
  eviction part needs that ages are distinct and gapless, which is why `IsCache`
  says so.
- **Store** (`CandidateContextStoreProofs`): `StoreTypeCorrect`;
  `StorePairsCaches`, whose invariant is that both caches have the same *ages*,
  without which their evictions could differ; `StoreFirstReceiptWins` from it;
  `StoreLookupConfirms`; and `StoreBarsAgree`, for caches with room for every
  slot, from the invariant that every retained bar's slot is remembered with its
  digest. `MCStoreSlotEviction` shows that the assumption is needed.
  `StoreCutsExact`, for every cutoff; and `StoreCutsStable`, since a step that
  evicts nothing adds only observations received after any earlier cutoff, which no
  part of `Build` admits, and keeps the order of the others' ages, by which ties are
  broken (`EligibleKept`).
- **Candidate review** (`CandidateReviewProofs`): `TypeCorrect`, one lemma per
  group of actions; `AcknowledgedAfterReview` from `AckInv`, which adds to the
  property what the steps before the acknowledgement must have established: a
  processed route and a handler in `acking` have a delivered review, a cached
  review is of its key's route, a review in hand is of the handler's route.
- **Evidence of reviews** (`CandidateEvidenceProofs`): `GroundedReviews` and
  `DatedReviews` from `EvidenceInv`, which follows a context and a review through
  the cache, a handler's hands and the bus: cuts in the cache are their route's
  and causal, a context asked about is delivered and passed the checks at the
  start of the call, a review in the cache or in hand is already sound. It holds
  for any cache size, any number of handlers and restarts and a clock that may be
  set back. `NoVerdictOverConflict`: only `ModelReturns` takes a handler from the
  model to the publication of a new review, and it looks for known conflicts after
  its last await, so that however late one comes it is in the review or after it.
- **Route contract** (`ReviewRefinementProofs`), for any number of handlers,
  redeliveries and restarts, if every cache has room for all routes
  (`RoomForAll`): `RuntimeMeetsContract`, that every step of the runtime is a step
  of `ReviewContract` or changes nothing of it, and from the same invariants
  `OneCutPerLife`, `OneReviewPerLife` and `OneCallUnlessOpposed`. `RouteInv` says what a
  handler suspended at an await may rely on: it holds the route lock, the
  caches are as it left them (its context is the cached one, a review in hand is
  the cached one, or none is), and the route is not processed before the review
  is out. `CountInv` bounds what the lives of the process leave behind by their
  number, and what the present one does by the stage of the route; it leaves open
  how often a route is asked about once an opposing cut of it is out, which is
  where `MCReviewAgain` shows a second call. The hypothesis
  is the one the code needs: with full caches the properties are false, as
  `MCReviewStuck` and the notes in section 3 show.
- **Legacy service** (`AggregatorServiceProofs`): `RetainedEvidenceKnown` and
  `RetainedSnapshotsFixed` for `SnapshotSize <= ProcessedSize`, from the
  invariant that a snapshot (a signal) has the same age in its cache and in the
  cache of its identities, so that it never outlives its identity. For any cache
  sizes, `LegacyTypeCorrect` (the queue of a retry is the list of a cache's values,
  which needs that the ages of n keys are 1 .. n), and `AckedAfterCommand`,
  `LegacyGrounded`, `LegacyCoherent` and `LegacyUnmixed` from `CommandInv`. It says
  what each cache and each suspended task stands for: evidence is filed under its
  own id and on the present side of the filter's edge, a task waiting for the model
  was right to ask, a cached command or one being published is good and its key's
  own, a processed decision and one being acknowledged have a delivered command.
  `LegacyAnswersBounded`, that a decision costs at most one call per task, for
  caches with room for every decision (`RoomForDecisions`): `AnswerInv` says that a
  decision neither processed nor with a cached command has no more calls than
  tasks at the model, and at most one command made without it.
- **Report file** (`ReportFileProofs`), for any set of writers: `FilesTyped`,
  `NothingLeftBehind`, and `ReportsAtomic`, which is the refinement of `AtomicReport`.
  Its invariant says that a file about to be renamed is whole and flushed, that
  every file at the path or kept on disk is, and that a writer has a temporary
  file only between its creation and the rename or the clean-up.
- **Harnesses** (`QualificationProofs`), for every corpus, command line, gateway and
  clock: `QualificationTyped`, by the lemmas about the candidate service's own steps,
  which the harness takes one at a time; `LegacyWithoutDispatch` from `LegacyInv`,
  which says that a V1 store has only texts and therefore no cached context, and
  none in the handler's hands, shows a market snapshot; and, as every step of a run
  is a step of `ReportFile` or leaves the files alone, `QualificationReportsAtomic`
  and `QualificationLeavesNothing`. `FaultsFailClosed`: from `FaultInv`, a case whose
  fault leaves a required source missing, stale or later than the route has a store
  that holds only what the case was fed, from which no context is complete, so its
  handler is never at the model and whatever review it has is a deterministic
  `DEFER`; a case not yet begun has no calls, whatever the cases before it did. Its
  hypothesis `FaultsTell` is what the V2 harness hard-codes: text and macro context
  are required, `stale_text` moves a text back by its whole time to live, and the
  texts of a case are not later than its route. `CompleteCasesAsk`: from
  `CompleteInv`, a case without a fault has each source it was fed in the store, as
  it was received, and nothing else; so the cut its handler builds has all four, all
  in time, the call is the first one, and the review is the scripted decision or the
  guard's `DEFER`. Lemmas compute the cut from the store (`SnapshotOfOne`,
  `BarsOfOne`, `TextOfOne`). Its hypothesis `CompleteCasesTell` is again what the
  harness hard-codes (one cited text, from before the route; caches with room for
  four sources; times to live that cover their ages) and that one text scores what
  it says. `RunInv` is what both proofs share: the handler has the case's own
  route, and the clock of V2 stands.

Every invariant of the passing runs is stated by a theorem.
**Out of the prover's reach:** liveness under fairness (`EveryRouteSettles`,
`DecisionsSettle`, `QualificationEnds`), and the sum in `CalibratedBias`, a fold over
a set.

## 5. Not modelled

Wording of prompts, provenance and hashes as data; health events; shutdown
(cancellation at an await, `close` of bus and gateway); the legacy fixture entry
points of the brain; reading of settings and of secret files; amounts of money and
the durable budget behind the real gateway; the contents of a report beyond its
verdicts. The reasons are with the components in `PROJECT.json`.

## 6. Plan

Done, in this order because the candidate path decides on intents and everything
else stands beside it: the caches, the store, the candidate service, the legacy
service and their first theorems; then the route contract and its refinement,
the report file with its abstract specification and proofs, and the harnesses
composed with the candidate service.

Then the proofs of what the runs check: the refinement of the route contract and
what a life leaves of a route; the answer over a conflict; the cuts of
the store; the calls of the legacy service; the harness's faults and its complete cases.

Next, the proofs: the cuts of the store inside the candidate service, between its
other steps.

Next, the model: shutdown, and a contract of the legacy service in which a
decision may be answered by more than one task.
