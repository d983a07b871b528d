# TLA+ models of aifiqh

aifiqh is a citation-first fiqh assistant: a Bun/Elysia API and an ingestion
worker over PostgreSQL, and a React web application. What an answer may rely on
goes through a chain of publications: a source revision is reviewed, concept
revisions are collected in a changeset and released, a release is compiled into
an index, an alias moves to that index behind a release gate, a chat turn
answers from the alias and pins its evidence, a validated answer is published.
Each link is a few SQL statements in one transaction (or, in places, without
one), run concurrently by independent requests. That chain is what these modules
are about, with the two services that feed and run it: the ingestion worker, and
the chat turn with its retrieval, its models and its progress stream. Prompts,
parsing and the rest of the user interface are left out.

## The system

| Component | State | Operations | Interacts with | Hard part |
|---|---|---|---|---|
| Index aliases (`index/indexAliasService.ts`) | `index_aliases`, `index_releases.state`, audit events | promote, roll back, resolve | gates, builders, readers | interleaved statements, lock order, counts without a lock |
| Release gates (`eval/gateService.ts`) | `gate_results` (append-only), overrides in the audit log, pins | evaluate, override, consult, pin | promotions, publications, the flag | two queries consult it, results may appear in between |
| Index builders (`index/indexCompiler.ts`, `incrementalIndexer.ts`, `semanticReleaseService.ts`, `rebuildVerifier.ts`) | `index_releases`, units, edges | compile, embed, verify | aliases | unconditional second writes of the state |
| Changesets (`knowledge/changesetService.ts`) | `knowledge_changesets`, `changeset_items` | create, add item, transition | releases | review of a snapshot others may still edit |
| Knowledge releases (`knowledge/releaseService.ts`) | `knowledge_releases`, items, aliases | publish, roll back | changesets, gates | approve/publish races, supersession |
| Answer publication (`answers/answerTraceService.ts`, `validation/*`, triggers of migration 0024) | `answers.status`, validation runs and issues | publish, store a run, orchestrate, abstain | triggers | several statements without a transaction, share locks |
| Feature flags (`config/flagService.ts`) | flags, rollout rules | evaluate, upsert | gates | read before the transaction that uses it |
| Ingestion worker (`apps/worker`) | jobs, attempts, manifests, a session advisory lock | lead, process, fail, shut down | storage, sources | leadership lost during a call, crash between statements, a lock outside a transaction |
| Chat turns (`answers/chatService.ts`) | messages, answers, traces | post, retry, answer, give up | retrieval, routing, breaker, progress | a whole turn in one transaction, ordinals by max + 1 |
| Quota breaker and model routing (`llm/quotaBreaker.ts`, `llm/modelRouter.ts`) | one row per failure domain; the alias and its fallback chain | select, trip, close, expire | chat turns | a stale success closes it, a rollback loses the trip |
| Turn progress (`answers/turnProgress.ts`, the SSE route of `app.ts`, `ChatContainer.tsx`) | ring and counter per conversation, a cursor per page | publish, replay, subscribe, prune, cancel | chat turns, browser | cursors outlive pruned counters, turns share one sequence |
| Retrieval (`retrieval/*`) | none: one pass over an immutable release | run lanes, fuse, rerank, select, expand, assess, decide, build the context | chat turns, index releases | partial lane failure, caps that compete, rows without an order |
| Sources and editorial gate (`app.ts`, migrations 0005, 0023, 0038) | `source_revisions.status` and chain, reviews, objects | upload, review, deprecate, replace | builders | status compared without a lock, object before row |
| Configuration and prompts (`config/*`) | aliases, prompt versions | promote, roll back | gates | unlocked read of the predecessor |
| Evaluation sets (`eval/evalSetService.ts`, `pinReviewService.ts`, migration 0033) | set versions, cases, pins | edit, publish | gates | freezing against concurrent edits |
| Sessions (`auth/*`) | login states, revocations | log in, log out | every route | single statements |
| Generation, OCR, feedback, dashboards, web | mostly derived data | reads, append-only records | all | no shared mutable state to speak of |

`PROJECT.json` lists every component with its status, every hazard found at its
line, and for each modelled definition the lines it stands for.

### What makes each component correct

- **Index aliases.** A reader sees the old or the new release and nothing in
  between; no move of an alias is lost; the audit trail tells what happened; a
  release is demoted only when nothing serves it; every request is answered.
- **Gates.** Under enforcement, and past a failure nobody has overridden, nothing
  is promoted without a clearing result of some version of the launch policy;
  what is pinned clears. (More the code does not give: see item 2 of the
  disagreements.)
- **Knowledge.** A changeset becomes one release at most, and that release is
  what was submitted; an approver who named the state they had read, or read it
  after the submission, had read just that; a release is superseded only when an alias
  leaves it.
- **Answers.** A published answer has a completed run and no critical issue; an
  answer the orchestrator gave up is never published.
- **Ingestion.** Attempts at a job are numbered without gaps, each made by one
  call and decided once; a success is not undone or repeated while the lock is
  kept and its caller was told of it; a job can be taken up again after a crash.
- **Chat turns and breaker.** A question that can be seen has its own answer
  right behind it; a quota domain that has limited a call for an answer is not
  called again for it; the limits those calls met are in the breaker when the
  answer is; every turn ends.
- **Turn progress.** A stream misses, repeats and reorders nothing the bus still
  knows, and ends with its turn.
- **Retrieval.** Exact hits lead; a requested school is heard if the ranked list
  has it; expansion stays within its bounds and records what it leaves out.
- **Sources.** Only what a reviewer approved becomes answerable; a rejected or
  retired revision never comes back; a revision has its object; the replacement
  chain leads from the new to the old.

## Modules

| Module | What it models | Main correspondence |
|---|---|---|
| `AliasRegister` | the promise of the alias service: an atomic register per alias | abstract |
| `IndexPromotion` | promotions, rollbacks, gates and builders, one action per SQL statement | `state`, `alias`, `pin`, `gate`, `overridden`, `enforced` are tables; `pc`, `tx` are the requests |
| `KnowledgeWorkflow` | changesets from draft to release, and knowledge aliases | `cstate`, `items`, `releases`, `alias` are tables; `pc`, `tx` are the requests of a session |
| `AnswerPublication` | publication, validation, repair and abstention of an answer | `status`, `validated`, `critical` are what the triggers read |
| `AttemptLedger` | the promise of the ingestion engine: attempts appended and decided once, a product for each success | abstract |
| `IngestionWorker` | `index.ts`, `ingestLock.ts` and `processIngestionJob`, one action per statement | `status`, `attempts`, `attempt`, `manifests` are tables; `holder` is the advisory lock; `phase` the process, `pc`, `call` the engine's call in it |
| `TurnProgress` | the bus, the SSE route and the page that sends a turn | `seq`, `ring`, `subscribers` are the bus's; `stream`, `sent`, `since` the server's connections; `source`, `read`, `cursor`, `busy` the page's |
| `ChatTurn` | turns of one conversation as transactions, the model chain, the breaker | `messages`, `breaker` are committed rows; `own`, `wrote` a turn's uncommitted ones; `chain`, `modelAttempts` its loop over models; `asides` the calls of the rewriter, the planner and the topical assessor |
| `EvidencePipeline` | one turn's retrieval, from lanes to context, as the stages call each other | `lanes`, `outcomes`, `ranked`, `selection`, `walk`, `decision`, `context` are what each stage returns |
| `SourceReview` | uploads, reviews, deprecations of the revisions of one source, and compiles | `revision`, `reviews`, `stored`, `index` are tables and the object store; `request` the open requests |
| `MC*` | instances for TLC | |
| `IndexPromotionProofs` | types, gates, locks, the refinement of `AliasRegister`, audit trail, shared profile | theorems |
| `IngestionProofs` | every property of the `Ingestion` run, the refinement of `AttemptLedger` included | theorems |
| `KnowledgeProofs` | one release, as submitted; superseding | theorems |
| `AnswerProofs` | publication against validation and abstention | theorems |
| `SourceProofs` | approval, rejection, uploads, the replacement chain | theorems |
| `ChatProofs` | ordinals, tripped domains, the breaker a turn leaves | theorems |
| `ProgressProofs` | what a stream is sent | theorems |
| `EvidenceProofs` | fusion, selection and expansion | theorems |

Two modules are shown to implement an abstract one: `IndexPromotion`
(`Register == INSTANCE AliasRegister WITH alias <- alias, state <- state`) and
`IngestionWorker` (`Ledger == INSTANCE AttemptLedger WITH ledger <- attempt,
product <- manifests, unsure <- Unsure`, where `Unsure` are the attempts whose
success was stored without their callers being told). `AliasRegister` promises
nothing about builders, which may set any release to `ready` or `failed`.

### How the parts meet

An upload that is approved (`SourceReview`) is what a compile reads; the compile
is a builder of `IndexPromotion`; the alias it moves is what a turn resolves
before the retrieval of `EvidencePipeline`; the decision of that retrieval is
the first step of the model loop of `ChatTurn`; every stage of the turn reports
to `TurnProgress`; the answer it stores is published by `AnswerPublication`. The
modules meet at immutable or committed rows (a revision's spans, a release, a
message, an answer), so each is checked with the others reduced to the values
those rows may have.

### How transactions are modelled

PostgreSQL runs the requests at READ COMMITTED. A statement sees what is
committed when it runs; a locking statement waits for the row and then sees its
newest committed version; a transaction's writes are private until it commits.
So a request is a label in `pc` and its local variables in `tx`, each statement
that reads or locks shared rows is an action, and the writes of a transaction
appear in the committed tables with its commit action. A row lock is not a
variable of its own: `HoldsRelease`, `HoldsAlias`, ... say which request holds
which lock, by where it is. A lock on a row that does not exist locks nothing,
a join without an `of` clause locks all its rows, an `update ... where` that
matches nothing neither locks nor waits, and a foreign key takes a key-share
lock: each of these matters for a property below. An exception, a lost
connection and the choice as a deadlock victim all end a transaction without a
trace (`Refuse`, `Abort`, `Crash`, `Throw`, `Victim`).

The engine of `IngestionWorker` uses no transaction but the one of a success, so
each of its statements commits by itself, and a process may die after any. A
statement may also take effect without the engine being told: outside the `try`
block the call then ends with an error (`Throw`); a COMMIT that is not
acknowledged (`ProduceUntold`) leads to the catch branch, which writes a failure
over the success (`FailAttempt`). The lock the engine runs under belongs to a
session: the server can drop it before the worker's `onclose` runs, and
`shutdown` releases it while a call may still be running. `disturbed` records
that a call at a job outlived its lock or was not told of its success.

A turn of `ChatTurn` is one transaction; a caught database error inside it has
still aborted it, so every failed statement loses the turn. The inserts of an
ordinal and of a breaker row wait for the turn that holds the key, which is
where turns meet and where they can deadlock. The rewriter, the planner and the
topical assessor each call the first candidate of the same chain in the same
transaction, and swallow what goes wrong: such a call (`CallAside`) changes
nothing the turn goes on with, and leaves no trip. A cooldown is a time taken
inside the turn, so it may be over before the turn commits
(`ExpireUncommitted`) as well as after (`Expire`).

In `EvidencePipeline` nothing runs concurrently: the release a turn reads is
immutable. What is left open is what each lane and the reranker return and in
which order rows come that no `order by` fixes; the scenario (units, edges,
question) is drawn in `Init`.

Validator and orchestrator code of `AnswerPublication` is called by the
repository's tests and by no route yet; it is modelled as it would run beside
the publication route.

Variables commented as *history* record what happened for the properties and
guard nothing: `failedBefore`, `trail` (the audit events), `submitted`,
`approved`, `abandoned`, `disturbed`, `epoch` (how often the bus has forgotten).
`asides` of `ChatTurn` guards only that each of the three calls is made once.

## What the runs check

| Run | Question | Instance |
|---|---|---|
| `IndexAlias` | is the service an atomic register with a faithful audit trail, and well typed | 3 releases, 2 aliases, 2 requests, 2 profiles, builders of every kind |
| `IndexGate` | can a gate be bypassed by timing | 2 releases, 2 aliases, 2 requests, two versions of the launch policy and the conversational one, overrides, the flag toggles freely |
| `IndexLiveness` | is every request answered; does the shared profile lock protect the demotion | 3 releases on one profile, 2 aliases, 2 requests, fairness |
| `Knowledge` | one release per changeset, as submitted, and as an informed approver read it; types | 2 changesets, 2 concepts, 2 aliases, 2 sessions, every transition |
| `KnowledgeAlias` | is a release superseded only when its alias leaves it, publications and rollbacks racing | 3 changesets, 1 concept, 2 aliases, 2 sessions, the way to approval only |
| `Answer` | no critical issue on a published answer, no publication of an abandoned one; types | 1 answer, 3 workers |
| `Ingestion` | are attempts exclusive and counted; does a success its caller was told of stay under the lock; is the engine an attempt ledger | 3 workers, 1 job, 3 attempts, `max_attempts` 2 |
| `IngestionResume` (violation) | can a job be attempted again after its worker died, as `docs/runbooks/source.md:46-47` says | as `Ingestion` |
| `Progress` | does a stream miss, repeat or reorder events; does every stream end | 2 pages, 2 turns, a ring of 2, one pruning |
| `Chat` | are answers next to their questions; is a tripped domain shielded for the rest of an answer; do trips survive; does every turn end | 2 turns, 2 domains, 5 configured models, 2 attempts |
| `Evidence` | fusion, selection and expansion: order, representation, bounds, nothing dropped without a record | 3 questions over a library of 6 units |
| `Sources` | who becomes answerable, who never comes back, upload order, replacement chain, every request ends | 2 requests, 2 revisions, 1 content |

The type invariant of each module is checked by its first run. Deadlock is
checked in `Sources`, where requests come without end, and nowhere else: a system
in which every request has been handled, or nobody sends one, rightly does
nothing. Whether a request can be stuck is what `EveryRequestEnds` asks.

### Bounds

- *Two concurrent requests* (three workers in `Answer`): every hazard found
  here is a race of two transactions, or of one with a builder, an evaluator or
  a crash, which are separate actors. A third release or changeset lets an alias
  move on while another request still works with the one it left. In `Answer` a
  publication, an orchestrator and a validator can all be under way.
- *Each index request is handled once* and its alias, release and operation are
  arbitrary; `Init` starts from any aliases that earlier promotions may have
  left, so a bounded future does not hide a long past. Sessions and workers of
  the other modules send requests without end.
- `Evaluable`, `FlagValues`, `BuildKinds`, `Targets` switch off actors and decisions a run
  does not ask about, to keep its state space small; together the passing runs
  use all of them. `Evidence = {"none"}` in `Knowledge` leaves publication possible without
  enforcement and impossible with it; passing evidence takes the same steps as
  no enforcement.
- `Ingestion`: one job, since jobs share nothing; three workers, so that one can
  hold the lock, one can run on without it and one can start. `Bound` starts no
  call at a job after three attempts, one more than `MaxAttempts`, so a dead job
  is attempted again.
- `Progress`: a ring of two for two turns of two events each, so events are
  lost from it; `MaxForgets` prunes the idle conversation once, under an open
  stream or between two; `Fragile` is the turn whose connection or page may fail
  (the other is left to end by itself, which is what `StreamsEnd` must not need
  luck for).
- `Chat`: two turns are enough for each wait and each deadlock; the chain holds
  a repeated entry, two models of one domain, one without its secret, and one of
  another domain, and the budget of two is smaller than what is left of it. The
  rewriter, the planner and the assessor make one call each at most, as in the
  code.
- `IndexGate`: three policy rows are the least in which two versions of one key
  and another key can disagree; only `launch1` may be overridden, so a failure
  that can be answered stands beside one that cannot.
- `Evidence`: the lanes return up to one exact and two other hits and may fail;
  the policies' caps are lowered (3 selected, 1 per book, 2 items per walk) so
  that each of them is hit by a library of six units. The questions are one over
  the library with a school to represent, an exact one with a reranker, and a
  comparison of two schools in two queries.
- `Sources`: two revisions make the shortest replacement chain and the shortest
  cycle; `MaxAttempts` is the number of tries of an upload.
- Requests, aliases, sessions, changesets, concepts and workers are
  interchangeable, and declared symmetric in the runs without liveness.

### Fairness

Nothing is ever assumed of arrivals, crashes, lost connections, builders,
evaluators, reviewers or operators.

- `IndexPromotion`: a request in a transaction runs its next statement when it
  can (weak fairness of `Step(q)`) and PostgreSQL breaks a deadlock (weak
  fairness of `DeadlockVictim(q)`): the event loop of the server and
  `deadlock_timeout` provide both. Weak fairness is enough because each request
  is handled once, so a lock cannot be taken over and over by newcomers.
- `ChatTurn`: the same for `Step(r)` and `Victim(r)`; a model call is a step
  because every call has a timeout. Resets of a breaker are not assumed.
- `SourceReview`: requests come without end, so a statement that waits could be
  overtaken for ever under weak fairness; PostgreSQL queues the waiters of a row
  and of a key, hence strong fairness of `Step(q)`, the deadlock victim included.
- `TurnProgress`: a turn finishes and is answered, and the server learns of a
  closed connection. The hard stop of the route, the delivery of events and the
  connection itself are not assumed: streams must end without them.
- `IngestionWorker` has no liveness property: nothing in the repository calls
  the engine again.

## Disagreements between the code and its comments

Shown by a run:

1. The insert of an attempt and the update of the job's counter are separate
   statements. A worker that dies between them leaves a job on which every later
   call hits the unique key of its attempts; `docs/runbooks/source.md:46-47`
   says to restart the worker "and let it resume" (`IngestionResume`).

Met while modelling; the models behave as the code does, and no property claims
the comment:

2. `gateClearance` joins results to policies by the key `launch_v1` and takes one
   by `limit 1`, without an order, a version or the active flag, while
   `failedGateExists` looks at all results. A failed conversational gate, or a
   failure of one version of the launch policy beside a pass of another, makes
   `failedGateExists` true, and the promotion may then pass on the other result
   (`gateService.ts:370-379`; 421-424 says a failed gate always blocks). The
   model takes any of the results, and `GatedPromotionPinned` claims no more than
   that some clearing launch result is pinned.
3. `select ... for update` of an absent alias row locks nothing: two first
   promotions both start from no release, and the first is overwritten without
   being demoted (`indexAliasService.ts:82`; 81 says the row is created
   atomically). `TrailFollowsAlias` therefore speaks of existing rows.
4. The reference count before a demotion takes no lock and a rollback does not
   either, so an alias may be rolled back to a release that is being retired
   (`indexAliasService.ts:124`; 34-36 says only unreferenced releases are).
   `SharedProfileSerializes` shows what keeps promotions alone from doing so:
   their joined `for update` also locks the normalization profile they share.
5. `lockChangeset` joins the items, so a changeset without items cannot be
   locked and the service can never add the first one (`changesetService.ts:138`;
   89 says drafts accept items). The tests insert items by SQL.
6. `publishAnswerWithPins` sets `validated` unconditionally and so takes an
   abstained answer out of its terminal state (`answerTraceService.ts:307`;
   `validationOrchestrator.ts:341`); the trigger still refuses to publish it.
7. `quotaBreaker.ts:160` treats a failed write of the breaker as harmless; inside
   the turn's transaction it aborts the turn. A turn whose candidates are all
   shielded reports that no model is configured (`chatService.ts:1036-1040`). A
   throttle of a minute overwrites a longer quota trip of the same domain. A
   rate limit met by the rewriter, the planner or the assessor is swallowed
   without a trip (`queryRewriter.ts:248-250`, `aiQueryPlanner.ts:232-234`), and
   the answer is then asked of that domain. `topicalAssessor.ts:148-150` says a
   tripped domain leaves the assessor an empty chain; the models of other domains
   are still on it.
8. A page whose cursor is older than a pruning passes over the events numbered
   again from 1 (`turnProgress.ts:106`); a stream may be ended by the `done` of
   another turn (`ChatContainer.tsx:1191-1192` expects its own).
9. The edges an expansion follows come in no order and are cut by caps, so which
   neighbours survive is not determined (`evidenceExpansion.ts:143-147`; 17 says
   deterministic), and a protected exception may be the one that is cut
   (`contextBuilder.ts:16-17`). The cap per school applies only to a unit all of
   whose schools are full (`evidenceSelector.ts:13-14`).
10. A rejection that races an approval may find the revision active and record a
    change from `pending_review` (`app.ts:1538`). A replacement that has just
    been deprecated is linked by an update of no row, and audited all the same
    (`app.ts:1439-1445`). A failed upload may leave its object (`app.ts:1184-1187`
    says nothing is left behind). A revision retired during a compile stays in
    that index.
11. "submit freezes the review snapshot" (`changesetService.ts:235`), but an
    approval carries no snapshot and its `expectedState` is optional (188, 220;
    the review page sends none). An approver who has read a draft that others then
    edit and submit can approve items they were never shown. `ReleasedAsSubmitted`
    therefore says what was submitted, and what an informed approver had read.
12. When the COMMIT of a success takes effect and its acknowledgement is lost,
    the catch branch writes `failed` over the success
    (`ingestionEngine.ts:291-311`), and a later call makes a second manifest.
    `SuccessStaysUnderLock` and `AttemptLedger` except that case.

## What is proved

Every invariant and every action property of the passing runs, and both
refinements, are theorems that TLAPS checks for any values of the constants. TLC
checked each inductive invariant on the run of its component before it was
proved. All the assumptions are those the modules name about their constants,
which TLC evaluates on every run: `NoRelease`, `NoWorker` and the like are no
members of the sets they stand outside of, each release has a profile, the
launch policies are policies, a chain's entries have a domain, caps and budgets are
natural numbers (those of the retrieval policies positive), the units are
finitely many numbers, and an edge joins two of them. What a run bounds for TLC
(requests, pages, turns, attempts, revisions, units) is arbitrary here.

An argument is given below where it is not the obvious one; in each module the
invariant called `Inv` (`GateInv`, `LockInv`, `SharedInv` for the index) is the
inductive one, with one lemma per action.

**`IndexPromotionProofs`**

- `PinnedGateIsCleared`, `GatedPromotionsPin`: neither gate property is
  inductive, as a promotion consults the gate several statements before it
  commits. `GateInv` adds, per request (`GateOf`), what its label says about the
  gate: past the check, a request that is strict or found a failure nobody has
  overridden is pinning, and what it pins is a launch result that clears. These facts survive because results are append-only, overrides are
  never withdrawn and pins only grow (`GatesKept`).
- `IndexImplementsRegister`: `Spec => Register!Spec`. The committed `alias` and
  `state` map to themselves; only the two commits and the builders change them.
  A promotion's commit is `Promote` only if its release is still promotable, its
  alias still holds what it read, and the release it demotes is still promoted.
  `LockInv` says so: `LockOf` states what each request has read under a lock,
  `Exclusive` that no two requests hold conflicting locks. The proof that a step
  keeps `LockInv` has one part for the request that steps (it acquires a lock
  only where its statement waited: `Acquires`) and one for the others
  (`LockOfStable`, `LockOfCommit`, `BuilderLocks`).
- `TrailIsFaithful`: from the same invariant.
- `ProfileLockSerializes`: where all releases share their profile, one request
  at most is between the profile lock and its commit, so its count of references
  is still right when it demotes (`Unreferenced`), as long as nothing has been
  rolled back; a rollback takes no such lock, and the property excepts it.

**`IngestionProofs`**: the counter a call has read may be stale when it is used,
so the invariant cannot rest on it. It rests on the unique key: an attempt is
inserted at the end of the ledger or not at all, so a call that gets past the
insert owns the last attempt, one more than the counter, until it writes the
counter (`Placed`, `Counted`). The advisory lock plays no part, which is why
`AttemptsAreExclusive`, `CounterIsFaithful` and the refinement
`EngineKeepsLedger` hold where it is lost. For the refinement, an attempt whose
caller was not told of its success is that of one call only (`CallIsNamed`,
`SureNow`), so a failure is written over it once at most. `SuccessStays` follows
from `Guarded`: a call at a job that was never disturbed is the lock holder's.

**`KnowledgeProofs`**: a changeset never returns to a draft and its items change
in a draft only, so what a session read of a changeset that has left its draft is
what it is (`ReadIsCurrent`), whoever wrote meanwhile; its publication ends it
(`ReleasedIsPublished`). Hence `ReleasedOnce` and `SubmissionIsPinned`; for the
approver's part, what was read together with a state other than a draft is what
was submitted, and an approval that names the state it was read in names one that is not a draft.
`SupersedingIsSound` needs the alias row: one session holds it at most, and what
it read of it is what it is, unless there was no row (`HeldIsCurrent`).

**`AnswerProofs`**: an answer stays publishable only while no round with a
critical issue is on its way, which the share lock of the trigger provides
(`SharesUnpublished`). That an abandoned answer is never published needs no lock:
its first round committed a critical issue before the repair began, and no code
takes one back (`GoesOnFromCritical`, `AbandonedCritical`).

**`SourceProofs`**: no request locks what it reads, so it may rely only on what
nobody undoes (`Placed`): a revision, a stored object, a recorded decision. The
exception is the row a deprecation has linked, which is locked and therefore
active until the deprecation ends. That the chain of `ChainLeadsBack` ends needs
more than that no request closes a cycle of its own: among any revisions one
replaces none of the others (`ReplacesWellFounded`), because what is replaced is
deprecated and nothing is linked to a deprecated revision.

**`ChatProofs`**: the committed ordinals are `1..n` without a gap (`Numbering`),
so of all the numbers turns have read only `n + 1` can be inserted, and the turn
that has inserted it is the only one with rows of its own (`OneHolder`) until it
ends; that is why an answer follows its question. `TrippedDomainsAreShielded` and
`LimitsAreCommitted`: a turn writes a rate limit a candidate met before it makes
its next call for the answer and never asks that domain for it again, so no
success of its own can take it back; the row it has written stays open, its
cooldown passed or not (`LimitsKept`, `NeverAgain`). The assessor reads that row,
so it calls the domain only once the cooldown is over (`AsidesKept`).

**`ProgressProofs`**: the ring is the last events without a gap (`RingIsRecent`),
so its order is that of the numbers; nothing sent is ahead of the bus
(`Published`), so what follows live comes after it. A stream subscribes in the
step that replays, hence `Covers`.

**`EvidenceProofs`**

- `FusionIsFair`: the model keeps the exact quotients of the reciprocal ranks
  over the product of all denominators (`Factors`, `ExactQuotient`), which fall
  strictly with the rank (`Contributions`); a unit ahead of another in every lane
  that found the other therefore scores more (`AheadScoresMore`), for any number
  in place of the constant 60. What is left is that a sorted list is sorted
  (`Sorted`, `Scored`) and that cutting it keeps its order. The source adds
  rounded binary fractions instead. Rounding is monotone, so it cannot reverse
  the order of such a pair, but it could make two close sums equal; that for the
  ranks and the constant in use it does not is arithmetic outside the model.
- `SchoolsAreHeard`: by induction on the list, the selection is within the caps
  (`Considered`); by induction on the requested schools, each has its unit if
  there is one, and each has cost a book one unit at most (`Policy`).
- `WalkIsBounded`, `NothingIsHidden`: every unit is reached once, as a seed, an
  item or a skipped one (`Visited`), units that wait hang on a seed by an item
  (`Anchors`), and the edges of a seed are all still to come, or each is followed
  or waiting (`Followed`). The last is why a level that ends early at the cap
  still hides no neighbour of a seed: the seeds are the first level, which is
  always gone through.

Every module also proves its `TypeCorrect`.

### What the proofs changed in the models

- `LinkReplacement` of `SourceReview` was a `CASE` with overlapping guards, whose
  choice among them is arbitrary to the prover while TLC takes the first; it is
  now a disjunction of exclusive steps.
- `SelectSeq`, `FoldLeft`, `SortSeq` and `SumFunction` are defined through
  recursion the prover does not unfold. The modules with theorems use recursive
  functions (`Replay`, `replaced`, `considered`, `Product`), sets of positions
  (`chain`) and the order of a set by counting (`InOrder`) instead.
- `UNION S \ T` is `(UNION S) \ T` to SANY and `UNION (S \ T)` to tlapm;
  `FuseLaneResults` names the union (`found`), so that both read the same.
- Codes and labels are members of explicit sets: that a string is in `STRING` is
  not provable.

### What is only model-checked, and why

- Liveness: `EveryRequestEnds` (of the index and of the sources), `EveryTurnEnds`
  and `StreamsEnd` rest on fairness and so on `ENABLED`, which the prover does not
  support.
- `IngestionResume` is a violation, shown by its counterexample.
- The decision and the context of `EvidencePipeline` (`Decide`, `BuildContext`)
  are types only to the proofs: no property speaks of the token budget yet. Their
  folds stay as TLC evaluates them.

Induction is available in set form only: the library's induction theorems take
an operator as a parameter, which the installed provers cannot instantiate, but a
least counterexample of a set of numbers exists (`LeastNumber`, from the
library's well-founded minimum). That suffices for the recursive functions here:
`Iteration` shows that a function defined step by step exists and unfolds. It
does not reach `RECURSIVE` operators, and no module has one.

## Not modelled

- The data: texts, embeddings, thresholds and their arithmetic, hashes,
  permissions and tenants (one tenant; a request is one the checks let through).
- Gate results of a knowledge release: the release is created, gated and
  committed in one transaction, so the verdict is a parameter of the request.
- The body of the worker's loop: it is not in the repository, so a call of the
  engine starts whenever the loop's condition lets it.
- In a turn: what the rewriter, the planner and the assessor return, the prompt,
  citations and statistics. That a context manifest is stored once and read again
  by a retry. The assessor's own alias (`AIFIQH_TOPICAL_ASSESSOR_ALIAS`): it uses
  the chain of the turn here, which is the default.
- Direct SQL, such as the tests and operators use, except for drafts that
  already have items in `KnowledgeWorkflow`.
- *Configuration and prompts.* Alias moves are an unlocked read followed by a
  transaction, and a rollback restores what the latest audit event names: two
  rollbacks toggle, the type of the target is not restored and a disabled
  provider may be. The code promises little more than the statements do; the
  hazard is listed.
- *Evaluation sets.* Their routes run on the pool, so a case, its evidence and its
  behaviour commit one by one, and a version may be published while its pins are
  replaced. Both hazards are listed; the runners only read.
- *Source import, OCR, authoring, feedback, sessions, embeddings, dashboards,
  scripts*: parsing, reads, or single append-only statements, whose only
  interleaving is the database's.
- *Web application*, apart from the chat page's stream: display.

Most of the repository's lines are of these kinds (the user interface, reads for
dashboards and search previews, parsing, benchmark data), so the modelled share
of all lines stays small although the parts that share mutable state are
modelled.

## Plan

1. *Done*: the index service with its proofs; knowledge, answers; the ingestion
   worker with its proofs; chat turns, turn progress, retrieval and sources.
2. *Done*: proofs of every safety property, of every action property and of both
   refinements that the runs check.
3. Proofs still worth having: what the context of `EvidencePipeline` keeps of its
   budget (a property first: protected and primary items are never dropped, and
   the context is downgraded exactly if it is still too large); that a committed
   turn's rows are the ones `TurnProgress` reports; shorter proofs.
4. Configuration aliases and evaluation sets, if their comments ever promise
   more than one statement does.
