# KTH IRL evaluator: TLA+ models and proofs

This directory models the Python package `src/plugin/src/kth_hybrid`, a local
plugin that evaluates innovation-readiness levels.  One *case* is a directory
with a SQLite database (`records.sqlite3`, WAL mode, one writer at a time) and a
content-addressed blob store.  Several operating-system processes may have the
same case open: the command line, an agent host, a provider dispatcher.  There
are no threads and no daemon.  What makes the system hard is that almost every
call is a *sequence* of transactions over two connections (`CaseStore` and
`Journal`), that another process may run between any two of them, and that a
process may exit or crash there.  Paths below are relative to
`src/plugin/src/kth_hybrid`.

Contents: 1 the system, 2 plan, 3 modules, 4 runs, 5 bounds, 6 fairness,
7 proofs, 8 findings, 9 what is not modelled.

## 1. The system

| Component | Source | State it keeps | Operations |
|---|---|---|---|
| Task ledger | `journal.py` | `tasks`, `task_attempts`, `token_sequence`, `takeover_events` | ensure, claim, record dispatch, commit, record failure, take over, recover, complete an existing local task |
| Product session | `product_session.py`, `agent_host.py`, `store.py` 792-926 | write-once `product_objects` (submission, task, dispatch, response, consumption, scope), blobs | prepare, begin, submit, advance, status, inventory |
| Provider gateway | `provider_gateway.py`, `store.py` 1815-1928 | `provider_usage_ledger`, sealed provider artifacts | dispatch, usage |
| Workflow job | `workflow.py`, `store.py` 2613-2883 | `workflow_jobs`, dimension outputs, artifacts | create, run, resume, status |
| Proposal and review queues | `proposal_requests.py`, `review_queue.py`, `store.py` 2919-3280 | requests, responses, qualification views, authorisations, published reviews | seal, consume, publish, refresh |
| Case and attachments | `workflow.py` 129-581, `intake.py` | case basis and versions, sources, imports, aliases, projections | initialise, import, project |
| Controlled registration | `controlled_registration.py` | provenance records, the subject of a source, its time evidence | declare a document's subject, register time |
| Runner | `runner.py`, `dimensions.py` | claims, mappings, qualifications, criterion and dimension results, output files | run criterion slice, run dimension slice |
| Kernels | `kernels/*.py` | none | level of CRL, BRL, TRL, IPRL, TMRL, FRL from controlled reviews |
| Qualification, census | `qualification.py`, `census.py` | none | prove references, qualify a claim, count evidence |
| Audit | `audit.py` | none | verify a result against its sealed bytes, now and later |
| Aggregation, permissions, roles | `aggregate.py`, `aggregation_profiles.py`, `evidence_permissions.py`, `roles.py` | none | freeze a manifest, license evidence, check role output |
| Catalog, contracts, unit scope, CLI | `catalog.py`, `contracts.py`, `unit_scope.py`, `cli.py` | none | read the frozen catalog, hash, validate, dispatch commands |

How they interact.  Everything that may run twice is a *task* of the ledger.  A
process that wants to do one claims it and gets a token; every later write with
that claim is a conditional update on token, worker and input (the fence).  An
external action is put on record before it is made.  The session, the gateway,
both queues and the import use the ledger that way, and each keeps a second
record of its own in the case store.  No transaction spans the ledger's
connection and the store's, so the two are equal only by the order in which
they are written.  `LocalWorkflow.__init__` and `status` run a recovery that
freezes the dispatched tasks of exited processes as `outcome_unknown`.

The hard behaviour, and what correctness means, per component:

- *Ledger.*  Old claims come back after a takeover; process ids are reused; a
  dispatch may be lost.  Correct: numbering and fencing never drift, a running
  process is never fenced out, an external action is recorded at most once, and
  a verdict is final.
- *Session.*  A ticket, a response and the row are written apart; two hosts may
  answer one ticket; an answer may be late.  Correct: one answer is sealed, the
  verdict agrees with it for ever, no crash separates ticket and row, and every
  call returns.
- *Gateway.*  The budget is checked against rows of several scopes and against
  missions older than the ledger; a timeout may have cost money.  Correct: what
  the provider really used stays within the caps, and the two ledgers never
  contradict each other.
- *Workflow job and queues.*  Sealing, consuming and running overlap, and all
  of them write the one state column.  Correct: nothing is consumed twice,
  dimensions are evaluated only over the closed set of reviews, the freeze covers
  all of them, and the column never claims more than the records show.
- *Import, creation, registration.*  An import is up to seven transactions, with
  faults between them, and other imports of the same bytes write the same rows.
  Correct: a task that succeeded has its records, nothing is recorded twice, the
  closure of a repeated import is accepted, and every call returns.
- *Runner and audit.*  A run reads evidence that others append meanwhile, and the
  originals lie outside the database.  Correct: a success stands on what is on
  record, is reproducible from what it froze, keeps verifying whatever is
  appended, and a level hears every review.
- *Kernels, qualification.*  Pure.  Correct: opposition is never outvoted, levels
  follow the evidence, reviews of another scope count for nothing, a level
  promises the strength its rules ask for.

## 2. Plan

Done, all with proofs: the ledger, the product session and the workflow job with
its queues, each with its abstract specification; the provider gateway; the six
kernels and qualification; the criterion and the dimension slices of the runner
with the verifications of the audit; import, projection, creation of the job and
controlled registration.

Left, in this order:

1. `GatewayQueue`: composes `ProviderGateway` with the seal of a queue response
   (`verify_runtime_response`), so that an answer that was paid for is the one that
   is sealed; missions dispatched again belong here.
2. Permissions, aggregation and unit scope as operators with lemmas.
3. `CaseIntake` with several originals and several versions of a projection tool.

Proofs still worth having: the invariant of `GatewayQueue` from those of
`ProviderGateway` and `WorkflowJob`, and the lemmas of item 2.

## 3. Modules

| Module | Models | Uses |
|---|---|---|
| `Journal` | one action per write transaction of class `Journal` | |
| `JournalWorkers` | processes that call it in any order | `Journal`, `OnceOnly` |
| `OnceOnly` | abstract: recorded once, decided once | |
| `ProductSession` | sessions on one run | `Journal`, `SealedResult` |
| `SealedResult` | abstract: one answer per sent task, one verdict | |
| `ProviderGateway` | dispatchers under an authorisation | `Journal` |
| `WorkflowJob` | one job, its queues and its runs | `Journal`, `ReviewedJob` |
| `ReviewedJob` | abstract: closed reviews, then evaluation, then one freeze | |
| `CaseIntake` | import, projection, creation of the job, registration | `Journal` |
| `DimensionRules` | the six kernels over the reviews of one scope | |
| `Qualification` | the judgments of `qualification.py`, as operators | |
| `CriterionRun` | criterion slices and `verify_result_bindings` | `Qualification` |
| `DimensionRun` | dimension slices and `validate_dimension_payload` | `Qualification` |
| `...Proofs` | lemmas and theorems, section 7 | the module of that name; `JournalProofs` covers `JournalWorkers`, `JudgmentProofs` covers `DimensionRules` and `Qualification` |
| `MC...` | instances for TLC | |

**Journal.**  `tasks[t]` is the row (`state = "absent"` is no row), `attempts`
the table in the order of its autoincremented number, `lastToken` the sequence.
All transactions are `BEGIN IMMEDIATE`, so each is one step, and one that is
rejected rolls back and is no step.  The module has no processes: the claim a
caller presents and the process ids reported as exited are arguments.
`Fenced(c)` is the WHERE clause.  `Legacy` is a database written before the
lease columns existed.

**JournalWorkers.**  `running` is the set of process ids in use (ids are reused),
`held[p]` the claims process `p` was given, `local[p]` its place in
`complete_existing_local_task`, which is three transactions.  A process holds on
to every claim, so late calls with superseded claims happen.  A process id is
reported as exited only when it is not in use, and may fail to be
(`_owner_pid_exited`).

**ProductSession.**  The write-once objects are `registered`, `ticket`,
`response` and `consumed`; `call[p]` is the place of a process in a call, with
what it has read so far.  `prepare_task` is object then row; `begin_task` is
claim, ticket, record; `submit_host_result` reads the row, puts the blob and the
response, then commits, and answers a refused commit from the seal.
`_task_snapshot` and the inventory read piece by piece, so their alarms are
states.

**ProviderGateway.**  `ledger[t]` is the usage row, `kept[t]` the usage in the
blob the task ledger names, `spent[t]` what the provider really used, which no
process sees.  A dispatch reads the keys, the old missions and the rows of the
lineage in three queries, reserves in one transaction that sums the rows of its
own scope, then ensures, claims, records, asks, seals or rejects, and settles.

**WorkflowJob.**  `job` is the state column; `proposal` and `review` are the
states of a request and its response, which are written together; `published`,
`outputs` and `frozen` are the published reviews, the registered dimensions and
the artifacts row.  The consumption of `q` or `r` is the ledger task of the same
name, publication has `PublishTask[r]`.  Each of the four consume steps, the
three of a review, `refresh_workflow_job_state`, each `set_workflow_job_state`
of a run, each publication and each dimension is a step.  Which candidates
qualify is a choice (`\E qualified`), as the decision depends on data.

**CaseIntake.**  One original lies at several paths; `audits` are its import
records, `source` the audit its source row came with, `attachment` the canonical
row, `aliases[q]` the audit the alias of a path names.  A call (`call[p]`) is a
task of the ledger: reads (`Begin...`), `Ensure`, `Acquire` or a takeover, one
write per step, `CommitTask` or `FailTask`.  Where the store reads and then
inserts, these are two steps (`FindImportRecord`/`EnsureImportRecord`,
`FindSource`/`AddSource`): the Python connection opens its transaction with the
insert.  `Fault` is an exception of any access, which some writes record as the
failure of their task and others do not (`Guarded`); `Exit` ends a process
anywhere.  `Verify` is the repeated import with its `Closure`.

**DimensionRules.**  A criterion is a triple such as `<<"TRL", 5, "C4">>`, a
review what the kernels read of it: its fields being present, its scope,
decision, class, findings and parties.  For each kernel: which reviews are valid,
which support suffices, the disposition of a row (`Native`), and whether it
blocks the loop over the levels; `Attained` is the level.  Reviews are recorded
one by one, so that the properties compare a level with the one before.

**Qualification.**  Operators only.  `Resolve` is a field reference into the
provenance files: the first import of the file name decides.  On it rest the
proofs of subject, aliases, document and time zone, the four judgments (source,
identity, time, independence), the verdict of `qualify_claim`, the mapping, the
legality of N/A and `evaluate_criterion`.  The proofs of a basis say *why* its
declared aliases are unproved (`AliasesError`: a file that is not sealed, a field
that is missing, another record, ...), and so does what a third-party claim cannot
prove (`AliasCaveat`), as both are frozen and compared whole.  Time is counted in half days, which is
as fine as the judgments distinguish: a date, a date with an hour, an offset.

**CriterionRun.**  One action per step of `run_criterion_slice` (`Start` to
`Publish`), each committing at most one row; time evidence, equal bodies,
provenance files, reviews and bases are appended, and the original is damaged,
between any two.  `Verifies` has the numbered checks of `verify_result_bindings`;
only they and the insertion share an immediate transaction.  `Digest` is what the
input digest keeps of the frozen inputs.

**DimensionRun.**  A slice binds every selected review (`Judge`), validates and
inserts (`Publish`) in one immediate transaction (`Unlocked` guards every other
writer), and writes its output file after the commit (`Write`).  A result is its
frozen inputs; the level is the one `DimensionRules` derives from them and is not
computed again.  `StoreQualification` is what a criterion slice of another
process leaves behind.  `reviews` holds each review with its sidecar: none, a
permission, or the authorization it was materialized from.  `Authorize` is the
consumption of a proposal that qualifies: it stores the qualification and an entry
of `authorizations`, which is the candidate with the input view it was given on and
the proofs of its inputs.  `Materialize` publishes the review of a response under
an authorization.  `Trusted` (`validate_authorization_trusted`) compares all of that
with the case as it is now, and the code calls it at materialization, at the
binding of a slice (`SidecarHolds`), at publication and in every trace (`Validates`).
`sealed` are the candidates whose projected text and sealed responses can be read.
Consumption and publication as tasks of the ledger are in `WorkflowJob`; here they
are one step each.

Recurrent abstractions: digests are the values they identify; a document that a
call validates is valid, and a call that is refused before its first write is no
step; blobs are written before the row that names them and are content-addressed,
so that only the session, whose property is about them, keeps them as state.

## 4. Runs

| Run | Asks | Shows |
|---|---|---|
| `journal_workers` | every interleaving of ledger calls, crashes, id reuse, recoveries | a row agrees with its attempt, running holders are not fenced, local completion is accepted, verdicts stay; implements `OnceOnly` |
| `product_session` | two sessions, two tasks, two answers | ticket and row agree, seal, verdict and bytes agree, a submitter settles what is sealed; implements `SealedResult` |
| `provider_budget` | history, timeouts, answers without usage, overruns | nothing is sent unreserved or unrecorded, the ledgers agree, real use stays within the caps, rows settle once, reservations fit |
| `workflow_job` | one proposal and its review, a spare claim | ledger and records agree, the state column is never ahead; implements `ReviewedJob` |
| `case_intake` | imports of one original from two paths, projection, creation, registration, with crashes, errors and takeovers | a task that succeeded has its records, nothing is recorded twice, the closure of a repeated import is accepted but in one case, every call returns |
| `dimension_rules` | reviews of every quality on twelve focused criteria of the real registries | opposition caps, levels follow the evidence and mean strength |
| `criterion_run` | three requests over a report or a page, evidence and provenance arriving, damage, restarts | what a success stands on, that it is reproducible, that published results keep verifying |
| `dimension_run` | slices of three dimensions by two processes over a claim of a news report, with reviews by hand and from the workflow, imports that prove aliases or seal their file | levels hear every review, are judged again, keep tracing, never mix proofs before and after an import; authorizations stay trusted; the output file is on record |

The runs that end in a violation are in section 8.  Each property of a passing
run has a mutant in PROJECT.json: a plausible slip in the code (a dropped WHERE
condition, a token read too early, a skipped dimension, the latest import
instead of the first) under which the same run finds the property violated.

## 5. Bounds

Symmetry is over names that the specification treats alike (processes, and tasks
where they have the same constants); no run with a liveness property uses it.

- *Processes*: two, but for `criterion_run`, which has one.  Every hazard is a
  race between one call and others; the others are interleaved by the second
  process, which may exit and start again as often as it likes, and a third
  claimant is one that started after an exit.  In `criterion_run` one process
  ends anywhere and starts again with any request, which leaves every prefix of a
  run behind for the next one; `criterion_digest` has two that overlap.
- `MaxTokens` bounds the tokens ever issued, and with them takeovers and
  retries.  `journal_workers` has two tasks and three tokens: a takeover or
  retry of one task while the other is claimed, or two in a row.
  `workflow_job` has three tasks and four tokens: each task claimed and one of
  them again.  `product_session` and `provider_budget` issue one claim per task,
  as the code never claims these tasks again.
- *Session*: two answers per ticket, one successful and one not, which is enough
  for two submitters to differ.
- *Gateway*: a reservation of two output tokens against a real use of one, two or
  three, so that a call costs less or more than reserved; two old missions, one
  reconciled because its use is lost and one migrated into the ledger; caps that
  two new calls reach exactly.
- *Job*: one review and one dimension.  The dimensions are registered one after
  the other by the same step, and every step of a run looks at *all* of them or at one; a
  second review doubles the queue steps without a new kind of race.
- *Intake*: `Cases` lists what a behaviour is about and how many claims it gets:
  imports of two paths that are both saved (three claims: one of the two again)
  or of which one is not (two claims), projection and creation (three), a
  declaration with its two tasks (four), time evidence (three, with
  `MaxTimes` = 2 records and `MaxStamps` = 2 calls).  The tasks of different cases
  share no row but `projected` and `source`, which a case starts with when it
  needs them.  Calls begin only while claims remain, so every call could still
  claim; the last claims run out inside a call and it is refused, as the ledger may
  refuse it anyway.  Each case starts fresh or migrated.
- *Kernels*: the real registries, gates and N/A policies; every criterion but
  one is settled, and `MaxReviews` = 2 reviews arrive, enough for support and
  opposition in both orders and for findings that are merged from two reviews.
- *Runs*: one claim, two criteria (one of them with a legal N/A), two files of one
  name, `MaxBodies` = 2 and `MaxVersions` = 2 to tell one from several, one
  revision of the time evidence (two in `criterion_digest`), `MaxMappings` = 2 rows
  with different quotes.  `dimension_run` has CRL, FRL and TMRL, which are the three
  forms of a slice, one basis version, and starts slices while at most
  `MaxResults` = 1 is on record.  One claim is proposed and has one response.  There
  are three bases: the aliases of one are proved from the start, those of another by
  an import, and for the third (`Former`) the same import seals the file without the
  field, so that it only changes why nothing is proved.  A review by hand with its
  permission makes levels over reviews of both kinds.  The source is a report, whose
  claims qualify with and without aliases; first-party pages and registered times are
  in `criterion_run`, and the theorems of `DimensionRunProofs` cover them.

## 6. Fairness

Only `case_intake` assumes any: weak fairness of `Continue(p)`, that is, a
process that is inside a call takes its next step unless it exits or an access
raises.  The code has no waiting in these calls (SQLite's busy timeout ends in an
exception, which is `Fault`), so nothing else can hold a call up.  Nothing is
assumed of faults, of exits, or of users making calls; therefore no property says
that a task is ever finished, and several hazards in PROJECT.json note where the
code leaves a task claimed for ever.

## 7. Proofs

Everything below holds for every value of the constants under the assumptions
named.

**Ledger** (`JournalProofs`), from `NoneAssumption` (NULL
is no worker, process id, input or output) and `MaxTokensAssumption` (a natural
number).

- `WorkersTypeCorrect`, `LedgerSafe`, `LiveHolderSafe`, `LocalCompletionSafe`: the
  invariants of `journal_workers`.
- `FinalStays`: its action property `TerminalImmutable`.
- `Refines`: `JournalWorkers` implements `OnceOnly`.

None of the invariants is inductive.  `JournalInv` adds to those of the ledger
that an attempt belongs to the process that owns the row (`AttemptsOwned`) and
that a row with a token has an input (`InputKnown`).  `WorkersInv` adds the processes:
what a process holds was really issued to it (`ClaimsGenuine`), one that is not
running holds nothing (`DeadHoldNothing`), an attempt that is still open is the
newest of its task and is held by its owner (`OpenClaimsNewest`), and a local
completion has not moved since it claimed (`LocalUntouched`).  With
`OpenClaimsNewest` the argument for `LiveHolderSafe` is short: a takeover needs a
process that is not running, which holds nothing.  There is one lemma per
transaction (`EnsurePreserves` to `RecoverPreserves`); `MovePreserves` covers the
three fenced updates at once.  They name no caller, so the proofs of the session,
the gateway, the job and the intake cite them too.  On top come `WorkersInitInv`,
`WorkersStepInv` with one case per action, and for the refinement
`WorkersInitMaps` and `WorkersStepMaps`.

`DispatchedOnce`, `TokensNumberAttempts` and `SupersededNeverDispatched` are
parts of `LedgerSafe` that no run checks.

**Product session** (`ProductSessionProofs`), from the assumptions of the ledger,
`InputDigestAssumption` and `TicketAssumption` (no ticket looks like a missing
one).  `TypeCorrect`, `TicketCurrent`, `Sealed` and `SettlesSealed` are
the invariants of `product_session`, `KeepsPromise` its refinement of
`SealedResult`; `Inventory`, that one read view never lacks a parent, is only proved.  `IInv` is `JournalInv` with `TaskSound`, what the objects of a task
and its row owe to each other, and `Sound`, what a call knows at each step.  Nothing
in the session takes a claim over, and what fails there was dispatched, so a task is
claimed once and belongs to one call until its dispatch: the ticket that call
writes is current and is never replaced.  `Grows` is what a step may not take back;
`OthersStay` shows once that the other processes keep what they know.  `Reads`,
`ObjectStep` and `RowStep` are the three forms of a step, each with one lemma per
action below it; for the refinement `InitMaps` and `StepMaps`.

**Gateway** (`ProviderGatewayProofs`), from the assumptions of the ledger and those of
the module: finitely many tasks, NULL is neither a row nor an amount, amounts are
natural numbers, and the missions of earlier versions are well-formed and of
different tasks.

- `TypeCorrect`, `AskedReserved`, `LedgerFollows`: three invariants of
  `provider_budget`; `SettledOnce`: its action property `RowsSettleOnce`.
- `ReservationsFit`: the action property `FitsTheLedger`, for authorisations that
  are `OneBudget` (same scope, lineage, caps and reconciled missions) and under
  `AgreedPast` (a mission whose use is kept *and* reconciled is not reconciled at more).
- `SpendStays`: `SpendWithinCaps` lasts once it holds, for `OneBudget` and under
  `TruthfulPast` (what is kept or reconciled of an old mission is no less than it
  used).

The two hypotheses about the past are about documents the program is given and
cannot check.  `OneBudget` is what the code needs and does not enforce: for an
authorisation and its revision `FitsTheLedger` is false, which is the finding
`provider_revised_scope`.  The instance of `provider_budget` satisfies all three.

The invariant `IInv` rests on ownership.  From its reservation to the settlement a
call *holds* its task: the row is still reserved, because a key is reserved once
and only its holder settles it (`Sound`), and no two calls hold the same task
(`Apart`); so nobody else moves the row, the mission, its blob or its use.
`RowsGood` is, task by task, what the two ledgers owe to each other, `PastKept`
that missions of earlier versions stay as they were left.  There is one lemma per
action.

For the caps, `Covered` says what a call knows while it reads: what it has added
up of the history is at least what the carried missions and the rows of the lineage
*now* count for.  It lasts because rows of other scopes are settled, a mission that
is carried is closed, and a task is written only under a row of the budget
(`ScopesStay`, `CarriedStays`, `CoversStay`).  So the check made with values read
earlier is as good as one made in the transaction (`ReservationFits`).
`WithinBudget` then says that as long as this version reserved nothing, nothing
changed; and afterwards what counts (`Counted`: a row's use, or its reservation
while that is unknown, or the item of an old mission) fits the caps
(`BalancedByReserve`) and never grows (`BalancedStays`), as a settlement replaces a
reservation by what was used.  `SpentCounted` closes the gap to the real use.
This needs arithmetic over sums: `Total` is a fold of the community modules, which
is a recursive function on the subsets of a set.  What holds of it (`SumPoint`,
`SumUnion`, `SumMonotone` and others) is proved without an induction theorem: a
least subset for which it fails exists (`LeastSubset`, from `WFMin`) and is refuted.

**Workflow job** (`WorkflowJobProofs`), from the assumptions of the ledger,
`RequestsAssumption` (proposals, reviews and publications are different tasks, one
publication per review) and `CandidatesAssumption` (a review has one proposal).
`TypeCorrect`, `RecordsAgree` and `StateJustified` are the invariants of
`workflow_job`, `Implements` its refinement of `ReviewedJob`.  `IInv` says again who
owns a task (`Owns`): a call between claim and commit has the current claim of its
process, nothing else moves that row, and what the call has written of the task's
records is what its place in the call says.  The state column needs more: a run
reads the queues once and writes the column later, so what it has seen must still
be true then.  It is, because a proposal that is consumed and a review that is
complete stay so (`SetsStay`, `CompletesStays`, `PublishingStays`), and no review
arrives once every proposal is consumed.  For the refinement each action either is
one of `ReviewedJob` (`SealProposalMaps` to `FreezeMaps`) or changes none of its
variables (`QueueStutters`, `RunStutters`).

**Kernels** (`JudgmentProofs`), from `RulesAssumption` and
`RegistryAssumption` (the shape of a registry and the few policies the properties
name).  `RowsReads` says once for all dimensions when a row is met, undecided or
blocks, by what valid reviews show; `ReachedIs`, that the loop ends at the
highest level below every blocked one; together they are `LevelIsReadOff`, which
states the level of every dimension by what its reviews show.  `OppositionIsNeverOutvoted`,
`ForeignNeverCounts`, `LevelsFollowEvidence` and `LevelsMeanStrength` follow from
how one more review changes the first, through the second (`ForeignNeverCounts` is
only proved).

**Qualification** (`JudgmentProofs`, lemmas).  As imports are only appended
and the first of a name decides, what was proved stays proved by the same
bindings (`ResolveStable` to `NaStable`), and a claim that was qualified stays so
with more names and zones (`QualifiedStays`).  What was *unproved* may become
proved, and of the reasons why aliases are unproved only that a file is not sealed
can go away (`ErrorStable`): that is why `PublishedKeepsTracing` and
`AuthorizationStaysTrusted` have the premise `StillUnproved`.

**Criterion slices** (`CriterionRunProofs`), from `CriterionRunAssumption`.
`StepLater`: every table is append-only.  `RunSound` says what a run carries at
each stage, `Published` what a result rests on (`Holding`); both are stable under
appends, which gives `TypeCorrect`, `SuccessIsSupported` and `PublishedVerifies`.
`SuccessIsReproducible` adds `RepeatInv`: what a run judged is judged so again
from its frozen revision, basis and mapping.

**Dimension slices** (`DimensionRunProofs`), from `DimensionRunAssumption`.
`OneHolder` (one slice has the immediate transaction)
makes `Heard` (what was bound is all that is on record) last until publication:
`EveryReviewHeard`; `Kept` gives `OutputOnRecord`.  `Filed` says that the reviews with
an authorization are those materialized from one on record.  For the traces,
`TraceInv` adds what a result and an authorization rest on: `Ready` is what the
judgment guarantees, `Holds` and `Given` what stays true of a result and of an
authorization whatever is appended (`LevelRequalified`, `AuthorizedPublished`),
`Proved` that their views are those found now, which stays true as long as they are
`StillUnproved` (`ProvedStays`).  `AuthorizationTrusted` follows, and with it
`PublishedTraces`: the premise is made about the level *and* the authorizations of its
reviews, as every trace checks these again.

**Intake** (`CaseIntakeProofs`), from `IntakeAssumption` and those of the ledger.
`SuccessIsStored`, `RecordsUnique`, `RepetitionAccepted` and `TypeCorrect`.  None is
inductive: that a row is not inserted twice needs that what a call has found
missing is still missing, and that needs to know who else could write it.
`Owned` is the answer: the task of a call that writes is claimed by its process
with its claim, and as a claim needs a free row and a takeover an exited owner,
no other call moves it.  `StagedImport`, `StagedOther` and `Timely` say what a call
has read and written at each stage, `Apart` that two registrations were sealed
with different times.  `OthersStay` shows once that whatever one process does, the
others keep all that; there is one lemma per step (`EnsureStep` to `TimeStep`) for
what the process itself knows next.  In `TimeStep` the owner of the n-th task finds
exactly n entries, because an earlier n-th entry would be its own (`Numbered`).

Only model-checked: `CallsReturn`, a liveness property under fairness, which is out
of the prover's reach, and the four properties that section 8 shows violated.
Induction over data is out of reach too, but for what well-foundedness gives (the sums
above).  No module declares a RECURSIVE operator.

## 8. Findings

Each is a run that ends in a counterexample to a statement of the repository.

- `product_alarm`: `status` reads the response before the row, so it can report a
  lost response that is there (`product_session.py:417`).
- `provider_revised_scope`: rows of earlier scopes are read before the reserving
  transaction and not again in it, so that a dispatcher under the old
  authorisation and one under its revision can exceed the cap
  (`provider_gateway.py:551`).
- `workflow_late_refresh`: a refresh that comes late takes a job that has been
  run back to `consumed` (`store.py:2870`).
- `criterion_digest`: the input digest leaves out the number of sources with the
  same body, which every run reads again; after a second source with the same
  bytes the same call has the digest of the published success and computes
  another status (`contracts.py:78`).

What else the models show of the code, and no run states as a disagreement:

- Two overlapping answers can exceed the caps together with neither marked: the
  marker counts settled rows only (`provider_gateway.py:700`).  Of two overlapping
  runs one may fail and the other take the job out of `failed` (`store.py:2660`).
- Tasks stay claimed for ever after a crash at `product_session.py:357`,
  `provider_gateway.py:577`, `proposal_requests.py:574`, `review_queue.py:1012`,
  and, for the creation of a job, `workflow.py:899`.
- The first qualification stored for a claim is never replaced, and the run that
  finds it evaluates its own judgment (`runner.py:1303`).  The output files of two
  slices are written in any order, so the last one is not always the newest
  result.  The target of a permission is not compared for CRL reviews.  An import
  that proves what a result was published without ends its trace, as the proofs
  are rebuilt and compared whole (`audit.py:1072`); so does one that proves nothing but
  seals the file its unproved aliases name, because the reason is part of the proofs
  (`qualification.py:624`).  The same holds for the authorizations of workflow reviews
  (`review_queue.py:679`): after such an import a consumed response that is not yet
  materialized cannot be, and a slice that binds a review that is already materialized
  fails as a whole.
- The calls of a session that check the inventory outside a read view read three
  tables one after the other and may be refused although nothing is lost
  (`store.py:878`).
- Intake.  (a) A crash between the source row and the alias of one path makes a
  *finished* import of another path with the same bytes be refused when it is
  repeated, until the first path is imported again (`workflow.py:205`); this is
  the exception in `RepeatAccepted`.  (b) When an import of an unsaved name and one
  of a saved name race, `INSERT OR IGNORE` may leave the canonical row unpromoted,
  until another saved path is imported (`workflow.py:423`).  (c) A failure recorded after
  the alias was stored leaves the import refused for ever (`workflow.py:374`).
  (d) Two imports that both miss the source collide on its key; one fails and can
  be retried.  (e) A crash after the provenance import blocks the declaration of a
  case for ever, as its file name is fixed (`controlled_registration.py:93`).
  (f) A crash between the claim and the append of a time registration blocks that
  number for ever, as its input holds the time of the call
  (`controlled_registration.py:288`).

## 9. Not modelled

Aggregation, evidence permissions, roles, unit scope and the census: pure
construction and validation of documents.  Of permissions the mode and the target
are kept.  Of an authorization, the checks of rows that are never changed (claim,
projection, mapping, catalog) and of its own digests are left out, as is the
comparison with the proofs frozen in its request, which only refuses more; the
blobs of provenance files are assumed readable, and CRL reviews, which the workflow
does not materialize, carry no authorization.  `initialize_case` is kept as its effect, a case
with a basis; a revised basis is an action of the runs.  The simulated provider
of the runner.  Sealing of a gateway answer into a queue (section 2).  In
`CaseIntake`, several versions of a projection tool, and the planned task of a
migrated alias that was never claimed, whose import only reads.  Schema
migrations of `store.py` are kept as the states they can leave (rows without
lease columns, rows migrated into the usage ledger, attachments without tasks).
The v1 history paths, which accept no new responses.  Extraction of text from
PDF and DOCX, zip reading, the frozen catalog, argument parsing and printing are
I/O or constants.  The edges and the wording of a trace report.  Digests are
assumed not to collide.
