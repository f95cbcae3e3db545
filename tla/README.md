# A verification project for the Analitiq plugin repository

TLA+ models, TLC runs and TLAPS proofs about the code of this repository: the
validator package and its sample-grading process, the document and set
validators built on it, the contract models one document is graded by, the schema
release scripts and workflows, the render pipeline and its pre-commit hook, and the
evaluation harness. Source paths below are relative to the repository root.

## 1. Inventory

| part | code | state it keeps | hard behaviour | what makes it correct |
|---|---|---|---|---|
| Sample grading budget | `packages/validator/src/analitiq/validator/_sample_budget.py`, `_sample_worker.py` | remaining budget, the latched reason, the record of what the worker holds, the process, its queue, the stderr file; in the worker the schema, the node and an armed watchdog | two processes, two pipes, a drain thread, kills, deadlines, restarts, late replies, orphans | a verdict is about its own sample; the budget caps a document; every `grade()` returns |
| Document set | `document_set.py`, `_core.py` | the documents parsed so far, whether the set is whole | documents that do not parse, roots that are missing, validators and checks that crash | the checks see the whole set or do not run; a crash costs only what crashed, and never a pass |
| Cross-document checks | `pipelines.py`, the package checks of `connectors.py` | none | references by base id across packages, two-hop endpoint lookup, type-map shadows | what passes can be loaded; no dangling reference is silent |
| Per-document validators | `_core.py`, `connectors.py`, `connections.py`, `streams.py`, `rule_cases.py` | none | verdicts of the sample grader mapped to findings | one document is refused when its model refuses it |
| Embedded schemas | `packages/contract-models/src/analitiq/contracts/shared/json_schema.py` | a memo and a path set per walk | recursive `$defs`, shared nodes, the order of a fold's sources, pointers that cross data | every reader folds one schema alike, and ends |
| Endpoint contracts | `contracts/endpoints.py`, `shared/arrow_shape.py` | none | names declared, bound and filled in different blocks; one matrix in three dialects; records found three times | what is accepted can be sent, paged, resumed and read back |
| Expressions and requests | `contracts/value_expression.py`, `shared/rules.py` | two dicts of one header map | checks that walk text beside a resolver that walks meaning; three header layers | the checks see what is looked up; the last layer has the word |
| Type maps | `contracts/type_map.py`, `arrow_grammar.py` | none | bounded integers as regular expressions; templates judged by probes | a rule renders inside the grammar |
| Connector contracts | `contracts/connector.py` | none | references between auth, discovery, transports and the connection contract | what is dispatched lands |
| Stream and pipeline contracts | `contracts/stream.py`, `endpoint_identity.py`, `shared/common.py`, `pipelines/` | none | identity of a table by slug and hash; checkpoints; rules told twice, in Python and in JSON Schema | a stream resumes where it stopped, and writes a table once |
| Schema release | `scripts/render_schemas.py`, `.github/workflows/schema-release.yml`, `tests.yml` | main, open pull requests, one release branch | a release computed from an older main, stale checks, overlapping runs, a failed run | pinned versions never change; release files are one release; every bump is recorded; a release comes unless an overtaken run ends last |
| Schema publish | `.github/workflows/schemas-publish.yml` | the bucket, the run in the concurrency group, the run that waits | a run that dies between two uploads, is replaced, rejected, dispatched or re-run | no dangling pointer; pinned objects are immutable; an equal stamp means current pointers |
| Published-fact guards | `scripts/check_contracts_version_pin.py`, `check_contract_consumption_pin.py`, `check_engine_grammar_pin.py`, `_guard_lib.py` | none | a cache in front of the bucket, retries across its lifetime | red only when something is really behind |
| Render pipeline and hooks | `scripts/render_all.py`, `.githooks/pre-commit`, `scripts/render_hook.py`, the `render_*.py`, `gen_pipeline_docs.py` | the working tree, the index, the last commit | what is rendered is the working tree, what is committed is the index; two writes at once; generators that read each other | a commit the hook lets through is fresh |
| Evaluation harness | `evals/run_evals.py` | the queue, the counts, the working directories, the results log | a broken run, a kill between two steps, several invocations on one log | a broken run is a result; a pass is earned; the gate agrees with the log |
| Rule records | `contracts/shared/rules.py`, `rule_record.py`, `scripts/render_rules.py` | none | a binding to a validator that no longer exists | the registry names what exists |
| Census | `census/`, `scripts/render_prose_census.py`, `render_contract_consumption.py` | hashes of prose sites a person affirmed | may not be restamped by a pipeline | part of `check` |
| Package release | `contract-models-release.yml`, `validator-release.yml`, `release-please.yml`, `packages/*/scripts/build.py` | tags, PyPI | pure orchestration of external services | - |
| Release table, plugin scripts, other workflows | `scripts/connector_release_table.py`, `plugins/*/scripts/validation_request.py`, `ai-review.yml` ... | none | one pass over files | - |
| Plugin prose, schemas, rules, fixtures, vendored JSON | `plugins/`, `schemas/`, `rules/`, `evals/scenarios/` | data | not code | - |

### How they interact

* The connector checks grade every example recorded beside an embedded JSON
  schema.  They open one `BudgetedGrader` per document and call `grade()` once
  per sample; the grader owns a child process running `_sample_worker.py`, writes
  line-delimited JSON to its stdin and reads its stdout through a drain thread
  and a queue.
* `document_set.py` locates the texts of a request, has `_core.py` grade each one
  under its kind, and, when the set is whole, runs the cross-document checks over
  what was parsed.
* `render_all.py` runs the generators in order; the pre-commit hook runs it on the
  working tree and then, to check, on a copy of the index; `render_hook.py` runs it after
  an edit in a session.
* `render_schemas.py` writes a release; `schema-release.yml` keeps it open as a
  pull request; merging it is a push that `schemas-publish.yml` uploads.
  `SchemaRelease` shows that main's releases only add versions, which is the
  assumption `SchemaPublish` makes about a push.
* The evaluation harness runs the plugin in throw-away working directories, one
  run after another, and grades the result with the validator.

## 2. The plan

Done, in this order:

1. `SampleBudget` (detailed) and `SampleGrading` (abstract), with `SampleBudgetProofs`:
   the only part with concurrency inside a program.
2. `SchemaRelease`: committed schemas, the guards of a pull request, the release branch.
3. `SchemaPublish`: the queue of runs and the bucket.
4. `WorkspaceDocuments`, `CrossDocuments` (pure operators) and `DocumentSet` (the
   request that composes them).
5. `EvalRuns`: the harness, its working directories and its log.
6. `RenderHook`: three trees, two writers, the hook.
7. The contract models, in modules of pure operators (sections 9 to 13), composed by
   `MCContracts` in one run: `EmbeddedSchema`, `SchemaPointers`, `ReadRecords`,
   `ColumnShapes`, `TypeMaps`, `ValueExpressions`, `RequestWiring`, `ReadOperations`,
   `WriteOperations`, `Connectors`, `PublishedMirrors`, `StreamBindings`; and one state
   machine, `RequestDispatch`, which builds a request.
8. Proofs of every property the runs of these state machines check, liveness apart:
   `SampleBudgetProofs`, `SchemaReleaseProofs`, `SchemaPublishProofs`,
   `DocumentSetProofs`, `EvalRunsProofs`, `RenderHookProofs`, `RequestDispatchProofs`
   (at the end of their sections).
9. Proofs of every property of the contract modules that are not recursive:
   `ContractProofs`, about the properties `DocumentContracts` states of `ColumnShapes`,
   `TypeMaps`, `PublishedMirrors`, `Connectors` and `StreamBindings` (sections 11 and 13), and of
   `ValueExpressions`, `RequestWiring`, `ReadOperations` and `WriteOperations` (section 12).

Left:

10. `EmbeddedSchema`, `SchemaPointers` and `ReadRecords` are recursive over a schema that can refer
   to itself, and stay with TLC (`SchemasReadAlike`).
11. The one-bit refusals of `WorkspaceDocuments` replaced by the contract modules where a
   cross-document check depends on them.

## 3. Sample grading: `SampleGrading`, `SampleBudget`

`SampleGrading` is the contract in a page: a caller asks for one sample at a
time; the answer is a verdict about exactly that sample, or one of the named
reasons; once the budget is out, or the host has refused a worker, every later
answer is that reason; the grader ends once.

`SampleBudget` is the code. Its parent variables are the attributes of
`BudgetedGrader` and the locals of one `grade()`; a worker is named by the call
that started it and has a life, a stdin (`inbox`), what it holds, a stdout
(`out`) and a drain thread. The actions follow `grade()` statement by statement:

| code | actions |
|---|---|
| `grade()` up to `_start` | `AskExhausted`, `AskReady`, `AskUnhostable`, `AskRefused`, `AskStart` |
| `_start`, `_handshake` | `StartSucceeds`, `StartFails`, `StartRaises` |
| `_graded` | `SendSchema`, `SendNode`, `SendGrade`, `ReceiveVerdict`, `ReceiveLoss`, `TimedOut` |
| `except Exception` in `grade()` | `Raise` |
| `__exit__`, `close()`; a SIGKILL of the parent | `Close`, `ParentKilled` |
| `_serve`, `_grade` in the worker | `Booted`, `TakeSchema`, `TakeNode`, `TakeGrade`, `TakePing`, `Answer`, `BrokenPipe`, `StdinEof` |
| the armed `faulthandler` watchdog, any other end | `SelfDestruct`, `Die` |
| `_drain` | `DrainLine`, `DrainEnd` |
| time | `Tick` |

What is abstracted: schemas, nodes and samples are model values (a subset of
them, `NotJson`, does not encode); a verdict is the triple it is about, not its
text; a pipe is an unbounded sequence of lines; the reasons are their kinds.

### Runs

* `sample_budget`: up to three calls over six requests that share schemas and nodes and
  contain one value that does not encode; `SampleBudget` 1 tick, `DocumentBudget`
  3, `StartDeadline` 5, `Margin` 2, `Slack` 1. Three calls are enough for a worker to be
  started, lost, replaced and used again with a record to get wrong; the document
  budget is smaller than what three breaches cost, so exhaustion, charged restarts
  and the bounded restart all happen, and the start deadline is larger than the
  budget, so a restart that took it would show.
* `sample_budget_live`: two calls, under fairness.

### Fairness

The parent's steps and the clock are weakly fair while the parent lives; a worker
that has something to read is scheduled; the watchdog is a native thread. Nothing
is assumed of an evaluation (it may never return: `Answer` has no fairness), of
the caller, or of a worker's own death.

### Proofs: `SampleBudgetProofs`

For any requests, budgets and number of calls, `TypeCorrect`, `NothingStale` and
`RecordHolds` prove `[]TypeOK`, `[]NoStaleVerdict` and `[]RecordIsTrue`.
`NoStaleVerdict` alone is not inductive: that the head of the queue is about the
sample being waited for depends on what was on the pipes when it was asked. The
inductive invariant `IInv` adds

* `Bookkeeping`: a grade in progress has a worker, a worker has a call, a worker
  not yet started holds nothing;
* `RecordIsTrue`: what is recorded as delivered will be held once stdin is read
  (`WillHold`: the last message of the kind, or what is held and nothing on the way);
* `UpToDate`: what has been delivered for the current call at each point of `_graded`;
* `UnderWay`: between calls the pipes are quiet; in the handshake exactly one pong
  is asked for, on its way, or first in the queue; in the wait exactly one verdict
  is, and it is about `req`.

TLC checks `IInv` on the instance of `sample_budget` too; the proof has one lemma
per group of actions and conjunct, and `PTL` closes the theorems. The assumptions
are `BudgetAssumption` and `RequestAssumption` of `SampleBudget`: the constants are natural
numbers, and the sentinel `_UNSENT` is no JSON value.

The rest is proved on top of it: `OneProcess` (one process at a time,
the watchdog for orphans only), `DocumentCosts` (the budget is charged for everything
and overrun by two slacks at most), `LossIsLocal` (a worker lost while grading is never
held against a later sample, and the stderr read is the worker's own) and `KeepsContract`,
the refinement: the initial states map to `SampleGrading`'s, and every step is a step of
it or a stutter. They need the clock. The invariant is `BInv`, which is `IInv` and `Accounts`:

* `ClockBook`: how long the parent has been in each wait, and that no worker has been at its
  sample for longer than the parent has waited;
* `BudgetBook`: what is left of the budget, what was spent and what is not charged yet
  (`Uncharged`) add up, and a call goes on only while a sample can be paid;
* `HostBook`: a latched refusal has had a refusal, and no worker.

The abstract mode is read off the state (`Mode`): ended, exhausted, unhostable, grading.
Liveness (`EveryGradeReturns`, `OrphansEnd`) stays with TLC.

## 4. Schema release: `SchemaRelease`

A tree is a function from the paths a release touches to their contents. A pull
request is its base and its head; merging is git's, path by path, with a
conflict where both sides changed one path. Nothing makes a pull request be
checked again when main moves, so `checked` is a bit set on an older main.

| code | definitions |
|---|---|
| `committed_version`, `_release_problem`, `_check_bump_records` | `Consistent`, `OneRelease`, `RecordSound` |
| `pending_release`, the override files | `Changed`, `OverrideApplies`, `Decided` |
| `cmd_check`, `check --released`, `cmd_release_guard` | `Check`, `CheckReleased`, `ReleaseGuard` |
| `cmd_release`, `_publish`, the stamp | `ReleaseTree`, `ReleaseFiles`, `StampOf` |
| `tests.yml` | `CheckPr`, `CheckRelease` |
| `schema-release.yml` | `StartRelease`, `FinishRelease`, `RefuseRelease`, `FailRelease` |
| authors and reviewers | `OpenModelChange`, `OpenPackageBump`, `OpenHandEdit`, `ClosePr`, `MergePr`, `MergeRelease` |

A schema's content is a model value; whether two contents differ by a minor or a
major bump is the bump models' judgment, so the model lets them say either.

* `schema_release`: one resource, three contents, two ordinary pull requests, two
  release runs at once, one failed run. Two pull requests and one release branch
  are the smallest number in which a release computed from one main is merged on
  another that a second merge changed. `EveryReleaseWhole` and `PinnedForever` hold in every order,
  with checks as stale as they may be: the paths a release writes depend on the version it
  computes, so two releases of one version conflict. Two packages let the stamp alone go stale.
* `schema_release_live`: two contents, two ordinary pull requests, two release runs at once, one
  failed run. `ReleasesCatchUp` says that a main which passes the bare check for good ends up
  released, whatever was merged on a stale check, refused, in conflict or failed. Nothing in
  `schema-release.yml` serialises its runs, so the property names the one exception the model has:
  the last run to end had been overtaken (`overtaken`) by one begun after it. Without those two
  words TLC refutes it (section 14).

That main always passes the bare check is no property of this code (section 14), and a property
that excludes the merges which break it would restate the guard of the merge.

Fairness: GitHub starts and ends runs, and a reviewer checks and merges the
release that is open. Nothing is assumed of authors.

`SchemaReleaseProofs` proves `EveryReleaseWhole`, `PinnedForever` and
`OverrideHonoured` for any resources, contents, packages, pull requests, runs and failures.
None is inductive: whether a merge keeps main whole depends on the base it was cut from.
`ReleaseInv` says it of every tree there is: main and what every run started
from are `Sound` (one release, with its records), and the latter are `Past` (main
has every version they had, unchanged); a pull request of an author touches no path of a release, or
edits a pinned file and never passes (`AuthorsPr`), and the one of a run is a release of its own base (`ReleasePr`). The lemma
the proof turns on is `MergeEither`: a path of a merge that raised no conflict is one side's, so two
releases of one version cannot both land, and the older of two versions conflicts on the files
it shares. Assumed: there is a package, `None` is no content, and a
stamp is a file.

## 5. Schema publish: `SchemaPublish`

A push replaces main's tree; the concurrency group holds one run and one that
waits, which a newer one replaces. A run waits for its reviewer, mirrors the
names that are up, uploads the files in `LC_ALL=C` order, pinned ones once, the
stamp last. A step may fail anywhere; a failed run is dispatched on main, or
re-run at its own commit (`Rerun`).

* `schema_publish`: two released resources around the hand-authored directory,
  three pushes, two failures, one re-run. `NoDanglingPointer` and `PinnedImmutable` hold whatever
  happens; `StampMeansCurrentAsPrescribed`, `PointersNeverGoBack` and
  `PublishCatchesUp` while nothing is re-run at its own commit. `PublishCatchesUp` is
  for the pushes that leave the hand-authored file as it was published: its edit in place makes
  every later run fail until it is put back, which is what the workflow intends.
* `schema_publish_stale_stamp` (a finding): a failed run that a complete one has
  superseded, started again, may die with the old pointers up beside the new stamp.

Fairness: reviewers answer, runs proceed, and someone dispatches a run after a failure.

`SchemaPublishProofs` proves `NoDanglingPointer`, `StampMeansCurrentAsPrescribed`,
`PinnedImmutable` and `PointersNeverGoBack` for any directories, versions, pushes, failures and re-runs.
`PublishInv` adds to them what holds in the middle of a run: `UploadBook` (what a run has passed is up as its
tree has it) and `OrderBook` (while nothing is re-run, what waits is main, what runs was main, and nothing
published is newer than either). That a pointer goes up
after its versions is a fact about the upload order, proved from the least element of the files left
(`FirstIsFirst`). Assumed: bounds are natural numbers, and `None` is no tree, run or version.

## 6. A request to the validator: `WorkspaceDocuments`, `CrossDocuments`, `DocumentSet`

`WorkspaceDocuments` says what a document is (the fields other documents
depend on, and whether its own model refuses it), and where it is found.
`CrossDocuments` has one operator per check of `_CHECKS`, under the code's name, from
the documents by kind to the findings. `DocumentSet` is the state machine of `_graded_request`:

| code | actions |
|---|---|
| `workspace-empty`, root presence | `EmptyWorkspace`, `GradeRoots` |
| `_graded`, `_run_guarded` | `Unreadable`, `Grade`, `GradeCrashes`, `DocumentsGraded` |
| `_check_findings`, `_package_checks`, `_workspace_checks` | `Check`, `CheckCrashes` |
| the result | `Answer` |

Identifiers are `<<base, version>>` pairs; the key of a document is its package
directory and its place in it; documents and checks run in one fixed order, since their findings
are a set. A check that probes type families compares the rendered types.

* `document_set`: the seed is a workspace that runs: a database connector and an
  API connector, a connection of each, a table, an endpoint, and a pipeline with one stream from one to the
  other. Every workspace one edit away (a field changed, a document added, dropped or made unreadable)
  is graded as a workspace, and its packages and documents as requests of
  their own, with any one validator or check crashing; every workspace two edits away is graded as a workspace.
  Two edits are enough for any one reference and its target to change together.
  `PassMeansRunnable` reads the workspace without the checks: it says what
  a runner needs, and the checks must imply it. An endpoint that a connector lacks
  is a warning (RULE-STRM-044), which does not cost a pass, hence the weaker
  `CleanMeansResolved` for it.

`DocumentSetProofs` proves the five properties for any requests over any documents, and any
crashes. `DocInv` follows the request: until a phase is over, what is graded, kept and reported
agree (`DocumentsBook`: each document located is ungraded, kept under its kind, reported or
crashed), and the same for the checks (`ChecksBook`: each check due is unchecked, ran or crashed, and
the findings are exactly what those that ran return). `KeyGraded` and `CheckDone` are shared
by the steps. From it:

* `CrashesAreContained`, `ChecksWait`: read off the books;
* `PartsDecide`: the findings of a workspace are the union of its packages', its own
  documents' and the checks across packages, because directories keep keys apart (`NamesApart`);
* `PassesRun`, `CleanResolves`: a pass means that every check was silent
  (`PassingIsSilent`), and each silence is a resolution: of a connection's connector, a pipeline's
  stream and connections, and an endpoint in the package of the connector it reaches. This is
  the proof that the checks of `_CHECKS` together imply what a runner needs, for workspaces of any
  size, and not just two edits from the seed.

Assumed: a request has finitely many documents, a key is under a directory, and none
is at a secret location (the request models refuse those).

## 7. The evaluation harness: `EvalRuns`

`cmd_run` is a loop of steps `mkdtemp`, `seed`, `session`, `grade`, `discard`,
`record`, `count`; each is an action or two, named as what happens: `SessionEnds`,
`SessionFails`, `GradeRefusal`, `GradeBuild`, `Raises`, `Discard`, `DiscardFails`,
`Record`, `NextAttempt`, `NextScenario`, `Finish`. Four ways lead out early: `MakeDirectoryFails`
(`mkdtemp` is outside the `try`), `SeedRefuses` and `PluginMissing` (a `SystemExit`, which
`except Exception` lets through) and `RecordFails` (an `OSError` of the append, which leaves no line,
half of one or a whole one). `Kill` ends the process anywhere, in `record` as `RecordFails` does;
`Interrupt` unwinds through `finally`. A second invocation appends to the same log. A rate is counted in passes.

* `eval_runs`: `--runs 2` and then `--runs 1` of two scenarios (a build, and a refusal
  on the network whose seed patch may not apply; the plugin of the build may be missing), one kill and
one exception, in a run or in `mkdtemp`, `rmtree` or the record. Two scenarios are needed for the
  worst rate to differ from the last, two attempts for a count to carry over, two
  invocations for a line to be spoiled.

`BrokenRunsAreRecorded` is the part of the comment at `run_evals.py:619` that the `except` delivers:
no exception leaves from inside the `try`, and an invocation that exits by itself has exactly one line
for every attempt of every selected scenario. Two exceptions and two `SystemExit`s do end an invocation
early (section 14). `KillCostsTheNextAtMost` says what an end inside the record costs.

`EvalRunsProofs` proves the five properties for any scenarios, attempts, invocations, kills, interrupts
and exceptions. `RunsInv` has a book for each thing a crash can catch half done: where an invocation is
(`WhereBook`), which runs have a line (`LogBook`), what the run in flight may yet be recorded as
(`FlightBook`), that no run has two lines and a half one is where its invocation ended (`LineBook`),
where an invocation stood when it ended (`EndBook`) and the counters against the lines (`CountBook`). Steps are grouped by what they touch: those that only move
the run in flight (`Quiet`), those that end an invocation, and those that write a line. That
`KillCostsTheNextAtMost` bounds the spoiled lines by the invocations that ended inside the record is a count: each spoiled line
follows a half one, and each half line is the last of such an invocation. Assumed: a request for runs is a sequence of positive numbers.

## 8. The render pipeline: `RenderHook`

A tree gives each part a value: a source's is a version, a derived part's is what
it was rendered from. The working tree, the index and the last commit are trees.
`Pipeline` lists the generators with what each renders from what; a generator is a
step of `Write`, so that the session hook's write and the commit hook's interleave. `Add`
stages a file, which may hold prose and generated blocks, at any moment: git locks the index for no
longer than that, and reads it again when the hook has passed. `seen` is the index as the hook last read
it. An edit may move a record out of `rules/`. `StartCommit`, `CheckoutIndex`,
`Check` and `Accept` are the pre-commit hook, `Bypass` is `--no-verify`.

* `render_hook`: two edits and two commits (a move and what follows it, or a source and what it
  feeds, staged in either commit). `HookKeepsFresh` is the hook's promise, with the two exceptions TLC
  finds when they are taken away (section 14): a record moved out of `rules/` with nothing staged that
  runs the hook (`MovedOutUnseen`), and what a `git add` stages after the hook last read the index.
  `WriteSettles` says that the order of the generators is right.

`RenderHookProofs` proves `WriteSettles` and `HookKeepsFresh` for any edits, moves, runs, additions
and commits. `HookInv` adds what a run of `write` knows on its way
(`RunsBook`: what is behind an undisturbed run passes; a settled tree is fresh) and what a commit
waits for (`CommitBook`: the copy is the index as it was read; what is accepted leaves it as fresh as the commit
it found). `WriteOne` is the lemma about the order of the pipeline: a generator that succeeds leaves
its own part passing and those of the generators before it as they were, and writes nothing new where it
passed. It is why two runs at different places do not undo each other. `NothingFed` is the
case in which the hook lets a commit through without a run: what is staged then feeds no generator, or is
a record that was outside `rules/` already. Assumed: 0 is a version.

## 9. The contracts of one document: how they are checked

A contract model is a predicate: a document is accepted or refused. What can go
wrong is between predicates: two walks of one schema that read it differently, a check
that walks text beside a resolver that walks meaning, a rule told once in Python and
once in JSON Schema. So each of these modules defines the code's operators under its
names and a property that relates two of them, or relates acceptance to what a run needs.

`MCContracts` is one state machine over all of them. A state holds a document `doc` of
a `kind`; a step is one edit of it (`SchemaEdit`, `ReadEdit`, ... of the `MC` module of that
kind), starting from documents the code accepts, up to `MaxEdits[kind]` edits. Every
document within that distance is therefore checked, the accepted and the
refused ones, and the bounds are chosen so that a name and its target, or the four keys of a
conflict, can all change. The kind `dispatch` is not edited: its steps are
`RequestDispatch`'s.

| kind | module (MC module) | starts from | edits |
|---|---|---|---|
| `schema` | `EmbeddedSchema` (`MCSchemas`) | nine written nodes, all blank | 3 |
| `pointer` | `SchemaPointers` (`MCPointers`) | an empty document | 4 |
| `records` | `ReadRecords` (`MCRecords`) | an array of rows of one cursor | 2 |
| `column`, `endpoint` | `ColumnShapes` (`MCColumns`) | a scalar column; a table | 3, 3 |
| `typemap`, `range` | `TypeMaps` (`MCTypeMaps`) | each family without arguments; every range below 100 | 4, 0 |
| `expression` | `ValueExpressions` (`MCExpressions`) | four leaves | 4 |
| `read` | `ReadOperations` over `RequestWiring` (`MCReads`) | a plain, a paged, a windowed read | 2 |
| `write` | `WriteOperations` over `RequestWiring` (`MCWrites`) | three accepted modes | 2 |
| `connector`, `url` | `Connectors` (`MCConnectors`) | three accepted connectors; the empty text | 2, 6 |
| `mirror` | `PublishedMirrors` (`MCContracts`) | every block with no key | 4 |
| `source`, `bindings`, `mapping`, `payload` | `StreamBindings` (`MCStreams`) | a plain source; pairs of destinations; a mapping; every rule | 4, 2, 5, 0 |
| `dispatch` | `RequestDispatch` | no URL, no header | 2 names in all |

The run `contracts` checks one property per component; each is a conjunction of the
properties its modules state. `DocumentContracts`, which reaches no recursive
definition, states six of them (`ColumnsAreOneMatrix`, `TypeMapsStayInGrammar`,
`ConnectorsLand`, `StreamsBind`, `SlotsAreSwept`, `OperationsAreWired`), and `MCContracts` adds
`SchemasReadAlike`. The table of section 14 lists what they leave out.
`SchemasReadAlike` is stated of the document a step leads to, as an action property.

## 10. Embedded schemas: `EmbeddedSchema`, `SchemaPointers`, `ReadRecords`

A document maps each written object to what is read of it; an object merged
from several (the effect of `_combine_schema_values`) is the sequence of its
written parts, which is also what the folds memoise on.

| code (`shared/json_schema.py`) | definitions |
|---|---|
| `composed_schema_keys`, `_compose_schema_keys` | `ComposedKeys`, `Fold`, `MergeKeys` |
| `_property_contributors`, `_contributors` | `PropertyContributors`, `OwnOf`, `MergeContributors` |
| `_reject_unsatisfiable_branch`, `_refuse_disjoint_types`, `_compose_declarations` | `Contradictory`, `Clash`, `ComposeDeclarations` |
| `_composed_permits_object`, `_composed_unions` | `PermitsObject`, `Unions` |
| `effective_properties`, `resolve_declared_path` | `EffectiveProperties`, `ResolveDeclaredPath` |
| `materialize_node`, `_materialize`, `_combine_schema_values` | `MaterializeNode`, `MaterializeFold`, `MergeObjects` |
| `walk_structural_positions`, `resolve_schema_ref`, `resolve_local_pointer` | `WalkedFrom`, `FollowsRef`, `FindsPointer` |

* `FoldsAreOneFold`: on an acyclic document the folds agree with the declarations read
  off its expansion in order. `ResolvesWhatCanBeCarried`: a name that resolves is one an
  instance can carry, by a reading of JSON Schema over instances, and a name refused as
  contradictory is one no instance can.
* `PointerStaysOnSchemas`, `FollowsWhatWasRead`: a `$ref` is followed exactly to the
  positions every check walks, conditional ones excepted.
* `CursorIsReadBack`: the gate, the engine's cursor reader and the enumeration of
  columns find one cursor of one type.

## 11. Columns, type maps, mirrors: `ColumnShapes`, `TypeMaps`, `PublishedMirrors`

`ColumnShapes` has one matrix three times: `ContainerShape` (the models), `ContainerRules`
(the JSON Schema they publish) and `NodeComplaints` (the walk over raw dicts), and
`OneMatrix` says they accept the same trees but for the one bound JSON Schema cannot state.

`TypeMaps` has the Arrow grammar as a table (`Families`), the spelling of a bounded
integer by decades (`IntRangeParts`), and a read rule's acceptance: its
shape, its placeholders, and the probes of `validate_template_bounds`. `BoundsAreExact`
holds of every rule but two kinds the code leaves open (`Interrogated`): a
placeholder inside other text, and two placeholders that refer to each other.

`PublishedMirrors` has rules of twenty-four kinds between sibling keys, each as its validator and as
the fragment beside it, over keys that are absent, null, empty or given. A pair is in
`ByPresence` where the fragment looks at the presence of a key; for those the
two are compared on blocks without nulls and empty values. The run
`contracts_rendered_rules` shows what the restriction hides.

### Proofs: `ContractProofs`, columns, mirrors and type maps

`ContractProofs` proves the six properties of `DocumentContracts` of any document of a
kind, and not only of those within some edits of a start. There is no state machine to
induct over: `doc` is a document, and a theorem's hypotheses say what shape the model gives
a document of that kind. TLC finds the hypotheses true of every document of the run `contracts`
when they are added to it as invariants.

* `ColumnsAreAlwaysOneMatrix`: `OneNode` and `PublishedNode` compare the three dialects node by
  node, on every combination of the keys a node can have, and `Matrix` concludes for a column of any tree.
  `MirrorsHold` takes each of the twenty-four kinds of rule and compares its two sides for
  every value of its keys (`VerdictsOf` names the two). Assumed: `AbsentIsNoWord`, that the marker
  of an absent key is no value of a key.
* `TypeMapsAlwaysStayInGrammar`: `FamiliesAre` reads the parameters off the grammar,
  `BoundedByLiterals` says what a sibling's literal makes of a bound, and `MatchLeaves`, `RefusedLeaves` that a rule
  accepted for its shape is refused for its bounds exactly if a capture's value renders a type outside the
  grammar: a probe that falls outside is a match, and a value outside is one that `FiniteIsProbed` shows some probe stands for.
  It is for any captures, over the alphabet of values the model takes. `Ranges` is for
  any bounds from 0 to 99, the only ones `_int_range_pattern` does not raise for.

## 12. Expressions and operations: `ValueExpressions`, `RequestDispatch`, `RequestWiring`, `ReadOperations`, `WriteOperations`

`ValueExpressions` has the sweeps (`ExpressionNodes`, `Tokens`, `FunctionNames`,
`SingletonPayloads`) and the resolver (`ResolveValue`, `ResolveFunction`, `Results`)
over one grammar of nodes. A recursive walk of the code is here the set of nodes it reaches: `Inside` has,
by walk, the children each walk enters of a node, and `Walked` takes what is entered level by level
down to `Deepest` (5 in the run, which no document of it exceeds). The resolver
goes the other way (`Resolved`): a function of the values a slot is resolved from, each after its inputs.

`SlotsAreSwept` has two parts. `SweepCoversResolution`: in an accepted slot every token looked up
was graded, and every function called was seen; and where each function is
argued as its resolver reads it (`WellArgued`), nothing is graded that is not looked up. `ConnectorSlotResolves`: the same slot in
a connector names only known scopes and raises for one thing, a null `safe`.

`RequestDispatch` builds one request in the order the engine does: `ResolveUrl`, the headers
of `defaults` and `transport` (`SetHeader`, `NoteRemoval`, `NextLayer`), the removals and
the headers of the operation (`RemoveHeader`), `ApplyContentType`, `ResolveBody`. `effective` and
`casing` are the two dicts of `build_effective_headers`; `latest` is history. `graded`
says whether the contract has read the blocks: what the merge does of blocks
nobody graded is checked too. Two names are enough for one layer to respell, override
or remove what another set.

`RequestDispatchProofs` proves `HeadersLayered` (the two dicts and the history agree, and the last layer to
speak of a name has the word) and `SentAsAuthored` for any names, spellings, values and
number of entries. `DispatchInv` is the shape of the state and three books: `MergeBook` (the map
against `latest`, with one spelling per name), `RuleBook` (what a graded block cannot hold) and `SendBook`
(what a failed or sent request is). Assumed: `Content-Type` and `Content-Length` are two names.

`RequestWiring` is what reads and writes share: the path, the params, the bindings and the sweep
over every slot. `ReadsWhatExists` and `RequiredParamsArrive` state what a run of an accepted
read relies on, whatever it is filtered by and whether or not a cursor is stored;
`EachRecordIsSent` and `SuccessIsReadable` the same of a write.

### Proofs: `ContractProofs`, expressions and operations

The documents are trees (`Tree`): every node is JSON (`Json`) and has a height, greater than that of what is
in it and at most `Deepest`, which is any natural number. So a theorem is for any
breadth and, with `Deepest` chosen for the document, any depth.

* `SlotsAreAlwaysSwept`. `LevelsAre` gives the levels of a walk: the function
  they are exists by induction on the level, written as the least level at which it could
  fail (`LeastNat`, `UpFromZero`), since the induction theorems cannot be instantiated. `WalkReads`
  and `TreeReads` conclude that a walk of a tree reads the node and all that is read inside each node
  read, and nothing else. From there each sweep is compared with the
  resolver by what the form of a node enters: `GradedNodes` and `ValuesAreGraded` (what is resolved lies
  inside graded nodes), `LookedUpAreTokens` and `CalledAreNamed` (nothing looked up or called is hidden),
  `TokensAreLookedUp` (the converse). `ResolvedIs` and `NoValueRaises` follow the resolver
  up the heights for a connector's slot.
* `OperationsAreAlwaysWired`. `PlacesRead` says what the sweep of the bindings reads of a slot, and
  `BoundInItsSlot` that a binding found by the whole-slot reading lies in the one
  slot its param is declared for. `OneDriver` and `FillsDrive` give a param of a read one driver at most and,
  if required, one that fills it; `ShapesAlongIs` and `ShapesStay` follow the path of a `from_input` through the
  record's shape, so that `InputsAreSent` finds what a write names in every record; `KeyIsNew` is about the
  idempotency key of a retry.

What is assumed of an operation (`Read`, `Write`, `Request`): its nodes are trees; a read's response has a
schema (the model requires one) and the shapes of a write's record are closed under their fields; and no entry of
its path params, headers or query is itself named as a form is (`literal`, `from_param`, ...).
The last is a real limit of the code, the sixth of those found while modelling in section 14.

## 13. Connectors and streams: `Connectors`, `StreamBindings`

`DispatchLands` follows every request of a connector (an auth operation, a discovery, the options of
an output) through `SelectTransport`, the default and the inherited
type; `ActivationIsReachable` follows every path a connection waits for to the one
declaration that writes it; `CredentialsAreSeen` compares the sliced authority of a URL with
the one RFC 3986 reads.

`CheckpointIsHighest`, `EndpointsAreWrittenOnce`, `RulesGradeOutputs` and `RulesAdmitARow`
are about one stream. A hash stands for its payload: two payloads are taken never to share
the eight digits kept of them.

### Proofs: `ContractProofs`, connectors and streams

* `ConnectorsAlwaysLand`: `RequestsResolve` is the lemma that a transport a request names is
  declared; `Dispatch` adds the default and the family of the kind, `Activation` takes each path a
  connection waits for to the one declaration of it. `Credentials` is for a URL of any length over any characters:
  both readings of the authority end where `FirstOf` finds the first stop, and an `@` is in the one
  exactly if it is in the other (`AheadOfTheStop`). Nothing is assumed of a connector.
* `StreamsAlwaysBind`: `Checkpoints` needs no hypothesis. `EndpointsOnce` has two destinations with one key
  bound to one object and conversely, from the assumption that payloads are told apart. `RowsPass` gives the row: the lowest
  number a rule names, or 0. `RulesGrade` is the deep one: a rule's field resolves exactly if the
  mapping outputs it, for a table of any number of nodes and a field of any length. The
  table is written parent first (`Table`: a node's children have higher numbers), so what `Element` and
  `Below` compute exists by induction down from the last node, written here as the least number at
  which it could fail (`LeastNat`, since the induction theorems cannot be instantiated); `WalkEnds` then follows the walk of a
  field token by token beside the paths below each node.

## 14. Findings

Shown by a run:

* `schema_publish_stale_stamp`: the guard's docstring says a publish that died
  mid-tree leaves a stale stamp; a re-run at an older commit does not.
* `contracts_endless`: the object gate (`json_schema.py:611`) recurses for ever on a
  union branch that refers back to its schema; `effective_properties` of
  `{"anyOf": [{"$ref": "#"}, {"type": "null"}]}` raises `RecursionError`.
* `contracts_rendered_rules`: a rule added by `render_schemas.py` looks at the presence of
  a key where the validator looks at its value.

Stated as properties that a run does not list; TLC finds each violated when it is added to
`contracts.cfg` under the name `MCContracts` gives it, in brackets where it differs (for
`ColumnsAgreeWithPaths` the kind `records` needs three edits in place of two):

| property | module | what the code does |
|---|---|---|
| `ViewsAgree` | `EmbeddedSchema` | `materialize_node` refuses a node of which `effective_properties` gives nothing |
| `ColumnsAgreeWithPaths` | `ReadRecords` | merging key by key (`json_schema.py:1050`) replaces one contributor's `$ref` |
| `EnumerationEnds` | `ReadRecords` | `find_record_field_properties` (`endpoints.py:4600`) does not end on an array whose items refer to itself |
| `RendersWhateverMatches` | `TypeMaps` | an optional capture that takes no part renders the empty string, against the comment at `type_map.py:355` |
| `ResolvesOrDrops` (`SlotsResolveOrDrop`) | `ValueExpressions` | a shape-valid `basic_auth` with a text for input, or a null `safe`, raises in the resolver |
| `SeesOnlyWhatResolves` (`ChecksSeeWhatResolves`) | `ValueExpressions` | `_collect_function_names` reads a function's `map` and `x-` siblings, which are never resolved |
| `TransportRemovalHonoured` | `RequestDispatch` | a transport's `headers_remove` is validated (`connector.py:1226`) and no step of the merge reads it |
| `HolesCanFill` (`PathsCanFill`) | `WriteOperations` | a path param whose default is `{"literal": null}` is accepted, against the comment at `endpoints.py:3641` |
| `PickerOffersWhatIsAccepted` | `Connectors` | an empty `ui.options` beside an `enum` passes (`connector.py:578`) |

Found while modelling, and stated by no property of a run:

* `evals/run_evals.py:618`: `seed` raises `SystemExit` for a patch that does not apply (417-432), and `invoke`
  for a plugin that has no directory (444), which `except Exception` does not catch; `mkdtemp` (601) is
  outside the `try`, and an `OSError` of `record` (707-710) leaves `cmd_run`. In each case the runs queued behind
  are lost, against the comment at 619 (`SeedRefuses`, `PluginMissing`, `MakeDirectoryFails`, `RecordFails`).
* `evals/run_evals.py:708`: a kill or an error inside `record` spoils the line of the next run as well as its
  own, against the docstring at 702.
* `.githooks/pre-commit:25`: a staged rename is listed under its new name only, so moving a record
  out of `rules/` does not run the hook, against "keep every commit render-consistent" (line 2).
  `HookKeepsFresh` without `MovedOutUnseen` fails in five states: edit (the move), `Add`, `StartCommit`, `Accept`.
* `.githooks/pre-commit:36`: git commits the index as it is when the hook ends, not the copy that was graded.
  `HookKeepsFresh` without `index = seen` fails in seven states: two edits, `Add`, `StartCommit`, `Add`, `Accept`.
* `schema-release.yml:3`: "keeps one release PR open publishing every schema the models changed", but the workflow
  has no `concurrency` key. Of two runs the older may end last: with nothing to release on its tree it
  closes the newer run's pull request, and main stays unreleased until it is pushed again.
  `ReleasesCatchUp` without `overtaken` fails in eleven states. The workflow it calls
  (`analitiq-ai/.github`) is not in the repository, and may serialise its own runs.
* `render_schemas.py:2090`: two pull requests bring the same change of the models, one with an override of its
  bump. A release of the other lands in between, on checks that are then stale, and the override is
  left on main with nothing to override: every later check and release fails until someone deletes
  it. `Check(main)` as an invariant of `schema_release` fails in eleven states: both opened and checked, the
  first merged, a run, its release merged, the second merged.
* `endpoints.py:2825`: `{"read": null}` has a key and no operation, like the blocks of `ByPresence`.
* `endpoints.py:4368`: a bare `response.metadata` is accepted as a token, though what is declared are its keys.
* `endpoints.py:4246`: that a param is bound once is decided on a slot read whole, while the places and names of its
  bindings are checked entry by entry (`endpoints.py:3608`). A header named `from_param` with a text
  for value counts as a binding of the param of that name; one named `literal` hides the bindings beside it.

## 15. What is only model-checked, and what is not modelled

Proved, for every value of the constants: each safety invariant and action property the runs of the seven
state machines check, each from an inductive invariant that TLC checked first; the
refinement of `SampleGrading`; and, for every document of
the shape the model gives its kind, the six properties of `DocumentContracts`.

Only model-checked:

* the liveness properties (`EveryGradeReturns`, `OrphansEnd`, `ReleasesCatchUp`, `PublishCatchesUp`): fairness and
  `ENABLED` are out of the prover's reach;
* `SchemasReadAlike`: it is about what recursive definitions of `EmbeddedSchema`, `SchemaPointers` and
  `ReadRecords` compute of a schema that may refer to itself, and would need induction over a document's data;
* the three violations of section 14, which are counterexamples.

Not modelled, component by component in `PROJECT.json` with the reason:

* the published-fact guards (one process compares two files over HTTP; the meaning of an
  equal stamp is `SchemaPublish`'s), the package release, the release table, the
  plugin scripts and the other workflows;
* of the contract models, the field tables, the text of a DSN, the body of a GET, polling and
  batching sizes, pipe expressions; of reads and writes, a function's `map` and `x-` keys,
  which the kind `expression` covers;
* of the sample grader, a pipe that is full: `_sample_budget.py:429` writes without a deadline, and
  the model's pipe is unbounded;
* of the evaluation harness, what it prints and the directory of the results log, made before the first run: either
  failing ends the invocation, as the exceptions that are modelled do;
* of the generators, the edit made between one's read and its write (`gen_pipeline_docs.py:994`);
* `qualified()` (`document_set.py:217`) raises for a finding that already names a document, which no
  validator or check returns.
