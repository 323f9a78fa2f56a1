# A formal model of snow-grass

snow-grass is a single-process chat agent: a FastAPI application on one asyncio
event loop over a SQLite store. It manages versioned *skills* (instruction
packages with optional scripts), keeps a rolling *memory* of each chat session,
runs the *agent* that talks to a model and executes scripts, and imports token
*usage* from Codex's log files. This directory holds TLA+ modules for the parts
of it that keep state across awaits, TLC configurations for small instances,
and TLAPS proofs for every module: each safety property and each refinement that
a passing run checks on a small instance is a theorem for every value of the
constants.

Paths below are relative to `src/src/snow_grass/`.

## Inventory

| Component | State | Operations | Hard behaviour | What makes it correct |
|---|---|---|---|---|
| Skill management (`skills/service.py`, `skills/repository.py`) | `managed_skills`, `skill_drafts`, `skill_releases`, `skill_runtime_states` | create, clone, save, validate, publish, activate/rollback, enable, archive | awaits between read, check and commit; net-change UPDATEs with no version check; crash between commit and refresh | releases immutable, unique and validated; lifecycle agrees with releases; no silent overwrite |
| Skill registry (`skills/registry.py`) | managed snapshot, enabled overrides | refresh, select | overlapping refreshes install out of order | serves releases only, and the ones the store points at |
| Packages and validation (`skills/schema.py`, `skills/validation.py`) | none | build, clone, hash, validate | – | a report belongs to its content |
| Session memory (`memory/service.py`, `persistence/repository.py`) | `chat_messages`, `session_summaries` | add message, compact, prepare context | overlapping compactions; provider failure; late visible messages | one current summary; no message passed over or folded twice; the window follows the summary |
| Long-term memory (same files, memory endpoints of `api/router.py`) | `memory_items` | create, update, delete, search, mark, extract | overlapping PATCH and DELETE mix their columns; status and `deleted_at` diverge; zones; duplicate candidates | the deleted, the expired and what nobody approved is told to no turn |
| Context builder (`memory/context_builder.py`, `memory/token_counter.py`) | none | build | budgets and cuts at their limits | within budget, newest message always there, nothing left out needlessly |
| Agent runner (`agent/runner.py`) and stream endpoint (`api/router.py`) | conversation, step counter, event stream | select, ask the model, serve tool calls, finish | errors at every await; client leaves; step limit | calls answered, one terminal event, answer stored before it is announced |
| Script executor (`skills/executor.py`) | process, pipes | validate, start, wait, kill, drain | time limit races exit; pipes outlive the process | no process left, run ends |
| Tool result cache (`tools/result_cache.py`, `persistence/repository.py`) | `tool_result_cache` | resolve, mark hit, upsert | row replaced between two reads; insert race | nothing reused past its lifetime; failures do not fail the call |
| Codex usage (`local_usage.py`) | `codex_usage_events`, `codex_usage_cursors` | sync, summarise | files grow while they are read; failure and crash in mid-scan | each usage line counted once; cursors only advance |
| Providers, tool registry, sessions CRUD, configuration, database | bindings, rows | look-ups, single statements | – | – |

Components call each other directly, on one event loop; they share state through
the store and through the registry, which `AgentRunner.stream` reads and
`SkillService.refresh_registry` replaces.

`PROJECT.json` lists each component with its status, and every hazard found in
this code at the line where it bites, with the properties that cover it or the
reason none does.

## What interleaves, and what is atomic

Between two awaits a coroutine runs alone. A repository method opens a session,
SELECTs outside a transaction, and writes when it flushes and commits. The
models therefore use one action per await that matters: an operation starts with
the read it decides on, is suspended with the values it holds (`reqs[r]`), and
each later read or commit is an action of its own. Operations that return early
before changing anything are guards, since they leave no trace.

SQLite has one writer: what a session flushes and commits is one action. The
model keeps a consequence of the ORM that is easy to miss: an UPDATE names the
row by its primary key, and sets only columns whose new value differs from the
value *this session loaded* (`Written` in `SkillStore`). A stale session
may therefore write some of its columns over a newer row and leave others.

## Modules

| Module | Models | Notes |
|---|---|---|
| `SkillStore` | skill tables; what each commit writes to a row; what the registry should serve | a package is a version and a body; SHA-256 is injective (`Hash`); `Validate` accepts the bodies in `ValidBody` |
| `SkillService` | every operation of skill management over `SkillStore`, refresh (which may fail: `RefreshFails`), restart | extends `SkillStore`; `Catalog == INSTANCE ReleaseCatalog` is the refinement mapping |
| `ReleaseCatalog` | the abstract specification: a growing catalog of validated immutable entries and one pointer per skill | implemented by `SkillService` (`ImplementsCatalog`) |
| `SkillServiceProofs`, `SkillCatalogProofs`, `SkillSerialProofs` | theorems about `SkillService`, each module on top of the one before: types and validated releases; the lifecycle, the registry's contents and the refinement; what a single administrator may rely on | see Proofs |
| `SessionMemory` | one session: messages, compaction, summaries, the reads of `prepare_context` up to the window the prompt is selected from | a message is its rank by `(created_at, id)`; a summary is its version, boundary, count and the messages handed to its fold (`folded`), not its text; `waits` tells whether the clients wait for each other's requests |
| `SessionMemoryProofs` | theorems about `SessionMemory` | see Proofs |
| `ContextBuilder` | `ContextBuilder.build` and `ConservativeTokenCounter` | pure operators over the lengths of texts; loops are the recursive functions `Used` and `Sums` |
| `ContextBuilderProofs` | theorems about the bundle `Build` makes | see Proofs |
| `LongTermMemory` | memory items, PATCH, DELETE and POST, a chat turn from retrieval to prompt, answer and extraction, time, restart | extends `ContextBuilder`; `Governance == INSTANCE MemoryGovernance` is the refinement mapping |
| `MemoryGovernance` | the abstract specification: visible, proposed and forgotten memories, and what each turn recalls | implemented by `LongTermMemory` (`ImplementsGovernance`) |
| `LongTermMemoryProofs` | theorems about `LongTermMemory`, on top of `ContextBuilderProofs` | see Proofs |
| `ToolResultCache` | cache rows, lifetime, upsert, other runs | extended by `AgentRun` |
| `AgentRun` | one run: selection, model turns, tool calls, cache, script process, pipes, relay, storing the answer, disconnect | composes runner, executor, cache and endpoint |
| `AgentRunProofs` | theorems about `AgentRun` and the cache it composes | see Proofs |
| `CodexUsage` | files that grow, cursors, line-by-line scan, commit | an offset is a number of lines, five counters are one |
| `CodexUsageProofs` | theorems about `CodexUsage` | see Proofs |
| `MC*` | small instances and symmetry sets for TLC | |

Names follow the source: `SaveDraft` and `CommitSave` are `save_draft`'s two
halves, `ReadActive`, `ReadOverrides`, `Install` the three steps of
`refresh_registry`, `ReadCurrent`, `ReadPending`, `Summarized`, `CommitSummary`
those of `compact`; `Load` and `Write` are the two halves of `update_memory`
(and of `delete_memory`, which calls it), `Search` and `Mark` the two statements
of `retrieve_memories`, `ReadExisting`, `Skip` and `Insert` the steps of
`extract_candidates`, and so on. `PROJECT.json` maps each definition to its lines.
Definitions introduced by a comment that begins with "Mutant:" are not part of
any specification: each is a plausible bug that the checks are known to catch.

Correspondence of state: `skills`, `drafts`, `releases`, `states` are the four
tables keyed by id; `managed` and `overrides` the registry's two dictionaries;
`messages` and `summaries` the rows of one session; `items` the rows of
`memory_items` and `clock` what `utc_now()` says; `reqs`, `turns` and `admins`
the coroutines in flight with the values they hold; `table` the cache; `lines`
the rollout files; `events` and `cursors` the imported rows (in `AgentRun`,
`events` is the stream the client sees). Three variables are history and no part
of the program: `behind` (the last refresh failed), `waits` (an assumption about
the clients of a session) and `approved` (the proposals a PATCH made active).

### What is abstracted

* Skills: audit rows, names, descriptions, aliases, release notes and the
  read-only endpoints. `publish` looks for the version twice before the
  repository does; the first two looks are one. Validation is deterministic in
  the content: if the server's limits change across a restart a report may say
  something else of the same content.
* Session memory: what a summary *says*. `_summarize` cuts the transcript to half
  the token budget (`memory/service.py:153-155`) while boundary and count take in
  the whole batch, so a long message may be folded and told of by no summary.
  The model keeps what the program accounts for, the messages handed to
  `_summarize`, and claims nothing of what the provider is shown or answers. A turn
  is followed to what `prepare_context` hands to `ContextBuilder.build`: the window
  and the summary. Which messages of the window the token budget lets into the
  prompt, and whether the summary is cut or dropped, is `ContextBuilder`'s part.
  `memory_enabled = false` is left out. Rows with equal `created_at` are ordered by
  uuid, which the model covers by letting a stamp be late.
* Long-term memory: a content is a model value and `LineSize` the length of its
  line. Relevance to a query is all or nothing for each content, chosen freely;
  ties in the ORDER BY are broken freely. A proposal has the default importance
  and confidence. `access_count` and what the content filter turns away are left
  out, as nothing that is modelled reads them. The reads of
  `prepare_context` before retrieval are those of `SessionMemory`: here, the
  messages and the summary a prompt is built from are any of `History`.
* Context builder: a text is its length in bytes; a cut falls between two
  characters (inside one, up to three bytes less remain on each side).
* Agent: message deltas, token usage, the system prompt. Skill selection is any
  outcome. Other runs that share the cache are one environment action.
  `hit_count` is left out. So are exceptions that end as `run.failed` where the
  model has no action for them: a process that is gone when it is killed
  (`ProcessLookupError`), the removal of the temporary directory, lone surrogates in
  the arguments a cache key is made from.
* Codex: a file that is missing is read as one that fails. A file started afresh
  (`Recreate`) is modelled, and `ImportIsExact` and `CursorAdvances` say nothing
  of it from then on.

## Runs

| Run | Instance | Question |
|---|---|---|
| `skill_concurrent` | 1 skill, 2 versions, a valid and an invalid body, 2 releases, 2 requests, 2 revisions | what holds whatever two requests interleave, and over restarts |
| `skill_serial` | 2 skills, 1 builtin, 2 versions, a valid body, 2 releases, 1 request, refreshes that fail | what holds for one administrator at a time, with a restart at any await: registry and store agree again after the next refresh that succeeds |
| `skill_lost_update` * | 2 requests that create and save | are drafts protected from lost updates |
| `skill_stale_registry` * | 2 requests that publish and activate | do registry and store agree when no request is left |
| `skill_archived` * | 1 request | does an archived skill stay archived |
| `memory_turns` | 2 requests, threshold 8, recent limit 6, 4 summaries; 16 messages when clients wait, 5 when they overlap | what the summary table keeps in any case; that where clients wait each message is folded or pending, and the window of a turn follows the summary with at most a bounded few messages between them |
| `memory_two_current` * | 2 requests, 4 messages | is the current summary single |
| `memory_items` | 1 turn, 3 PATCH or DELETE requests, 2 memories, 2 contents of 60 and 1500 bytes, budget 1000 tokens, 3 histories, expiry in UTC | what a turn is told: nothing deleted or unapproved, all of it visible at one moment, within the budget, and nothing left out needlessly |
| `memory_expiry` * | 1 turn, 1 memory, an expiry given an hour ahead of UTC | is what has expired left out |
| `agent_runs` | 2 answers of at most 2 calls, every kind of skill, scripts that hang or leave a helper, time 0..2, lifetimes 2 and 1, other runs storing | conversation, event stream, process, cache lifetime, and termination unless a helper holds the pipes |
| `agent_pipes` * | scripts that may leave a helper holding the pipes | does a run end whatever its script does |
| `codex_usage` | 1 file, 4 lines, 2 requests | is each usage line counted once |

Runs marked * look for a counterexample, and find one: each refutes a sentence
of the repository's documents, quoted in `PROJECT.json` under "findings".

1. `skill_lost_update`: two saves that both load revision *n* both commit
   revision *n*+1 (`skills/repository.py:71`), and the first is lost although
   `src/README.md:124` promises a 409.
2. `skill_stale_registry`: of two overlapping refreshes the one that read first
   may install last (`skills/service.py:50-61`).
3. `skill_archived`: publish and activate never look at the lifecycle status
   (`skills/repository.py:105-171`).
4. `memory_two_current`: both compactions retire the same row and insert their
   own (`persistence/repository.py:223-257`).
5. `memory_expiry`: `expires_at` keeps the time of day of the client's zone and
   loses the zone, since SQLite stores none (`persistence/models.py:101`); it is
   then compared with UTC (`persistence/repository.py:365`).
6. `agent_pipes`: after the kill, `execute` reads the pipes to their end without
   a limit (`skills/executor.py:153-154`). The behaviour was also observed with
   CPython 3.11: a script that starts a six-second process and is limited to one
   second keeps its run for six.

One more disagreement is known and has no run. The design document has history
chosen before summary and memories and trimmed from its oldest message on
(`src/docs/active/spec/20260808_Memory优化.md:253` and `:304`). The code reserves
room for summary and memories first and goes on past a message that does not fit to
older ones (`memory/context_builder.py:99-104`), so a prompt may hold a question
without its answer. `PromptIsFull` is stated to hold of either order; that the
code goes on past what does not fit is what `BundleIsFull` proves.

Every property of a passing run has a mutant in `PROJECT.json`: a change of one
definition, such as a dropped guard or a missing reset, under which TLC reports
that very property.

### Bounds and why they suffice

* Skills: one skill and two requests give every pair of operations in every
  order of their reads and commits; two revisions separate a stale row from a
  fresh one; two versions and two releases give a rollback and a version clash.
  The serial run has a second skill and a builtin so that clone has sources.
  `MaxRevision` stops saves only; `ReleaseId` bounds the number of publishes.
  `Ops` names the operations a run offers; the serial run leaves `archive` out,
  as `skill_archived` shows what follows it.
* Session memory: a due compaction needs more than `Threshold` pending messages
  and the configuration accepts 8 as the least threshold; 16 messages allow a due
  one, a forced one and another one after a summary. A recent limit below the
  threshold makes the gap between summary and window appear. When requests
  overlap, compaction is forced, as five messages (`MaxOverlapping`) are enough
  for two of them to overlap twice. `MaxSummaries` makes the provider fail from
  then on, which it may do anyway.
* Long-term memory: each PATCH or DELETE request is served once, so three of them
  give a deletion between the two halves of an approval or an edit and one more
  request before or after. Two memories may both be long, which is more than one
  prompt has room for, and let extraction meet a content that exists. The budget is
  the least the configuration accepts; the histories are a newest message that
  exceeds it, three messages that fill it to the last token, and a window with a
  summary, where a message does not fit and an older one does.
  One tick of the clock separates before from after an expiry.
* Agent: two answers and two calls per answer distinguish the first and the last
  turn, and the first and last call of a turn. Time 0..2 lets a row of each kind
  expire and be replaced.
* Codex: four lines hold a model change, two totals and a reset between them;
  two scans can be cut anywhere.

`Request`, `ReleaseId`, `Skill` and `Admin` are symmetric: no formula or
assumption tells their members apart. No liveness property is checked under symmetry.

Deadlock is checked in every run. No model ever stops: `Restart` is always
possible in `SkillService`, `SessionMemory` and `LongTermMemory`, a synchronisation can always
begin or be abandoned in `CodexUsage`, and in `AgentRun` other runs go on storing
results after this one is over. Whether a request itself gets stuck is therefore
a liveness question, asked where it matters (`RunEndsUnlessHeld`).

### Fairness

Only `AgentRun` states fairness, `WF_vars(Run)`: the event loop runs what is
ready, the model's endpoint answers or fails (the HTTP client has a timeout),
the timer of `asyncio.wait_for` goes off, and a client that stays reads what it is
sent (one that does not may hold the run at a `yield`). A script need not exit, a helper
need not end and a client need not leave. `RunEnds` fails under this, as
a script may leave a helper behind that holds its pipes for good (`agent_pipes`).
`RunEndsUnlessHeld` holds: nothing else that a script or the store may do keeps a
run from its end, and it ends once the helper lets go.

## Proofs

The proof modules hold for every value of the constants, from the assumptions
stated with them, and follow one pattern: an inductive invariant `IInv`, one
lemma per action that shows it preserved, `NextPreserves` that joins them, and
`Invariance` as the temporal step.

### Skill management

`SkillServiceProofs` proves, for every set of skills, builtins, versions,
bodies, release keys and requests and for every bound (`StoreAssumption`,
`NullAssumption`, `ServiceAssumption`):

* `TypeCorrect`: `Spec => []TypeOK`;
* `OnlyValidatedPackagesAreReleased`: `Spec => []ReleasesValidated`.

Neither is inductive alone. What a commit writes depends on the row that its
session loaded some awaits ago, so the invariant must speak of suspended
requests. `IInv` adds: a skill has a draft exactly when it exists, and releases
belong to skills that exist (`RowsExist`: commits may rely on rows a request has
seen, since no operation deletes one); every stored draft pairs its hash with
its content, and its report with its validated hash (`SoundDraft`); and the same
of every draft a suspended request holds, which for a publish is moreover
publishable (`SoundRequest`).

The crucial lemmas are `SavedDraftSound` and `ValidatedDraftSound`: although an
UPDATE mixes columns of a stale row with columns of the stored one, content
moves together with hash and report together with validated hash, because each
pair differs from the loaded one in both columns or in neither. So a stored
report always speaks of the content with that digest, and
`validated_hash = content_hash` in `publish` is sufficient.

`SkillCatalogProofs` goes on from there with `CatalogInv`, still for any number of
overlapping requests:

* `LifecycleHolds`: `Spec => []LifecycleConsistent`;
* `OnlyReleasesAreServed`: `Spec => []RuntimeServesReleases`;
* `StoreImplementsCatalog`: `Spec => ImplementsCatalog`.

A commit writes back what a session read some awaits ago, so `CatalogInv` says of
each suspended request what does not become stale (`GroundedRequest`): a row
read as published belongs to a skill that has releases, a release found for
activation is the skill's own, and every package a refresh has read is some
release. That these stay true follows from one fact, that releases only grow
(`Grows`). In the refinement the commits of publish and activate are the
abstract steps, and everything else stutters (`OtherStepsStutter`).

`SkillSerialProofs` is about a single administrator, the hypothesis
`OneAtATime` (there is one request):

* `FlagsAgreeSerially`: `Spec => []EnabledFlagsAgree`;
* `ValidationCurrentSerially`: `Spec => []ValidationIsCurrent`;
* `RevisionsCountSerially`: `Spec => RevisionCountsEdits`;
* `RegistryMatchesSerially`: `Spec => []RegistryMatchesStore`, with
  `NothingArchived` (no run offers `archive`) as well.

The hypotheses are what TLC found to be needed. Two requests break each of the
four (`skill_lost_update` and `skill_stale_registry` show two of the ways). And a
publish that does not activate puts an archived skill back to published without a
refresh: its old active release counts again, and the registry does not serve it
until something else refreshes it. `SerialInv` says that what the
one request has read is what the store still holds, and `RegistryInv` that
the registry lags behind only while a refresh is under way or after one that
failed. Crashes stay in: a restart may hit the request at any await.

### Session memory

`SessionMemoryProofs` proves, for any threshold, recent limit and number of requests
(`MemoryAssumption`, `NullAssumption`), that whatever overlaps, fails or restarts:

* `TypeCorrect`: `Spec => []TypeOK`;
* `VersionsCount`: `Spec => []VersionsAreConsecutive`;
* `SummariesAreCounted`: `Spec => []SummariesCountTheirMessages`;
* `SummaryStaysCurrent`: `Spec => []SomeSummaryIsCurrent`.

`IInv` carries them: what a suspended compaction is about to insert is already a
sound summary, whose version is at most one more than the rows there are, and the row
it is about to retire exists. The count is right although it is computed from two
numbers, since the pending messages come strictly after the boundary.

Where clients wait for each other's requests (`waits`):

* `NoMessageIsPassedOver`: `Spec => []EveryMessageIsFoldedOrPending`;
* `WindowHoldsTheTurn`: `Spec => []WindowFollowsSummary`;
* `CoverageAlwaysGrows`: `Spec => CoverageGrows`.

The first says that boundary and folds agree: each message was handed to
`_summarize` for the current summary or one it was made from, or is still to come.
It says nothing of what the cut of a transcript leaves of it. The second is about
what `ContextBuilder.build` is given. The window ends with the turn's own message,
which is the one `build` always sends; the messages in neither summary nor window,
which no budget could let in, lie between the two and are few. What the budget
leaves of the window is `BundleWithinBudget` and `BundleIsFull`, below.

`WInv` is a second invariant on top of `IInv`: what the one request in flight has
read is still so (`FollowedRequest`). The bound on the messages between summary and
window is carried as `Fits`, the alternative that `compact` leaves behind: no more
messages than the threshold, or no more than the recent limit. `RankedSet` and
`NewestCounts` turn the ranks of messages into cardinalities.

### Long-term memory

`LongTermMemoryProofs` proves, for any number of turns, requests and memories,
any PATCH, POST and extraction and any budget (`ContextAssumption`,
`LongTermAssumption`):

* `TypeCorrect`: `Spec => []TypeOK`;
* `DeletedIsNeverTold`: `Spec => []DeletedStaysForgotten`;
* `RetrievalImplementsGovernance`: `Spec => ImplementsGovernance`;
* `ExpiryHoldsBehindUtc`: if no client gives an expiry in a zone ahead of UTC,
  `Spec => ExpiredIsNotRecalled`. `memory_expiry` shows that the condition is
  needed; no passing run checks it, as in UTC it is the search's own condition;
* `PromptsStayWithinBudget`: if the messages a turn reads end with the user's,
  `Spec => []PromptWithinBudget`;
* `PromptsStayFull`: `Spec => []PromptIsFull`.

`IInv` adds to the types what a turn relies on (`SoundTurn`: what was marked
deleted when it began is still marked deleted when it searches, and none of it is
among what it found) and `ActiveIsApproved` (a proposal whose status is active
was approved by a PATCH). The first is preserved because `deleted_at` is only ever
assigned a time: whatever columns two overlapping requests mix, no UPDATE clears
it (`UpdateShape`, `UpdatedRow`), even though a PATCH may put the *status* of a
deleted memory back to active. That is why the search must look at
`deleted_at` and not at the status alone; the mutant that does the latter is caught.

The refinement maps each action to a step of `MemoryGovernance` or a stutter:
writes, creations, insertions and the clock to `Govern` (`GovernRefines`),
the search to `Recall`, building the prompt and ending the turn to `Drop`, a
restart to `DropAll`. `SearchRefines` carries the point: what a turn is told was
all visible at the one moment of its SELECT.

### Context builder

`ContextBuilderProofs` proves, for messages, summaries and memories of any number
and any length and every configuration (`ContextAssumption`):

* `BundleWithinBudget`: the bundle is within the budget and the window and holds
  the newest message, if that is the user's;
* `BundleIsFull`: no message of the window and no memory that would fit is left out,
  as the selection goes on past what does not fit;
* `BundleIsTrimmedForRoom`: the newest message left out and each memory left out
  would exceed the budget beside all that is sent, which would be so too if the
  selection ended at the first message that does not fit.

The last two theorems of `LongTermMemoryProofs` follow from these and the types.
The condition on the newest message is needed. It is cut to `budget - 8` tokens; role
and overhead of a user's message take 8 more, those of an assistant's 9, so a cut
assistant's message exceeds the budget by one. A turn has just stored the user's
message, and another one comes after it only when two turns of a session overlap.

The builder's loops are recursive functions over the sizes. Their proofs use no
induction theorem: a set of numbers that fails a statement has a least member
(`LeastOf`, from the well-foundedness of `<`), which gives induction over an
interval in terms of sets (`UpTo`). With it `UsedDef` and `SumsDef` show that the
recursive definitions have the values they say, and `TakenFits` that the greedy
selection stays within the room and that nothing left out would fit. The three
bytes to a token enter in `TokensOf`: a text of at most `3 * room` bytes takes at
most `room` tokens, and a longer one takes more (`MemoriesFit`).

### Agent

`AgentRunProofs` proves, for any set of cache keys, any lifetimes, any number of
answers and calls (`RunAssumption`, `CacheAssumption`, `NullAssumption`):

* `TypeCorrect`: `Spec => []TypeOK`;
* `EveryCallIsAnswered`: `Spec => []CallsAreAnswered`;
* `StreamsAreWellFormed`: `Spec => []StreamIsWellFormed`;
* `HitsAreFresh`: `Spec => []ReusedWithinTtl`;
* `NoRunLeavesAProcess`: `Spec => NoProcessLeft`.

The invariant has one part for each thing a run keeps. `TranscriptInv` places the
open answer: it stands `served` messages before the end, those are the tool
messages of its first `served` calls, and all answers before it are answered.
`EventInv` ties the last event to where the run is, and `CacheInv` says that the
row of a looked-up key is still the one that was looked up or was stored later.
That is why a hit is fresh although the row is read twice: the lifetime is checked
against the first read, and a replacement is younger than the look-up.
`NoProcessLeft` needs `CallInv`: a script of the run is alive only while the
executor waits for it, or after the run is over.

### Codex usage

`CodexUsageProofs` proves, for any requests, files, totals and models
(`UsageAssumption`):

* `TypeCorrect`: `Spec => []TypeOK`;
* `CursorNeverGoesBack`: `Spec => CursorAdvances`;
* `ImportStaysExact`: `Spec => []ImportIsExact`.

A commit overwrites the cursors with positions a scan reached some awaits ago, so
`IInv` adds that one request at most is under way (`OneSync`, the lock), that the
cursors it read are therefore still the stored ones, and that every position,
stored or reached by the scan, lies within its file and not before the stored
cursor (`Ahead`). `StartIsAhead` is where the bound on the file's length is
needed: a scan falls back to the start of a file only when that is where its
cursor stands, or when the file was started afresh.

`ExactInv` says what a position carries: the total and the model the lines up to it
stand for, with the usage of these lines stored or in the scan's batch, and nothing
else in either (`Imported`, `Told`). Lines are appended while a scan runs, and a line
without its newline is completed; `MovedTracks` and `HistoryKept` show that what was
read is not touched by either. `SameIdSameUsage` is why a line that is scanned twice
is stored once: one file and offset always give the same event.

### Assumptions

Each proof rests on the assumptions its module names, and TLC evaluates them in the
runs: the ranges `core/config.py` accepts for budgets, windows and thresholds,
positive bounds, and a `None` that is no row. The bounds of the model (`MaxMessage`,
`MaxItems`, `MaxTime`, `ReleaseId` and so on) are arbitrary in the theorems.

### Only model-checked

* `RunEndsUnlessHeld`: liveness under fairness, whose proof needs ENABLED.
* That each of the six documented statements fails: a counterexample is not a theorem.

Every other property of a passing run is stated by a theorem in `PROJECT.json`.

## Not modelled

* The content filter (`memory/security.py`), the rules of the skill validator and
  the score of skill selection: functions over text. What the filter or the
  validator turns away leaves no trace in the store.
* The providers' HTTP and parsing: the model's endpoint is an environment that
  answers, calls tools or fails.
* CRUD on sessions, usage summaries and the other read-only endpoints: single
  statements, no interleaving beyond the database's.
* `memory_enabled = false`, which removes the modelled steps; the tool registry, a
  constant table; request and response schemas; configuration beyond its ranges.

## What is left to do

* Skill selection: choice by score, aliases and enabled flags over `managed` and
  `overrides`.
* Abstract specifications: a message log with a summary of a prefix, implemented
  by `SessionMemory` for waiting clients; an exact counter, implemented by
  `CodexUsage`. `ExactInv` and `WInv` hold what their refinement proofs need.
* Theorems: the refinements above, and `CoverageGrows` and `EveryMessageIsFoldedOrPending`
  for weaker assumptions on the clients than waiting for every request.
* Hazards that no property covers yet are listed in `PROJECT.json` with the reason.

## Running it

    tlc -workers 2 -config MCSkillConcurrent.cfg MCSkillService
    tlapm SkillServiceProofs.tla
    tlapm SkillCatalogProofs.tla
    tlapm SkillSerialProofs.tla
    tlapm SessionMemoryProofs.tla
    tlapm ContextBuilderProofs.tla
    tlapm LongTermMemoryProofs.tla
    tlapm AgentRunProofs.tla
    tlapm CodexUsageProofs.tla

Each `MC*.cfg` belongs to the `MC` module named in `PROJECT.json`.
