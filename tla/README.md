# DocTrace-AI: a TLA+ verification project

DocTrace-AI is a FastAPI service. Clients upload PDF documents and new versions of
them; a background task parses each version into a tree of nodes; clients page through
the tables, compare two versions, select nodes, and have an LLM generate QA test cases
for a selection. This directory models the service's own logic in TLA+, checks the models
with TLC and proves the main results with TLAPS. Source references are to the Python code
under `src/app`.

## 1. The system

| Component (source) | State it keeps | Operations | What is hard | What must hold |
|---|---|---|---|---|
| Version lifecycle: `services/version.py`, `services/document.py`, `repositories/version.py`, `repositories/node.py`, `infrastructure/database.py` | tables `documents`, `versions`, `nodes`; sessions and their transactions; queued background tasks | create document, number and insert a version, parse task, failure handler | concurrent uploads; two databases with different locking; a failed call leaves the session unusable; lost commits; crashes lose tasks | numbers unique and gapless; a tree appears whole with READY; READY/FAILED are final; every upload answered, every version resolved |
| Version comparison: `VersionService.compare_versions` | none; four queries of one READ COMMITTED session | pick the base, read two trees, diff | the tables change between the queries; default base chosen without a status check | the default base is the preceding version; an answer stays true |
| Diff engine: `versioning/differ.py`, `versioning/matcher.py` | consumed old positions, entries so far | hash matching, position matching, deletions, sort | greedy assignment with repeated content; tolerance boundary | every node reported once, statuses true, no match missed |
| Paginated reads: `repositories/document.py`, `repositories/version.py`, `repositories/node.py` and the services over them | none; a check, a count and a page in separate queries | list documents, versions, nodes | rows committed between two queries and between two pages; newest-first order | a walk misses nothing that was there; totals are reached |
| Selections: `services/selection.py`, `repositories/selection.py` | tables `selections`, `selection_nodes` | create, delete | a query per node; two flushes and a composite key; a lost commit | nodes of one READY version, all or none; the answer is true |
| Circuit breaker: `auth/circuit_breaker.py` | state, two counters, time of last failure; one instance for all LLM calls | admit, report success, report failure | results of old calls arrive in later states; HALF_OPEN admits everyone; cancelled probes report nothing; the clock can be set | closes only on a streak of successes; recovers |
| LLM client: `llm/openrouter.py` | attempts of each `complete()` | retry with backoff behind the breaker | each retry counts in the breaker | attempts bounded; a dead provider opens the breaker |
| QA generation: `services/generation.py`, `repositories/generation.py` | one MongoDB document per generation | trigger, task, result update | database error outside the `try`; lost acknowledgement of the result; crash | a status is borne out by its record; stored cases are kept; no record stays PROCESSING without a cause |
| MongoDB connection, start-up, readiness: `infrastructure/mongodb.py`, `core/observability.py`, `main.py` | engine, session factory, Mongo client | lifespan, readiness probe, shutdown | start without MongoDB; shutdown under work; death at any step | every start ends ready; work never finds its connections closed; generations work once MongoDB is there |
| PDF parser, passes: `parser/pdf_parser.py`, `structure_extractor.py`, `heading_detector.py`, `table_extractor.py`, `list_detector.py` | blocks, heading levels, tables of one file | extraction, heading detection, tables, suppression, lists | two libraries read one file; table extraction may fail; ranks of font sizes | text is left out only for a table that is put in; levels fit the builder |
| PDF parser, hierarchy builder: `parser/hierarchy_builder.py` | heading stack, next position | merge of tables into the text; heading, paragraph, list, table; paths | skipped and repeated heading levels, tables left over by the merge, lists that take several positions, sibling indices of two digits | nothing lost; positions 0, 1, 2, ...; each node under the right heading; path strings index the tree |
| Rate limiter: `auth/rate_limiter.py` | request times per key, in Redis or in memory | `check_limit` | equal timestamps, refused requests, pipelines that arrive late, restarts | at most `limit` per window; nobody refused without cause |
| Content hashing, API keys, middleware and error formatting, configuration, schemas, logging, deployment | none that a decision reads | - | - | - |

How they interact. A request owns one SQLAlchemy session for its whole duration
(`api/deps.py`). `create_version` commits and then queues
`parse_and_persist_version_task` with FastAPI's BackgroundTasks; the task runs in the
same process after the response and opens a session of its own. Requests and tasks
meet only in the database. Readers (comparisons, lists, selections) are sequences of
queries, each of which sees what is committed when it runs. Generation tasks call
`OpenRouterClient.complete`, whose calls all pass through the one `OPENROUTER_BREAKER`
object on the event loop; a generation lives in two databases, its selection in SQL and
its record in MongoDB, that share no transaction. Both connections are module-level state
that the lifespan opens and closes around everything else. The parse task calls the
parser, whose last pass is the hierarchy builder; the positions it assigns are the keys
of the diff engine.

## 2. Modules

| Module | What it is |
|---|---|
| `VersionCatalog` | Abstract specification: an append-only, numbered sequence of versions per document, each resolved at most once, its tree arriving with READY. No requests, tasks, transactions or failures. |
| `VersionLifecycle`, `VersionLifecycle_proofs` | Uploads and parse tasks in detail: the program counters `upc`, `tpc`, the committed rows, row locks (PostgreSQL) or the write lock (SQLite), failed calls, lost acknowledgements, crashes. Implements `VersionCatalog`; its theorems. |
| `VersionCompare`, `VersionCompare_proofs` | EXTENDS `VersionLifecycle` with diff requests that read the same tables between its steps; theorems that rest on the lifecycle's. |
| `CatalogReads`, `CatalogReads_proofs` | EXTENDS `VersionCatalog` with clients that walk through the paginated lists or create selections while the catalog takes any step it may; theorems. What holds beside the abstract catalog holds beside the lifecycle, which implements it. |
| `DiffEngine`, `DiffEngine_proofs` | `diff_versions` and its theorems. |
| `CircuitBreaker` | The breaker's operations alone. |
| `LlmClient`, `LlmClient_proofs` | EXTENDS `CircuitBreaker` with concurrent `complete()` calls, the provider and the system clock; theorems. |
| `Generation` | Generation requests, tasks, records, and the selections they are for. |
| `Application`, `Generation_proofs` | EXTENDS `Generation` with the process around it: lifespan, MongoDB server, readiness probe. The proofs are about both. |
| `TableMerge` | `_merge_stream`: blocks and tables into one stream of items. |
| `HierarchyBuilder` | EXTENDS `TableMerge` with the main loop of `build_hierarchy` and with `assign_paths`. |
| `PdfParser`, `HierarchyBuilder_proofs` | EXTENDS `HierarchyBuilder` with the passes before it: `parse_pdf` as a whole. The proofs are about all three. |
| `RateLimiter`, `RateLimiter_proofs` | The sliding window, in memory and in Redis; theorems. |
| `MC*` | Symmetry sets and, for the parser, the documents to run on. |

### VersionLifecycle

An upload `u` is a request to `POST /documents` or `POST /documents/{id}/versions`. It
creates at most one version, whose uuid is `u` itself, so the rows of `versions` are
indexed by `Uploads`. `creator`, `status`, `docOf`, `number` and `nodes` are what has
been committed (`docOf` and `number` count as columns once `status` is not `"none"`);
what a transaction has done but not committed is in its program counter, where no other
session sees it. One action per database call of the code:

| Action | Code |
|---|---|
| `CreateDocument` | `DocumentService.create_document`, with its own commit |
| `CheckDocument` | `doc_repo.exists` in `create_version` |
| `LockDocument`, `NextVersionNumber` | the two statements of `get_next_version_number` |
| `InsertVersion`, `InsertClashes` | the flush of `VersionRepository.create`, or its IntegrityError |
| `CommitVersion`, `QueueTask` | the commit and `add_task` of `create_version` |
| `ParseSucceeds`, `ParseFails` | `parse_pdf` and building the entities |
| `BulkCreate`, `MarkReady`, `CommitReady` | the task's three database calls |
| `RecordFailure`, `FailureNotRecorded`, `RecordFailureFails` | the `except` block, on a usable session, on a broken one, and failing itself |
| `UploadFails`, `TaskDbFails`, `CommitVersionUnacknowledged`, `CommitReadyUnacknowledged` | a call raises; a commit takes effect but its answer is lost |
| `Crash` | the process dies; requests and tasks are gone, transactions rolled back, nothing is resumed |

Databases. On PostgreSQL (`RowLocks = TRUE`) `SELECT ... FOR UPDATE` holds the document
row until the transaction ends, at the READ COMMITTED level the engine uses by default.
On SQLite the clause is ignored, as the comment at `repositories/version.py:149` says; a
session holds the write lock from its first flush to its commit. On both, an INSERT that
meets an uncommitted equal key waits for it.

Sessions. After a failed flush or commit an SQLAlchemy session refuses further work
until it is rolled back (`broken`). The task's handler does not roll back, so its FAILED
write fails too. The exception in `TaskDbFails` is the SELECT of `update_status` of a
version without nodes: it is the first statement of its transaction, outside a flush, and
may leave the session usable. Left out is such a SELECT that fails on SQLite after nodes
were flushed and ends neither the transaction nor the session: the FAILED write would then
commit the nodes with it. So on SQLite what is shown of trees holds for failures that end
the transaction, as those of flushes, commits and connections do.

### VersionCompare

`GetNewer` (row and READY check), `BaseOnPrevious` or `BaseOnNamed`, `ReadNewer`,
`ReadBase` follow the four queries of `compare_versions`; every lifecycle step may come
between them. A tree is its number of nodes: what the properties ask is whether the
tree read is the published one. `baseStatus` is a history variable, written with the
base and read only by properties.

### CatalogReads

| Action | Code |
|---|---|
| `CreateDocument`, `CatalogStep` | what the service does to the tables meanwhile: the commit of a document, and any step of `VersionCatalog` |
| `StartWalk`, `CheckList` | a client chooses a list; `doc_repo.exists` of `list_versions`, the READY check of `list_nodes` |
| `CountRows`, `FetchPage` | the two queries of `list_paginated`, `list_for_document`, `list_for_version`; a full page makes the client ask for the next one |
| `ReadFails` | a query raises or the process dies; the client asks for the page again |
| `GetVersion`, `GetNode` | the checks of `create_selection`: the version, then one query per node |
| `Flush`, `Commit` | the two flushes of `SelectionRepository.create`, where a node named twice violates the primary key; the commit |
| `SelectionFails` | a call raises, the commit with or without effect |

The order of documents, newest first, is a constant of a behaviour (`age`): where a
document will stand among the others once it is inserted. Any order is allowed, so a
document may even be listed behind older ones, as one whose `created_at` was taken before
a slower insert is. Versions are listed by number and nodes by position, so a row of such
a list is its number.

### DiffEngine

Two versions are functions from positions to hashes. The builder numbers a version's
nodes 0, 1, 2, ... and `get_nodes_for_diff` returns them in that order, so the duplicate
check at the head of `diff_versions` never fires and is left out. `MatchByHash` is one
iteration of phase 1 with `find_best_match` and `consume`; phases 2 and 3 do not depend
on the order of iteration and are one step each, the sort and the return included. The
entries are a set during the run (each iteration names a different node) and `report` is
the sorted list. `summarise_diff` only counts and is not modelled.

### CircuitBreaker and LlmClient

The critical sections under `_lock` contain no await, so each is one step. `age` is the
time since the last failure in clock ticks up to the timeout; `failureCount` stops at
the threshold because nothing compares it with more. `goodStreak` is a history variable:
successes reported since the last failure. A client goes through `attempting`,
`inflight` and `backoff`; its call may be cancelled, which the breaker does not hear of.
The provider is up, flaky or down and changes at any time. `time.time()` is the system
clock, so `ClockIsSet` may make `age` anything, `MaxSettings` times.

### Generation and Application

A generation `g` is one request to `POST /selections/{id}/generate` with the record and
the task it may lead to. A record is its status and whether `test_cases` and
`validation_errors` hold anything; `held` is what the task is about to write; `hit` is the
set of generations a call of which failed or that a crash cut short, a history variable
that only properties read. Failed calls and crashes are not bounded.

| Action | Code |
|---|---|
| `CreateSelection`, `DeleteSelection` | one commit each in `services/selection.py`; no endpoint calls `delete_selection` |
| `CheckSelection`, `CreateRecord` | `trigger_generation`: the lookup; `create` and `add_task`, with no await between them |
| `ReadSelection` | the SQL session of the task; a missing selection leads to the FAILED update |
| `LlmAnswers`, `LlmFails` | `complete` and `validate_llm_json` return (`Grade` is the choice of status), or one of them raises |
| `WriteRecord` | a call of `update_status`, which sets the fields it is given and no others |
| `RequestUnavailable`, `RequestFails`, `ReadSelectionFails`, `WriteRecordFails` | no connection to send a call to; a database call raises, a write with or without effect; only the update that stores an answer is inside the `try` |
| `Crash` | the process dies; requests and tasks are gone |

`Application` says when these steps can be taken:

| Action | Code |
|---|---|
| `InitDb`, `InitDbFails`, `InitMongo`, `EnsureIndexes`, `InitLimiter` | the steps of the lifespan before `yield`; what MongoDB raises is caught, what the database raises is not |
| `Drain`, `Drained`, `CloseMongo`, `CloseDb` | uvicorn lets requests and tasks end, then the lifespan goes on after `yield` |
| `ProcessDies`, `Launch` | death at any step; the process manager starts a new process |
| `Ready`, `Unready` | `readiness_check`, which looks at the database only |
| `MongoChanges` | the server is lost or is back |
| `RequestStep`, `AppTaskStep` and their failures | the steps of `Generation`, each with what it takes from module-level state: a call without session factory, client or server fails |

The checks of `create_selection` are one step in `Generation` because `CatalogReads` has
them query by query (`AnswersAreTrue`, `SelectionsAreWhole`).

### TableMerge, HierarchyBuilder and PdfParser

A file is a sequence of pages with text blocks, in the order PyMuPDF extracts them, and
the tables pdfplumber finds, from top to bottom. A line is a class of text: blank, with a
list marker or plain, the depth of its numbering, its size and number of characters. Boxes
are on a grid of natural numbers. The passes follow `_parse_sync`:

| Action | Code |
|---|---|
| `ExtractPage`, `EndOfPages`, `ExtractFails` | `extract_blocks`, with the dominant size of a block by characters; an empty result ends the parse |
| `DetectHeadings` | `detect_headings`: body size, sizes 20 % above it, their ranks, the numbering that overrides them |
| `ExtractTable`, `EndOfTablePage`, `EndOfTables` | `extract_tables` with its filter of pseudo-tables |
| `NoTables`, `TablesFail` | the second reading of the file fails: with ValueError or before the first page there are no tables, otherwise no result |
| `HandOver` | `_compute_table_suppressed`, and how `_merge_stream` and `detect_lists` classify a block |
| `InsertTable`, `InsertBlock`, `SkipBlock`, `InsertLeftover` | the iterations of `_merge_stream` |
| `AddPlain`, `AddHeading`, `AddList` | those of the main loop with `_make_*_node`, the stack update and `_expand_list` |
| `AssignPath` | those of `assign_paths` |

A stream item keeps the index of its block or table (`src`), which the properties use and
the code has in `raw_metadata`. The search for a parent in `heading_stack` is the relation
`IsNearest`. A path is the string the code makes, as a sequence of character codes:
`Numeral` is `str` of a sibling index, and `PathOf` puts a dot and a numeral behind the path
of the parent. What is a prefix of what depends on the digits, so numbers will not do. Content and
hashes of nodes are left out; of their metadata a node keeps the block or table it was
made of (`src`), and an item of a list does not, as in the code. The parser has no concurrency; the modules are the
algorithm, step by step.

### RateLimiter

`CheckLocal` is `check_limit` in memory: `_check_local` has no await, so it is one step.
With Redis a check is `ReadClock`, the part of `_check_redis` before the await, and then
`CheckRedis`, the pipeline that Redis executes as one transaction at some later time, or
`RedisFails`, a pipeline that raises, executed or not. A Redis member is a time, so that
equal times are one member, as in the code (`str(now)`). `Tick` moves the clock, which is
taken to be monotonic here, and `Restart` begins a new process that asks Redis anew
(`initialize`); the sorted sets survive it and the list in memory does not.

## 3. Runs

| Run | Instance | Shows |
|---|---|---|
| `lifecycle_postgres` | 3 uploads, 2 documents, trees of 0 or 1 node, 1 fault, 1 crash, symmetric uploads (270k states) | `GaplessNumbers`, `TreePublishedWithReady`, `NoNumberConflict`, `TerminalStatusIsFinal`, refinement of `VersionCatalog` |
| `lifecycle_sqlite` | 3 uploads, 1 document, no faults, fairness (44k) | `UniqueNumbers`, `UploadsAnswered`, `ProcessingResolves` |
| `compare` | 1 reader, 3 uploads, 2 documents, 1 crash (620k) | `PreviousIsAdjacent`, `AnswerStaysTrue` |
| `reads` | 1 walker or 1 selector, 3 documents, 2 versions, trees up to 2 nodes, pages of 1 row, up to 2 nodes named | `NoDocumentSkipped`, `TotalIsReached`, `WalkIsExact`, `SelectionsAreWhole`, `AnswersAreTrue` |
| `diff` | all pairs of versions up to 5 nodes, 3 contents, tolerance 2 (188k) | `EveryNodeReportedOnce`, `StatusesAreTrue`, `NoMissedMatch`, `CommonPrefixIsUnchanged`, `ReportInReadingOrder` |
| `breaker` | 2 clients of 3 attempts, thresholds 2 and 2, timeout 2, the clock set once, fairness (30k) | `ClosesOnGoodStreak`, `RecoversWhenUp`, `OpensWhenDown`, `CompletionEnds` |
| `generation` | `Application` with 2 generations and 1 selection, any number of faults, deaths and outages, fairness (52k) | `StatusDescribesRecord`, `NoSilentStall`, `CasesAreKept`, `AcceptedResolves`, `BecomesReady`, `WorksOnceReachable` |
| `hierarchy` | `PdfParser` on 12,195 files: every outline of 4 blocks of 7 kinds or 5 of 5 kinds, outlines with 11 list items and 12 headings in a row, and every layout of 3 blocks with up to 2 tables, a pseudo-table or an image on up to 2 pages (578k) | `SuppressedTextIsInATable`, `SmallerHeadingsNest`, `TreeIsComplete`, `TablesInPlace`, `PositionsAreReadingOrder`, `ParentsFollowHeadings`, `PathsIndexTree` |
| `limiter` | 4 requests, 2 keys, limit 2, window 3, clock up to 4, 1 restart | `WindowBound`, `GrantsInWindow`, `RefusalsAreEarned` |
| `failure_flagged`, `base_ready`, `stream_paged` | smallest instances | what the code does differently from its texts, section 5 |

What the properties say is in the comment before each. Type invariants are not in
the runs: they are part of the invariants that are proved.

Why the bounds are enough. Three uploads give a version below, at and above every race:
two requests that compute a number together and a third that numbers on top of the
winner, after one of them failed. Two documents show that locks and numbers of one
do not disturb the other. One fault and one crash at every possible place cover each
error path; the handler itself failing needs a `ParseFails` (free) and one fault. Trees
of 0 or 1 node separate nothing, half and all as far as publishing goes. Three documents
and pages of one row let a row be inserted before, at and behind every page border of a
walk. Walks and selections change nothing the other reads, so `OneKindAtWork` lets one
of the two work at a time. Five nodes with tolerance 2 put candidates inside, on and
outside the tolerance on both sides, and three contents allow repetition. Two clients with
thresholds of two let one client's stale result meet another's probe; the clock is set
once because a second setting does what the first can, at another time. A selection is
read only by generations that name it, so one is enough; two generations show that one's
failures leave the other alone. Three heading levels give a level below, at and above
each heading and one to skip; numberings of depth 4 exceed the deepest; two pages and two
heights put a table before, level with and after text, on the page and off it. Eleven
siblings are the fewest with an index of two digits that begins like that of another. Limit 2
is below window 3, so that more times than the limit fit into a window, and a clock up to
4 lets the first entry leave it. The theorems of section 4 hold for all values.

Fairness. The event loop runs every request and task that can run: weak fairness of each
upload already sent and of each task. In the lifecycle nothing is assumed of faults and
crashes, and liveness is checked without them (after a crash nothing resumes a task, see
below). For the breaker: weak fairness of the clock and of each client's own steps, strong
fairness of the answer to a call (the OpenAI client has a timeout, so a result or
APITimeoutError comes unless the task is cancelled every time). For `Application`: the
lifespan goes on while it can (weak fairness; draining ends because tasks do), a process
manager launches a process that went down, the database answers a probe at last, and
requests and tasks are run; a task's LLM call ends because `CompletionEnds` holds of the
client. Nothing is assumed of the MongoDB server. `AcceptedResolves` and
`WorksOnceReachable` name the failures that excuse a generation instead of excluding them.
Row-lock liveness on PostgreSQL is not a run. What makes it up is proved instead: a lock
is held only in the middle of the transaction that took it (`LocksHeldInUse`), and whoever
waits, waits for a session that waits for nothing (`NoWaitingChains`).

## 4. Theorems

All proofs are checked by TLAPS from the named assumptions on constants only
(`LifecycleAssumption`, `DiffAssumption`, `BreakerAssumption`, `ClientAssumption`,
`GenerationAssumption`, `InputAssumption`, `DocumentAssumption`, `LimiterAssumption`,
`ReadsAssumption`); TLC evaluates these in the runs.

*Version lifecycle* (any number of uploads, documents, faults and crashes, either
database). `GaplessNumbers` is not inductive: it must be known that a number already
computed but not yet inserted has no gap below it (`PendingNumbersInReach`; it stays true
because rows are never removed), that the UNIQUE index keeps inserted rows apart
(`InsertedApart`), and, for `NoNumberConflict`, that who holds a number holds the row lock
and the number is above all committed ones (`LockCoversNumber`). `TablesFollowProgress`
ties the program counters to the tables. The conjunction is `IInv`, proved inductive
action by action. From it: `TypeCorrect`, `NumbersCorrect`, `NumbersUnique`,
`RowLocksPreventConflicts`, `TreesArePublishedWhole`, `TerminalStatusStays`, and
`Refinement`: every commit of a version appends to the abstract sequence, every resolution
maps to `Resolve` or `Reject`, every other step is a stutter.
Waiting is a matter of locks: `LocksAreInUse` says of every lock which step of which
transaction its holder is at, and is inductive beside `IInv`. The three things one waits
for are the row lock, the write lock and an uncommitted equal key; who holds the row lock
computes a number nobody else has in flight (`LockCoversNumber`), so its insert waits for
nobody, and the holder of the write lock waits for nothing. Hence no chain of waiting
sessions, and no deadlock, on either database (`NoWaitingChains`).

*Version comparison.* `CompareIInv` adds that what a comparison has found holds on:
committed rows keep number and document (`RowsStay`), READY rows their tree
(`FinalStep`). `DefaultBaseIsAdjacent` then follows from gaplessness, at the moment the
base is picked and ever after; `AnswersStayTrue` from the finality of READY.

*Readers* (any number of walkers, selectors, documents and versions, any page size).
`NoDocumentSkipped` rests on the place of a document in the newest-first list: it only
grows, and a walk that has asked for everything before an offset has met all documents
that were known and stand before it (`WalksMeetEveryDocument`). `TotalIsReached` needs
that the ranks of the rows of a list are 1 to their number, and that lists only grow
between the count and the page. For versions and nodes a row's place is its number, so
`WalkIsExact` follows. For selections the invariant says of each request what its queries
have found: the version it checked is READY, and READY is final; the nodes passed by the
loop exist, and `foreign` says whether one of them is of another version.

*Diff engine* (trees of any bounded size, any contents, any tolerance). The key facts are
that consumed positions are exactly those of matched entries (`ConsumedIsMatched`), that
no two entries share a node (`EntriesApart`), and that a new node passed by in phase 1
had no candidate and gets none later, since the unconsumed nodes only shrink
(`PassedByForGood`). That MODIFIED implies different content follows from the last one;
no line of phase 2 compares hashes. For equal versions each node is its own unique
nearest candidate (`EqualNodesTakeEachOther`). The same holds, node by node, as far as two
versions begin alike (`PrefixQuiet`): while phase 1 is inside the common part, exactly the
positions already passed are consumed, so the nearest free candidate of a node is the node
itself, at distance 0. If the new version only appends, all old nodes are taken that way
and the report is additions besides (`AppendixAdded`). Content that occurs once in each
version is matched if its distance is within the tolerance, since nothing else can consume
it (`UniqueContentFound`). `ReportReads` is about the sort: the
number of entries that sort before an entry is different for each and smaller than the
number of all, so every rank is taken once, and the entry of new node p has rank p.

*Breaker* (any number of clients, any thresholds, any number of clock settings). The
breaker's part of the invariant is kept by every operation in every state
(`BreakerStep`), so a stale result cannot break it; `SuccessesAreFresh` (the success count
never exceeds the streak of good results) gives `ClosingIsEarned`.

*Generation and Application* (any number of generations, selections, faults and crashes).
`StatusDescribesRecord` needs to know what a task is about to write: an update is
prepared in one step and written in a later one, and the handler's is computed from the
record as the failed update left it. `TasksMatchRecords` says so (until the handler runs,
the record of a live task is still the new one; an answer held is graded truthfully; the
handler's update is the record marked FAILED, and there is a record). From it also
`StallsHaveACause` and, as action properties, `StoredCasesStay` and `RecordsAdvance`: each
write is one of the three steps a record may take, because of what the invariant says of
the update in hand (`UpdatesAdvance`). `ApplicationRefines` shows that the process takes
only steps of `Generation` or none, so that all of this carries over to it
(`StatusesDescribeInApplication`, `StallsHaveACauseInApplication`,
`StoredCasesStayInApplication`, `RecordsAdvanceInApplication`); `WorkOnlyWhileOpen`
that the lifespan's order and the drain keep engine and client in place under work.

*PDF parser* (files of any length and layout, any number of heading levels, lists of any
length). The argument has five parts.
The passes: `ParserInv` says what each of them has made of the file so far, in particular
that levels are between 0 and the deepest and that tables are found in the order of pages
and heights; so what is handed over is what the builder can take (`PassesFitTheBuilder`,
the assumption `InputAssumption` makes of the builder's own inputs).
The merge: `MergeInv` says that whatever has been placed comes after the tables above it
on its page, and that a table was placed for the first text below its top, or at the end.
`ParsedTables` follows, and `ParsedStream` by counting the items, which are different and
each of a block or a table. `SuppressionJustified` combines the two: a block of text that
is not in the stream was covered by a table that was found, and that table is in it.
The tree: `HeadingsNest` and `ContentUnderLastHeading` speak of finished nodes, so the
invariant must say what the stack knows in between: the nearest open heading below a depth
is the last heading of a level below it (`StackKnowsLast`). A heading of some level changes
the answer for the deeper depths, to itself, and for no others (`HeadingStep`); every other
node leaves all answers as they are (`StackStays`), and a list appends several nodes at
once (`ListNodes`). That earlier nodes stay right is `EarlierNodesStayRight`, for any step
that only appends.
From the stream to the nodes: `NodesInv` says that the nodes so far, items of lists aside,
are made of the items so far, one of each, in the same order, and that a list has as many
children as its item says, directly behind it. It is inductive because a later node never
becomes the child of an earlier list: its parent is a heading or its own list
(`ParentsAreHeadings`). With the theorem about the stream, each block and each table of a
finished document has one node (`ParsedTree`).
The paths: `TreeInv` and `SourceInv` say that only headings have a level, that the items of
a list follow it, that paths are assigned from front to back, and that the heading nodes
are the heading blocks in the same order. From them a list of nodes is a walk through an
ordered tree (`IsWalk`, `PathsWalk`): parents come first, a subtree is an interval
(`SubtreesAreIntervals`), and siblings are counted upwards (`SiblingsCounted`). For such
walks, whatever they are made of, the paths are an index. A numeral is a string of digits,
never empty and without a dot (`NumeralFacts`), and different numbers have different ones
(`NumeralsDiffer`); the equation that defines `Numeral` is solved by hand
(`NumeralUnfold`). So the last dot of a path ends the path of the parent (`PathParts`,
`NoLaterDot`), which makes paths different (`PathsApart`) and means that a path begins with
another and a dot exactly if that is the parent's or the parent's does (`BelowUnfold`). By
induction it does so exactly for ancestors (`WalkNests`), and a subtree has no gap
(`SubtreeInOnePiece`); that gives `PathsIndexTheTree` and `ParsedPaths`. The inductions are
over positions and numbers; the library's induction theorems take an
operator and cannot be used, so they go by the least counterexample, from the
well-foundedness of the natural numbers (`LeastNumber`, `StrongInduction`). For
`SmallerTypeNests` the levels are those the font sizes had when the headings were detected
(`LevelsAsDetected`), a smaller size has a lower rank (`SmallerRanksLower`), and headings
deeper than one before them are below it (`DeeperHeadingsNest`).

*Rate limiter* (any number of requests and keys, any limit and window, any number of
restarts). In memory, the list holds at least the admitted requests of the window
(`LocalHoldsRecent`), and one is admitted only if they are fewer than the limit
(`LimitIsKept`). Through Redis a late
pipeline removes nothing that a window of the present still needs, since its own window
starts earlier, and counts everything it finds; and the set is not dropped before its
granted times are old (`ZsetHoldsRecent`). So a time is granted only if fewer than `Limit`
others are in its window (`GrantsAreBounded`), and refused only if that many are
(`RefusalsHaveReasons`). Through Redis the bound is one of different times, not of requests:
see section 5.

Only model-checked: the liveness properties (`UploadsAnswered`, `ProcessingResolves`,
`RecoversWhenUp`, `OpensWhenDown`, `CompletionEnds`, `AcceptedResolves`, `BecomesReady`,
`WorksOnceReachable`): they rest on fairness and ENABLED, which are beyond the prover. Every
invariant and every action property that a passing run checks is also a theorem. Some
theorems are about properties no run lists, because they are stronger or wider than those
that are: `LocksAreInUse`, `NobodyWaitsForAWaiter`, `RecordsOnlyAdvance`,
`AppendingOnlyAdds`, `UniqueContentIsFound`, `StreamIsComplete`, `ReuploadIsUnchanged`.

## 5. Where code and texts disagree

Shown by a run:

1. `failure_flagged` - one failed database call in a parse task leaves the version
   PROCESSING for ever, because the handler writes FAILED on the session that failed; the
   comment at `services/version.py:97` promises FAILED. The run leaves out that the
   handler's own write is the call that fails, so the session is what it shows.
2. `base_ready` - the default base of a diff may be PROCESSING or FAILED;
   `domain/exceptions.py:197` says this raises.
3. `stream_paged` - a table at the foot of a page is put after the text of all later
   pages (`hierarchy_builder.py:339`), under the last heading of the document;
   `hierarchy_builder.py:256` says the stream is sorted by page.

Seen while modelling, without a run of their own:

*Versions and diffs.* Unchanged content can be reported ADDED because an earlier twin took
its old node, where `domain/enums.py:76` says UNCHANGED. A PDF without text becomes READY
with an empty tree (`services/version.py:84`) where `parser/pdf_parser.py:27` says FAILED.
`documents.py` commits the document before it numbers the first version, so another
client's upload can be Version 1 where `documents.py:34` promises it to the creator.
`versions.py:68` fills `old_node_id` of a MODIFIED, MOVED or UNCHANGED entry with the *new*
node's id (`NodeDiff.node` is the new node). The walkthrough in `differ.py:21-47` calls its
node E ADDED and D MOVED where the code says MODIFIED and UNCHANGED. `MOVED` is described
as outside the tolerance (`enums.py:80`) and computed as inside it. `DuplicateVersionError`
(`domain/exceptions.py:130`) is never raised; on SQLite a lost race is an unhandled
IntegrityError. `delete_document` never commits (`services/document.py:85`).

*Generations and start-up.* If the reply to the update that stores an answer is lost, the
record ends FAILED with test cases; `domain/enums.py:107` says a FAILED generation
produced none. A generation's `document_id` is a fresh uuid (`services/generation.py:229`)
that nothing replaces. `mongodb.py:22` and `observability.py:240` say that LLM endpoints
return 503 without MongoDB; what they raise is not handled and becomes a 500. `main.py:233`
says that readiness is 503 when MongoDB is unreachable; only the database counts. The order
Redis before MongoDB in `main.py`'s docstring is not the code's. After a start without
MongoDB the indexes are not made until the next start, and an address that cannot be
resolved at the start leaves no client until then.

*Selections, lists, limits.* `models/selection.py:21` calls the nodes of a selection
ordered; the table keeps no order. A client that stops when its offset reaches `total`,
rather than at a short page, can miss a document, since later ones shift the list. The
list of documents is ordered by `created_at` alone, which has one second of resolution on
SQLite: rows with equal times stay in one order only because the database happens to sort
them in the same way each time, which the model takes for granted. No route uses
`rate_limit_dependency`. Through Redis, requests that read the same time are one member of
the sorted set (`rate_limiter.py:80`): a burst in several processes, or on a coarse clock,
can be granted beyond the limit, which `rate_limiter.py:50` calls "Maximum requests allowed
in window". `GrantsInWindow` bounds the different times of granted requests and no more. `get_node_children`, `list_selections` and the deletions have no
endpoint.

*Parser.* `list_detector.py:14` says that an item continues until the next marker or the
end of the block; a blank line ends it, and later lines, like text before the first item,
are dropped (`list_detector.py:110`). A blank block in large type takes a rank among the
heading sizes (`heading_detector.py:130`). `pdf_parser.py:111` calls the failure of table
extraction non-fatal, which holds for ValueError only. Bold type never changes a level.
Numbered lists in which every item is a block become headings. `hierarchy_builder.py:30`
says that a path is made of the `position_index` of each ancestor; it is made of their
places among their siblings (`hierarchy_builder.py:386`). The single `LIKE '0.2%'` on a path
prefix that `models/node.py:53` and `hierarchy_builder.py:31` describe as a subtree query
also finds other nodes from the eleventh sibling on: `0.1%` finds `0.10`. No code runs it.
With a dot, as in `0.1.%`, it finds the subtree below the node and nothing else, which is
what `PathsIndexTree` says.

## 6. Not modelled

*Content hashing and normalisation* (`parser/content_hasher.py`): a pure function of
strings; the diff engine takes hashes as given. *API keys and tokens* (`auth/auth.py`):
stateless checks attached to no route. *Middleware and error formatting*, *configuration,
schemas and logging*, *deployment files*: no state that a decision reads; the settings
that matter are constants of the models. `health_check` of the LLM client, which bypasses
the breaker and keeps no state. `delete_document`, which no endpoint calls and which does
not commit. The list of a selection's generations, which has the form of the other lists.
Prompts, and the validation of single test cases: an answer has valid cases or not, errors
or not. Connection pool limits appear only as a call that fails. The regular expressions
of the parser appear as classes of lines. The clock of the rate limiter is taken to be
monotonic; the breaker's is not. Tasks that a shutdown cancels: the model's server waits
for them or dies, and a task cancelled by it would be one that died.

The definitions stand for about a sixth of the Python lines of the repository. Much of the
rest is not the service: two copies of the skill scripts under `.agents` and `.kilocode`
are more than a third of the lines outside the tests. Of `app` the lines that are not mapped are
declarations (settings, schemas, ORM columns, abstract interfaces), docstrings, and the
components named above, where there is no behaviour to model.

## 7. Plan

Done, in the order of the modules above: the lifecycle with its abstract catalog,
comparison, diff engine, breaker and client, generations and the process around them,
readers of the catalog, the parser from pages to paths, the rate limiter; their invariants,
refinements and theorems. What could follow:

1. Row-lock liveness on PostgreSQL as a run of the lifecycle, on top of `LocksHeldInUse` and
   `NoWaitingChains`.
2. Lists of documents with equal `created_at`, whose order may change from query to query,
   should the service run on a database that does not keep it.
