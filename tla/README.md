# A verification project for Zora (remembrancer)

Zora is a local-first assistant for a household's papers. Files put into a
watch folder are queued, archived, extracted, understood (classified, facts,
relations, threads), and a local model turns the recent ones into briefings of
action items. One Go process (`cmd/zora`) runs an HTTP server, a scan loop and
some worker goroutines on one SQLite database.

This directory holds TLA+ modules translated from that code, TLC configurations
that check them on small instances, and proofs, checked by TLAPS, of theorems
about every one of these modules, for every size of instance: each safety
property that a run checks is also a theorem. `PROJECT.json` lists components,
runs, mutants, findings, hazards and theorems, and the source lines that each
definition models.

## 1. The system

| Component | State | Operations | Hard because of |
|---|---|---|---|
| Migrations, `internal/db/migrate.go` | the schema, `schema_migrations` | Migrate | two processes may start at one time, each may end between two statements |
| Job queue, `internal/jobs` | `ingest_job` rows | Enqueue, Claim, Succeed, Fail | two statements per Enqueue, workers racing for jobs, retries, times compared as text, restarts |
| Service, `internal/ingest/service.go` | worker and scan loops | Scan, WorkOne | scans from the loop and from `POST /ingest/scan` overlap; a stopped process leaves jobs running |
| Scanner, `ingest/scanner.go` | `watch_file_state` | one walk per scan | the user edits files between its statements |
| Handler, `ingest/handler.go` | `blob`, `artifact`, `extracted_text`, `search_document`, `artifact_chunk` | HandleJob | steps with their own transactions and errors |
| Extractors, `internal/extract` | none | Extract | tools that fail or are missing, a second conversion with forced OCR, which errors are permanent |
| Chunker, `ingest/chunk.go` | none | ChunkMarkdown | boundaries and overlap |
| Blob store, `internal/blobs` | files named by hash | HashFile, StoreFile | content read at another time than hashed |
| Pipeline, `internal/pipeline` | `evidence`, `artifact_classification`, `extracted_fact`, `proposal`, `artifact_relation`, `pipeline_stage` | ProcessArtifact and its stages | many statements without a transaction around them; retries delete what others cite |
| Facts, `pipeline/facts.go` | none | ExtractFacts | a model may answer anything, and its answer becomes rows with keys |
| Threads, `pipeline/threads.go` | `thread`, `thread_member` | ClusterArtifact | reads, decides, writes, while other workers do |
| Selector, `internal/actionitems` | none | Select, ApplyEvidenceBudget | order, limit and budget boundaries |
| Briefings, `internal/actionitems`, `server.go` | `briefing`, `briefing_item`, `briefing_item_artifact` | generateActionItems, CreateRun | minutes pass between reading candidates and storing the answer |
| Connection pool, `internal/db` | 8 connections | every query | queries inside the rows of a query |
| Prompts, configuration, pages | - | - | no state that others change |

How they interact: the process migrates the database and only then serves. The
scanner enqueues jobs; a worker claims one and runs the handler, which fills
the archive from an extractor's answer and then calls the pipeline, whose last
stage clusters threads; all of them share the database. A request for a
briefing reads what the workers write, calls the model, and writes briefings,
which the selector reads again as history. The user edits the folder at any
time. The process may end at any time; nothing but the schema is repaired at
its start.

What makes each part correct:

- migrations: each takes effect once and in order, nobody serves without those
  it knows, and everybody serves in the end;
- queue: one worker per job, no more attempts than allowed, one live row per
  dedupe key, finished for good, and every job gets finished;
- ingestion: raw bytes before everything else, a succeeded job left its
  artifact complete and is never written again, nothing kept is taken away, rows
  agree on one content, no job is given up early without a cause, files left
  alone are ingested;
- facts: each cites what the model was shown, none is stored twice, nothing
  acceptable is lost;
- pipeline: nothing cites what is gone, no answer of a model makes a statement
  fail, success means understood from the present text, likeness of two
  artifacts is recorded by one of them, within the LIMITs of its queries;
- threads: date ranges and members agree, nobody joins without a reason, like
  artifacts share one thread;
- selection: the best are chosen, within the budget, nobody cut to a stump;
- briefings: items cite candidates only, verified ones quote what was shown;
- pool: no connection is lost, and only callers that nest can make others wait
  for ever;
- chunks: nothing is lost, no chunk too long, the right headings, an end.

## 2. The modules

Each SQL statement, each transaction, each file read (but for the copy that
`StoreFile` makes) and each call of an extractor or model is one atomic step: SQLite serialises writers and a reader
sees one snapshot per statement. Between two steps of a goroutine every other
one may run.

**Migrations** is the start of `cmd/zora`: `CreateTable`, `appliedVersions`
(read outside any transaction), and for every version that was missing then
`Execute`, `Record` and `Commit` under the write lock. Processes may be of
different releases; one that fails or ends is started again. `Executes` says
which SQL fails when it ran before: all but version 6, which builds a new
table, drops the old one and renames, and so succeeds as often as it is run.

**JobLedger** is the abstract queue: jobs are added, lent to one worker at a
time, given back or closed, and workers may vanish. **JobStore** is the
`ingest_job` table with the time of the wall clock, the position of every
caller inside `Enqueue` (`enq`), the `Job` value every worker got from `Claim`
(`held`) and whether the process is up. `Enqueue`, `Insert` and `Refind` are
the three statements of Enqueue, `EnqueueFails` an error of one of them.
`Claim` is the one `UPDATE ... RETURNING`. `Succeed` and `Fail` update by id
alone and decide from the worker's copy, as the code does; that this is right
is the invariant `HeldIsCurrent`, not an assumption. `TextLeq` is the order of
RFC3339Nano texts: seconds first, then the place that `TextPlace` gives to the
text of a fraction. The runs count half seconds, where ".5Z" comes before "Z":
a whole second sorts after its fractions. `Ledger` is the refinement mapping.

**Ingest** composes `JobStore` (as `Queue`) with the folder the user edits, the
scanner, the handler, the extractors and the archive. A content stands for its
sha256; a dedupe key and an artifact are a pair of path and content. Scan and
handler are split at their statements; what they learned may be stale at the
next one. Extraction goes by type and provider: `extractTextFile`, the local
tools (`RunTool`) or docling (`Convert`);
`RetryWithForcedOCR` is the second conversion of a PDF that yielded little
text, whose failure must not lose the first result. An error of an extractor is
the set of `Phrases` its text contains, and `isPermanentExtractError` decides by
them, whoever wrote them, which errors bury the job at once: a missing local
tool, text that is not UTF-8, and a failed conversion whose message, repeated
from the tool's stderr or from the answer of docling, contains such words
(`Echoes`). `StoreFile` copies piece by piece: an edit during the copy may leave
the worker with some bytes of each content (`Copying`, `Torn`), which are stored
under their own hash and then refused. `HashFile` reads a file at once, and
rewriting a file with the bytes it has tears no copy.

**Archive** is what ingestion promises, without queue, scans and workers: an
original is kept as a file held it, or as the mixture (`Mix`) of one that was
edited during the copy, of which no artifact is made, an artifact is registered
when its original is there, its text comes when it is registered, and nothing is
taken away. A version is open from the time it is asked for until it is
finished, with its text, or given up; only open versions are written and a
finished one stays finished. `Promise` in Ingest is the refinement mapping: a
version is finished when a row of its key succeeded and open when one waits or
runs, or was left running by a process that ended.

**Facts** has no state: it is `ExtractFacts` as an operator of an answer and a
request. `RuleFacts` are those of the patterns, the title among them;
`ValidateGeneratedFacts` is what passes of an answer (`Acceptable`), which
evidence it is given (`Cited`) and which repetitions are dropped; `mergeFacts`
joins them; `FactId` is what the primary key is made of.

**Pipeline** models what a worker does to one artifact after its extractor
answered: `persistExtraction` with the cascade of foreign keys (`Cascade`), the
five stages with their marks, and their errors (`Err`, `Unlucky`, and `Doomed`
for a violated foreign key). Its facts are those of `Facts` (the instance
`Fields`), of the patterns and of whatever answer the model gives. The queue is
reduced to what JobStore and Ingest establish and prove: one worker per
artifact (`ArtifactsAreExclusive`) and `MaxAttempts` tries. An extraction is
one text, one chunk and one piece of evidence, or, when it is blank, neither
(`Blank`): the stages then succeed, the class cites nothing and there are no
facts. Reconciliation asks query by query while the other workers go on: for the
same bytes (`FindDuplicates`), for each fact (`FindMatches`), for each amount
(`FindConflicts`, which counts the look-ups of `sharesFactKey` to the query whose
rows they are about). Each query has its LIMIT (`DuplicateLimit`, `MatchLimit`,
`ConflictLimit`; 8, 12 and 24 in the code), and which rows it leaves out is open.

**Threads** models the last stage alone, with the scores of the code in
quarter points and dates in days; class and facts of an artifact are constants
and become visible to others when its worker stores them. `met` is a history
variable: the pairs of artifacts that were in work at one time.

**Chunks** is the loop of `ChunkMarkdown`, a section or a window a step.

**Selection** is `Selector.Select` and `ApplyEvidenceBudget`; the words that
score are boolean fields of an artifact, its evidence is known by its length.

**Briefing** is `POST /action-items`: rows are selected one query at a time,
the model answers about candidates of then, `ValidateGenerated` filters,
`CreateRun` stores in one transaction and picks threads, stages are marked.
Workers extract and cluster meanwhile.

**Publication** is what a reader of briefings may rely on, without queries,
transactions and failures: an artifact is shown to the model once per request,
with the text it has then; a briefing appears at once and never changes; its
items cite and quote nothing but what was shown and name threads that know
their artifacts; an artifact is marked with a briefing only when that is there
and was made from it. `Reader` in Briefing is the refinement mapping: what was
shown are the candidates of a request, published is what `CreateRun` has
committed, whether or not the caller was told so, and marks are the stages.

**Connections** is the pool of `database/sql` limited by `SetMaxOpenConns` and
goroutines (`doing`) that hold rows open while they query again:
`Selector.Select`, `runItems`, `RecentItems`, the upcoming facts of the front
page and `amountConflictRelations`. `MaxOpenConns` is the set `Conn`. Closing
rows gives back the connection of one query (`GiveBack`).

The `MC*` modules give the constants their values, the `*Proofs` modules and
`Sums` hold the theorems. Where two modules are proved about together, the
state and the specification of the smaller one have names of their own
(`SelectSpec`, `PoolSpec`). Operators named as the mutant of another one are
plausible faults; no specification uses them, and each property is violated when
the one listed for it in `PROJECT.json` replaces its original.

## 3. The runs

| Run | Checks | Bounds |
|---|---|---|
| `Migrations_safety` | order, service, `AllServe` | 2 processes, releases with 2 and with 3 migrations, the second repeatable, 2 faults |
| `JobStore_safety` | exclusive claims, attempts, dedupe, refinement of the ledger | 2 workers, 2 scans, 2 rows, 1 key and the empty one, 2 attempts, lost results, restarts |
| `Ingest_safety` | four invariants of ingestion, refinement of the archive | 1 file, a PDF or a text, either provider, 2 contents, none of them UTF-8, 1 edit, also during a copy, 2 workers, 1 scan, both kinds of errors, local tools that repeat a permanent wording, lost results, restarts |
| `Ingest_live` | `FilesLeftAloneAreIngested`, `EveryJobSettles` | 1 file of a supported or another type, either provider, 1 edit, 1 of 2 contents not UTF-8, 2 workers, 3 attempts; a forced OCR may always fail |
| `Ingest_crash` | a violation, see below | 1 PDF, no edit, 1 worker, restarts |
| `Pipeline_safety` | storable facts, citations, success, likeness, relations of first attempts | 2 artifacts after a third that was processed with or without the fact they share (`MCInit`), 2 workers, 4 texts, one of them blank, LIMITs of 1 row, 2 attempts, database errors for one artifact, errors of the model, restarts |
| `Pipeline_cite` | a violation, see below | the 2 artifacts alone, database errors only |
| `Threads_safety` | dates, completeness, reasons, threads shared by like ones | 4 artifacts, 2 workers, 2 attempts, database errors for two of them |
| `Selection_safety` | budget and order | up to 3 artifacts, limit 2, three profiles, five lengths around the boundaries |
| `Briefing_safety` | citations, quotes, refinement of publication | 2 artifacts, 2 requests, 2 threads, every failure |
| `Connections_safety` | no leak, stuck only by nesting, every call returns or the pool is stuck for good | 3 connections, 4 callers, 3 of them nesting, 2 inner queries |
| `Chunks_safety` | nothing lost, size, headings, `Terminates` | every text of up to 8 bytes, target 4, overlap 3, so that the progress guard matters |

Why the bounds are enough: two workers, two rows, two contents, two attempts are
the least with which each race, retry and conflict of the code occurs, and each
property has a fault of the code that these bounds reveal. Two rows of one key
let a dead row and a live one meet. Clock ticks are half seconds
(`TicksPerSecond = 2`, `TextPlace` with the whole second last) so that the order
of texts differs from that of times. The clock runs beyond `MaxTime` only for a
job that waits. Two releases let a process of the old one meet a schema that is
ahead of it, and a repeatable migration is the one the SQL itself does not
protect. The answers of the model in `MCPipeline` make up an evidence id, name
another artifact, spell one value in two ways, repeat a fact, quote what is
nowhere, are too confident or of an unknown type. LIMITs of one row just suffice
for two like artifacts, and bite when a third one has the fact they share; in
that case (`MCInit`) the first attempt of one of the two has failed already,
which keeps the run short. As many callers nest as there are connections, so
that the pool does get stuck. The theorems of section 5 hold without these
bounds.

The type invariants are proved and no run repeats them; so are
`FinishedForGood` of the queue, `SucceededMeansIngested` of ingestion and
`StageNamesItsBriefing` of the briefings, which the refinements of the ledger,
of the archive and of publication cover too.

Symmetry is used for identifiers in safety runs only. Deadlock is checked in
the runs of the queue, ingestion, briefings with workers and connections; the
others end when every artifact, request or text is done or every process
serves, and say so.

### What the code does differently from its documents

Two runs end in a counterexample; each checks one sentence of the repository.

- `Ingest_crash`: a shutdown while a job runs leaves it `running` for ever and
  its dedupe key keeps the file out, against "processes any file it has not yet
  ingested" (v0_implementation_guide.md:203).
- `Pipeline_cite`: relations lose their evidence in a retry, against "Every
  claim cites the artifact (and where possible the span) it came from"
  (DESIGN.md:65).

### Conditions in the properties, and why the code needs them

Some properties have a condition, because the code does not keep the plain
statement. Removing the condition gives a counterexample in the same module.

- `FirstRelationsHold` is about first attempts: `ReconcileArtifact` only adds
  relations, so those of facts that a retry replaced stay.
- `AlikeShareAThread` excepts artifacts in work at one time: each may found a
  thread, since `ClusterArtifact` reads candidates and writes in separate
  statements. A like artifact may also prefer a third one's thread.
- No property says that an artifact has one thread, or that the facts of the
  rules are stored. The id of a thread hashes the time of the attempt, so a retry
  after the clustering founds another; the second `ExtractFacts` drops its error,
  so a database error there empties the facts (process.go:126).
- `LikenessIsOnRecord` asks that no more artifacts are alike than the LIMIT of
  the query can return besides the one that asks: with more than eight copies or
  twelve bills of one vendor, those that are not among the latest are not related
  (reconcile.go:194 and :240). An artifact that was tried again counts as like,
  since it may have been when the query was made.
- `SucceededMeansUnderstood` promises evidence and citations only of a text that
  has chunks: a blank one, of a scan without OCR, succeeds with no evidence, no
  facts and a class that cites nothing (ingest/chunk.go:30, pipeline/store.go:274,
  pipeline/classify.go:183).
- `EarlyDeathHasCause` counts a message with a permanent wording among the
  causes: an error that would pass, but repeats such words of a tool or of
  docling, buries the job at its first attempt (ingest/handler.go:317). Where
  messages never contain them, no failed conversion buries a job.
- `AllChosenWhenTheyFit` asks that the evidence fits: fewer than forty
  candidates (v0_implementation_guide.md:325) are cut by the budget all the same.
- `VerifiedWasShown` goes one way only: an item whose artifacts were all
  candidates, but without a quote, stays unverified (compare
  v0_implementation_guide.md:195).
- `FilesLeftAloneAreIngested` is run with one edit: a file that changes before
  its job is handled kills that job, and when its old content comes back the
  dead row is found by its key and nothing is enqueued.

The pool can be stuck: eight requests for the start page and its like, or such
requests and workers, can each hold a connection and wait for another until a
client goes away, and nothing in the code keeps them fewer. The run reaches such
states. `StuckOnlyByNesting` says what it takes, and so what a limit would have to
be: as many callers that nest as there are connections, each with one of them.
`EveryCallReturns` says that this is the only way a call is never served.

## 4. Fairness

`JobStore`: the clock runs; a worker that could claim does and one that holds a
job reports on it, since `workerLoop` polls for ever and extractor and model are
called with timeouts. Callers of Enqueue owe nothing. `Ingest`: moreover files
settle, a scan in progress goes on, and every file is visited again and again
(strong fairness, as the scan loop walks the whole folder at an interval); a
stopped process is started again. Settling of jobs is checked there, with the
scans and the handler of the program as callers and workers of the queue.
`Migrations`: a process that ended is started again, as
`packaging/systemd/zora.service` does, and a step of `Migrate` that is possible
again and again is taken (strong fairness): one that waits for the lock is not
passed over for ever, it gets the lock or errs after `busy_timeout`. Faults are
bounded, so that they stop. `Connections`: a caller that can go on does, and a
waiting one is served if a connection becomes free again and again
(`database/sql` hands it to one of the waiting requests); no client has to go
away, also none that makes the pool stuck. `Chunks`: a sequential function goes on.

## 5. The proofs

Every theorem holds for every value of the constants that the named assumptions
of its module allow: any number of processes, workers, callers, artifacts, rows
and attempts, with the faults of the module. In each module the argument is one
inductive invariant, one lemma per action that keeps it, and the listed
theorems as consequences; an action property needs besides a lemma on one step.

**`JobStoreProofs`**

- `TypeCorrect`: `TypeOK`. `ClaimsAreExclusive`: `HeldIsCurrent` and
  `OneHolder`. `RowsConsistent`: `LockAndFinishAgree`, `AttemptsBounded`,
  `DeadForCause` (by itself `DeathsHaveCause`). `DedupeHolds`:
  `OneLiveRowPerKey`, `EnqueueNeverErrs` (by itself `LosersFindTheRow`).
- `FinishedIsFinal`: `FinishedForGood`. `EarlyByLessThanASecond`:
  `NeverASecondEarly`. `QueueImplementsLedger`: `JobStore` implements
  `JobLedger`.

None of the properties is inductive by itself: that `Fail` is right needs the
worker's copy to be current; that the copy stays current needs that no other
worker holds the job; that nobody else gets it needs that claimable rows are
unlocked. `IInv` joins them with three facts about calls of Enqueue: a call
about to insert has valid parameters, and a call that lost the race has a row
to find (rows are never deleted). Sequences of attempts need `Backoff` to
return a natural number (`BackoffType`), and `NeverASecondEarly` arithmetic on
whole seconds (`WholeSeconds`, `TextOrderError`): texts of different seconds are in
the order of their times, so it holds whatever the places of the fractions are.

**`IngestProofs`** rests on the former. `UsesTheQueue` shows that every
behaviour of ingestion is one of the queue: each step is one of its steps or
leaves it alone, and what scans pass to Enqueue is a key (`ScansNamed`). So the
invariant of the queue, taken from an instance of `JobStoreProofs` (`QP`), holds
here (`QueueHolds`) and is used for what it says of rows, copies and keys. On
top of it `Inv` says what each row, each position in the handler, each scan and
each watch row stands for: a row that succeeded has its text, a worker that got
so far has achieved so much, a scan inside Enqueue asks for the file it looked
at, an early death has its cause, a wording that the provider's messages may
contain among them.

- `TypeCorrect`, `BytesComeFirst`: `RawBytesFirst`. `SuccessIsIngested`:
  `SucceededMeansIngested`. `WatchRowsMatch`: `WatchRowMatchesJob`.
  `EarlyDeathsHaveCause`: `EarlyDeathHasCause`.
- `ArtifactsAreExclusive`: `OneWorkerPerArtifact`: two workers have different
  running rows, and one key has one row that is not dead.
- `IngestImplementsArchive`: `ImplementsArchive`. The row of a version that is
  not dead says what state the version is in (`StateOfLive`), since there is
  only one; so a change of that row changes the state of its version alone
  (`OneStateChanges`), and when it dies nothing is left (`StateOfNone`). A
  worker that writes holds a running row, so its version is open
  (`BusyIsOpen`): that is why a finished version is never written again,
  whatever reports were lost and however often the process ended.

**`DatabaseProofs`** is about Migrations and Connections, which have nothing in
common but the database.

Migrations: `MigratesInOrder` (`InOrderAndOnce`), `ServedSchemaIsComplete`
(`ServesWhatItNeeds`). Only the
holder of the lock is in a transaction, what a process read as applied is
applied, and before the version its loop is at all are; so a version that
commits is the next one. A repeatable version that ran already fails at its
record, since the version is the primary key.

**`PipelineProofs`**

- About the operators of `Facts`, for every answer and every sequence of
  evidence: `FactsCite`, `FactsDiffer`, `IdsDiffer` (the primary key is never
  violated) and `NothingAcceptableIsLost`. That the first of several places
  exists needs the least element of a set of naturals, for pairs twice.
- `TypeCorrect`; `NothingDangles`: `CitationsExist`; `SuccessIsComplete`:
  `SucceededMeansUnderstood`; `ModelCannotFailAJob`: `FactsCanBeStored`, from
  the theorems on facts. `IInv`: a worker has its artifact for itself,
  what its finished stages did stands (also that of a blank text, which leaves no
  evidence), and everything cites evidence that is
  there; only the worker of an artifact removes its evidence.
- `FirstRelations`: `FirstRelationsHold`. `FirstInv`: until the second attempt
  the facts a relation rests on are not replaced.
- `Likeness`: `LikenessIsOnRecord`, for any LIMITs. Two invariants, for the same
  bytes (`AlikeBytes`) and for a shared fact (`AlikeFacts`): of two artifacts
  whose workers have asked, one asked when the other was there to find, and its
  finding is stored or pending; whoever replaces facts asks again. A query that
  may return all but one of those that are alike leaves none out (`AllButOne`);
  that they are few now says that they were few when the query was made, since
  they only become more (`FewBefore`).

**`ThreadsProofs`**: `TypeCorrect`; `DatesAreExact` (`ThreadsSpanTheirMembers`);
`SuccessIsClustered` (`ClusteredWhenSucceeded`); `MembersHaveReasons`
(`JoinedForAReason`). A candidate thread was found for something that one of
its members has, and this stays so while the worker goes on, since nobody ever
leaves a thread, no relation is removed and threads are only widened. The id of
a thread is an attempt of its founder, so that a founding never meets a thread
of that id. Dates are widened within the statement from the row, not from what
the worker read.

`AlikeAreTogether` (`AlikeShareAThread`) rests on a second invariant,
`AlikeInv`, checked by TLC before it was proved. Of two artifacts whose workers
never overlapped one comes second, and everything of the first is stored by
then. `Sees` says what the worker of the second one knows of the first at each
place: the relation when it has looked for matches, then a candidate thread
that has the first as a member with at least 4 quarter points for the shared
facts, then one with at least 10, because `AddRelated` adds the points of the
relation. So `Best` is not empty and the second artifact does not found a
thread: it joins that of the first, or one that scores as much, whose founder
is a third artifact unless one of the two founded it. That a score is at least
that of one of its reasons is a lemma on sums (`SumGrows`). `Rooted`, that a
thread has its founder as a member, is what makes the last case distinction
complete.

**`ChunksProofs`**: `NoByteIsLost` (`NothingLost`), `ChunksAreOfSize`
(`ChunksFit`), `PathsAreRight` (`PathsEnclose`), for texts of any length, any
target and any overlap, also one that is longer than the target. The invariant
says that what lies before the next window is in a chunk (`Covered`), how far
the last chunk may reach (`Reaches`), that no heading lies inside a section and
that the headings above it are those that enclose its last byte, and so each of
its bytes. `paragraphBoundary` is beyond the start of the window and within the
target (`Boundary`), which needs that a set of integers with a bound has its
greatest element (`MaxIsGreatest`, from the well-foundedness of `<`).
`EveryStepAdvances` is the action property behind `Terminates`: what is left of
a text is a natural number that every step makes smaller.

**`Sums`** holds what two modules need of `MapThenSumSet`. The library defines
it by recursion over `CHOOSE`, and induction is out of reach; so the lemmas go
another way. A function on the subsets of a finite set that adds the weight of
every new element, whichever comes last, exists: of the subsets without one a
minimal one would exist, and it has one (`AdditiveExists`, by the
well-foundedness of strict inclusion). The recursive function is that function
(`FoldsOnlyTo`, again by a minimal counterexample), so that a sum may be split
at any element (`SumAdds`) and grows with its set (`SumGrows`).

**`BriefingProofs`**: `TypeCorrect`; `StoredItemsCite` (`ItemsAreCited`);
`VerifiedItemsWereShown` (`VerifiedWasShown`); `StagesNameTheirBriefings`
(`StageNamesItsBriefing`). The first invariant says, by the place of a request,
which items it has and that they are good: they passed the checks against its
own candidates, which nobody changes, whatever becomes of the artifacts.
`BriefingsArePublished` (`ImplementsPublication`) shows that every step is one
of Publication or none. It needs one fact more (`ReadOnce`): while a request
selects, an artifact it has still to read is no candidate yet. Then a row read
is a `Show` (or nothing, when its text scores below zero), the transaction of
`CreateRun` is a `Publish`, a stage mark is a `Mark`, and everything else, the
failures and the stop of the process included, is invisible; that a stored
thread knows one of its item's artifacts is the transaction's own
(`ThreadsKnow`).

The module also proves what Selection promises: `EvidenceIsWithinBudget`
(`WithinBudget`), `TheBestAreChosen` (`BestAreChosen`), `AllAreChosen`
(`AllChosenWhenTheyFit`), for any artifacts, limit and lengths. The order of
candidates is total, so the place of each is the number of those before it and
`Rank` exists. `SelectionInv` says why the loop over the candidates has each of
them behind it (`Passed`: no evidence, chosen, or too little budget left, which
never comes back), and that what is left and what was kept make up the budget
while nobody kept more than it wanted (`Spent`).

Connections (in `DatabaseProofs`), for any finite pool and any finite set of
callers:

- `PoolIsWhole`: `NoneLeaks`. Its inductive form says which connections a caller
  has (none, one, or two different ones) instead of how many, and that only
  nesting callers are inside another query; a step of one caller leaves the
  connections of the others alone (`TakeOne`, `ReturnOne`, `CallEnds`,
  `OneCallerSteps`).
- `PoolSticksOnlyByNesting`: `StuckOnlyByNesting`, without a condition on their
  number: who waits inside its rows has exactly one connection and is one of the
  nesting callers. A pool with more connections than those is therefore never
  stuck, which is not stated as a theorem since the code does not keep to it.

Assumptions: the named ones of the modules and no others. Most say that the
"nothing" values are not values and that bounds are natural numbers
(`LimitsAssumption` of the LIMITs). Some have more content. The least room for a
further candidate is not more than the limit of one (`LengthAssumption`, 200 and
4000 in `ApplyEvidenceBudget`). The facts of an artifact are finitely many
(`FactsAssumption`, `ProfileAssumption`): they are rows of a table, as are the
artifacts of the pipeline (`TablesAssumption`). Blank texts are texts
(`BlankAssumption`), each fraction of a second has a place (`TimeAssumption`),
and messages repeat nothing but known wordings (`EchoesAssumption`). Days are
numbers (`DayAssumption`).

Only model-checked: everything temporal that needs fairness
(`FilesLeftAloneAreIngested`, `EveryJobSettles`, `AllServe`, `EveryCallReturns`,
`Terminates`), which is beyond the prover. The steps of these arguments that
are safety are proved: an action property for chunks, `StuckOnlyByNesting` for
the pool, `AttemptsBounded` for the queue.

## 6. What is not modelled

Prompts and the cleaning of JSON, configuration, read-only queries and pages
keep no state that others change: every statement of the program that writes is
in one of the modules. (`threads.Repository.SetStatus` and the acceptance or
rejection of relations have no caller.) Left out of modelled parts: the words
and patterns of the rules, titles and summaries of threads, the attempts
counters of stages, the LIMITs 16 and 32 of the candidate queries of threads
(beyond them `AlikeShareAThread` is not claimed), temporary files of the blob
store, hidden files of the folder, the bytes and encodings of texts, what the
tools of the extractors print.

## 7. Plan

1. Done: migrations, queue, ingestion with the extractors, facts, pipeline,
   threads, chunks, selection, briefings, pool; the proofs of all of them; the
   queue implements the ledger, ingestion the queue and the archive, briefings
   publication.
2. Next models: several chunks per artifact in Pipeline, so that a fact and its
   class cite different ones; Threads inside Pipeline instead of beside it.
3. The LIMITs of the candidate queries in Threads, as in Pipeline.
4. Next abstraction: threads as sets that only grow.
5. Next proofs: action properties of Pipeline (who removes what), and the
   ranking arguments behind the liveness properties, as far as they are safety.
