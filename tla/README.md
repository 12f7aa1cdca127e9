# Formal models of librarium-api

librarium-api is the server of a self-hosted library manager: a Go process with
an HTTP API over Postgres, with background work carried by
[River](https://riverqueue.com) jobs in the same database. This directory holds
TLA+ models of the parts whose correctness depends on the order of things, the
TLC configurations that check them on small instances, and TLAPS proofs of the
main results for every instance.

Status: the job pipelines (enrichment batches, CSV imports, AI suggestion runs),
the scheduler that starts them, the volumes of a series and their promotion to
books, the copies and places of a library, the synchronisation of reading state
and the merging of contributors are modelled, checked and proved about. The rest
of the system is inventoried below with the plan for it.

## 1. Inventory

| component | state | operations | hard behaviour | what makes it correct | here |
|---|---|---|---|---|---|
| Enrichment batches (`repository/enrichment_batches.go`, `workers/enrichment_batch_worker.go`, `handlers/books.go`) | `enrichment_batches` (status, counters), `enrichment_batch_items`, umbrella `jobs` row, River job | BulkEnrich (Create, CreateItems, Insert), Work, Cancel, Delete, DeleteFinished | crash or shutdown between the statements that record a book; cancel and delete under a running worker; books deleted meanwhile; lost statements that are ignored | a batch is declared finished only when every book was attempted; counters agree with items; a cancellation sticks and stops the worker; every book is attempted in the end | `EnrichmentBatch`, `WorkList`, `EnrichmentBatchProofs` |
| CSV imports (`service/import.go`, `repository/import_jobs.go`, `workers/import_worker.go`) | `import_jobs`, `import_job_items`, umbrella row, River job; editions, copies, books | StartImport, Work (per row: duplicate check, link, count, update, create, file), spawnEnrichmentBatch, CancelJob, DeleteJob | attempts killed by River's one-minute default timeout and retried; two imports of the same ISBN; link in two statements, each of which reads before it writes | a retry duplicates nothing; copies match rows; counters match rows; added books go to the enrichment that was asked for; cancellation sticks | `ImportJob`, `WorkList`, `ImportJobProofs` |
| AI suggestion runs (`service/ai_suggestions.go`, `repository/ai_suggestions.go`, `workers/ai_suggestions_worker.go`, `handlers/ai_suggestions.go`) | `ai_suggestion_runs`, umbrella row, River job; the pool `ai_suggestions` | RunNow, AdminRunSuggestions, scheduler Enqueue, RunForUser (rate limit, running check, generate, backfill, persist, finish), CancelRun, DeleteFinishedRuns | two requests for one user; cancellation between stages; minutes of provider calls; contexts that die | one run per user; cancellation stops the pipeline and stays; umbrella and run agree; no run is left behind | `SuggestionRun`, `SuggestionRunProofs` (the pool is not modelled) |
| Umbrella jobs, events, retention (`repository/jobs.go`, `jobs/retention.go`, `handlers/jobs_admin.go`) | `jobs`, `job_events` | CreateJob, MarkRunning, MarkFinished, AppendEvent, DeleteJob, DeleteFinished, PruneHistory, IsKindRunning | deletion cascades into rows a worker is busy with; `MAX(seq)+1` races; RunNow against IsKindRunning | the umbrella agrees with the kind's row; no event is lost | its status and deletion in each job model, creation and IsKindRunning in `JobScheduler`; events are left out |
| Job scheduler (`jobs/scheduler.go`, `jobs/registry.go`, `cmd/api/main.go`, `handlers/jobs_admin.go`) | `job_schedules` (cron, enabled, last fired), running rows of `jobs` | seeding, tick, fire, MarkScheduleFired, RunNow, UpdateSchedule | a crash or a lost statement between create, hook, finish and stamp; edits under a tick; a client that leaves | each due time is served once, and in the end; a running row has somebody at work on it; a disabled kind rests | `JobScheduler`, `JobSchedulerProofs` |
| Holdings: copies and editions (`repository/editions.go`, `copies.go`, `library_books.go`, `service/book.go`) | `copies`, `book_editions`, `books` | AddBookToLibrary, CreateBook, IncrementCopyCount, PlaceNewestCopy, SetEditionCopyCount, create, edit, retire, delete | requests of several statements side by side; statements that choose a row and then write it | no copy from nothing; what was added is held; SetEditionCopyCount is exact | `Holdings`, `HoldingsProofs`; the import's calls also in `ImportJob` |
| Loans (`repository/loans.go`) | `loans` | create, return, delete | none: single rows, `copy_id` is never written | | not modelled |
| Places (`repository/copy_locations.go`) | a tree of `copy_locations` | Create, Rename (with a move), Delete | the cycle check and the in-use check are separate from the write | the tree stays a forest unless two moves meet | `Holdings`, `HoldingsProofs` |
| Series volumes and promotion (`repository/series_promotion.go`, `series_volumes.go`, `service/releases.go`, `service/series.go`) | `series`, `series_volumes`, `books`, `book_series`, an advisory lock, the connection pool | Sync, PromoteVolumes, DemoteUnheldVolumes, DeleteSeries, UpsertBook, RemoveBook | two passes at once; a pass that fails halfway; deletion under a pass; waiting on a lock with a pooled connection in hand | no volume is promoted twice; no placeholder outlives its series; passes end | `SeriesVolumes`, `SeriesVolumesProofs` |
| Authentication and tokens (`service/auth.go`, `repository/tokens.go`, `denylist.go`) | users, refresh tokens, denylist | register, login, refresh (rotation with a grace window), logout, password change | a refresh whose answer is lost; two refreshes at once; first-user bootstrap | a client with a lost answer is not locked out; a logged-out family stays out | planned (`Sessions`) |
| AI metadata proposals (`service/ai_metadata.go`) | proposals, runs | propose, accept, reject | accepting against a record edited meanwhile | accepted fields land once | planned |
| Metadata providers and merge (`providers/merge.go`, `workers/metadata_worker.go`) | none (pure), the provider registry | merge, ProcessBook | precedence of answers | merge respects the configured order | one nondeterministic step in `EnrichmentBatch`; merge planned as a pure operator |
| Sync and reading state (`repository/sync.go`, `handlers/sync.go`, `user_books.go`, `reading_sessions.go`) | `user_books` with a time per field, `reading_sessions`, a device's outbox and cursor | GetChanges, ApplyChanges, Upsert, Delete, Create, Finish | edits that arrive late and out of order, answers that are lost and pushes repeated, a cursor over field times | the newest write of a field wins; a repeated push changes nothing; devices learn of every change | `Sync`, `LastWriterWins`, `SyncProofs` |
| Contributors and merge (`repository/contributor_merge.go`, `contributors.go`, `books.go`, `service/book.go`) | `contributors` with `merged_into`, `book_contributors` | Merge, Delete, SetContributors, EnsureBookContributor, ResolveContributor | a merge's seven statements beside other merges and edits, asked for from old pages | no book loses its last credit; earlier merges lead to the survivor; no reference dangles | `ContributorMerge`, `ContributorMergeProofs` |
| Kiosks, series arcs and matching, lists, shelves, wishlist, search, covers, permissions, middleware, migrations, configuration | rows of their own | CRUD, one transaction each, or read-only SQL | little beyond one statement | | not modelled: `PROJECT.json` gives the reason for each |

How the parts interact: HTTP handlers write rows and insert a River job in a
separate statement; River runs each job's `Work` in one of five goroutines,
possibly several times; `Work` talks to the handlers only through the database
(status columns are the cancellation channel); every kind has its own status row
and mirrors it into the umbrella `jobs` row, which the unified history shows and
which an admin or the retention sweep may delete, cascading into the kind's
rows. An import ends by creating the enrichment batches its options ask for, of
the books it added. The scheduler is one goroutine of the same process: it
creates an umbrella row, runs a kind's hook (which inserts a River job, or does
the work itself, as the nightly volume sync does) and stamps the schedule.
Imports and scans share the holdings with whoever edits copies and places by
hand. Devices reach the reading state only through `/sync/changes` and
`/sync/apply`.

`PROJECT.json` lists every component with its status and every hazard at the
line where it bites, with the property that watches it.

## 2. The models

Common conventions. An action is one SQL statement (or one transaction) with the
Go code up to the next, so handlers interleave exactly where Postgres lets them
under READ COMMITTED. One statement is atomic, except where a statement first
chooses rows and then writes them and two requests meet over it: those are two
actions. They are `AddBookToLibrary` and `IncrementCopyCount` (in `Holdings` and
in `ImportJob`) and the statements of a merge (in `ContributorMerge`). A worker
is a record with a program point `pc` named after its next statement. A
statement that may fail has a disjunct with `Fault`, which takes the code's
error path, including the many places where the code ignores the error. Rows
that do not exist yet are `"absent"` (or `"unborn"`), deleted ones `"gone"`.
Every counter of misfortunes, edits or requests is bounded by a constant whose
name starts with `Max` or by the set of requests; the proofs hold for every
value of it. River itself is external (not in `src/`): it runs an available job,
runs it again when the attempt returned an error or its process died, and stops
when it returned nil or `river.JobCancel`. One attempt of a River job runs at a
time. Variables marked `observer` remember what a property needs and no guard
reads them. Definitions marked `mutant` are deliberately wrong variants of the
definition that follows; nothing uses them in the models.

### EnrichmentBatch

One batch: `batch` (the row), `items` (by position of `book_ids`), `job` (the
umbrella row), `river`, `creator` and `canceller` (where the two handlers
stand), `worker`, `deleted` (books deleted from the catalogue).

| code | action |
|---|---|
| `BulkEnrich`: Create, CreateItems, riverClient.Insert, their failures | `Create`, `CreateItem`, `Enqueue`, `CreatorFails` |
| `Work`: Get and the cancelled check | `Load`, `Discard` (River gives a deleted batch up) |
| `UpdateStatus(processing)`: batch row, umbrella row | `MarkProcessing`, `MirrorProcessing` |
| `ResyncCounters` | `ResyncCounters` |
| the loop: Get, FindItemByBookID, ProcessBook, UpdateItemStatus, IncrementProcessed, UpdateStatus(verdict) | `CheckCancelled`, `FindItem`, `ProcessBook`, `UpdateItemStatus`, `IncrementProcessed`, `MarkFinished`, `MirrorFinished`, `LoopEnds` |
| `Cancel` (two statements), `Delete`/`DeleteFinished`, `DeleteJob`/`PruneHistory` | `Cancel`, `MirrorCancel`, `Delete`, `DeleteUmbrella` |
| a book deleted (`ON DELETE SET NULL`) | `DeleteBook` |
| process death; graceful shutdown | `Crash`; `Shutdown` |

`Shutdown` folds what happens on a dead context: all later statements fail, and
whether `Work` returns `ctx.Err()` (retry) or nil (completed) depends on whether
a loop top remains. `ProcessBook` is one step with any outcome.

### ImportJob

Several imports into one library. A CSV row is its ISBN, whether it has a title
and whether it names a shelf; `Options[j]` is what the user chose for import `j`
(count duplicates up, update from the CSV, enrich metadata, enrich covers).
`editions[i]` counts the editions with ISBN `i` in the catalogue, `copies[i]` are
the library's copies of the book of the oldest of them in the order they were
made, `TRUE` for one that says which edition it is of and `FALSE` for one that
does not yet (AddBookToLibrary makes it, IncrementCopyCount gives it the
edition), `untraced` the books made for rows without ISBN. A done row says how,
as its message does: `imported`, `linked`, `counted` up or only `refreshed` from
the CSV. The observer `crossed` holds the ISBNs on whose copies two statements
overlapped: what one wrote rested on a read the other had made untrue.

| code | action |
|---|---|
| `StartImport` | `CreateJob`, `Enqueue` |
| `Work`: GetJob, UpdateJobStatus, ListPendingItems | `Load`, `MarkProcessing`, `MirrorProcessing`, `ListPendingItems` |
| per row: GetJob; processItem up to its first write | `CheckCancelled`; `ReadRow` |
| AddBookToLibrary, IncrementCopyCount (two halves each), PlaceNewestCopy, or a new book | `LookForCopy`, `InsertCopy`; `ChooseCopy`, `AdoptCopy`; `FileCopy`; `CreateBook` |
| UpdateItemStatus, UpdateJobStatus with the counters | `UpdateItemStatus`, `Report`, `MirrorReport` |
| the end: UpdateJobStatus(done), spawnEnrichmentBatch for metadata and for covers | `Finish`, `MirrorDone`, `SpawnMetadata`, `SpawnCovers` |
| `CancelJob`, `DeleteJob`/`DeleteFinishedJobs`, umbrella deletion | `Cancel`, `Delete`, `DeleteUmbrella` |
| timeout, crash, shutdown | `Stop` |

An edition is never deleted in the model, so FindByISBN and IsBookInLibrary are
one step. Of a shelf the model keeps that filing the copy may fail, which fails
the row although its copy is recorded; a path that cannot be resolved is a row
without a shelf, as in the code. Which books have a cover on disk is any choice
(`SpawnCovers`). Tags, contributors and reading state are left out.

### WorkList

What the two kinds of background job above promise alike:
`models/enrichment_batch.go` says of a batch's status values that they mirror
those of an import, so that one page can treat both. An entry gets one result
and keeps it, a list is not called finished while entries are open but for those
that are excused, and one that was cancelled or deleted stays so. Both modules
implement it:

| `WorkList` | `EnrichmentBatch` (`WL`) | `ImportJob` (`WL(j)` for each import) |
|---|---|---|
| `status` | `batch.status` | `imports[j].status` |
| `results` | `items` by position | `items[j]` by row |
| `excused` | the books that left the catalogue; any number once a statement was lost | the statements that were lost |

The two differ in what a lost statement may cost. An import's counters live in
the attempt, and a statement leaves one row open at most. A batch is finished by
a counter in its row, which a lost statement lets run ahead of the items for
good, so that the batch may be called finished over several open books.
`CancelSticks` and `ResultsStick` are two parts of `WorkListHolds` with theorems
of their own; the run checks the whole. `WorkListsHold` states the initial
condition and the steps of all imports apart (TLC does not check `\A j :
WL(j)!Spec` as it stands).

### SuggestionRun

The runs of one user. `runs[r]` is an umbrella row with its
`ai_suggestion_runs` row and, as an observer, the number of stages begun after
`CancelRun`. A task is a River job; `Trigger[t]` says who asked.

| code | action |
|---|---|
| `RunNow`, `AdminRunSuggestions`: limit, running check, Insert; the scheduler's Enqueue | `AskRate`, `AskRunning`, `Insert` |
| `RunForUser`: preconditions, daily limit, running check | `Start`, `CheckRate`, `CheckRunning` |
| CreateJob, CreateRun and its failure | `CreateUmbrella`, `CreateRun`, `FailUmbrella` |
| first Generate, checkCancelled, truncation | `Generate`, `CheckCancelled` |
| ListNewSuggestionKeys, the backfill loop | `ListKeys`, `BackfillCall` |
| AppendSuggestions, FinishRun | `Persist`, `Complete`, `Fail`, `FinishRun` |
| `CancelRun`, `DeleteFinishedRuns`, `DeleteJob` | `CancelRun`, `ClearFinished`, `DeleteUmbrella` |
| process death; timeout or shutdown | `Crash`; `ContextDies` |

`ContextDies` folds a dead context: the aftermath of the first provider call
has its own context (`terminalWriteCtx`), everywhere else later statements
fail, and a failed status read counts as cancelled. Prompts, candidates, events
and the pool are left out; all runs fall into one 24-hour window.

### JobScheduler

The schedules (`schedules`, with `base` for `last_fired_at` or `created_at`),
the rows of `jobs` that say running (`jobs`), the start-up (`boot`), the
scheduler goroutine (`tick`) and the Run now requests (`press`). A cron
expression is a period, due at every multiple of it: what the code takes from
it is only the next due time after a given one. Both clocks (the process's and
Postgres's) are one. `Kinds` are numbered in the order of their names, in which
the start-up and the tick (`ORDER BY kind`) take them: what each has still to
do is a set, and its `First` member is next.

| code | action |
|---|---|
| `main`: GetSchedule, UpsertSchedule per kind | `CheckSchedule`, `SeedSchedule` |
| `tick`: ListSchedules, what is due | `ListSchedules` |
| `fire`: CreateJob, Enqueue, MarkFinished | `FireCreates`, `FireRuns`, `FireFinishes` |
| `MarkScheduleFired` | `MarkScheduleFired` |
| `RunNow`: IsKindRunning, CreateJob, Enqueue, MarkFinished | `Press`, `PressCreates`, `PressRuns`, `PressFinishes` |
| the request's context dies with its client | `ClientLeaves` |
| `UpdateSchedule`, `Delete` of a job | `UpdateSchedule`, `DeleteJob` |
| time, process death and restart | `Elapse`, `Crash` |

### SeriesVolumes

One series. `volumes` is `series_volumes` by position, `books` says of each book
whether somebody did something with it (`worked`: a copy, an edition, a rating,
a list) or it is the placeholder promotion made (`thin`), `place` is
`book_series`. A pass is one of `Runners`, those in `Nightly` started by the
`series_sync` job. The pool of connections is part of the model: a statement
needs a free one, a pass keeps one from `Acquire` to `Unlock` and a second while
it promotes a volume. Of what the provider says of a volume (`said`, one of
`Descriptions`) the model keeps whether there is a title and an external id: an
upsert replaces the one and keeps the other, and a volume with neither is what
the code takes for one that only the total implied (`Dropped`).

| code | action |
|---|---|
| `syncFromSource`, `Sync` (one upsert per volume) | `Fetch`, `SyncVolume`, `SyncEnds` |
| `PromoteVolumes`: Acquire, advisory lock, seed book, volumes a total implies, volumes it dropped, list | `Acquire`, `Lock`, `Seed`, `FillTotal`, `FindStale`, `DemoteStale`, `PruneStale`, `ListPending` |
| `promoteOne` | `CheckPosition`, `CommitVolume` |
| its ends: none left, an error, a reader who gives up, the deferred unlock | `PromotionEnds`, `PromotionFails`, `StopsWaiting`, `Unlock` |
| `UpsertBook`, `RemoveBook`, books edited or deleted, another total | `PlaceBook`, `RemoveBook`, `WorkOnBook`, `DeleteBook`, `SetTotal` |
| `DeleteSeries`: IDsForSeries, DemoteUnheldVolumes, Delete | `ReadVolumeIDs`, `DemoteAll`, `DeleteRow` |

### LastWriterWins and Sync

`LastWriterWins` is what synchronisation promises about one field: writes with
timestamps arrive in any order and any number of times, and the field holds the
newest. `Sync` is the code: `rows` (`user_books`), `sessions`
(`reading_sessions`, oldest first), per device an `outbox`, the ops a request
has been through (`handled`), the place of its current op in `applyProgress`
(`request`), its `cursor` and what it has been told (`known`). The device is not
in the repository; it does what the comments on the two endpoints ask of
clients. `LWW` maps the abstract field to the rating column and its time, and
the abstract arrivals to the observer `arrived`.

| code | action |
|---|---|
| `ApplyUserBookInteractionOp`: applyUBIField, applyUBITombstone | `ApplyVerdict` |
| `applyProgress`: the row, the UPDATE, the look at the session, its edition, the UPDATE again, the INSERT | `FindBook`, `TrySession`, `LookAtSession`, `AttachEdition`, `RetrySession`, `OpenSession` |
| the answer of `ApplyChanges`; a failed op; a lost answer | `Answer`; `FailOp`; `LoseAnswer` |
| `GetChanges` and the client's cursor | `Pull` |
| `UserBookRepo.Upsert`, `Delete`; `ReadingSessionRepo.Create`, `Finish` | `Upsert`, `DeleteRow`, `CreateSession`, `FinishSession` |
| an edit while offline | `DeviceEdits` |

A statement that fails leaves the op unanswered and the device pushes it again
(`FailOp`), except the second UPDATE of a progress, whose failure is answered as
`invalid` (`RetrySession`).

### Holdings

One library: `books` and `editions` of the catalogue, `copies` in the order they
were made (retired ones stay, as `deleted_at` leaves them), `places` and their
`parent`. Each of `Requests` is made once; a request that dies is one that
takes no further step. A request remembers whether its last look at the copies
found one (`found`), and the observer `overlaps` counts, for each book, the
inserts of a copy that met one their look had not found.

| code | action |
|---|---|
| `AddBookToLibrary`; a scan that finds its edition (`CreateBook`); an import's row that finds its edition | `AskAdd`; `AskScan`; `AskImport`, then `LookForCopy`, `InsertCopy` (the two halves of one statement) |
| `IncrementCopyCount` | `ChooseCopy`, `AdoptCopy` (the two halves of one statement) |
| `PlaceNewestCopy` | `FileCopy` |
| `CreateBook` with a new edition (one transaction, with `SetEditionCopyCount`) | `CreateBook` |
| `CopyRepo.Create`, `Update`, `Delete`; `RemoveBookFromLibrary`; `EditionRepo.Delete`; `BookRepo.Delete` | `CreateCopy`, `UpdateCopy`, `DeleteCopy`, `RemoveBookFromLibrary`, `DeleteEdition`, `DeleteBook` |
| `CopyLocationRepo.Create`, `Rename` (check, UPDATE), `Delete` (count, DELETE) | `CreatePlace`, `AskMove`, `MovePlace`, `AskDeletePlace`, `DeletePlace` |

`SetEditionCopyCount` is an operator on the sequence of copies, used by
`CreateBook` and checked by `SetCountExact` in every state for every count up to
a bound. `isDescendant` walks no further than `MaxDepth` places up, as the code's
query does (`depth < 32`). A rename without a move changes nothing the model
holds.

### ContributorMerge

The contributors (`people`), where each was merged (`merged`), who is credited
on which book (`credits`), and for each admin and editor the transaction under
way (`tx`): its statement, the rows that statement selected, the credits it
inserted and deleted and the contributors it holds locks on. What a transaction
wrote is nobody else's before `Commit`; a row another one has written is waited
for, and then looked at again.

| code | action |
|---|---|
| `MergeContributors`, whose ids are taken as sent | `AskMerge` |
| `Merge`: INSERT ... SELECT ... ON CONFLICT; DELETE; the survivor's blanks; earlier merges; the losers | `ReadCredits`, `InsertCredits`; `FindCredits`, `DeleteCredits`; `FillDetails`; `FindChains`, `Repoint`; `FindLosers`, `Record` |
| `SetContributors` in `UpdateBook`; `EnsureBookContributor` | `AskEdit`, `FindOld`, `ClearOld`, `AddCredit` |
| the end of a transaction; an error, a broken deadlock, a client that leaves | `Commit`; `Rollback` |
| `ContributorRepo.Delete`, behind `ON DELETE RESTRICT` and `SET NULL` | `DeletePerson` |

One role stands for all of them and the survivor's details are only a lock. The
editor is one, because `UpdateBook` holds the row of its book from its first
statement on.

## 3. The runs

| run | instance | shows |
|---|---|---|
| `enrichment` | 3 books; one crash, one shutdown, one lost statement, one deleted book; a cancellation and deletions at any time | `CountersMatchItems`, `FinishedMeansAttempted`, `CancelStopsWorker`, `UmbrellaCancelHonest`, `WorkListHolds` (refinement), `EveryBookAttempted` (liveness) hold |
| `enrichment_stuck` | 2 books, one crash | violation: a crash after the last item and before the verdict leaves the batch `processing` for good (the verdict sits behind the idempotency `continue`) |
| `imports` | two imports of the same two ISBNs in opposite order, one ISBN held elsewhere; one import counts duplicates and wants metadata, the other updates from its CSV and wants covers; a duplicate in one file, a shelved row in the other; nothing is lost | `CopiesMatchRows`, `ReportMatchesRows` hold |
| `import_lost_statements` | one import with a row of every sort, two attempts that die, one lost statement | `CatalogueIsbnPerImport`, `SettledRowsRest`, `CancelStopsImport`, `WorkListsHold` (refinement), `EveryRowSettled` (liveness) hold |
| `suggestions` | a user's RunNow beside an admin's sweep, daily limit 1, two backfill attempts, two interventions, one misfortune of any kind | `OneRunPerJob`, `CancelStopsRun`, `HistoryAgrees`, `VerdictSticks`, `RunEnds` (liveness) hold |
| `volumes` | the nightly pass and a reader's, three connections, two positions (the second listed by the provider, with a title, with an id or with neither, or implied by the total, or both), a book somebody owns and two to invent, one edit, one failure, a deletion at any time | `PlaceholdersLinked`, `DeletionTakesPlaceholders`, `PassEnds` (liveness) hold |
| `volumes_pool` | the same passes over two connections, no misfortune | violation: the waiter holds the connection the holder of the lock needs, and both wait for good |
| `scheduler` | a kind that is on by default with period 1 and one that is not with period 2, one Run now, one edit, one failure, one crash, a clock up to 2 | `DueServedOnce`, `RunningRowsOwned`, `DisabledStaysQuiet`, `DueIsServed` (liveness) hold |
| `sync` | two devices and the web, one book, three edits, two sessions, one lost answer or failed statement | `LastWriterWinsHolds` (refinement), `ReplayedRatingRests` hold |
| `sync_skips` | two books, pages of one row | violation: a cursor that follows the ops passes a rating the device was never told |
| `holdings` | three requests of any kind, two books, two editions of one of them, two places, every state of catalogue and tree they may start from | `CopiesAsAdded`, `SetCountExact`, `LoopsNeedTwoMoves` hold |
| `contributors` | three contributors credited in any way on a book, two merges of any survivor and losers, one edit of the book, deletions at any time | `CreditedStays`, `EarlierMergesFollow` hold |

Each passing run also checks its module's `TypeOK` (imports once). Each
violation run checks one property that quotes the code's own words; the findings
in `PROJECT.json` give the quotation and the lines.

Bounds. The batch needs three books so that a first, a middle and a last book
exist (the last one has no loop top after it), and one misfortune of each sort
so that each can meet each other. Two imports and two ISBNs in opposite order
reach every interleaving of two lookups and two writes; a third import adds no
new pair. `imports` loses no attempt and no statement (with either, two imports
have too many states), which is what `import_lost_statements` is for, with one
import; the proofs have any number of both at once. Two suggestion jobs and one
misfortune reach a retry beside a second job; two interventions let a
cancellation be followed by a clearing or a deletion. Two passes are what an
advisory lock between two callers is about; three connections are the fewest
with which one of them works while the other waits (one to wait with, two to
work), and one edit, of a book, a place or the total, can change what any one
statement of a pass finds. With a second edit, which lets a placeholder be moved
and then worked on, the invariants were checked as well (1.9 million states up
to a symmetry of the invented books); the proofs have any number of edits. In
the scheduler a clock of 2 lets the hook of period 1 run past the next due time
and makes both kinds due at once; four rows of `jobs` are enough for what one
failure and one crash leave behind beside what runs. Three edits of one book are
the fewest that can arrive as oldest, newest, middle; two sessions let a pass be
finished and another be opened. Three requests in `Holdings` let two of them
meet over a copy the third one made; two places are enough for a loop, and with
them a `MaxDepth` of 2 is as good as the code's 32: it reaches the top of any
tree of that many. Among three contributors two merges are all that can go
before somebody merges into a tombstone; a third one, or a second edit, was
checked too and adds only time. The moments of `Sync` go up to 9, which three
edits never use up. Every handler runs to its end in these instances.

Symmetry is used where only safety is checked and the values play the same
role: over the devices of `sync`, over the requests, places and editions of
`holdings` (both editions belong to one book), and over the contributors and
admins of `contributors`. It is not used elsewhere.

Deadlock is not an error here: a system whose requests are served and whose
bounds are spent has nothing left to do.

Some properties are weakened to what the code really does, and say so by their
premises: `CountersMatchItems` speaks of batches no lost statement, shutdown or
deletion disturbed, and of the verdict of those whose attempt was not stopped
either; `ReportMatchesRows` of imports done by one attempt, since the counters
and the list of new books live in the attempt; `CopiesMatchRows` bounds the
copies of an ISBN always, by one more for each attempt that died and each
statement that was lost, and equates them with its done rows only while nothing
was lost and no two statements overlapped on it (`crossed`); `RunEnds` as long
as nothing failed, since a crash, a dead context or a failed status read leaves
the run `running` (and bars the user) with nobody to end it.
`EveryBookAttempted` and `EveryRowSettled` do cover crashes and retries, and
charge a lost statement at most one book or row. `DueServedOnce` and
`RunningRowsOwned` charge each failure and each crash one repetition or one row
left behind; `DisabledStaysQuiet` allows the tick that had already read its
schedule; `DeletionTakesPlaceholders` spares the books a pass invented during
the deletion; `CopiesAsAdded` allows one copy for each that is made or given an
edition by hand, and one for each insert that met a copy its look had not found
(`overlaps`); `LoopsNeedTwoMoves` says in its name what makes a loop.
`CreditedStays` and `EarlierMergesFollow` name the overlaps they exempt (the
observer `crossed` of the one, `overtaken` and `misled` of the other), which
lose a credit or leave a tombstone pointing at a tombstone in the code as in the
model.

### What the code says and does not do, without a run

Found while modelling, and visible in the models; each follows from the lines
named.

- A cancelled batch that the user clears from the list no longer says cancelled,
  and its worker works on (`enrichment_batch_worker.go:96` needs the row).
- Two imports that look an ISBN up before either commits both create an edition
  (`import_worker.go:328`), and no unique index stands behind
  "Editions are globally unique by ISBN" (line 306).
- `CancelJob` of an import leaves the umbrella row `pending` or `running`
  (`import_jobs.go:247`), though `models/job.go:41` calls it the source of truth.
- Two queued suggestion jobs of one user both count no running run
  (`ai_suggestions.go:143`); `FinishRun` overwrites a cancellation that came
  after the last look (`repository/ai_suggestions.go:292`).
- `SetEditionCopyCount` says it retires the least described copies first
  (`library_books.go:167`); `ORDER BY describedness ASC OFFSET n` keeps these
  and retires the most described. Its callers in `src/` pass editions that were
  just created, so no request gets there.
- A failed read of a schedule at start-up is taken for a missing row, and the
  upsert resets an admin's cron and switch to the defaults (`main.go:587`).
- A client that leaves while Run now's hook runs leaves the row `running`, and
  the kind answers 409 until the cutoff of IsKindRunning (`jobs_admin.go:445`).
- Two progress pushes at once each open a session (`sync.go:339`); a deletion or
  a progress that is pushed again after the web undid it is applied again.
- "adding a book already in the library does nothing rather than quietly giving
  you a second copy" (`library_books.go:37`): two adds of one book at once each
  find no copy and each insert one, since the `WHERE NOT EXISTS` of line 49 reads
  a snapshot and no unique index stands behind it. `CopiesAsAdded` counts the
  second as an overlap; without that term TLC refutes it with two `AskAdd`.
- "it takes the edition instead of a second copy being added beside it"
  (`editions.go:319`): an add and a scan of one book at once likewise insert a
  copy each; the scan's takes the edition and the add's stays beside it.
- "IncrementCopyCount records one more copy of an edition" (`editions.go:311`):
  its sub-select chooses the copy without an edition from a snapshot and the
  UPDATE writes it by id, whatever it has become. Two imports or two scans that
  link the same edition at once may adopt the same copy, so that two rows are
  done and one copy is recorded. `CopiesMatchRows` exempts the ISBN (`crossed`);
  without that premise TLC refutes it in the run `imports`.
- An error of the second UPDATE of a progress is answered `invalid` whatever it
  was (`sync.go:324`), "No edition exists to count pages against". The client
  takes invalid as acknowledged (`sync.go:235`), so a lost connection there loses
  the edit.
- `PlaceNewestCopy` says that "the newest one is the copy it just made"
  (`copy_locations.go:195`); when the copy recorded was an older one that had no
  edition, a newer copy somebody filed elsewhere is moved in its place.
- Three merges asked for from old pages make a circle of tombstones: B into C, A
  into B, C into A (`contributor_merge.go:243` says "A merge cannot create one").
  The survivor of the second is a tombstone, which nothing refuses. No caller of
  `ResolveContributor` is left in `src/`.
- A credit that is committed between the two statements with which a merge copies
  and deletes its losers' credits is deleted uncopied
  (`contributor_merge.go:156-171`), though "their credits repoint at the
  survivor" (`handlers/contributor_merge.go:59`). A form that was open before a
  merge credits a tombstone.
- Two moves of places at once may make a loop (`copy_locations.go:167`); a copy
  filed between the count and the DELETE of its place loses it (line 284).
- "A loop is refused on write" (`copy_locations.go:66`) takes a tree that is no
  deeper than the 32 places isDescendant walks up (line 315). In a deeper one a
  single move puts a place under one of its own: TLC finds it with three places
  and `MaxDepth = 2`, and the proof of `LoopFree` needs the bound.
- `BookService.DeleteBook` says it cascades through copies (`service/book.go:443`);
  `copies.book_id` is `ON DELETE RESTRICT`, and retired copies count.

## 4. Fairness

`FairSpec` is `Spec` with weak fairness of the worker's steps only (per River
job where there are several). The code justifies it: River polls and runs every
available job, provider calls have client timeouts, and a Postgres statement
returns or fails. `JobScheduler` is fair to the seeding and to the scheduler
goroutine: the process is started again after a crash (its supervisor does
that), the ticker of `Run` fires every 30 seconds and `tick` runs to its end.
`SeriesVolumes` is fair to the steps of a pass, whose statements each wait for a
connection and then return or fail; nothing is assumed of the order in which
waiters get connections or the lock. Users, requests, admins, clocks, crashes
and failures are under no fairness. Safety needs none, and `Sync`, `Holdings` and
`ContributorMerge` state none.

## 5. The proofs

The proof modules follow one argument: a type invariant, a strengthening that
is inductive, the fact that it is preserved by each action (one step per
action), and the properties read off it. TLAPS checks every leaf; the only
assumptions are the named ones on constants (`BatchAssumption`,
`ImportAssumption`, `SuggestionAssumption`, `SyncAssumption`,
`MergeAssumption`, `VolumesAssumption`, `SchedulerAssumption`,
`HoldingsAssumption`), which TLC evaluates in each run, and the hypotheses that
three theorems state: `LoopFree` bounds the number of places, `MergesFollow` that
of merges, `CountersMatch` is about lists that name each book once.

**EnrichmentBatchProofs**, for every non-empty list of books and any number of
misfortunes. `FullInvariant` is `TypeInv /\ CancelInv /\ ItemsInv /\ CountInv`, and
`TallyHolds` adds `TallyInv /\ VerdictInv`:

- `TypeInv` adds to `TypeOK` that the loop index stays on the list inside a
  round.
- `CancelInv` ties the canceller, the umbrella and the count of late books to a
  batch that is cancelled or gone, and says that a worker between its status
  check and the next book still has one late start to spend.
- `ItemsInv` says who has seen which rows: items exist before the job is
  enqueued, only a deleted batch loses them, and the item of a round in progress
  has no result yet.
- `CountInv` bounds `processed_books` by the items before the loop index that
  were attempted or lost their book (`Seen`), as long as no statement was lost.
  It is what makes `FinishedMeansAttempted` inductive: a tick reaches the total
  only when everything before it is settled, through any number of retries,
  because `ResyncCounters` restarts the count from the items.
- `TallyInv`: while nothing but crashes has happened to a batch that was neither
  cancelled nor deleted, the counters are what the items say between two books,
  and lack the one book whose result is written down and not yet counted. After a
  crash they may be short of it, up to the next attempt's `ResyncCounters`: that
  is why the program points before it are left out, and why the property speaks
  of a batch River is through with.
- `VerdictInv`: an attempt that is the first and the last takes the books in order
  and compares the counters after the last. It needs a list that names each book
  once (`Once`): `FindItemByBook` answers with one of the two rows of a repeated
  book, so one may stay pending and the batch without a verdict.

The refinement of `WorkList` maps every step: one that leaves the row's status
and the items alone may only excuse more (`ExcusesGrow`), one that sets the
status finishes the list only behind a full counter, which by `CountInv` covers
every book that is open and not excused (`OpenAreExcused`), and one that writes
an item writes one that had no result (`ItemsInv`).

Theorems: `TypeCorrect`, `CancelIsFinal`, `UmbrellaIsHonest`, `CancelStops`,
`FinishedIsAttempted`, `ResultsAreFinal`, `CountersFollowItems` (the counters, for
any list), `CountersMatch` (with the verdict), `WorkListImplemented` (the
refinement).

**ImportJobProofs**, for every finite set of imports, every CSV and every bound.
`Invariant` is `Shared`, `Import(j)` of each import and `Editions(i)` of each ISBN:

- `Shared`: the tables and attempts have their types.
- `Import(j)` is `AttemptFits` (the rows an attempt still has to take, and the one
  it decides on, have no result; the one it decides on is off the list; only a
  known book is linked) and `CancelledRests` (who was cancelled stays cancelled or
  goes, so that a count of late rows above the lost reads needs a row that is
  gone).
- `Editions(i)` counts with the editions the attempts that are about to create
  one (`Creating`): together they are no more than the imports that mention the
  ISBN and the lost lookups. `CatalogueIsbnPerImport` alone is not inductive: two
  attempts past the duplicate check are two editions to come. An attempt joins
  them only while there is no edition, when they are some of the imports that
  mention the ISBN, or through a lookup that failed.

A step of one import leaves `Import` of the others alone (`OthersStay`), and the
ways an attempt moves have a lemma each (on to a point without a row, on with its
row, decided, returned).

`Bookkeeping` rests on `Invariant` and says what the rows come to:

- `Placed(j)` relates River's job to the attempt and the items to the import's row.
- `Accounted(j)`: the only attempt of an import that nothing disturbs carries
  counters and a list of new books that are what its rows say (`Tallied`), nobody
  has a result before it starts, and a batch has its books from the point on at
  which it is created (`HandedOver`). `ReportMatchesRows` speaks only of the
  end; a step that reaches it needs the counters of every point before.
- `Covered(i)`: whatever is lost and however statements overlap, the copies of an
  ISBN that say their edition, with its further editions, are no more than the
  rows that brought one and the losses; and all its copies, with those that rows
  are about to add since they found none to adopt, no more than these and the
  rows in hand (`InHand`). The bound of `CopiesMatchRows` alone is not inductive:
  a row that adds a copy was counted before it did. There is room for it, because
  when it found none to adopt every copy said its edition.
- `Stocked(i)`: while nothing was lost and no two statements overlapped on the
  ISBN, there are no fewer printed copies and further editions than done rows,
  only the first copy may lack its edition, and then a row that linked it is about
  to adopt that one. With `Covered` this is the equation of `CopiesMatchRows`.
- `Picked(j)`: what a row is about to adopt is a copy that is there.
- `Traced(j)`: a done row without an ISBN is one book.

`DoneGrows` carries these: a step makes at most one row done (`Brings`), and that
row was not done before, since the attempt decides only on rows without a result.

`Progress` is what the refinement of `WorkList` needs beside these:

- `LeftBehind(j)`: from the moment an attempt has read its list, the rows without a
  result (`Waiting`) that it does not still have before it (`Ahead`) are no more than
  the statements that were lost. When nothing is before it any more, these are all
  the open rows, and it may call the import done.
- `Stored(j)`: the rows of an import that is there are there.

Theorems: `TypesHold`, `SettledRowsStay`, `CancelHolds`, `EditionPerImport`,
`ReportsMatch`, `CopiesMatch`, `WorkListsImplemented` (the refinement).

**SuggestionRunProofs**, for every finite set of jobs, every limit and any
number of interventions and misfortunes. `FullInvariant` is
`TypeOK /\ TypeInv /\ RunsInv`:

- `TypeInv` adds how many backfill calls an attempt has left at each point.
- `RunsInv` says of each row that it is fine (`RowFine`: umbrella and run agree,
  at most one late stage, none while running), of each attempt that the row it
  works on fits its program point (`PointFine`: not begun at `create`, begun and
  not ended in the pipeline, not late when a stage is about to begin), and that
  an attempt about to create its run has no other run running (`Alone`). Alone
  is what `OneRunPerJob` needs to be inductive; without `PointFine`, `FinishRun`
  could not be shown to spare finished runs.

Steps fall into four shapes with a lemma each (no row written, own row written,
a row added, rows swept by an admin), so that every action is a short step.

Theorems: `TypeCorrect`, `OneRunEach`, `CancelStops`, `HistoryIsHonest`,
`VerdictIsFinal`.

**SyncProofs**, for every set of devices and books and every bound: that `Sync`
implements `LastWriterWins`. `Invariant` is
`TypeInv /\ MomentsInv /\ RatingInv /\ AppliedInv`:

- `MomentsInv`: a moment belongs to one write, in an outbox or arrived.
- `RatingInv`: the rating and its time are the newest write that arrived.
- `AppliedInv`: what a device's request has applied is no newer than the column.

Without `MomentsInv` two ratings could share a time and `>` in the code's
comparison would not decide between them; without `AppliedInv` a push made again
could not be shown to rest. A step is quiet (no rating moves), an arrival (one
write reaches the column, or loses to a newer one) or a matter of progress; each
maps to a step of `LastWriterWins` or to a stutter.

`Typed` strengthens `TypeOK` by what each request and session is about
(`Typing`). The session that progress is written to is the last open one, `Max` of a
set of numbers: it exists because the distance to their bound has a least value
(`MaxExists`).

Theorems: `RatingsAreNewest`, `SyncImplementsLastWriterWins` (the refinement),
`ReplayRests`, `Typed`.

**ContributorMergeProofs**, for every set of contributors, books, admins and
editors and every bound. `Invariant` is `TablesOK /\ TxInv /\ CreditedStays`:

- `TablesOK`: the foreign keys.
- `TxInv`: each transaction, taken alone, fits the tables (`Fits`): what it wrote
  refers to rows that are there, and for each credit a merge is about to delete
  or has deleted (`Doomed`) the survivor has one or is about to, unless the
  book's credits changed behind its back. Any two wait for each other's rows
  (`Apart`).

A statement writes only into its own transaction, so one lemma (`Statement`)
covers all of them; `Commit` and `DeletePerson` change what the others must fit
and have lemmas of their own. Without `Doomed` being covered from the statement
that copies to the commit, `CreditedStays` would not be inductive; without
`Apart`, what a transaction deleted could be gone before it commits.

`EarlierMergesFollow` needs two invariants more:

- `ChainInv`: while no merge was overtaken, `merged_into` leads in one step to a
  contributor that is there (`OneStep`), because a merge repoints what led to its
  losers; of a merge under way it says what it has locked and which rows it found
  to repoint (`Seated`, `HeldFit`, `FoundFit`).
- `RankInv`: a number of at most the merges that are through falls along
  `merged_into`, so there is no loop and no chain is longer than that.

Both, like the property, say nothing once a merge took a tombstone for its survivor
(`misled`). `MergesFollow` assumes `MaxMerges <= 8`: each merge that overtakes
another can lengthen a chain by a step, and ResolveContributor gives up after eight.
Without that hypothesis `NoCircle` holds, and ResolveContributor still ends with
somebody who stands while no merge was overtaken (`ResolvesUnlessOvertaken`).

Theorems: `ReferencesHold`, `CreditsSurvive`, `NoCircle`, `ResolvesUnlessOvertaken`,
`MergesFollow`.

**SeriesVolumesProofs**, for every set of positions, books and passes, every
number of connections and every bound on edits and failures. `Invariant` is
`TypeOK /\ Exclusion /\ Linked /\ Doomed` and `Pending(r)` of each pass:

- `Exclusion`: a pass between `pg_advisory_lock` and its deferred unlock is the
  lock's holder. It is a theorem of its own.
- `Pending(r)`: the volumes a pass has yet to promote still have no book, and are
  there as long as the series is. What it listed may be stale, but only another
  pass could promote or prune one meanwhile, and `Exclusion` keeps it out.
- `Linked`: a volume that is not there names no book, every placeholder was
  promoted for some volume, and `PlaceholdersLinked`.
- `Doomed`: what a deletion in progress has read covers every placeholder but
  those invented since (`amid`).

Theorems: `Typed`, `OnePassAtATime`, `PromotedOnce`, `DeletedWhole`.

**JobSchedulerProofs**, for every set of kinds and cron periods, any number of
Run now requests and every bound on edits, failures and crashes. `Invariant` is
`TypeOK /\ Owners /\ Listed /\ Stamps /\ RunningRowsOwned`, with `Resting(k)`
of each kind and `Counted(k, d)` of each due time:

- `Listed`: what the tick read may be stale, but no stamp has reached the due
  time of a kind it has yet to fire.
- `Counted(k, d)`: failures and crashes have paid for every time a due time was
  served but one, and for that one too unless it is stamped over or its run is
  on the way to the stamp. `DueServedOnce` alone is not inductive: it does not
  say that a tick may serve a time again only if something was lost.
- `Resting(k)`: how often a kind that is off may still run, by what the tick has
  read of it.

Theorems: `Typed`, `ServedOnce`, `RowsOwned`, `OffIsQuiet`.

**HoldingsProofs**, for every catalogue and every finite set of requests. The
invariant `Inv` is `TypeOK` (the foreign keys among it), `Sound(r)`, `Cleared(r)`
and `Kept(r)` of each request, `HeldPaid(b)` and `EditionPaid(b)` of each book:

- `HeldPaid`: the copies of a book are no more than the requests that are through
  with it by printing or by hand (`Settled`), and one while no scan, import or
  creation is (`Spare`), and one for each overlap. `EditionPaid`: its copies with
  an edition are no more than the requests that are through. `CopiesAsAdded`
  counts requests from their first step on and is not inductive: a request that
  chose to insert, since it found no copy to adopt, needs room for it by the time
  it does. It has room because either it meets a copy without an edition, which
  is an overlap, or every copy has an edition, each paid by a request that is
  through, and the inserter is not yet.
- `Kept(r)`: the book a request added is held until a copy of it is removed.
- `Cleared(r)`: a move that no other overtook may still go ahead; places that are
  made or deleted meanwhile give no place a new ancestor (`PrunedUpwards`).

`LoopFree` rests on `UpwardsClosed`: of at most `MaxDepth` places, isDescendant
sees all that contain a place, since a longer walk would pass one of them twice
(pigeonhole) and that would be a loop already. `CountsExact` is about the
operator, for whatever copies and count: `Ranks` says that of a finite set in a
strict order as many members have fewer than `n` before them as there are, up
to `n`, which is what `ORDER BY ... OFFSET n` and `LIMIT n` rest on.

Theorems: `Typed`, `CopiesCounted`, `CountsExact`, `LoopFree`.

Every invariant and every action property that a passing run checks is a theorem.
Only model-checked: `EveryBookAttempted`, `EveryRowSettled`, `RunEnds`, `PassEnds`
and `DueIsServed`, which hold under fairness (outside the prover's reach, as is
ENABLED), and the three counterexamples.

## 6. Not modelled, and limits

- A statement is atomic except in `Holdings` and `ContributorMerge` and for
  AddBookToLibrary and IncrementCopyCount in `ImportJob`. Races inside other
  statements (`MAX(seq)+1` of the job events) are not visible.
- River's rescuer may start a second attempt of a job that has been running for
  an hour; the models run one attempt at a time.
- The answer of a statement that committed but whose reply was lost is a crash
  of the attempt in the model, not a failed statement.
- A batch whose creation fails halfway stays pending without a worker
  (`handlers/books.go:909`), and `book_ids` may name a book twice (line 902): the
  model takes both, and no line of the code promises anything about them.
- In `Sync` every write has a moment of its own and devices have the server's
  time; a device whose clock is ahead wins over later edits until then.
- Handlers that create, change or delete a single row without reading first
  (loans, lists, shelves, wishlist, kiosks, bookcases, storage locations, tags,
  ratings of editions) have no interleaving a model could tell from a test.
- Provider clients, search, SQL text, files, configuration and permissions: see
  `PROJECT.json`.

## 7. Plan

1. `Sessions`: token rotation with its grace window, lost answers, logout, the
   first-user bootstrap.
2. The provider merge as a pure operator against a reference definition; AI metadata proposals against concurrent edits.
