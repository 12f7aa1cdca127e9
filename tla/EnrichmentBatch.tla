--------------------------- MODULE EnrichmentBatch ---------------------------
(***************************************************************************)
(* The life of one enrichment batch: the request that creates it, the      *)
(* River job that works through its books, the user who cancels or deletes *)
(* it, books deleted under it, server crashes and lost SQL statements.     *)
(*                                                                         *)
(* An action is one SQL statement (or one transaction) with the Go code up *)
(* to the next one, so handlers interleave where Postgres lets them.  Wall *)
(* clock columns, messages, the progress JSON and the skipped counter are  *)
(* left out: nothing in the control flow reads them.                       *)
(***************************************************************************)
EXTENDS Integers, Sequences, FiniteSets

CONSTANTS
    Books,        \* the books of the instance
    BookIDs,      \* enrichment_batches.book_ids, in working order
    MaxCrashes,   \* bound: crashes while the batch lives
    MaxShutdowns, \* bound: graceful shutdowns while the batch lives
    MaxFaults,    \* bound: SQL statements that fail
    MaxDeleted    \* bound: books deleted while the batch lives

ASSUME BatchAssumption ==
    /\ BookIDs \in Seq(Books) /\ Len(BookIDs) > 0
    /\ MaxCrashes \in Nat /\ MaxShutdowns \in Nat /\ MaxFaults \in Nat /\ MaxDeleted \in Nat

VARIABLES
    batch,        \* the enrichment_batches row: status and counters
    items,        \* enrichment_batch_items, one row per position of BookIDs
    job,          \* status of the umbrella jobs row
    river,        \* state of the River job that carries the batch id
    creator,      \* where the creating request stands
    canceller,    \* where the Cancel handler stands
    worker,       \* the running attempt of EnrichmentBatchWorker.Work
    deleted,      \* books deleted from the catalogue
    crashes, shutdowns, faults,  \* how many of each happened so far
    late          \* books started after Cancel; -1 while nobody cancelled

stops == <<crashes, shutdowns>>
vars == <<batch, items, job, river, creator, canceller, worker, deleted,
          stops, faults, late>>

Total     == Len(BookIDs)            \* total_books
Positions == 1..Total
Attempted == {"done", "failed", "skipped"}

BatchStatus == {"absent", "pending", "processing", "done", "failed",
                "cancelled", "gone"}
JobStatus   == {"absent", "pending", "running", "completed", "failed",
                "cancelled", "gone"}
ItemStatus  == {"absent", "pending", "done", "failed", "skipped", "gone"}

\* mutant: the status is copied to the umbrella untranslated
UmbrellaVerbatim(status) == status

\* normalizeStatusForJobs: the umbrella's word for a batch status
Umbrella(status) == CASE status = "processing" -> "running"
                      [] status = "done"       -> "completed"
                      [] OTHER                 -> status

\* the umbrella row after UPDATE jobs ... WHERE id: a deleted row takes nothing
Mirrored(status) == IF job = "gone" THEN "gone" ELSE status

\* mutant: the WHERE clause forgets "status != 'cancelled'"
LiveUnguarded == batch.status \notin {"absent", "gone"}
\* the statements whose WHERE clause is "status != 'cancelled'" find the row
Live == batch.status \notin {"absent", "gone", "cancelled"}

AttemptedItems == {k \in Positions : items[k] \in Attempted}
FailedItems    == {k \in Positions : items[k] = "failed"}
\* positions whose book left the catalogue; ON DELETE SET NULL cleared book_id
Orphans        == {k \in Positions : BookIDs[k] \in deleted}

NoAttempt == [pc |-> "idle", i |-> 1, item |-> 0, outcome |-> "pending",
              verdict |-> "processing"]

Init ==
    /\ batch = [status |-> "absent", processed |-> 0, failed |-> 0]
    /\ items = [k \in Positions |-> "absent"]
    /\ job = "absent" /\ river = "none"
    /\ creator = "create" /\ canceller = "idle" /\ worker = NoAttempt
    /\ deleted = {} /\ crashes = 0 /\ shutdowns = 0 /\ faults = 0 /\ late = -1

\* a statement is lost: a dropped connection, a timeout, a serialisation error
Fault == faults < MaxFaults /\ faults' = faults + 1

------------------------------------------------------------------------------
(* The request that creates the batch: three steps, not one transaction.  *)

\* EnrichmentBatchRepo.Create: umbrella row and batch row in one transaction
Create ==
    /\ creator = "create"
    /\ batch' = [batch EXCEPT !.status = "pending"]
    /\ job' = Umbrella("pending")
    /\ creator' = "items"
    /\ UNCHANGED <<items, river, canceller, worker, deleted, stops, faults,
                   late>>

\* CreateItems: one INSERT per book; the foreign key refuses a deleted book,
\* the cascade's victim batch refuses every item
CreateItem ==
    /\ creator = "items"
    /\ \E k \in Positions :
        /\ items[k] = "absent" /\ \A l \in 1..(k-1) : items[l] # "absent"
        /\ BookIDs[k] \notin deleted /\ batch.status # "gone"
        /\ items' = [items EXCEPT ![k] = "pending"]
        /\ creator' = IF k = Total THEN "enqueue" ELSE "items"
    /\ UNCHANGED <<batch, job, river, canceller, worker, deleted, stops,
                   faults, late>>

\* riverClient.Insert: from here on the work is River's
Enqueue ==
    /\ creator = "enqueue"
    /\ river' = "available"
    /\ creator' = "end"
    /\ UNCHANGED <<batch, items, job, canceller, worker, deleted, stops,
                   faults, late>>

\* either later step fails: the request ends and nobody undoes Create
CreatorFails ==
    /\ creator \in {"items", "enqueue"}
    /\ \/ Fault
       \/ /\ creator = "items"
          /\ batch.status = "gone" \/ \E k \in Positions :
                items[k] = "absent" /\ BookIDs[k] \in deleted
          /\ UNCHANGED faults
    /\ creator' = "end"
    /\ UNCHANGED <<batch, items, job, river, canceller, worker, deleted,
                   stops, late>>

------------------------------------------------------------------------------
(* EnrichmentBatchWorker.Work *)

Goto(pc)  == worker' = [worker EXCEPT !.pc = pc]
NextBook  == worker' = [worker EXCEPT !.pc = "check", !.i = @ + 1]
ReturnNil == worker' = NoAttempt /\ river' = "completed"
ReturnErr == worker' = NoAttempt /\ river' = "available"

\* mutant: a batch that is already processing is taken for someone else's
LoadOnce ==
    /\ river = "available" /\ worker.pc = "idle"
    /\ IF batch.status = "pending"
       THEN river' = "running" /\ worker' = [NoAttempt EXCEPT !.pc = "mark"]
       ELSE ReturnNil
    /\ UNCHANGED <<batch, items, job, creator, canceller, deleted, stops,
                   faults, late>>

\* River starts an attempt; Work reads the batch and stops if it is cancelled
Load ==
    /\ river = "available" /\ worker.pc = "idle"
    /\ \/ /\ batch.status = "cancelled"
          /\ ReturnNil /\ UNCHANGED faults
       \/ /\ batch.status \notin {"cancelled", "gone"}
          /\ river' = "running" /\ UNCHANGED faults
          /\ worker' = [NoAttempt EXCEPT !.pc = "mark"]
       \/ Fault /\ ReturnErr
    /\ UNCHANGED <<batch, items, job, creator, canceller, deleted, stops,
                   late>>

\* a deleted batch fails every attempt until River gives the job up
Discard ==
    /\ river = "available" /\ worker.pc = "idle" /\ batch.status = "gone"
    /\ river' = "discarded"
    /\ UNCHANGED <<batch, items, job, creator, canceller, worker, deleted,
                   stops, faults, late>>

\* UpdateStatus(processing), first statement: the batch row
MarkProcessing ==
    /\ worker.pc = "mark"
    /\ \/ /\ Live /\ UNCHANGED <<river, faults>>
          /\ batch' = [batch EXCEPT !.status = "processing"]
          /\ Goto("mirrorMark")
       \/ /\ ~Live /\ UNCHANGED <<river, faults, batch>>
          /\ Goto("resync")
       \/ Fault /\ ReturnErr /\ UNCHANGED batch
    /\ UNCHANGED <<items, job, creator, canceller, deleted, stops,
                   late>>

\* UpdateStatus(processing), second statement: the umbrella row, by id alone
MirrorProcessing ==
    /\ worker.pc = "mirrorMark"
    /\ \/ /\ job' = Mirrored(Umbrella("processing")) /\ Goto("resync")
          /\ UNCHANGED <<river, faults>>
       \/ Fault /\ ReturnErr /\ UNCHANGED job
    /\ UNCHANGED <<batch, items, creator, canceller, deleted, stops,
                   late>>

\* mutant: a retry trusts the counters it finds
ResyncNothing ==
    /\ worker.pc = "resync" /\ Goto("check")
    /\ UNCHANGED <<batch, items, job, river, creator, canceller, deleted,
                   stops, faults, late>>

\* ResyncCounters: the counters become what the items say; a failure is logged
ResyncCounters ==
    /\ worker.pc = "resync"
    /\ \/ /\ batch' = IF Live
                      THEN [batch EXCEPT !.processed = Cardinality(AttemptedItems),
                                         !.failed = Cardinality(FailedItems)]
                      ELSE batch
          /\ UNCHANGED faults
       \/ Fault /\ UNCHANGED batch
    /\ Goto("check")
    /\ UNCHANGED <<items, job, river, creator, canceller, deleted, stops,
                   late>>

\* mutant: the loop never looks at the status
CheckNothing ==
    /\ worker.pc = "check" /\ worker.i <= Total /\ Goto("find")
    /\ UNCHANGED <<batch, items, job, river, creator, canceller, deleted,
                   stops, faults, late>>

\* top of the loop: re-read the status.  Only a row that is read and says
\* cancelled stops the loop; a failed read or a missing row does not.
CheckCancelled ==
    /\ worker.pc = "check" /\ worker.i <= Total
    /\ \/ batch.status = "cancelled" /\ ReturnNil /\ UNCHANGED faults
       \/ batch.status # "cancelled" /\ Goto("find") /\ UNCHANGED <<river, faults>>
       \/ Fault /\ Goto("find") /\ UNCHANGED river
    /\ UNCHANGED <<batch, items, job, creator, canceller, deleted, stops,
                   late>>

\* past the last book: Work returns nil and River completes the job
LoopEnds ==
    /\ worker.pc = "check" /\ worker.i > Total
    /\ ReturnNil
    /\ UNCHANGED <<batch, items, job, creator, canceller, deleted, stops,
                   faults, late>>

\* rows FindItemByBookID may return for the current book
ItemRows == {k \in Positions : /\ BookIDs[k] = BookIDs[worker.i]
                               /\ BookIDs[k] \notin deleted
                               /\ items[k] \notin {"absent", "gone"}}

\* the worker turns to a book; k = 0 when it holds no item row for it
StartBook(k) ==
    /\ worker' = [worker EXCEPT !.pc = "process", !.item = k]
    /\ late' = IF late >= 0 THEN late + 1 ELSE late

\* mutant: no idempotency check, a book with a result is processed again
FindItemAgain ==
    /\ worker.pc = "find"
    /\ \/ \E k \in ItemRows : StartBook(k)
       \/ ItemRows = {} /\ StartBook(0)
    /\ UNCHANGED <<batch, items, job, river, creator, canceller, deleted,
                   stops, faults>>

\* FindItemByBookID and the idempotency check: an item that already has a
\* result is skipped; a missing row or a failed read does not stop the book
FindItem ==
    /\ worker.pc = "find"
    /\ \/ /\ \E k \in ItemRows :
                IF items[k] = "pending" THEN StartBook(k)
                                        ELSE NextBook /\ UNCHANGED late
          /\ UNCHANGED faults
       \/ ItemRows = {} /\ StartBook(0) /\ UNCHANGED faults
       \/ Fault /\ StartBook(0)
    /\ UNCHANGED <<batch, items, job, river, creator, canceller, deleted,
                   stops>>

\* ProcessBook and the soft AI cleanup: minutes of provider calls
ProcessBook ==
    /\ worker.pc = "process"
    /\ \E outcome \in Attempted :
        worker' = [worker EXCEPT !.pc = "setItem", !.outcome = outcome]
    /\ UNCHANGED <<batch, items, job, river, creator, canceller, deleted,
                   stops, faults, late>>

\* UpdateItemStatus, its error ignored; no row matches once the batch is gone
UpdateItemStatus ==
    /\ worker.pc = "setItem"
    /\ \/ /\ items' = IF worker.item # 0 /\ items[worker.item] # "gone"
                      THEN [items EXCEPT ![worker.item] = worker.outcome]
                      ELSE items
          /\ UNCHANGED faults
       \/ worker.item # 0 /\ Fault /\ UNCHANGED items
    /\ Goto("tick")
    /\ UNCHANGED <<batch, job, river, creator, canceller, deleted, stops,
                   late>>

\* the batch row after IncrementProcessed
Ticked == [batch EXCEPT
    !.processed = @ + 1,
    !.failed = IF worker.outcome = "failed" THEN @ + 1 ELSE @]

\* IncrementProcessed: a refused or failed tick moves on; a tick that reaches
\* the total makes the worker declare the verdict
IncrementProcessed ==
    /\ worker.pc = "tick"
    /\ \/ /\ Live /\ batch' = Ticked /\ UNCHANGED faults
          /\ IF Ticked.processed >= Total
             THEN worker' = [worker EXCEPT !.pc = "finish", !.verdict =
                    IF Ticked.failed = Total THEN "failed" ELSE "done"]
             ELSE NextBook
       \/ ~Live /\ NextBook /\ UNCHANGED <<batch, faults>>
       \/ Fault /\ NextBook /\ UNCHANGED batch
    /\ UNCHANGED <<items, job, river, creator, canceller, deleted, stops,
                   late>>

\* UpdateStatus(done or failed), first statement
MarkFinished ==
    /\ worker.pc = "finish"
    /\ \/ /\ Live /\ batch' = [batch EXCEPT !.status = worker.verdict]
          /\ Goto("mirrorFinish") /\ UNCHANGED faults
       \/ ~Live /\ NextBook /\ UNCHANGED <<batch, faults>>
       \/ Fault /\ NextBook /\ UNCHANGED batch
    /\ UNCHANGED <<items, job, river, creator, canceller, deleted, stops,
                   late>>

\* UpdateStatus(done or failed), second statement
MirrorFinished ==
    /\ worker.pc = "mirrorFinish"
    /\ \/ job' = Mirrored(Umbrella(worker.verdict)) /\ UNCHANGED faults
       \/ Fault /\ UNCHANGED job
    /\ NextBook
    /\ UNCHANGED <<batch, items, river, creator, canceller, deleted, stops,
                   late>>

------------------------------------------------------------------------------
(* Users, the catalogue and the machine *)

\* mutant: the umbrella row is written first, the batch row after it
CancelUmbrellaFirst ==
    /\ canceller = "idle" /\ batch.status \in {"pending", "processing"}
    /\ job' = "cancelled" /\ canceller' = "mirror" /\ late' = 0
    /\ UNCHANGED <<batch, items, river, creator, worker, deleted, stops,
                   faults>>

\* Cancel, first statement: only a pending or processing batch
Cancel ==
    /\ canceller = "idle" /\ batch.status \in {"pending", "processing"}
    /\ batch' = [batch EXCEPT !.status = "cancelled"]
    /\ canceller' = "mirror"
    /\ late' = 0
    /\ UNCHANGED <<items, job, river, creator, worker, deleted, stops,
                   faults>>

\* Cancel, second statement
MirrorCancel ==
    /\ canceller = "mirror"
    /\ \/ job' = Mirrored("cancelled") /\ UNCHANGED faults
       \/ Fault /\ UNCHANGED job
    /\ canceller' = "idle"
    /\ UNCHANGED <<batch, items, river, creator, worker, deleted, stops,
                   late>>

\* Delete and DeleteFinished: only a finished batch; its items cascade
Delete ==
    /\ batch.status \in {"done", "failed", "cancelled"}
    /\ batch' = [batch EXCEPT !.status = "gone"]
    /\ items' = [k \in Positions |-> "gone"]
    /\ UNCHANGED <<job, river, creator, canceller, worker, deleted, stops,
                   faults, late>>

\* the umbrella row goes and takes batch and items with it (ON DELETE CASCADE):
\* an admin's DeleteJob asks nothing of the status; DeleteFinished and
\* PruneHistory take finished rows only
DeleteUmbrella ==
    /\ batch.status # "absent" /\ job # "gone"
    /\ job' = "gone"
    /\ batch' = [batch EXCEPT !.status = "gone"]
    /\ items' = [k \in Positions |-> "gone"]
    /\ UNCHANGED <<river, creator, canceller, worker, deleted, stops, faults,
                   late>>

\* BookRepo.Delete: enrichment_batch_items.book_id is ON DELETE SET NULL
DeleteBook ==
    /\ Cardinality(deleted) < MaxDeleted
    /\ \E b \in Books \ deleted : deleted' = deleted \cup {b}
    /\ UNCHANGED <<batch, items, job, river, creator, canceller, worker,
                   stops, faults, late>>

\* the process dies: River runs the job again, nobody resumes a request
Crash ==
    /\ crashes < MaxCrashes
    /\ crashes' = crashes + 1
    /\ worker' = NoAttempt
    /\ river' = IF river = "running" THEN "available" ELSE river
    /\ canceller' = "idle"
    /\ creator' = IF creator = "create" THEN "create" ELSE "end"
    /\ UNCHANGED <<batch, items, job, deleted, shutdowns, faults, late>>

\* StopAndCancel: requests end normally, the attempt's context is dead.  Its
\* later statements all fail; at the top of the next round it returns the
\* context's error and River retries, but past the last top it returns nil.
Shutdown ==
    /\ shutdowns < MaxShutdowns
    /\ shutdowns' = shutdowns + 1
    /\ worker' = NoAttempt
    /\ LET begun == worker.pc \notin {"mark", "mirrorMark", "resync"} IN
       \/ river # "running" /\ UNCHANGED river
       \/ /\ river = "running" /\ river' = "available"
          /\ ~begun \/ worker.i < Total \/ (worker.i = Total /\ worker.pc = "check")
       \/ river = "running" /\ river' = "completed" /\ begun /\ worker.i >= Total
    /\ UNCHANGED <<batch, items, job, creator, canceller, deleted, crashes,
                   faults, late>>

------------------------------------------------------------------------------
WorkerStep ==
    \/ Load \/ Discard \/ MarkProcessing \/ MirrorProcessing \/ ResyncCounters
    \/ CheckCancelled \/ LoopEnds \/ FindItem \/ ProcessBook
    \/ UpdateItemStatus \/ IncrementProcessed \/ MarkFinished \/ MirrorFinished

Next ==
    \/ Create \/ CreateItem \/ Enqueue \/ CreatorFails
    \/ WorkerStep
    \/ Cancel \/ MirrorCancel \/ Delete \/ DeleteUmbrella \/ DeleteBook
    \/ Crash \/ Shutdown

Spec == Init /\ [][Next]_vars

\* River keeps a goroutine on every available job; users, creating requests
\* and crashes are under no obligation
FairSpec == Spec /\ WF_vars(WorkerStep)
------------------------------------------------------------------------------
(* Properties *)

ProgramPoints == {"idle", "mark", "mirrorMark", "resync", "check", "find",
                  "process", "setItem", "tick", "finish", "mirrorFinish"}
Attempts == [pc : ProgramPoints, i : 1..(Total + 1), item : 0..Total,
             outcome : Attempted \cup {"pending"},
             verdict : {"processing", "done", "failed"}]
BatchRows == [status : BatchStatus, processed : Nat, failed : Nat]

\* Every variable keeps its type: the columns' vocabularies
\* (models/enrichment_batch.go) and the program points of the handlers.
TypeOK ==
    /\ batch \in BatchRows
    /\ items \in [Positions -> ItemStatus]
    /\ job \in JobStatus
    /\ river \in {"none", "available", "running", "completed", "discarded"}
    /\ creator \in {"create", "items", "enqueue", "end"}
    /\ canceller \in {"idle", "mirror"}
    /\ worker \in Attempts
    /\ deleted \subseteq Books
    /\ crashes \in 0..MaxCrashes /\ shutdowns \in 0..MaxShutdowns
    /\ faults \in 0..MaxFaults
    /\ late \in Nat \cup {-1}

\* When River has finished with the batch, the progress the user sees is what
\* the items say, however often the attempt crashed between the two statements
\* that record a book (UpdateItemStatus, then IncrementProcessed).  A shutdown
\* that cuts off the last book's second statement is not repaired.  The verdict,
\* which compares the two counters, is the items' too when nothing stopped the
\* attempt: failed only when every book failed, done otherwise.
CountersMatchItems ==
    (/\ river = "completed" /\ batch.status \notin {"cancelled", "gone"}
     /\ shutdowns = 0 /\ faults = 0 /\ deleted = {})
    => /\ batch.processed = Cardinality(AttemptedItems)
       /\ batch.failed = Cardinality(FailedItems)
       /\ stops = <<0, 0>> =>
             batch.status = IF FailedItems = Positions THEN "failed" ELSE "done"

\* Neither the batch nor its umbrella row is declared finished while a book
\* still waits its turn: "Mark done when all books have been attempted".  A
\* deleted book has no item row any more, so it may be counted once too often.
FinishedMeansAttempted ==
    (/\ faults = 0
     /\ \/ batch.status \in {"done", "failed"}
        \/ job \in {"completed", "failed"} /\ batch.status # "gone")
    => Cardinality(AttemptedItems) + Cardinality(Orphans) >= Total

\* After Cancel the worker starts at most the book it was about to start; a
\* status read that fails lets one more through.
CancelStopsWorker == batch.status # "gone" => late <= 1 + faults

\* The umbrella row says cancelled only of a batch that is.
UmbrellaCancelHonest ==
    job = "cancelled" => batch.status \in {"cancelled", "gone"}

\* No retry, late tick or late verdict revives a cancelled batch ("Never
\* overwrites a 'cancelled' status").  This and ResultsStick are parts of what
\* WorkListHolds says.
CancelSticks ==
    [][batch.status = "cancelled" => batch'.status \in {"cancelled", "gone"}]_vars

\* A book that has its result keeps it: a retry neither reprocesses it into
\* another result nor puts it back to pending.
ResultsStick ==
    [][\A k \in Positions :
        items[k] \in Attempted => items'[k] \in {items[k], "gone"}]_vars

\* Every enqueued batch is worked to the end: through crashes and retries each
\* of its books is attempted, unless the batch was cancelled or deleted; a lost
\* statement costs at most one book its result, and a shutdown at most the
\* last book (its attempt returns nil on the dead context).
EveryBookAttempted ==
    river = "available" ~>
        \/ river = "discarded"
        \/ /\ river = "completed"
           /\ \/ batch.status \in {"cancelled", "gone"}
              \/ Cardinality(AttemptedItems \cup Orphans) + faults
                    + (IF shutdowns > 0 THEN 1 ELSE 0) >= Total

\* The batch is a list to be worked through: every book once, finished when no
\* book is open but those that left the catalogue, closed for good once it is
\* cancelled or deleted.  A lost statement may cost it any number of books.
Entry(status) == IF status \in {"absent", "pending"} THEN "open" ELSE status
WL == INSTANCE WorkList WITH
    Entries <- Positions,
    status  <- batch.status,
    results <- [k \in Positions |-> Entry(items[k])],
    excused <- IF faults = 0 THEN Cardinality(Orphans) ELSE Total
WorkListHolds == WL!Spec

\* What the code says but does not do: "Mark done when all books have been
\* attempted", also when the last attempt died before saying so.
AttemptedBatchIsFinished ==
    (AttemptedItems = Positions)
        ~> batch.status \in {"done", "failed", "cancelled", "gone"}
=============================================================================
