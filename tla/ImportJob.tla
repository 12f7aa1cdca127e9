------------------------------ MODULE ImportJob ------------------------------
(***************************************************************************)
(* CSV imports into one library: StartImport stores the rows, a River job  *)
(* per import turns them into books, editions and copies, users cancel and *)
(* delete, attempts die (River's default one-minute timeout, a crash, a    *)
(* shutdown) and River runs them again.                                    *)
(*                                                                         *)
(* An action is one SQL statement or transaction with the Go code up to    *)
(* the next; AddBookToLibrary and IncrementCopyCount, which read before    *)
(* they write inside one statement, are two actions each.  A row is its    *)
(* ISBN, whether it has a title and whether it names a shelf (that can be  *)
(* found); tags, contributors and reading state ride along in the same     *)
(* statements or in later best-effort ones and are left out.               *)
(***************************************************************************)
EXTENDS Integers, Sequences, FiniteSets

CONSTANTS
    Jobs,          \* import jobs running side by side into the library
    ISBNs,         \* ISBNs the CSV files mention
    NoISBN,        \* the isbn of a row without one
    Csv,           \* Csv[j]: the rows of job j, as [isbn, titled, shelved]
    Elsewhere,     \* ISBNs whose edition another library already brought in
    Options,       \* Options[j]: what to do with duplicates (increment the copy
                   \* count, update from the CSV) and what to enrich afterwards
    MaxStops,      \* bound: attempts that die
    MaxFaults      \* bound: SQL statements that fail

ASSUME ImportAssumption ==
    /\ IsFiniteSet(Jobs) /\ NoISBN \notin ISBNs /\ Elsewhere \subseteq ISBNs
    /\ \A j \in Jobs : /\ Csv[j] \in Seq([isbn : ISBNs \cup {NoISBN},
                                         titled : BOOLEAN, shelved : BOOLEAN])
                       /\ Len(Csv[j]) > 0
    /\ Options \in [Jobs -> [increment : BOOLEAN, update : BOOLEAN,
                             metadata : BOOLEAN, covers : BOOLEAN]]
    /\ MaxStops \in Nat /\ MaxFaults \in Nat

VARIABLES
    imports,    \* import_jobs rows: status and the three counters
    items,      \* items[j][r]: status of import_job_items row r; a done row
                \* with what its message says was done
    umbrella,   \* status of each import's jobs row
    river,      \* River's state of each import
    worker,     \* the running attempt of ImportWorker.Work on each import
    editions,   \* editions[i]: how many editions carry ISBN i
    copies,     \* copies[i]: this library's copies of the book of the oldest
                \* edition with ISBN i, in the order they were made; TRUE once
                \* a copy says it is of that edition, FALSE while it says nothing
    untraced,   \* untraced[j][r]: books made for row r, which has no ISBN
    crossed,    \* observer: ISBNs on whose copies two statements overlapped
    enriched,   \* <<type, j, r>>: row r's book went to a batch of that type
    late,       \* rows started after Cancel, -1 while nobody cancelled
    stops, faults

store == <<editions, copies, untraced, crossed>>
vars  == <<imports, items, umbrella, river, worker, store, enriched, late,
           stops, faults>>

Rows(j) == DOMAIN Csv[j]

\* a row is done in one of four ways: a book was created or linked into the
\* library, the copies of a held book were counted up, or only the reader's
\* own fields were written
Added   == {"imported", "linked"}
Brought == Added \cup {"counted"}
Done    == Brought \cup {"refreshed"}
Settled == Done \cup {"failed", "skipped"}

\* mutant: the WHERE clause forgets "status != 'cancelled'"
LiveUnguarded(j) == imports[j].status # "gone"

\* the statements whose WHERE clause is "status != 'cancelled'" find the row
Live(j) == imports[j].status \notin {"cancelled", "gone"}

Umbrella(status) == CASE status = "processing" -> "running"
                      [] status = "done"       -> "completed"
                      [] OTHER                 -> status

\* the umbrella row after UPDATE jobs ... WHERE id: a deleted row takes nothing
MirrorStatus(j, status) ==
    umbrella' = [umbrella EXCEPT ![j] = IF @ = "gone" THEN @ ELSE Umbrella(status)]

NoAttempt == [pc |-> "idle", todo |-> {}, row |-> 0, outcome |-> "pending",
              pick |-> 0, done |-> 0, failed |-> 0, skipped |-> 0, fresh |-> {}]

Init ==
    /\ imports = [j \in Jobs |-> [status |-> "absent", done |-> 0, failed |-> 0,
                                  skipped |-> 0]]
    /\ items = [j \in Jobs |-> [r \in Rows(j) |-> "absent"]]
    /\ umbrella = [j \in Jobs |-> "absent"]
    /\ river = [j \in Jobs |-> "none"]
    /\ worker = [j \in Jobs |-> NoAttempt]
    /\ editions = [i \in ISBNs |-> IF i \in Elsewhere THEN 1 ELSE 0]
    /\ copies = [i \in ISBNs |-> <<>>]
    /\ untraced = [j \in Jobs |-> [r \in Rows(j) |-> 0]]
    /\ crossed = {} /\ enriched = {} /\ late = [j \in Jobs |-> -1]
    /\ stops = 0 /\ faults = 0

Fault == faults < MaxFaults /\ faults' = faults + 1

------------------------------------------------------------------------------
(* StartImport *)

\* CreateJob: umbrella, import and items in one transaction
CreateJob(j) ==
    /\ imports[j].status = "absent"
    /\ imports' = [imports EXCEPT ![j].status = "pending"]
    /\ items' = [items EXCEPT ![j] = [r \in Rows(j) |-> "pending"]]
    /\ umbrella' = [umbrella EXCEPT ![j] = Umbrella("pending")]
    /\ river' = [river EXCEPT ![j] = "unsent"]
    /\ UNCHANGED <<worker, store, enriched, late, stops, faults>>

\* riverClient.Insert, or its failure, which leaves the job pending
Enqueue(j) ==
    /\ river[j] = "unsent"
    /\ \/ river' = [river EXCEPT ![j] = "available"] /\ UNCHANGED faults
       \/ river' = [river EXCEPT ![j] = "none"] /\ Fault
    /\ UNCHANGED <<imports, items, umbrella, worker, store, enriched, late, stops>>

------------------------------------------------------------------------------
(* ImportWorker.Work *)

Row(j)     == worker[j].row
Goto(j, pc) == worker' = [worker EXCEPT ![j].pc = pc]
Return(j, state) ==
    /\ worker' = [worker EXCEPT ![j] = NoAttempt]
    /\ river' = [river EXCEPT ![j] = state]

\* mutant: an import that is already processing is taken for someone else's
LoadOnce(j) ==
    /\ river[j] = "available" /\ worker[j].pc = "idle"
    /\ IF imports[j].status = "pending"
       THEN /\ river' = [river EXCEPT ![j] = "running"]
            /\ Goto(j, "mark")
       ELSE Return(j, "completed")
    /\ UNCHANGED <<imports, items, umbrella, store, enriched, late, stops, faults>>

\* River starts an attempt; GetJob decides whether there is anything to do
Load(j) ==
    /\ river[j] = "available" /\ worker[j].pc = "idle"
    /\ \/ /\ imports[j].status = "cancelled"
          /\ Return(j, "completed") /\ UNCHANGED faults
       \/ /\ Live(j) /\ UNCHANGED faults
          /\ river' = [river EXCEPT ![j] = "running"] /\ Goto(j, "mark")
       \/ /\ imports[j].status = "gone"
          /\ Return(j, "discarded") /\ UNCHANGED faults
       \/ Fault /\ Return(j, "available")
    /\ UNCHANGED <<imports, items, umbrella, store, enriched, late, stops>>

\* mutant: the umbrella's vocabulary written to the import row
WriteStatusUmbrella(j, status) ==
    imports' = [imports EXCEPT ![j] =
        [status |-> Umbrella(status), done |-> worker[j].done,
         failed |-> worker[j].failed, skipped |-> worker[j].skipped]]

\* first statement of UpdateJobStatus(status, counters of this attempt)
WriteStatus(j, status) ==
    imports' = [imports EXCEPT ![j] =
        [status |-> status, done |-> worker[j].done,
         failed |-> worker[j].failed, skipped |-> worker[j].skipped]]

\* UpdateJobStatus(processing, 0, 0, 0)
MarkProcessing(j) ==
    /\ worker[j].pc = "mark"
    /\ \/ /\ Live(j) /\ WriteStatus(j, "processing")
          /\ Goto(j, "mirrorMark") /\ UNCHANGED <<river, faults>>
       \/ ~Live(j) /\ Goto(j, "list") /\ UNCHANGED <<imports, river, faults>>
       \/ Fault /\ Return(j, "available") /\ UNCHANGED imports
    /\ UNCHANGED <<items, umbrella, store, enriched, late, stops>>

\* second statement of UpdateJobStatus: the umbrella row
MirrorProcessing(j) ==
    /\ worker[j].pc = "mirrorMark"
    /\ \/ /\ MirrorStatus(j, "processing")
          /\ Goto(j, "list") /\ UNCHANGED <<river, faults>>
       \/ Fault /\ Return(j, "available") /\ UNCHANGED umbrella
    /\ UNCHANGED <<imports, items, store, enriched, late, stops>>

\* mutant: a retry lists every row of the import
ListAllItems(j) ==
    /\ worker[j].pc = "list"
    /\ worker' = [worker EXCEPT ![j].pc = "check", ![j].todo = Rows(j)]
    /\ UNCHANGED <<imports, items, umbrella, river, store, enriched, late,
                   stops, faults>>

\* ListPendingItems, once per attempt
ListPendingItems(j) ==
    /\ worker[j].pc = "list"
    /\ \/ /\ worker' = [worker EXCEPT ![j].pc = "check", ![j].todo =
                {r \in Rows(j) : items[j][r] = "pending"}]
          /\ UNCHANGED <<river, faults>>
       \/ Fault /\ Return(j, "available")
    /\ UNCHANGED <<imports, items, umbrella, store, enriched, late, stops>>

\* rows are taken in their order
StartRow(j) ==
    /\ \E r \in worker[j].todo :
        /\ \A s \in worker[j].todo : r <= s
        /\ worker' = [worker EXCEPT ![j].pc = "row", ![j].row = r, ![j].todo = @ \ {r}]
    /\ UNCHANGED river
    /\ late' = IF late[j] >= 0 THEN [late EXCEPT ![j] = @ + 1] ELSE late

\* mutant: the loop never looks at the status
CheckNothing(j) ==
    /\ worker[j].pc = "check"
    /\ StartRow(j)
    /\ UNCHANGED <<imports, items, umbrella, store, enriched, stops, faults>>

\* top of the loop: only a row that is read and says cancelled stops it
CheckCancelled(j) ==
    /\ worker[j].pc = "check" /\ worker[j].todo # {}
    /\ \/ /\ imports[j].status = "cancelled"
          /\ Return(j, "completed") /\ UNCHANGED <<late, faults>>
       \/ imports[j].status # "cancelled" /\ StartRow(j) /\ UNCHANGED faults
       \/ Fault /\ StartRow(j)
    /\ UNCHANGED <<imports, items, umbrella, store, enriched, stops>>

\* processItem has come to an outcome: on to UpdateItemStatus
Decide(j, pc, outcome) ==
    worker' = [worker EXCEPT ![j].pc = pc, ![j].outcome = outcome]
Outcome(j, outcome) == Decide(j, "setItem", outcome)

Isbn(j) == Csv[j][Row(j)].isbn

\* mutant: no duplicate check
ReadRowBlindly(j) ==
    /\ worker[j].pc = "row"
    /\ IF ~Csv[j][Row(j)].titled THEN Outcome(j, "skipped") ELSE Goto(j, "create")
    /\ UNCHANGED <<imports, items, umbrella, river, store, enriched, late, stops,
                   faults>>

\* FindByISBN finds an edition: the oldest one with this ISBN
Known(isbn) == isbn # NoISBN /\ editions[isbn] > 0

\* processItem up to its first write: no title, or what the duplicate check
\* finds.  An edition once found stays, so its two reads are one step.
ReadRow(j) ==
    LET titled == Csv[j][Row(j)].titled
        held   == copies[Isbn(j)] # <<>> IN
    /\ worker[j].pc = "row"
    /\ \/ ~titled /\ Outcome(j, "skipped") /\ UNCHANGED faults
       \/ titled /\ ~Known(Isbn(j)) /\ Goto(j, "create") /\ UNCHANGED faults
       \/ /\ titled /\ Known(Isbn(j)) /\ UNCHANGED faults
          /\ \/ ~held /\ Decide(j, "look", "linked")
             \/ held /\ Options[j].increment /\ Decide(j, "choose", "counted")
             \/ /\ held /\ ~Options[j].increment
                /\ Outcome(j, IF Options[j].update THEN "refreshed" ELSE "skipped")
       \* IsBookInLibrary fails
       \/ titled /\ Known(Isbn(j)) /\ Fault /\ Outcome(j, "failed")
       \* FindByISBN fails, which reads as "no such edition"
       \/ titled /\ Isbn(j) # NoISBN /\ Fault /\ Goto(j, "create")
    /\ UNCHANGED <<imports, items, umbrella, river, store, enriched, late, stops>>

\* AddBookToLibrary looks for a copy (its WHERE NOT EXISTS), or fails
LookForCopy(j) ==
    /\ worker[j].pc = "look"
    /\ \/ Goto(j, IF copies[Isbn(j)] = <<>> THEN "insert" ELSE "choose") /\ UNCHANGED faults
       \/ Fault /\ Outcome(j, "failed")
    /\ UNCHANGED <<imports, items, umbrella, river, store, enriched, late, stops>>

\* a step on the copies of an ISBN; it overlaps another's if what it writes
\* rests on a read the other has made untrue
WriteCopies(isbn, now, overlaps) ==
    /\ copies' = [copies EXCEPT ![isbn] = now]
    /\ crossed' = IF overlaps THEN crossed \cup {isbn} ELSE crossed
    /\ UNCHANGED <<editions, untraced>>

\* ... and inserts one without an edition
InsertCopy(j) ==
    /\ worker[j].pc = "insert"
    /\ WriteCopies(Isbn(j), Append(copies[Isbn(j)], FALSE), copies[Isbn(j)] # <<>>)
    /\ Goto(j, "choose")
    /\ UNCHANGED <<imports, items, umbrella, river, enriched, late, stops, faults>>

\* the copies that do not say which edition they are of
Bare(isbn) == {c \in DOMAIN copies[isbn] : ~copies[isbn][c]}

\* the sub-select of IncrementCopyCount: the oldest copy without an edition, if
\* there is one (pick 0 stands for none); or the statement fails
ChooseCopy(j) ==
    /\ worker[j].pc = "choose"
    /\ \/ /\ \E c \in Bare(Isbn(j)) \cup {0} :
                /\ c = 0 <=> Bare(Isbn(j)) = {}
                /\ \A d \in Bare(Isbn(j)) : c <= d
                /\ worker' = [worker EXCEPT ![j].pc = "adopt", ![j].pick = c]
          /\ UNCHANGED faults
       \/ Fault /\ Outcome(j, "failed")
    /\ UNCHANGED <<imports, items, umbrella, river, store, enriched, late, stops>>

\* where a row goes once its copy is recorded: a shelved one is filed first
Recorded(j) == worker' = [worker EXCEPT
    ![j].pc = IF Csv[j][Row(j)].shelved THEN "file" ELSE "setItem", ![j].pick = 0]

\* mutant: the copy takes the edition and another is added all the same
AdoptAndInsert(j) ==
    /\ worker[j].pc = "adopt"
    /\ LET held == copies[Isbn(j)]
           c    == worker[j].pick IN
       WriteCopies(Isbn(j), Append(IF c = 0 THEN held ELSE [held EXCEPT ![c] = TRUE], TRUE),
                   c # 0 /\ held[c])
    /\ Recorded(j)
    /\ UNCHANGED <<imports, items, umbrella, river, enriched, late, stops, faults>>

\* ... and the rest of it: that copy takes the edition, by its id and whatever
\* it has become, or else a copy of the edition is added
AdoptCopy(j) ==
    /\ worker[j].pc = "adopt"
    /\ LET held == copies[Isbn(j)]
           c    == worker[j].pick IN
       WriteCopies(Isbn(j), IF c = 0 THEN Append(held, TRUE) ELSE [held EXCEPT ![c] = TRUE],
                   c # 0 /\ held[c])
    /\ Recorded(j)
    /\ UNCHANGED <<imports, items, umbrella, river, enriched, late, stops, faults>>

\* PlaceNewestCopy.  When it fails (a place deleted meanwhile counts as such)
\* the row has failed although its copy is recorded.
FileCopy(j) ==
    /\ worker[j].pc = "file"
    /\ \/ Goto(j, "setItem") /\ UNCHANGED faults
       \/ Fault /\ Outcome(j, "failed")
    /\ UNCHANGED <<imports, items, umbrella, river, store, enriched, late, stops>>

\* the book, its edition and this library's copy in one transaction; data
\* the database refuses fails the row and leaves nothing
CreateBook(j) ==
    /\ worker[j].pc = "create"
    /\ \/ /\ IF Isbn(j) = NoISBN
             THEN /\ untraced' = [untraced EXCEPT ![j][Row(j)] = @ + 1]
                  /\ UNCHANGED <<editions, copies>>
             ELSE /\ editions' = [editions EXCEPT ![Isbn(j)] = @ + 1]
                  /\ copies' = IF editions[Isbn(j)] = 0
                               THEN [copies EXCEPT ![Isbn(j)] = Append(@, TRUE)] ELSE copies
                  /\ UNCHANGED untraced
          /\ Outcome(j, "imported")
       \/ Outcome(j, "failed") /\ UNCHANGED <<editions, copies, untraced>>
    /\ UNCHANGED <<imports, items, umbrella, river, crossed, enriched, late, stops,
                   faults>>

\* mutant: a book linked from another library is not listed as new
TallyImported(w, r) == [w EXCEPT
    !.done    = IF w.outcome \in Done THEN @ + 1 ELSE @,
    !.failed  = IF w.outcome = "failed" THEN @ + 1 ELSE @,
    !.skipped = IF w.outcome = "skipped" THEN @ + 1 ELSE @,
    !.fresh   = IF w.outcome = "imported" THEN @ \cup {r} ELSE @]

\* the attempt's own counters and its list of new books
Tally(w, r) == [w EXCEPT
    !.done    = IF w.outcome \in Done THEN @ + 1 ELSE @,
    !.failed  = IF w.outcome = "failed" THEN @ + 1 ELSE @,
    !.skipped = IF w.outcome = "skipped" THEN @ + 1 ELSE @,
    !.fresh   = IF w.outcome \in Added THEN @ \cup {r} ELSE @]

\* UpdateItemStatus, its error ignored
UpdateItemStatus(j) ==
    /\ worker[j].pc = "setItem"
    /\ \/ /\ items' = IF items[j][Row(j)] = "gone" THEN items
                      ELSE [items EXCEPT ![j][Row(j)] = worker[j].outcome]
          /\ UNCHANGED faults
       \/ Fault /\ UNCHANGED items
    /\ worker' = [worker EXCEPT ![j] = [Tally(@, Row(j)) EXCEPT !.pc = "report"]]
    /\ UNCHANGED <<imports, umbrella, river, store, enriched, late, stops>>

NextRow(j) == Goto(j, "check")

\* UpdateJobStatus(processing, counters) after a row, its error ignored
Report(j) ==
    /\ worker[j].pc = "report"
    /\ \/ Live(j) /\ WriteStatus(j, "processing") /\ Goto(j, "mirrorReport") /\ UNCHANGED faults
       \/ ~Live(j) /\ NextRow(j) /\ UNCHANGED <<imports, faults>>
       \/ Fault /\ NextRow(j) /\ UNCHANGED imports
    /\ UNCHANGED <<items, umbrella, river, store, enriched, late, stops>>

MirrorReport(j) ==
    /\ worker[j].pc = "mirrorReport"
    /\ \/ MirrorStatus(j, "processing") /\ UNCHANGED faults
       \/ Fault /\ UNCHANGED umbrella
    /\ NextRow(j)
    /\ UNCHANGED <<imports, items, river, store, enriched, late, stops>>

\* past the last row: UpdateJobStatus(done, counters); an error is retried
Finish(j) ==
    /\ worker[j].pc = "check" /\ worker[j].todo = {}
    /\ \/ Live(j) /\ WriteStatus(j, "done") /\ Goto(j, "mirrorDone") /\ UNCHANGED <<river, faults>>
       \/ ~Live(j) /\ Goto(j, "spawn") /\ UNCHANGED <<imports, river, faults>>
       \/ Fault /\ Return(j, "available") /\ UNCHANGED imports
    /\ UNCHANGED <<items, umbrella, store, enriched, late, stops>>

MirrorDone(j) ==
    /\ worker[j].pc = "mirrorDone"
    /\ \/ /\ MirrorStatus(j, "done")
          /\ Goto(j, "spawn") /\ UNCHANGED <<river, faults>>
       \/ Fault /\ Return(j, "available") /\ UNCHANGED umbrella
    /\ UNCHANGED <<imports, items, store, enriched, late, stops>>

\* spawnEnrichmentBatch for books this attempt added; a failure is logged
Spawn(type, j, books) ==
    \/ enriched' = enriched \cup ({type} \X {j} \X books) /\ UNCHANGED faults
    \/ books # {} /\ Fault /\ UNCHANGED enriched

\* a metadata batch of all of them, if the options ask for one
SpawnMetadata(j) ==
    /\ worker[j].pc = "spawn"
    /\ Spawn("metadata", j, IF Options[j].metadata THEN worker[j].fresh ELSE {})
    /\ Goto(j, "spawnCovers")
    /\ UNCHANGED <<imports, items, umbrella, river, store, late, stops>>

\* a cover batch of those that have no cover on disk, which is any of them, or
\* of all when the look at the disk fails
SpawnCovers(j) ==
    /\ worker[j].pc = "spawnCovers"
    /\ \E coverless \in SUBSET worker[j].fresh :
           Spawn("cover", j, IF Options[j].covers THEN coverless ELSE {})
    /\ Return(j, "completed")
    /\ UNCHANGED <<imports, items, umbrella, store, late, stops>>

------------------------------------------------------------------------------
(* Users and the machine *)

\* CancelJob: one statement, and none for the umbrella row
Cancel(j) ==
    /\ imports[j].status \in {"pending", "processing"}
    /\ imports' = [imports EXCEPT ![j].status = "cancelled"]
    /\ late' = [late EXCEPT ![j] = 0]
    /\ UNCHANGED <<items, umbrella, river, worker, store, enriched, stops, faults>>

\* DeleteJob and DeleteFinishedJobs: the items cascade
Delete(j) ==
    /\ imports[j].status \in {"done", "failed", "cancelled"}
    /\ imports' = [imports EXCEPT ![j].status = "gone"]
    /\ items' = [items EXCEPT ![j] = [r \in Rows(j) |-> "gone"]]
    /\ UNCHANGED <<umbrella, river, worker, store, enriched, late, stops, faults>>

\* the umbrella row goes and takes import and items with it (ON DELETE CASCADE):
\* an admin's DeleteJob asks nothing of the status; DeleteFinished and
\* PruneHistory take finished rows only
DeleteUmbrella(j) ==
    /\ imports[j].status # "absent" /\ umbrella[j] # "gone"
    /\ umbrella' = [umbrella EXCEPT ![j] = "gone"]
    /\ imports' = [imports EXCEPT ![j].status = "gone"]
    /\ items' = [items EXCEPT ![j] = [r \in Rows(j) |-> "gone"]]
    /\ UNCHANGED <<river, worker, store, enriched, late, stops, faults>>

\* The attempt's context expires or its process dies: whatever it still sends
\* fails, so Work returns an error (or nothing at all) and River runs the job
\* again.  Only past the last UpdateJobStatus can Work still return nil.
Stop(j) ==
    /\ worker[j].pc # "idle" /\ stops < MaxStops
    /\ stops' = stops + 1
    /\ \/ Return(j, "available")
       \/ worker[j].pc \in {"spawn", "spawnCovers"} /\ Return(j, "completed")
    /\ UNCHANGED <<imports, items, umbrella, store, enriched, late, faults>>

------------------------------------------------------------------------------
Work(j) ==
    \/ Load(j) \/ MarkProcessing(j) \/ MirrorProcessing(j) \/ ListPendingItems(j)
    \/ CheckCancelled(j) \/ ReadRow(j) \/ LookForCopy(j) \/ InsertCopy(j)
    \/ ChooseCopy(j) \/ AdoptCopy(j) \/ FileCopy(j) \/ CreateBook(j)
    \/ UpdateItemStatus(j) \/ Report(j) \/ MirrorReport(j)
    \/ Finish(j) \/ MirrorDone(j) \/ SpawnMetadata(j) \/ SpawnCovers(j)

Next == \E j \in Jobs :
    CreateJob(j) \/ Enqueue(j) \/ Work(j) \/ Cancel(j) \/ Delete(j)
    \/ DeleteUmbrella(j) \/ Stop(j)

Spec == Init /\ [][Next]_vars

\* River keeps running every available job
FairSpec == Spec /\ \A j \in Jobs : WF_vars(Work(j))
------------------------------------------------------------------------------
(* Properties *)

ImportStatus == {"absent", "pending", "processing", "done", "failed",
                 "cancelled", "gone"}

\* Every variable keeps its type: the columns' vocabularies
\* (models/import_job.go), the worker's program points and its row list.
TypeOK ==
    /\ imports \in [Jobs -> [status : ImportStatus, done : Nat, failed : Nat,
                            skipped : Nat]]
    /\ \A j \in Jobs :
        /\ items[j] \in [Rows(j) -> {"absent", "pending", "gone"} \cup Settled]
        /\ untraced[j] \in [Rows(j) -> Nat]
        /\ worker[j].todo \subseteq Rows(j) /\ worker[j].row \in Rows(j) \cup {0}
        /\ worker[j].fresh \subseteq Rows(j)
        /\ worker[j].outcome \in Settled \cup {"pending"}
        /\ worker[j].pick \in Nat
        /\ worker[j].pc \in {"idle", "mark", "mirrorMark", "list", "check", "row",
                             "look", "insert", "choose", "adopt", "file", "create",
                             "setItem", "report", "mirrorReport", "mirrorDone",
                             "spawn", "spawnCovers"}
    /\ umbrella \in [Jobs -> {"absent", "pending", "running", "completed", "gone"}]
    /\ river \in [Jobs -> {"none", "unsent", "available", "running", "completed",
                           "discarded"}]
    /\ editions \in [ISBNs -> Nat] /\ copies \in [ISBNs -> Seq(BOOLEAN)]
    /\ crossed \subseteq ISBNs /\ late \in [Jobs -> Nat \cup {-1}]
    /\ stops \in 0..MaxStops /\ faults \in 0..MaxFaults

\* an attempt is at work on row r, at one of the points pcs
At(j, r, pcs) == worker[j].pc \in pcs /\ Row(j) = r
\* row r says that it brought a copy, or is about to say so
RowDone(j, r) == \/ items[j][r] \in Brought
                 \/ At(j, r, {"file", "setItem"}) /\ worker[j].outcome \in Brought
RowsOf(i) == UNION {{<<j, r>> : r \in {s \in Rows(j) : Csv[j][s].isbn = i}} : j \in Jobs}
Undisturbed == stops = 0 /\ faults = 0

\* However often its attempts die, an import brings an ISBN into the catalogue
\* at most once: a retry finds the edition the dead attempt left.  Imports that
\* run side by side may each bring it, and so may a lookup that failed.
CatalogueIsbnPerImport ==
    \A i \in ISBNs :
        editions[i] <= (IF i \in Elsewhere THEN 1 ELSE 0) + faults
                       + Cardinality({p[1] : p \in RowsOf(i)})

RowsDone(i)  == {p \in RowsOf(i) : RowDone(p[1], p[2])}
InHand(i)    == {p \in RowsOf(i) : At(p[1], p[2], {"choose", "adopt"})}
Printed(i)   == {c \in DOMAIN copies[i] : copies[i][c]}
\* editions beyond the oldest, each with a book and a copy of its own
Further(i)   == IF editions[i] > 1 THEN editions[i] - 1 ELSE 0
NoneGone     == \A j \in Jobs : imports[j].status # "gone"

\* Copies come from rows and from nothing else.  However statements interleave,
\* an ISBN never has more copies than rows that brought one or are about to, but
\* for one for each attempt that died and each statement that was lost.  While
\* none did, and no two statements overlapped on the ISBN's copies, a row that
\* brought one is one copy that says its edition, no copy without an edition is
\* left behind by its import, and a row without ISBN that is done is one book.
CopiesMatchRows ==
    NoneGone =>
    /\ \A i \in ISBNs :
        /\ Len(copies[i]) + Further(i)
             <= Cardinality(RowsDone(i)) + Cardinality(InHand(i)) + stops + faults
        /\ Undisturbed /\ i \notin crossed
             => /\ Cardinality(Printed(i)) + Further(i) = Cardinality(RowsDone(i))
                /\ Bare(i) # {} => \E p \in InHand(i) : worker[p[1]].outcome = "linked"
    /\ \A p \in RowsOf(NoISBN) :
        Undisturbed => untraced[p[1]][p[2]] = IF RowDone(p[1], p[2]) THEN 1 ELSE 0

\* A retry works only on rows that have no result yet: re-running an import
\* adds no copy for a row that was done.
SettledRowsRest ==
    \A j \in Jobs :
        worker[j].pc \in {"row", "look", "insert", "choose", "adopt", "file", "create"}
            => items[j][Row(j)] \in {"pending", "gone"}

\* An import whose single attempt reached the end reports what its rows say, and
\* hands the books it added, created or linked, and no other row's, to the
\* enrichment its options ask for: all of them to the metadata batch, none but
\* them to the cover batch.
Ended(j, how) == {r \in Rows(j) : items[j][r] \in how}
Handed(type, j) == {r \in Rows(j) : <<type, j, r>> \in enriched}
ReportMatchesRows ==
    \A j \in Jobs :
        (Undisturbed /\ imports[j].status = "done")
        => /\ imports[j].done = Cardinality(Ended(j, Done))
           /\ imports[j].failed = Cardinality(Ended(j, {"failed"}))
           /\ imports[j].skipped = Cardinality(Ended(j, {"skipped"}))
           /\ river[j] = "completed"
                => /\ Handed("metadata", j)
                        = IF Options[j].metadata THEN Ended(j, Added) ELSE {}
                   /\ Handed("cover", j)
                        \subseteq IF Options[j].covers THEN Ended(j, Added) ELSE {}

\* Each import is a list to be worked through: every row once, done when no row
\* is open but one for each statement that was lost, closed for good once it is
\* cancelled or deleted (WL(j)!Spec of every j).
Entry(status) == CASE status \in {"absent", "pending"} -> "open"
                   [] status \in Done                  -> "done"
                   [] OTHER                            -> status
WL(j) == INSTANCE WorkList WITH
    Entries <- Rows(j),
    status  <- imports[j].status,
    results <- [r \in Rows(j) |-> Entry(items[j][r])],
    excused <- faults
WorkListsHold == /\ \A j \in Jobs : WL(j)!Init
                 /\ [][\A j \in Jobs : [WL(j)!Next]_(WL(j)!vars)]_vars

\* After CancelJob no further row is started; a status read that fails lets
\* one through.
CancelStopsImport ==
    \A j \in Jobs : imports[j].status # "gone" => late[j] <= faults

\* Every enqueued import is worked to the end: through attempts that die all
\* its rows get a result, unless it was cancelled or deleted; a lost statement
\* leaves at most one row pending.
EveryRowSettled ==
    \A j \in Jobs : river[j] = "available" ~>
        \/ river[j] = "discarded"
        \/ /\ river[j] = "completed"
           /\ \/ imports[j].status \in {"cancelled", "gone"}
              \/ Cardinality({r \in Rows(j) : items[j][r] = "pending"}) <= faults
=============================================================================
