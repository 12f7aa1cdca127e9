---------------------------- MODULE SeriesVolumes ----------------------------
(***************************************************************************)
(* The volumes of one series: a provider lists them, a total implies more  *)
(* of them, and a promotion pass turns each volume nobody holds into a     *)
(* placeholder book.  Passes are started by the nightly series_sync job    *)
(* and by readers who press Sync volumes; they run in one process over one *)
(* pool of database connections and exclude each other with a Postgres     *)
(* advisory lock that a pass holds on a connection of its own.             *)
(*                                                                         *)
(* An action is one SQL statement or one transaction.  A statement needs a *)
(* free connection; a pass keeps one from Acquire to Unlock and another    *)
(* while it promotes a volume.  Titles, dates, media types, contributors   *)
(* and arcs are left out.  A volume is known by its position: the row is   *)
(* unique in it and only the lock's holder removes one.                    *)
(***************************************************************************)
EXTENDS Integers, FiniteSets

CONSTANTS
    Runners,      \* promotion passes, each run once
    Nightly,      \* those of them the series_sync job starts
    Books,        \* bound: books in the catalogue, and those it may be given
    Owned,        \* the books that are there at the beginning
    MaxPosition,  \* bound: highest position of a volume
    Listed,       \* positions the provider may list
    Descriptions, \* what it may say of one: a title, an external id, both, nothing
    Totals,       \* values of series.total_count; NoTotal is NULL
    PoolSize,     \* connections in the pgx pool
    MaxEdits,     \* bound: edits of books, places and the total
    MaxFaults     \* bound: statements and provider calls that fail

NoTotal   == -1
NoBook    == "no book"
NoOne     == "no one"
Positions == 1..MaxPosition

ASSUME VolumesAssumption ==
    /\ IsFiniteSet(Runners) /\ Nightly \subseteq Runners /\ NoOne \notin Runners
    /\ Owned \subseteq Books /\ NoBook \notin Books
    /\ MaxPosition \in Nat \ {0} /\ Listed \subseteq Positions
    /\ Descriptions \subseteq SUBSET {"title", "id"}
    /\ Totals \subseteq Nat \cup {NoTotal}
    /\ PoolSize \in Nat /\ MaxEdits \in Nat /\ MaxFaults \in Nat

VARIABLES
    alive,    \* the series row exists
    total,    \* series.total_count
    volumes,  \* series_volumes, by position
    books,    \* the books rows, and whether anybody did something with them
    place,    \* book_series: the position of a book in the series, 0 if none
    born,     \* observer: the position promotion invented a book for
    amid,     \* observer: books invented while a deletion was under way
    runner,   \* where each pass stands
    lock,     \* holder of the advisory lock
    deleter,  \* where the DeleteSeries request stands
    edits, faults

vars == <<alive, total, volumes, books, place, born, amid, runner, lock,
          deleter, edits, faults>>

\* a row, or the place of one that is not there
Volume(s, b) == [on |-> TRUE, said |-> s, book |-> b]
None         == [on |-> FALSE, said |-> {}, book |-> NoBook]
Recorded     == {p \in Positions : volumes[p].on}
LiveBooks  == {b \in Books : books[b] \in {"thin", "worked"}}

Idle == [pc |-> "idle", todo |-> {}, book |-> NoBook, ok |-> TRUE]

Init ==
    /\ alive = TRUE /\ total \in Totals
    /\ volumes = [p \in Positions |-> None]
    /\ books = [b \in Books |-> IF b \in Owned THEN "worked" ELSE "unborn"]
    /\ place = [b \in Books |-> IF b \in Owned THEN 1 ELSE 0]
    /\ born = [b \in Books |-> 0] /\ amid = {}
    /\ runner = [r \in Runners |-> Idle] /\ lock = NoOne
    /\ deleter = [pc |-> "idle", ids |-> {}]
    /\ edits = 0 /\ faults = 0

------------------------------------------------------------------------------
(* Connections *)

Statements == {"seed", "fill", "stale", "demote", "prune", "list", "check",
               "commit", "unlock"}
\* one connection from Acquire to Unlock, a second one inside a transaction
Held(r) == (IF runner[r].pc \in Statements \cup {"lock"} THEN 1 ELSE 0)
         + (IF runner[r].pc = "commit" THEN 1 ELSE 0)
Taken == LET Holding(k) == {r \in Runners : Held(r) >= k}
         IN  Cardinality(Holding(1)) + Cardinality(Holding(2))
Connection == Taken < PoolSize

Fault == faults < MaxFaults /\ faults' = faults + 1

------------------------------------------------------------------------------
(* SyncSeries and SyncAll up to the promotion *)

Goto(r, pc) == runner' = [runner EXCEPT ![r].pc = pc]

\* the provider answers with its list, or with an error: a reader's request
\* ends there, the nightly pass promotes what is on record anyway
Fetch(r) ==
    /\ runner[r].pc = "idle" /\ alive
    /\ \/ /\ UNCHANGED faults
          /\ \E list \in SUBSET Listed :
                runner' = [runner EXCEPT ![r].pc = "sync", ![r].todo = list]
       \/ /\ Fault
          /\ Goto(r, IF r \in Nightly THEN "acquire" ELSE "ended")
    /\ UNCHANGED <<alive, total, volumes, books, place, born, amid, lock,
                   deleter, edits>>

\* Sync: one upsert per listed volume, which replaces its title and keeps an
\* external id; a failed one does not stop the others, but ends a reader's
\* request after the last
SyncVolume(r) ==
    /\ runner[r].pc = "sync" /\ runner[r].todo # {} /\ Connection
    /\ \E p \in runner[r].todo :
        /\ \A q \in runner[r].todo : p <= q
        /\ \/ /\ alive /\ UNCHANGED faults
              /\ \E said \in Descriptions : volumes' = [volumes EXCEPT ![p] =
                    Volume(said \cup (@.said \cap {"id"}), @.book)]
              /\ runner' = [runner EXCEPT ![r].todo = @ \ {p}]
           \/ /\ ~alive /\ UNCHANGED <<faults, volumes>>
              /\ runner' = [runner EXCEPT ![r].todo = @ \ {p}, ![r].ok = FALSE]
           \/ /\ Fault /\ UNCHANGED volumes
              /\ runner' = [runner EXCEPT ![r].todo = @ \ {p}, ![r].ok = FALSE]
    /\ UNCHANGED <<alive, total, books, place, born, amid, lock, deleter, edits>>

SyncEnds(r) ==
    /\ runner[r].pc = "sync" /\ runner[r].todo = {}
    /\ Goto(r, IF r \in Nightly \/ runner[r].ok THEN "acquire" ELSE "ended")
    /\ UNCHANGED <<alive, total, volumes, books, place, born, amid, lock,
                   deleter, edits, faults>>

------------------------------------------------------------------------------
(* PromoteVolumes *)

\* the connection the lock will live on
Acquire(r) ==
    /\ runner[r].pc = "acquire" /\ Connection
    /\ Goto(r, "lock")
    /\ UNCHANGED <<alive, total, volumes, books, place, born, amid, lock,
                   deleter, edits, faults>>

\* mutant: the lock is tried for and not waited for
TryLock(r) ==
    /\ runner[r].pc = "lock"
    /\ lock' = IF lock = NoOne THEN r ELSE lock
    /\ Goto(r, "seed")
    /\ UNCHANGED <<alive, total, volumes, books, place, born, amid, deleter,
                   edits, faults>>

\* pg_advisory_lock waits until the other session lets go
Lock(r) ==
    /\ runner[r].pc = "lock" /\ lock = NoOne
    /\ lock' = r
    /\ Goto(r, "seed")
    /\ UNCHANGED <<alive, total, volumes, books, place, born, amid, deleter,
                   edits, faults>>

\* the media type comes from a book of the series; ErrNoSeedBook ends the pass
Seed(r) ==
    /\ runner[r].pc = "seed" /\ Connection
    /\ Goto(r, IF \E b \in LiveBooks : place[b] # 0 THEN "fill" ELSE "unlock")
    /\ UNCHANGED <<alive, total, volumes, books, place, born, amid, lock,
                   deleter, edits, faults>>

\* positions up to the total that neither a volume nor a book occupies
Implied == {p \in Positions : /\ alive /\ p <= total
                              /\ p \notin Recorded
                              /\ \A b \in LiveBooks : place[b] # p}

FillTotal(r) ==
    /\ runner[r].pc = "fill" /\ Connection
    /\ volumes' = [p \in Positions |->
                    IF p \in Implied THEN Volume({}, NoBook) ELSE volumes[p]]
    /\ Goto(r, "stale")
    /\ UNCHANGED <<alive, total, books, place, born, amid, lock, deleter,
                   edits, faults>>

\* beyond the total, and no provider said more of them than where they are
Dropped == {p \in Recorded : /\ total # NoTotal /\ p > total
                             /\ volumes[p].said = {}}

FindStale(r) ==
    /\ runner[r].pc = "stale" /\ Connection
    /\ runner' = [runner EXCEPT ![r].todo = Dropped,
                                ![r].pc = IF Dropped = {} THEN "list" ELSE "demote"]
    /\ UNCHANGED <<alive, total, volumes, books, place, born, amid, lock,
                   deleter, edits, faults>>

\* DemoteUnheldVolumes: the books of these volumes nobody did anything with.
\* Deleting a book clears its place and the volume that names it.
Demoted(ps) == {b \in Books : books[b] = "thin" /\ \E p \in ps \cap Recorded :
                                                    volumes[p].book = b}
Unlinked(gone) == [p \in Positions |->
    IF p \in Recorded /\ volumes[p].book \in gone
    THEN [volumes[p] EXCEPT !.book = NoBook] ELSE volumes[p]]
TakeBooks(gone) ==
    /\ books' = [b \in Books |-> IF b \in gone THEN "gone" ELSE books[b]]
    /\ place' = [b \in Books |-> IF b \in gone THEN 0 ELSE place[b]]
    /\ volumes' = Unlinked(gone)

DemoteStale(r) ==
    /\ runner[r].pc = "demote" /\ Connection
    /\ TakeBooks(Demoted(runner[r].todo))
    /\ Goto(r, "prune")
    /\ UNCHANGED <<alive, total, born, amid, lock, deleter, edits, faults>>

\* the stale volumes go, unless a book somebody worked on keeps one
PruneStale(r) ==
    /\ runner[r].pc = "prune" /\ Connection
    /\ volumes' = [p \in Positions |->
                    IF /\ p \in runner[r].todo /\ p \in Recorded
                       /\ volumes[p].book = NoBook
                    THEN None ELSE volumes[p]]
    /\ Goto(r, "list")
    /\ UNCHANGED <<alive, total, books, place, born, amid, lock, deleter,
                   edits, faults>>

\* the volumes without a book, read once
ListPending(r) ==
    /\ runner[r].pc = "list" /\ Connection
    /\ runner' = [runner EXCEPT ![r].pc = "check", ![r].todo =
                    {p \in Recorded : volumes[p].book = NoBook}]
    /\ UNCHANGED <<alive, total, volumes, books, place, born, amid, lock,
                   deleter, edits, faults>>

\* promoteOne, first half: a book at this position that no volume names yet
Matches(p) == {b \in LiveBooks : /\ place[b] = p
                                 /\ \A q \in Recorded : volumes[q].book # b}

CheckPosition(r) ==
    /\ runner[r].pc = "check" /\ runner[r].todo # {} /\ Connection
    /\ \E p \in runner[r].todo :
        /\ \A q \in runner[r].todo : p <= q
        /\ \E b \in IF Matches(p) = {} THEN {NoBook} ELSE Matches(p) :
            runner' = [runner EXCEPT ![r].pc = "commit", ![r].book = b]
    /\ UNCHANGED <<alive, total, volumes, books, place, born, amid, lock,
                   deleter, edits, faults>>

\* UPDATE series_volumes ... WHERE id: a volume that is gone takes nothing
Link(p, b) == volumes' = IF p \in Recorded
                         THEN [volumes EXCEPT ![p].book = b] ELSE volumes
Next1(r, p) == runner' = [runner EXCEPT ![r].pc = "check", ![r].book = NoBook,
                                        ![r].todo = @ \ {p}]

\* promoteOne, second half: link the book that was found, or invent one.  A
\* book that is gone or a series that is gone breaks a foreign key: rollback
\* (as when Books, a bound, has no name left for another book).
CommitVolume(r) ==
    /\ runner[r].pc = "commit"
    /\ \E p \in runner[r].todo :
        /\ \A q \in runner[r].todo : p <= q
        /\ \/ /\ runner[r].book \in LiveBooks
              /\ Link(p, runner[r].book) /\ Next1(r, p)
              /\ UNCHANGED <<books, place, born, amid>>
           \/ /\ runner[r].book = NoBook /\ alive
              /\ \E b \in Books :
                    /\ books[b] = "unborn"
                    /\ books' = [books EXCEPT ![b] = "thin"]
                    /\ place' = [place EXCEPT ![b] = p]
                    /\ born' = [born EXCEPT ![b] = p]
                    /\ amid' = IF deleter.pc = "idle" THEN amid ELSE amid \cup {b}
                    /\ Link(p, b)
              /\ Next1(r, p)
           \/ /\ runner[r].book \in Books \ LiveBooks
                 \/ /\ runner[r].book = NoBook
                    /\ ~alive \/ \A b \in Books : books[b] # "unborn"
              /\ Goto(r, "unlock")
              /\ UNCHANGED <<volumes, books, place, born, amid>>
    /\ UNCHANGED <<alive, total, lock, deleter, edits, faults>>

PromotionEnds(r) ==
    /\ runner[r].pc = "check" /\ runner[r].todo = {}
    /\ Goto(r, "unlock")
    /\ UNCHANGED <<alive, total, volumes, books, place, born, amid, lock,
                   deleter, edits, faults>>

\* any statement of the pass may fail, and a reader's request may be broken
\* off, which fails the next one: the pass returns through its deferred unlock
PromotionFails(r) ==
    /\ runner[r].pc \in Statements \ {"unlock"} /\ Fault
    /\ Goto(r, "unlock")
    /\ UNCHANGED <<alive, total, volumes, books, place, born, amid, lock,
                   deleter, edits>>

\* a reader gives up while waiting: no lock was taken, the connection is closed
StopsWaiting(r) ==
    /\ runner[r].pc = "lock" /\ r \notin Nightly /\ Fault
    /\ Goto(r, "ended")
    /\ UNCHANGED <<alive, total, volumes, books, place, born, amid, lock,
                   deleter, edits>>

\* mutant: the connection goes back to the pool with the lock still held
ReleaseOnly(r) ==
    /\ runner[r].pc = "unlock" /\ Goto(r, "ended")
    /\ UNCHANGED <<alive, total, volumes, books, place, born, amid, lock,
                   deleter, edits, faults>>

\* the deferred pg_advisory_unlock under a context of its own, then Release
Unlock(r) ==
    /\ runner[r].pc = "unlock"
    /\ lock' = IF lock = r THEN NoOne ELSE lock
    /\ Goto(r, "ended")
    /\ UNCHANGED <<alive, total, volumes, books, place, born, amid, deleter,
                   edits, faults>>

------------------------------------------------------------------------------
(* Readers *)

Edit == edits < MaxEdits /\ edits' = edits + 1

\* SeriesRepo.UpsertBook: puts a book at a position, or moves it there
PlaceBook ==
    /\ alive /\ Edit /\ Connection
    /\ \E b \in LiveBooks, p \in Positions : place' = [place EXCEPT ![b] = p]
    /\ UNCHANGED <<alive, total, volumes, books, born, amid, runner, lock,
                   deleter, faults>>

\* SeriesRepo.RemoveBook: the volume keeps naming the book
RemoveBook ==
    /\ Edit /\ Connection
    /\ \E b \in LiveBooks : place[b] # 0 /\ place' = [place EXCEPT ![b] = 0]
    /\ UNCHANGED <<alive, total, volumes, books, born, amid, runner, lock,
                   deleter, faults>>

\* a copy, an edition, a rating, a list entry: the book is no placeholder now
WorkOnBook ==
    /\ Edit /\ Connection
    /\ \E b \in Books : books[b] = "thin" /\ books' = [books EXCEPT ![b] = "worked"]
    /\ UNCHANGED <<alive, total, volumes, place, born, amid, runner, lock,
                   deleter, faults>>

\* BookRepo.Delete: series_volumes.book_id is ON DELETE SET NULL
DeleteBook ==
    /\ Edit /\ Connection
    /\ \E b \in LiveBooks : TakeBooks({b})
    /\ UNCHANGED <<alive, total, born, amid, runner, lock, deleter, faults>>

\* UpdateSeries with another total_count
SetTotal ==
    /\ alive /\ Edit /\ Connection
    /\ \E n \in Totals \ {total} : total' = n
    /\ UNCHANGED <<alive, volumes, books, place, born, amid, runner, lock,
                   deleter, faults>>

\* DeleteSeries: the volumes' ids, then their placeholders, then the row
ReadVolumeIDs ==
    /\ deleter.pc = "idle" /\ alive /\ Connection
    /\ deleter' = [pc |-> "demote", ids |-> Recorded]
    /\ UNCHANGED <<alive, total, volumes, books, place, born, amid, runner,
                   lock, edits, faults>>

\* mutant: the series goes first and the volumes' placeholders stay
SkipDemotion ==
    /\ deleter.pc = "demote" /\ Connection
    /\ deleter' = [deleter EXCEPT !.pc = "delete"]
    /\ UNCHANGED <<alive, total, volumes, books, place, born, amid, runner,
                   lock, edits, faults>>

DemoteAll ==
    /\ deleter.pc = "demote" /\ Connection
    /\ \/ /\ TakeBooks(Demoted(deleter.ids)) /\ UNCHANGED faults
          /\ deleter' = [deleter EXCEPT !.pc = "delete"]
       \/ /\ Fault /\ deleter' = [pc |-> "idle", ids |-> {}]
          /\ UNCHANGED <<volumes, books, place>>
    /\ UNCHANGED <<alive, total, born, amid, runner, lock, edits>>

\* the series row; volumes and places cascade
DeleteRow ==
    /\ deleter.pc = "delete" /\ Connection
    /\ \/ /\ alive' = FALSE /\ UNCHANGED faults
          /\ volumes' = [p \in Positions |-> None]
          /\ place' = [b \in Books |-> 0]
       \/ Fault /\ UNCHANGED <<alive, volumes, place>>
    /\ deleter' = [pc |-> IF alive' THEN "idle" ELSE "ended", ids |-> {}]
    /\ UNCHANGED <<total, books, born, amid, runner, lock, edits>>

------------------------------------------------------------------------------
Step(r) ==
    \/ Fetch(r) \/ SyncVolume(r) \/ SyncEnds(r)
    \/ Acquire(r) \/ Lock(r) \/ Seed(r) \/ FillTotal(r) \/ FindStale(r)
    \/ DemoteStale(r) \/ PruneStale(r) \/ ListPending(r)
    \/ CheckPosition(r) \/ CommitVolume(r) \/ PromotionEnds(r) \/ Unlock(r)

Next ==
    \/ \E r \in Runners : Step(r) \/ PromotionFails(r) \/ StopsWaiting(r)
    \/ PlaceBook \/ RemoveBook \/ WorkOnBook \/ DeleteBook \/ SetTotal
    \/ ReadVolumeIDs \/ DemoteAll \/ DeleteRow

Spec == Init /\ [][Next]_vars

\* a pass is a goroutine that runs on; readers owe nothing
FairSpec == Spec /\ \A r \in Runners : WF_vars(Step(r))
------------------------------------------------------------------------------
(* Properties *)

ProgramPoints == {"idle", "sync", "acquire", "lock", "ended"} \cup Statements

\* Every variable keeps its type: the tables' columns and the program points
\* of PromoteVolumes and DeleteSeries.  The holder of the lock is inside its
\* pass, on its connection.
TypeOK ==
    /\ alive \in BOOLEAN /\ total \in Totals
    /\ volumes \in [Positions -> [on : BOOLEAN, said : SUBSET {"title", "id"},
                                 book : Books \cup {NoBook}]]
    /\ books \in [Books -> {"unborn", "thin", "worked", "gone"}]
    /\ place \in [Books -> Positions \cup {0}]
    /\ born \in [Books -> Positions \cup {0}] /\ amid \subseteq Books
    /\ runner \in [Runners -> [pc : ProgramPoints, todo : SUBSET Positions,
                               book : Books \cup {NoBook}, ok : BOOLEAN]]
    /\ lock \in Runners \cup {NoOne}
    /\ lock \in Runners => runner[lock].pc \in Statements
    /\ deleter \in [pc : {"idle", "demote", "delete", "ended"},
                    ids : SUBSET Positions]
    /\ edits \in 0..MaxEdits /\ faults \in 0..MaxFaults

\* A promoted book stays the book of its volume for as long as both live, so
\* no volume is promoted twice: not by two passes at once, not by a pass after
\* one that failed halfway, whatever readers do to the books in between.
PlaceholdersLinked ==
    alive => \A b \in LiveBooks :
                born[b] # 0 => born[b] \in Recorded /\ volumes[born[b]].book = b

\* Deleting a series leaves no placeholder behind "as titles in nobody's
\* collection", unless a pass invented it while the deletion was under way.
DeletionTakesPlaceholders ==
    ~alive => \A b \in Books : books[b] = "thin" => b \in amid

\* A pass that waits for its turn gets it and ends, whatever fails: the lock
\* is always handed on.
PassEnds ==
    \A r \in Runners : runner[r].pc = "acquire" ~> runner[r].pc = "ended"

\* What the code says but does not do: "the second caller then finds the work
\* done".  Callers that wait hold connections the first one needs.
WaiterGetsItsTurn ==
    \A r \in Runners : runner[r].pc = "lock" ~> runner[r].pc = "ended"
=============================================================================
