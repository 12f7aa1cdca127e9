-------------------------------- MODULE Sync --------------------------------
(***************************************************************************)
(* Reading state of one reader on several devices: edits made while        *)
(* offline wait in a device's outbox, are pushed with /sync/apply, whose   *)
(* answer may be lost so that they are pushed again, and reach the other   *)
(* devices through /sync/changes and its cursor.  The web client writes    *)
(* the same rows, and the reading sessions behind the progress field.      *)
(*                                                                         *)
(* An action is one SQL statement with the Go code up to the next.  Rating *)
(* stands for the three verdict fields, which take the same statement.     *)
(* Every write takes a moment of its own: timestamps differ, and devices   *)
(* have the server's time.  The device is not in the repository: it does   *)
(* what the endpoints' comments ask of clients.                            *)
(***************************************************************************)
EXTENDS Integers, Sequences, FiniteSets, FiniteSetsExt

CONSTANTS
    Devices, Books,
    Ratings,      \* values of a rating
    NoRating,     \* NULL
    Limit,        \* rows per page of /sync/changes
    MaxEdits,     \* bound: edits on devices and on the web
    MaxTime,      \* bound: the clock
    MaxSessions,  \* bound: reading sessions of a book
    MaxLosses     \* bound: answers that are lost, statements that fail

ASSUME SyncAssumption ==
    /\ NoRating \notin Ratings
    /\ Limit \in Nat \ {0} /\ MaxEdits \in Nat /\ MaxTime \in Nat
    /\ MaxSessions \in Nat /\ MaxLosses \in Nat

VARIABLES
    clock,     \* NOW()
    rows,      \* user_books: rating and its time, updated_at, deleted_at (0: NULL)
    printed,   \* the books that have an edition
    sessions,  \* reading_sessions of each book, oldest first
    outbox,    \* ops a device still has to push
    handled,   \* ops of the request under way that have been through the server
    request,   \* the op a request is working on, its place in applyProgress, and the
               \* open session it found there
    cursor,    \* a device's `since`
    known,     \* what a device has been told, or did itself
    arrived,   \* observer: rating writes that reached a row that was there
    applied,   \* observer: ops that were applied
    edits, losses

vars == <<clock, rows, printed, sessions, outbox, handled, request, cursor, known,
          arrived, applied, edits, losses>>
server == <<rows, printed, sessions, arrived, applied>>
client == <<outbox, handled, request, cursor, known>>

Now == clock + 1
NoOp == [book |-> "none", field |-> "none", ts |-> 0, val |-> NoRating]
Resting == [pc |-> "idle", op |-> NoOp, open |-> 0]

Init ==
    /\ clock = 0
    /\ rows = [b \in Books |-> [rating |-> [ts |-> 0, val |-> NoRating],
                                updated |-> 0, deleted |-> 0]]
    /\ printed \in SUBSET Books
    /\ sessions = [b \in Books |-> <<>>]
    /\ outbox = [d \in Devices |-> {}] /\ handled = [d \in Devices |-> {}]
    /\ request = [d \in Devices |-> Resting]
    /\ cursor = [d \in Devices |-> 0]
    /\ known = [d \in Devices |-> [b \in Books |-> 0]]
    /\ arrived = {} /\ applied = {}
    /\ edits = 0 /\ losses = 0

Tick == clock < MaxTime /\ clock' = Now
Edit == edits < MaxEdits /\ edits' = edits + 1 /\ Tick
Loss == losses < MaxLosses /\ losses' = losses + 1

------------------------------------------------------------------------------
(* Edits *)

\* on a device: shown at once, pushed later; val NoRating clears
DeviceEdits(d) ==
    /\ Edit
    /\ \E b \in Books, f \in {"rating", "progress", "row"}, v \in Ratings \cup {NoRating} :
        /\ f = "row" => v = NoRating
        /\ outbox' = [outbox EXCEPT ![d] = @ \cup
                        {[book |-> b, field |-> f, ts |-> Now, val |-> v]}]
        /\ known' = IF f = "rating" THEN [known EXCEPT ![d][b] = Now] ELSE known
    /\ UNCHANGED <<server, handled, request, cursor, losses>>

\* UserBookRepo.Upsert: the field's time moves when its value does, and a
\* deleted row is there again
Upsert ==
    /\ Edit
    /\ \E b \in Books, v \in Ratings \cup {NoRating} :
        LET changes == v # rows[b].rating.val
            write   == [book |-> b, ts |-> Now, val |-> v]
        IN  /\ rows' = [rows EXCEPT ![b] =
                 [rating |-> IF changes THEN [ts |-> Now, val |-> v] ELSE @.rating,
                  updated |-> Now, deleted |-> 0]]
            /\ arrived' = IF changes THEN arrived \cup {write} ELSE arrived
    /\ UNCHANGED <<printed, sessions, applied, client, losses>>

\* UserBookRepo.Delete
DeleteRow ==
    /\ Edit
    /\ \E b \in Books : /\ rows[b].deleted = 0
                        /\ rows' = [rows EXCEPT ![b].deleted = Now, ![b].updated = Now]
    /\ UNCHANGED <<printed, sessions, arrived, applied, client, losses>>

Session(printing, ts) == [open |-> TRUE, printing |-> printing, ts |-> ts]

\* ReadingSessionRepo.Create: progress_updated_at stays NULL
CreateSession ==
    /\ Edit
    /\ \E b \in Books, printing \in BOOLEAN :
        /\ printing => b \in printed
        /\ Len(sessions[b]) < MaxSessions
        /\ sessions' = [sessions EXCEPT ![b] = Append(@, Session(printing, 0))]
    /\ UNCHANGED <<rows, printed, arrived, applied, client, losses>>

FinishSession ==
    /\ Edit
    /\ \E b \in Books : \E i \in DOMAIN sessions[b] :
        /\ sessions[b][i].open
        /\ sessions' = [sessions EXCEPT ![b][i].open = FALSE]
    /\ UNCHANGED <<rows, printed, arrived, applied, client, losses>>

------------------------------------------------------------------------------
(* ApplyChanges, op by op *)

Live(b) == rows[b].deleted = 0

\* mutant: whatever arrives last is written
NewerAlways(op) == TRUE
\* mutant: an op as new as the field is written
NewerOrSame(op) == rows[op.book].rating.ts <= op.ts
\* applyUBIField: newer than the field
Newer(op) == rows[op.book].rating.ts < op.ts

\* the WHERE clauses of applyUBIField and applyUBITombstone
Accepted(op) == IF op.field = "rating"
                THEN Live(op.book) /\ Newer(op)
                ELSE Live(op.book) \/ rows[op.book].deleted < op.ts
Write(op) ==
    rows' = [rows EXCEPT ![op.book] =
        IF op.field = "rating"
        THEN [@ EXCEPT !.rating = [ts |-> op.ts, val |-> op.val], !.updated = Now]
        ELSE [@ EXCEPT !.deleted = op.ts, !.updated = Now]]

\* an op is through; its status goes into the answer
Handled(d, op) == /\ handled' = [handled EXCEPT ![d] = @ \cup {op}]
                  /\ request' = [request EXCEPT ![d] = Resting]
Applied(d, op) == Handled(d, op) /\ applied' = applied \cup {op}
Refused(d, op) == Handled(d, op) /\ UNCHANGED applied

Pending(d) == outbox[d] \ handled[d]

\* a rating or a deletion: one UPDATE
ApplyVerdict(d) ==
    /\ request[d].pc = "idle"
    /\ \E op \in Pending(d) :
        /\ op.field \in {"rating", "row"}
        /\ arrived' = IF op.field = "rating" /\ Live(op.book)
                      THEN arrived \cup {[book |-> op.book, ts |-> op.ts, val |-> op.val]}
                      ELSE arrived
        /\ \/ Accepted(op) /\ Write(op) /\ Applied(d, op) /\ Tick
           \/ ~Accepted(op) /\ Refused(d, op) /\ UNCHANGED <<rows, clock>>
    /\ UNCHANGED <<printed, sessions, outbox, cursor, known, edits, losses>>

------------------------------------------------------------------------------
(* applyProgress *)

Progress(d) == request[d].op
Clears(op)  == op.val = NoRating
At(d, pc)   == request' = [request EXCEPT ![d].pc = pc]
Open(b)     == {i \in DOMAIN sessions[b] : sessions[b][i].open}

\* the opinion row leads to the book
FindBook(d) ==
    /\ request[d].pc = "idle"
    /\ \E op \in Pending(d) :
        /\ op.field = "progress"
        /\ \/ Live(op.book) /\ UNCHANGED <<handled, applied>>
              /\ request' = [request EXCEPT ![d] = [pc |-> "update", op |-> op, open |-> 0]]
           \/ ~Live(op.book) /\ Refused(d, op)
    /\ UNCHANGED <<clock, rows, printed, sessions, arrived, outbox, cursor, known, edits, losses>>

\* the UPDATE: the newest open session, if it is older than the op and has an
\* edition to count pages in
Takes(op) == {i \in Open(op.book) :
                /\ i = Max(Open(op.book)) /\ sessions[op.book][i].ts < op.ts
                /\ Clears(op) \/ sessions[op.book][i].printing}
UpdateSession(d, otherwise) ==
    LET op == Progress(d)
    IN  \/ /\ Takes(op) # {} /\ Applied(d, op)
           /\ sessions' = [sessions EXCEPT ![op.book][Max(Open(op.book))].ts = op.ts]
        \/ /\ Takes(op) = {} /\ UNCHANGED sessions
           /\ otherwise

TrySession(d) ==
    /\ request[d].pc = "update"
    /\ UpdateSession(d, At(d, "look") /\ UNCHANGED <<handled, applied>>)
    /\ UNCHANGED <<clock, rows, printed, arrived, outbox, cursor, known, edits, losses>>

\* why nothing was updated: newer already, no edition yet, or no open session
LookAtSession(d) ==
    /\ request[d].pc = "look"
    /\ LET op == Progress(d)
           newest == Max(Open(op.book))
       IN  \/ /\ Open(op.book) # {} /\ sessions[op.book][newest].ts >= op.ts
              /\ Refused(d, op)
           \/ /\ Open(op.book) # {} /\ sessions[op.book][newest].ts < op.ts
              /\ IF Clears(op) THEN Applied(d, op)
                 ELSE /\ request' = [request EXCEPT ![d] =
                                        [pc |-> "attach", op |-> op, open |-> newest]]
                      /\ UNCHANGED <<handled, applied>>
           \/ /\ Open(op.book) = {}
              /\ IF Clears(op) THEN Applied(d, op)
                 ELSE At(d, "open") /\ UNCHANGED <<handled, applied>>
    /\ UNCHANGED <<clock, rows, printed, sessions, arrived, outbox, cursor, known, edits, losses>>

\* that session gets the book's first edition, if there is one
AttachEdition(d) ==
    /\ request[d].pc = "attach" /\ At(d, "again")
    /\ LET b == Progress(d).book
       IN  sessions' = [sessions EXCEPT ![b][request[d].open].printing = @ \/ b \in printed]
    /\ UNCHANGED <<clock, rows, printed, arrived, applied, outbox, handled, cursor, known,
                   edits, losses>>

\* the second UPDATE: whatever goes wrong with it is answered invalid
RetrySession(d) ==
    /\ request[d].pc = "again"
    /\ \/ UpdateSession(d, Refused(d, Progress(d))) /\ UNCHANGED losses
       \/ Loss /\ Refused(d, Progress(d)) /\ UNCHANGED sessions
    /\ UNCHANGED <<clock, rows, printed, arrived, outbox, cursor, known, edits>>

\* mutant: a session with a page number, edition or not
OpenAnyway(d) ==
    /\ request[d].pc = "open"
    /\ LET op == Progress(d)
       IN  /\ Len(sessions[op.book]) < MaxSessions
           /\ sessions' = [sessions EXCEPT ![op.book] = Append(@, Session(TRUE, op.ts))]
           /\ Applied(d, op)
    /\ UNCHANGED <<clock, rows, printed, arrived, outbox, cursor, known, edits, losses>>
\* a session of its own for the op, if there is an edition to count pages in
OpenSession(d) ==
    /\ request[d].pc = "open"
    /\ LET op == Progress(d)
       IN  \/ /\ op.book \in printed /\ Len(sessions[op.book]) < MaxSessions
              /\ sessions' = [sessions EXCEPT ![op.book] = Append(@, Session(TRUE, op.ts))]
              /\ Applied(d, op)
           \/ op.book \notin printed /\ Refused(d, op) /\ UNCHANGED sessions
    /\ UNCHANGED <<clock, rows, printed, arrived, outbox, cursor, known, edits, losses>>

------------------------------------------------------------------------------
(* Answers *)

\* the client clears what the answer names; what it was not asked about, or
\* what failed, waits for the next push
Answer(d) ==
    /\ request[d].pc = "idle" /\ handled[d] # {}
    /\ outbox' = [outbox EXCEPT ![d] = @ \ handled[d]]
    /\ handled' = [handled EXCEPT ![d] = {}]
    /\ UNCHANGED <<clock, server, request, cursor, known, edits, losses>>

\* any other statement fails: the op's status is an error, the request goes on
FailOp(d) ==
    /\ request[d].pc \notin {"idle", "again"} /\ Loss
    /\ request' = [request EXCEPT ![d] = Resting]
    /\ UNCHANGED <<clock, server, outbox, handled, cursor, known, edits>>

\* the request breaks off or its answer is lost: these ops are pushed again
LoseAnswer(d) ==
    /\ handled[d] # {} \/ request[d].pc # "idle"
    /\ Loss
    /\ handled' = [handled EXCEPT ![d] = {}]
    /\ request' = [request EXCEPT ![d] = Resting]
    /\ UNCHANGED <<clock, server, outbox, cursor, known, edits>>

------------------------------------------------------------------------------
(* GetChanges *)

Changed(b, since) ==
    \/ rows[b].updated > since \/ rows[b].rating.ts > since \/ rows[b].deleted > since
    \/ \E i \in DOMAIN sessions[b] : sessions[b][i].ts > since
Tombstoned(b, since) == rows[b].deleted > since

\* the first Limit rows by updated_at
Pages(since) ==
    LET hits == {b \in Books : Changed(b, since)}
    IN  {page \in SUBSET hits :
            /\ Cardinality(page) = Min({Limit, Cardinality(hits)})
            /\ \A p \in page, q \in hits \ page : rows[p].updated <= rows[q].updated}

\* times of the ops a row yields: the tombstone, or what is newer than since
OpTimes(b, since) ==
    IF Tombstoned(b, since) THEN {rows[b].deleted}
    ELSE {t \in {rows[b].rating.ts} \cup {sessions[b][i].ts : i \in
                    {j \in Open(b) : j = Max(Open(b))}} : t > since}

\* the client takes the ops and moves since to the newest of them
Pull(d) ==
    /\ \E page \in Pages(cursor[d]) :
        LET since == cursor[d]
            times == UNION {OpTimes(b, since) : b \in page}
            told  == {b \in page : ~Tombstoned(b, since) /\ rows[b].rating.ts > since}
        IN  /\ page # {}
            /\ cursor' = [cursor EXCEPT ![d] = Max(times \cup {since})]
            /\ known' = [known EXCEPT ![d] = [b \in Books |->
                   IF b \in told THEN Max({@[b], rows[b].rating.ts}) ELSE @[b]]]
    /\ UNCHANGED <<clock, server, outbox, handled, request, edits, losses>>

------------------------------------------------------------------------------
Push(d) ==
    \/ ApplyVerdict(d) \/ FindBook(d) \/ TrySession(d) \/ LookAtSession(d)
    \/ AttachEdition(d) \/ RetrySession(d) \/ OpenSession(d) \/ Answer(d)

Next ==
    \/ \E d \in Devices : DeviceEdits(d) \/ Push(d) \/ FailOp(d) \/ LoseAnswer(d) \/ Pull(d)
    \/ Upsert \/ DeleteRow \/ CreateSession \/ FinishSession

Spec == Init /\ [][Next]_vars
------------------------------------------------------------------------------
(* Properties *)

Times == 1..MaxTime
RatingWrites == [book : Books, ts : Times, val : Ratings \cup {NoRating}]
Ops == [book : Books, field : {"rating", "progress", "row"}, ts : Times,
        val : Ratings \cup {NoRating}]

\* Every variable keeps its type: the tables' columns, the ops of the protocol
\* and the program points of applyProgress.  Nobody's clock is ahead of NOW().
TypeOK ==
    /\ clock \in Times \cup {0}
    /\ printed \subseteq Books
    /\ \A b \in Books :
        /\ rows[b].rating.ts \in 0..clock /\ rows[b].rating.val \in Ratings \cup {NoRating}
        /\ rows[b].updated \in 0..clock /\ rows[b].deleted \in 0..clock
        /\ Len(sessions[b]) <= MaxSessions
        /\ \A i \in DOMAIN sessions[b] :
            /\ sessions[b][i].ts \in 0..clock
            \* a page number without an edition to count it in (page_needs_edition)
            /\ sessions[b][i].printing => b \in printed
    /\ \A d \in Devices :
        /\ outbox[d] \subseteq Ops /\ handled[d] \subseteq outbox[d]
        /\ request[d].pc \in {"idle", "update", "look", "attach", "again", "open"}
        /\ request[d].pc # "idle" => request[d].op \in outbox[d]
        /\ cursor[d] \in 0..clock /\ known[d] \in [Books -> 0..clock]
    /\ arrived \subseteq RatingWrites /\ applied \subseteq Ops

\* Per-field last-writer-wins: a rating is always the newest of the writes that
\* reached its row, in whatever order devices and the web client were heard and
\* however often a device pushed again.
LWW == INSTANCE LastWriterWins WITH
           Never <- NoRating, Writes <- RatingWrites,
           reg <- [b \in Books |-> rows[b].rating], arrived <- arrived
LastWriterWinsHolds == LWW!Spec

Again(d, op) == op \in applied /\ op \in handled'[d] \ handled[d]

\* A rating that was applied and is pushed again, because the answer was lost,
\* changes nothing: neither the field nor what other devices are told.
ReplayedRatingRests ==
    [][\A d \in Devices : \A op \in applied :
        Again(d, op) /\ op.field = "rating" => UNCHANGED rows]_vars

\* What the code says but does not do: a client that moves since to the newest
\* updated_at it was given is told every change.  Once since has passed a
\* rating the device was not told, it never will be.
ChangesReachDevices ==
    \A d \in Devices, b \in Books : rows[b].rating.ts <= cursor[d]
        => rows[b].deleted # 0 \/ known[d][b] >= rows[b].rating.ts
=============================================================================
