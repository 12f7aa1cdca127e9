------------------------------ MODULE Holdings ------------------------------
(***************************************************************************)
(* What one library holds: copies of books, their editions, and the places *)
(* they are filed at.  Adding a book, scanning or importing an edition,    *)
(* editing copies and moving places are requests of several statements and *)
(* run side by side.                                                       *)
(*                                                                         *)
(* An action is one SQL statement with the Go code up to the next, except  *)
(* that the two that first choose a row or look for one and then write     *)
(* (INSERT ... WHERE NOT EXISTS, UPDATE ... WHERE id = (SELECT ...)) are   *)
(* two: READ COMMITTED takes the choice from the statement's snapshot and  *)
(* writes the row as it is by then.  A request that dies between two       *)
(* statements is one that takes no further step.                           *)
(***************************************************************************)
EXTENDS Integers, Sequences, FiniteSets

CONSTANTS
    Books, NoBook,
    Editions,
    BookOf,       \* the book of each edition
    NoEdition,    \* NULL
    Places, NoPlace,
    MaxDepth,     \* how many places isDescendant walks up (32)
    Requests,     \* bound: each is made once
    MaxCount      \* bound: copy counts SetEditionCopyCount is tried with

ASSUME HoldingsAssumption ==
    /\ BookOf \in [Editions -> Books]
    /\ NoBook \notin Books /\ NoEdition \notin Editions /\ NoPlace \notin Places
    /\ IsFiniteSet(Requests)
    /\ MaxDepth \in Nat \ {0} /\ MaxCount \in Nat

VARIABLES
    books, editions,  \* rows there are
    copies,           \* the library's copies in the order they were made
    places,           \* rows there are
    parent,           \* parent_id of each place
    spent,            \* ids of books and places that were ever made
    request,          \* a request's program point and what it works on
    raced,            \* observer: a place was moved between the checks of a move and its UPDATE
    overlaps          \* observer: inserts of a copy of a book that met a copy their look had not

vars == <<books, editions, copies, places, parent, spent, request, raced, overlaps>>
catalogue == <<books, editions, spent>>
shelving  == <<places, parent, raced, overlaps>>

Copy(b, e, p, described) ==
    [book |-> b, edition |-> e, place |-> p, described |-> described, live |-> TRUE]

\* fields of requests: the book that is added or removed, and whether a copy of
\* it was removed since; the place to file at, or to move or delete; the copy
\* that was chosen (0: none); whether its last look at the copies found one
Waiting == [pc |-> "new", kind |-> "none", book |-> NoBook, edition |-> NoEdition,
            place |-> NoPlace, under |-> NoPlace, pick |-> 0,
            found |-> FALSE, undone |-> FALSE, passed |-> FALSE]

Init ==
    /\ books \in SUBSET Books
    /\ editions \in SUBSET {e \in Editions : BookOf[e] \in books}
    /\ copies = <<>>
    /\ places \in SUBSET Places /\ parent = [p \in Places |-> NoPlace]
    /\ spent = books \cup places
    /\ request = [r \in Requests |-> Waiting]
    /\ raced = FALSE /\ overlaps = [b \in Books |-> 0]

\* the live copies of a book; those of an edition; those without an edition
Held(cs, b)      == {i \in DOMAIN cs : cs[i].live /\ cs[i].book = b}
Printed(cs, e)   == {i \in DOMAIN cs : cs[i].live /\ cs[i].edition = e}
Editionless(cs, b) == {i \in Held(cs, b) : cs[i].edition = NoEdition}

New(r)  == request[r].pc = "new"
At(r, pc) == request[r].pc = pc
Begin(r, asked) == request' = [request EXCEPT ![r] = asked]
Go(r, pc) == request' = [request EXCEPT ![r].pc = pc]

------------------------------------------------------------------------------
(* SetEditionCopyCount *)

\* ORDER BY describedness ASC, created_at DESC OFFSET n: what is retired
Before(cs, j, i) == \/ cs[j].described < cs[i].described
                    \/ cs[j].described = cs[i].described /\ j > i
Surplus(cs, e, n) ==
    {i \in Printed(cs, e) : Cardinality({j \in Printed(cs, e) : Before(cs, j, i)}) >= n}
Retired(cs, gone) ==
    [i \in DOMAIN cs |-> IF i \in gone THEN [cs[i] EXCEPT !.live = FALSE] ELSE cs[i]]

\* GREATEST(n - count(*), 0)
Shortfall(cs, e, n) ==
    LET held == Cardinality(Printed(cs, e)) IN IF n > held THEN n - held ELSE 0

\* the oldest copies without an edition take it
Adopting(cs, e, n) ==
    LET spare == Editionless(cs, BookOf[e])
    IN  {i \in spare : Cardinality({j \in spare : j < i}) < Shortfall(cs, e, n)}
Adopted(cs, e, chosen) ==
    [i \in DOMAIN cs |-> IF i \in chosen THEN [cs[i] EXCEPT !.edition = e] ELSE cs[i]]

ToppedUp(cs, e, n) ==
    cs \o [i \in 1..Shortfall(cs, e, n) |-> Copy(BookOf[e], e, NoPlace, 0)]

\* mutant: one surplus copy too many is kept
SetCountKeepingOne(cs, e, n) ==
    LET kept == Retired(cs, Surplus(cs, e, n + 1))
    IN  ToppedUp(Adopted(kept, e, Adopting(kept, e, n)), e, n)
SetEditionCopyCount(cs, e, n) ==
    LET kept == Retired(cs, Surplus(cs, e, n))
    IN  IF n = 0 THEN kept
        ELSE LET adopted == Adopted(kept, e, Adopting(kept, e, n))
             IN  ToppedUp(adopted, e, n)

\* PlaceNewestCopy: the newest copy of the edition is filed
Newest(cs, e) == {i \in Printed(cs, e) : \A j \in Printed(cs, e) : j <= i}
PlaceNewestCopy(cs, e, p) ==
    [i \in DOMAIN cs |-> IF i \in Newest(cs, e) THEN [cs[i] EXCEPT !.place = p] ELSE cs[i]]

------------------------------------------------------------------------------
(* Requests that add a book in several statements *)

\* POST /libraries/{id}/books/{id}
AskAdd(r) ==
    /\ New(r)
    /\ \E b \in books : Begin(r, [Waiting EXCEPT !.pc = "look", !.kind = "add", !.book = b])
    /\ UNCHANGED <<catalogue, copies, shelving>>

\* CreateBook finds the scanned edition in the catalogue
AskScan(r) ==
    /\ New(r)
    /\ \E e \in editions, p \in places \cup {NoPlace} :
          Begin(r, [Waiting EXCEPT !.pc = "look", !.kind = "scan", !.book = BookOf[e],
                             !.edition = e, !.place = p])
    /\ UNCHANGED <<catalogue, copies, shelving>>

\* an import's row finds its edition; a book the library holds is counted again
\* if the import asks for it, and is left alone otherwise
AskImport(r) ==
    /\ New(r)
    /\ \E e \in editions, p \in places \cup {NoPlace}, pc \in {"look", "choose", "done"} :
        /\ pc = "look" <=> Held(copies, BookOf[e]) = {}
        /\ Begin(r, [Waiting EXCEPT !.pc = pc, !.kind = "import", !.book = BookOf[e],
                              !.edition = e, !.place = p])
    /\ UNCHANGED <<catalogue, copies, shelving>>

AfterAdding(r) == IF request[r].kind = "add" THEN "done" ELSE "choose"

\* the request goes on from a look at the copies that found one, or none
Look(r, pc, i, found) ==
    request' = [request EXCEPT ![r].pc = pc, ![r].pick = i, ![r].found = found]

\* the request's look found none of the copies that an insert meets
Overlap(r, b, met) ==
    overlaps' = IF met # {} /\ ~request[r].found THEN [overlaps EXCEPT ![b] = @ + 1]
                ELSE overlaps

\* mutant: the library's copies are not looked at
LookAway(r) ==
    /\ At(r, "look") /\ Look(r, "insert", 0, Held(copies, request[r].book) # {})
    /\ UNCHANGED <<catalogue, copies, shelving>>
\* AddBookToLibrary's NOT EXISTS
LookForCopy(r) ==
    /\ At(r, "look")
    /\ \/ Held(copies, request[r].book) # {} /\ Look(r, AfterAdding(r), 0, TRUE)
       \/ Held(copies, request[r].book) = {} /\ Look(r, "insert", 0, FALSE)
    /\ UNCHANGED <<catalogue, copies, shelving>>

\* ... and its INSERT, which needs the book
InsertCopy(r) ==
    /\ At(r, "insert")
    /\ LET b == request[r].book
       IN  \/ /\ b \in books /\ Go(r, AfterAdding(r))
              /\ copies' = Append(copies, Copy(b, NoEdition, NoPlace, 0))
              /\ Overlap(r, b, Held(copies, b))
           \/ b \notin books /\ Go(r, "failed") /\ UNCHANGED <<copies, overlaps>>
    /\ UNCHANGED <<catalogue, places, parent, raced>>

Filing(r) == IF request[r].place = NoPlace THEN "done" ELSE "file"
ChooseOldest(r, is) ==
    \/ is = {} /\ Look(r, "adopt", 0, FALSE)
    \/ \E i \in is : (\A j \in is : i <= j) /\ Look(r, "adopt", i, TRUE)

\* mutant: a copy of another book is adopted too
ChooseAnyCopy(r) ==
    /\ At(r, "choose")
    /\ request[r].edition \in editions
    /\ ChooseOldest(r, {i \in DOMAIN copies : copies[i].live /\ copies[i].edition = NoEdition})
    /\ UNCHANGED <<catalogue, copies, shelving>>
\* IncrementCopyCount chooses the oldest copy of the book without an edition;
\* for an edition that was deleted it does nothing
ChooseCopy(r) ==
    /\ At(r, "choose")
    /\ \/ /\ request[r].edition \in editions
          /\ ChooseOldest(r, Editionless(copies, request[r].book))
       \/ request[r].edition \notin editions /\ Go(r, Filing(r))
    /\ UNCHANGED <<catalogue, copies, shelving>>

\* ... and gives it the edition, or inserts a copy if there was none
AdoptCopy(r) ==
    /\ At(r, "adopt")
    /\ LET e == request[r].edition
           i == request[r].pick
       IN  \/ /\ e \in editions /\ i # 0
              /\ copies' = [copies EXCEPT ![i].edition = e] /\ Go(r, Filing(r))
              /\ UNCHANGED overlaps
           \/ /\ e \in editions /\ i = 0
              /\ copies' = Append(copies, Copy(BookOf[e], e, NoPlace, 0))
              /\ Go(r, Filing(r))
              /\ Overlap(r, BookOf[e], Editionless(copies, BookOf[e]))
           \/ e \notin editions /\ Go(r, "failed") /\ UNCHANGED <<copies, overlaps>>
    /\ UNCHANGED <<catalogue, places, parent, raced>>

FileCopy(r) ==
    /\ At(r, "file")
    /\ LET e == request[r].edition
           p == request[r].place
       IN  \/ /\ p \in places \/ Printed(copies, e) = {}
              /\ copies' = PlaceNewestCopy(copies, e, p) /\ Go(r, "done")
           \/ /\ p \notin places /\ Printed(copies, e) # {}
              /\ Go(r, "failed") /\ UNCHANGED copies
    /\ UNCHANGED <<catalogue, shelving>>

------------------------------------------------------------------------------
(* Requests of one transaction *)

\* CreateBook with an edition nobody has
CreateBook(r) ==
    /\ New(r)
    /\ \E e \in Editions, p \in places \cup {NoPlace} :
        LET b == BookOf[e]
            added == SetEditionCopyCount(Append(copies, Copy(b, NoEdition, NoPlace, 0)), e, 1)
        IN  /\ b \notin spent /\ spent' = spent \cup {b}
            /\ books' = books \cup {b} /\ editions' = editions \cup {e}
            /\ copies' = PlaceNewestCopy(added, e, p)
            /\ Begin(r, [Waiting EXCEPT !.pc = "done", !.kind = "create", !.book = b])
    /\ UNCHANGED shelving

EditionsOf(b) == {e \in editions : BookOf[e] = b} \cup {NoEdition}

CreateCopy(r) ==
    /\ New(r)
    /\ \E b \in books, p \in places \cup {NoPlace}, d \in {0, 1} : \E e \in EditionsOf(b) :
        /\ copies' = Append(copies, Copy(b, e, p, d))
        /\ Begin(r, [Waiting EXCEPT !.pc = "done", !.kind = "copy", !.book = b])
    /\ UNCHANGED <<catalogue, shelving>>

UpdateCopy(r) ==
    /\ New(r)
    /\ \E i \in DOMAIN copies, p \in places \cup {NoPlace}, d \in {0, 1} :
       \E e \in EditionsOf(copies[i].book) :
        /\ copies[i].live
        /\ copies' = [copies EXCEPT ![i].edition = e, ![i].place = p, ![i].described = d]
        /\ Begin(r, [Waiting EXCEPT !.pc = "done", !.kind = "edit",
               !.book = IF copies[i].edition = NoEdition THEN copies[i].book ELSE NoBook])
    /\ UNCHANGED <<catalogue, shelving>>

\* copies is[#] of b are retired; requests about b learn of it
Remove(r, b, is) ==
    /\ copies' = Retired(copies, is)
    /\ request' = [q \in Requests |->
          IF q = r THEN [Waiting EXCEPT !.pc = "done", !.kind = "remove"]
          ELSE [request[q] EXCEPT !.undone = @ \/ request[q].book = b]]
    /\ UNCHANGED <<catalogue, shelving>>

DeleteCopy(r) ==
    /\ New(r)
    /\ \E i \in DOMAIN copies : copies[i].live /\ Remove(r, copies[i].book, {i})

RemoveBookFromLibrary(r) ==
    /\ New(r)
    /\ \E b \in books : Held(copies, b) # {} /\ Remove(r, b, Held(copies, b))

\* copies keep the book and lose the edition
DeleteEdition(r) ==
    /\ New(r)
    /\ \E e \in editions :
        /\ editions' = editions \ {e}
        /\ copies' = [i \in DOMAIN copies |-> IF copies[i].edition = e
                        THEN [copies[i] EXCEPT !.edition = NoEdition] ELSE copies[i]]
    /\ Begin(r, [Waiting EXCEPT !.pc = "done", !.kind = "remove"])
    /\ UNCHANGED <<books, spent, shelving>>

\* copies, also retired ones, keep a book from being deleted (ON DELETE RESTRICT)
DeleteBook(r) ==
    /\ New(r)
    /\ \E b \in books :
        /\ \A i \in DOMAIN copies : copies[i].book # b
        /\ books' = books \ {b}
        /\ editions' = {e \in editions : BookOf[e] # b}
    /\ Begin(r, [Waiting EXCEPT !.pc = "done", !.kind = "remove"])
    /\ UNCHANGED <<copies, spent, shelving>>

------------------------------------------------------------------------------
(* Places *)

CreatePlace(r) ==
    /\ New(r)
    /\ \E p \in Places \ spent, q \in places \cup {NoPlace} :
        /\ places' = places \cup {p} /\ spent' = spent \cup {p}
        /\ parent' = [parent EXCEPT ![p] = q]
    /\ Begin(r, [Waiting EXCEPT !.pc = "done", !.kind = "place"])
    /\ UNCHANGED <<books, editions, copies, raced, overlaps>>

\* the place itself and what contains it, MaxDepth places in all
Upwards(p) ==
    {q \in Places : \E n \in 1..MaxDepth : \E path \in [1..n -> Places] :
        /\ path[1] = p /\ path[n] = q
        /\ \A i \in 1..(n - 1) : path[i + 1] = parent[path[i]]}

\* mutant: asks whether the place is under the candidate
IsDescendantSwapped(candidate, root) == candidate \in Upwards(root)
isDescendant(candidate, root) == root \in Upwards(candidate)

\* the checks of a move; the top level needs none
AskMove(r) ==
    /\ New(r)
    /\ \E p \in places, q \in places \cup {NoPlace} :
        /\ q # p /\ (q # NoPlace => ~isDescendant(q, p))
        /\ Begin(r, [Waiting EXCEPT !.pc = "move", !.kind = "move", !.place = p, !.under = q])
    /\ UNCHANGED <<catalogue, copies, shelving>>

\* the UPDATE; a place deleted since is not found, a parent deleted since refused
MovePlace(r) ==
    /\ At(r, "move")
    /\ LET p == request[r].place
           q == request[r].under
       IN  \/ /\ p \in places /\ q \in places \cup {NoPlace}
              /\ parent' = [parent EXCEPT ![p] = q]
              /\ raced' = (raced \/ request[r].passed)
              /\ request' = [s \in Requests |->
                    IF s = r THEN [request[r] EXCEPT !.pc = "done"]
                    ELSE [request[s] EXCEPT !.passed = @ \/ At(s, "move")]]
           \/ /\ p \notin places \/ q \notin places \cup {NoPlace}
              /\ Go(r, "failed") /\ UNCHANGED <<parent, raced>>
    /\ UNCHANGED <<catalogue, copies, places, overlaps>>

\* the count of copies filed there
AskDeletePlace(r) ==
    /\ New(r)
    /\ \E p \in places :
        /\ \A i \in DOMAIN copies : ~(copies[i].live /\ copies[i].place = p)
        /\ Begin(r, [Waiting EXCEPT !.pc = "delete", !.kind = "delete", !.place = p])
    /\ UNCHANGED <<catalogue, copies, shelving>>

\* the DELETE: what is filed or contained there is left without (SET NULL)
DeletePlace(r) ==
    /\ At(r, "delete")
    /\ LET p == request[r].place
       IN  \/ /\ p \in places /\ places' = places \ {p} /\ Go(r, "done")
              /\ parent' = [q \in Places |-> IF q = p \/ parent[q] = p
                                             THEN NoPlace ELSE parent[q]]
              /\ copies' = [i \in DOMAIN copies |-> IF copies[i].place = p
                              THEN [copies[i] EXCEPT !.place = NoPlace] ELSE copies[i]]
           \/ p \notin places /\ Go(r, "failed") /\ UNCHANGED <<places, parent, copies>>
    /\ UNCHANGED <<catalogue, raced, overlaps>>

------------------------------------------------------------------------------
Step(r) ==
    \/ AskAdd(r) \/ AskScan(r) \/ AskImport(r) \/ LookForCopy(r) \/ InsertCopy(r)
    \/ ChooseCopy(r) \/ AdoptCopy(r) \/ FileCopy(r)
    \/ CreateBook(r) \/ CreateCopy(r) \/ UpdateCopy(r) \/ DeleteCopy(r)
    \/ RemoveBookFromLibrary(r) \/ DeleteEdition(r) \/ DeleteBook(r)
    \/ CreatePlace(r) \/ AskMove(r) \/ MovePlace(r) \/ AskDeletePlace(r) \/ DeletePlace(r)

Next == \E r \in Requests : Step(r)

Spec == Init /\ [][Next]_vars
------------------------------------------------------------------------------
(* Properties *)

Kinds == {"none", "add", "scan", "import", "create", "copy", "edit", "remove", "place",
          "move", "delete"}
Points == {"new", "look", "insert", "choose", "adopt", "file", "move", "delete", "done",
           "failed"}
Row == [book : Books, edition : Editions \cup {NoEdition}, place : Places \cup {NoPlace},
        described : {0, 1}, live : BOOLEAN]
Request == [pc : Points, kind : Kinds, book : Books \cup {NoBook},
            edition : Editions \cup {NoEdition}, place : Places \cup {NoPlace},
            under : Places \cup {NoPlace}, pick : Nat, found : BOOLEAN, undone : BOOLEAN,
            passed : BOOLEAN]

\* Every variable keeps its type, and rows refer to rows that are there: a
\* copy's edition is one of its own book (copies_edition_matches_book).
TypeOK ==
    /\ books \subseteq Books
    /\ editions \subseteq {e \in Editions : BookOf[e] \in books}
    /\ copies \in Seq(Row)
    /\ \A i \in DOMAIN copies :
        /\ copies[i].book \in books /\ copies[i].edition \in EditionsOf(copies[i].book)
        /\ copies[i].place \in places \cup {NoPlace}
    /\ places \subseteq Places /\ books \cup places \subseteq spent
    /\ spent \subseteq Books \cup Places
    /\ parent \in [Places -> places \cup {NoPlace}]
    /\ \A p \in Places : parent[p] # p
    /\ request \in [Requests -> Request]
    /\ \A r \in Requests : request[r].pick \in 0..Len(copies)
    /\ raced \in BOOLEAN /\ overlaps \in [Books -> Nat]

Adding == {"add", "scan", "import", "create", "copy"}
Printing == {"scan", "import", "create"}
ByHand == {"copy", "edit"}
About(b, kinds) == {r \in Requests : request[r].kind \in kinds /\ request[r].book = b}

\* However adds, scans, imports and removals of a book meet, its copies are one
\* for every scan, import and creation of it, and one for all its adds together
\* if there was none of these: an add of a held book adds nothing, and a scan or
\* import gives the copy an add left the edition it lacks (librarium-ios #81).
\* What comes on top is made or given an edition by hand, one copy each time, or
\* is one copy for each insert that met a copy its look had not found.  Nor are
\* there too few: whatever adds a book and ends well leaves it in the library
\* unless somebody removed a copy of it meanwhile.
CopiesAsAdded ==
    /\ \A b \in Books :
          LET printed == Cardinality(About(b, Printing))
          IN  Cardinality(Held(copies, b)) <= (IF printed = 0 THEN 1 ELSE printed)
                + Cardinality(About(b, ByHand)) + overlaps[b]
    /\ \A r \in Requests :
        request[r].kind \in Adding /\ At(r, "done") /\ ~request[r].undone
            => Held(copies, request[r].book) # {}

\* SetEditionCopyCount leaves exactly as many copies of the edition as asked
\* for, makes none while a copy of the book is without an edition, and leaves
\* every other copy alone, whatever the library holds.
SetCountExact ==
    \A e \in editions, n \in 0..MaxCount :
        LET cs == SetEditionCopyCount(copies, e, n)
        IN  /\ Cardinality(Printed(cs, e)) = n
            /\ Len(cs) > Len(copies) => Editionless(cs, BookOf[e]) = {}
            /\ \A i \in DOMAIN copies :
                  i \notin Printed(copies, e) \cup Editionless(copies, BookOf[e])
                      => cs[i] = copies[i]

\* Places contain each other in a loop only after two moves at once: a move
\* that no other move overtook keeps them a forest, in which of any places one
\* is in none of the others.
LoopsNeedTwoMoves ==
    raced \/ \A ps \in SUBSET places : ps # {} => \E p \in ps : parent[p] \notin ps
=============================================================================
