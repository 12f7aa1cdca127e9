--------------------------- MODULE HoldingsProofs ---------------------------
(***************************************************************************)
(* For every set of books, editions, places and requests: rows refer to    *)
(* rows that are there, copies are counted right, and a count that is set  *)
(* is exact.  Of at most MaxDepth places, none contain each other unless   *)
(* two moves met.                                                          *)
(*                                                                         *)
(* Copies are counted against the requests that are through with a book.   *)
(* A scan or import that finds no copy to adopt inserts one, whatever      *)
(* there is by then, so two accounts are kept: each copy but one has a     *)
(* request or an overlap (HeldPaid), each copy with an edition has a       *)
(* request (EditionPaid).  The second is what leaves room for the copy     *)
(* inserted where none was without an edition.                             *)
(***************************************************************************)
EXTENDS Holdings, FiniteSetTheorems, TLAPS

------------------------------------------------------------------------------
(* The invariant *)

\* What a request that is under way relies on (service/book.go:167-277,
\* copy_locations.go:150-193): it has its edition from the book it works on,
\* the copy it chose is one of that book, it inserts one only if it found none,
\* and the place it moves is not to go under itself.
Sound(r) ==
    LET q == request[r]
    IN  /\ q.pc = "new" => q.kind = "none"
        /\ q.pc \in {"look", "insert"} => q.kind \in {"add", "scan", "import"} /\ q.book \in Books
        /\ q.pc \in {"choose", "adopt", "file"} => q.kind \in {"scan", "import"}
        /\ q.kind \in {"scan", "import"} => q.edition \in Editions /\ q.book = BookOf[q.edition]
        /\ q.pc = "adopt" /\ q.pick # 0 => copies[q.pick].book = q.book
        /\ q.pc = "insert" \/ (q.pc = "adopt" /\ q.pick = 0) => ~q.found
        /\ q.pc \in {"move", "delete"} => q.place \in Places /\ q.kind \in {"move", "delete"}
        /\ q.pc = "move" => q.under # q.place /\ q.under \in spent \cup {NoPlace}

\* A move that none overtook still may go ahead.
Cleared(r) ==
    At(r, "move") /\ ~request[r].passed /\ request[r].under # NoPlace
        => ~isDescendant(request[r].under, request[r].place)

\* Who is through with the book, of some kinds: nobody knows yet what becomes of
\* the copy that a scan or import found or inserted before it adopts one.
Through(b, kinds) ==
    {r \in About(b, kinds) : request[r].pc \notin {"look", "insert", "choose", "adopt"}}
Scanned(b) == Through(b, Printing)
Settled(b) == Through(b, Printing \cup ByHand)
WithEdition(cs, b) == {i \in Held(cs, b) : cs[i].edition # NoEdition}

\* Each copy has a request that is through, or an insert that met a copy, to
\* account for it; but for one, while no edition was added and done with.  One
\* with an edition always has a request.
Spare(b) == IF Scanned(b) = {} THEN 1 ELSE 0
HeldPaid(b) ==
    Cardinality(Held(copies, b)) <= Cardinality(Settled(b)) + Spare(b) + overlaps[b]
EditionPaid(b) == Cardinality(WithEdition(copies, b)) <= Cardinality(Settled(b))

\* A book that was added stays in the library until somebody removes a copy.
Kept(r) ==
    request[r].kind \in Adding /\ request[r].pc \notin {"look", "insert", "failed"}
        /\ ~request[r].undone => Held(copies, request[r].book) # {}

Inv ==
    /\ TypeOK
    /\ \A r \in Requests : Sound(r)
    /\ \A r \in Requests : Cleared(r)
    /\ \A b \in Books : HeldPaid(b) /\ EditionPaid(b)
    /\ \A r \in Requests : Kept(r)

------------------------------------------------------------------------------
(* Sequences of copies *)

\* A statement that writes rows leaves as many (UPDATE copies).
LEMMA Rewritten ==
    ASSUME NEW cs \in Seq(Row), NEW f \in [DOMAIN cs -> Row]
    PROVE  f \in Seq(Row) /\ Len(f) = Len(cs) /\ DOMAIN f = DOMAIN cs
  <1>1. DOMAIN cs = 1..Len(cs) /\ Len(cs) \in Nat
    OBVIOUS
  <1>2. f \in [1..Len(cs) -> Row]
    BY <1>1
  <1>3. QED  BY <1>1, <1>2

\* A row that is inserted comes last (INSERT INTO copies).
LEMMA Appended ==
    ASSUME NEW cs \in Seq(Row), NEW c \in Row
    PROVE  /\ Append(cs, c) \in Seq(Row) /\ Len(Append(cs, c)) = Len(cs) + 1
           /\ DOMAIN Append(cs, c) = DOMAIN cs \cup {Len(cs) + 1}
           /\ \A i \in DOMAIN cs : Append(cs, c)[i] = cs[i]
           /\ Append(cs, c)[Len(cs) + 1] = c
           /\ Len(cs) + 1 \notin DOMAIN cs
  <1>1. DOMAIN cs = 1..Len(cs) /\ Len(cs) \in Nat
    OBVIOUS
  <1>2. DOMAIN Append(cs, c) = 1..(Len(cs) + 1)
    OBVIOUS
  <1>3. QED  BY <1>1, <1>2

\* The copy that is inserted is a row (migration 000025, copies).
LEMMA CopyIsRow ==
    ASSUME NEW b \in Books, NEW e \in Editions \cup {NoEdition},
           NEW p \in Places \cup {NoPlace}, NEW d \in {0, 1}
    PROVE  /\ Copy(b, e, p, d) \in Row
           /\ Copy(b, e, p, d).book = b /\ Copy(b, e, p, d).edition = e
           /\ Copy(b, e, p, d).place = p /\ Copy(b, e, p, d).live = TRUE
           /\ Copy(b, e, p, d).described = d
  BY DEF Copy, Row

\* The sets of copies are sets of row numbers, and finite.
LEMMA HeldFinite ==
    ASSUME NEW cs \in Seq(Row), NEW S \in SUBSET (DOMAIN cs)
    PROVE  IsFiniteSet(S) /\ Cardinality(S) \in Nat
  <1>1. DOMAIN cs = 1..Len(cs) /\ Len(cs) \in Nat
    OBVIOUS
  <1>2. IsFiniteSet(1..Len(cs))
    BY <1>1, FS_Interval
  <1>3. IsFiniteSet(S)
    BY <1>1, <1>2, FS_Subset
  <1>4. QED  BY <1>3, FS_CardinalityType

\* Rows are put together one field at a time.
LEMMA RowFields ==
    ASSUME NEW c \in Row
    PROVE  /\ c.book \in Books /\ c.edition \in Editions \cup {NoEdition}
           /\ c.place \in Places \cup {NoPlace} /\ c.described \in {0, 1} /\ c.live \in BOOLEAN
  BY DEF Row

\* UPDATE copies SET edition_id of one row.
LEMMA RowEdition ==
    ASSUME NEW c \in Row, NEW e \in Editions \cup {NoEdition}
    PROVE  /\ [c EXCEPT !.edition = e] \in Row
           /\ [c EXCEPT !.edition = e].book = c.book /\ [c EXCEPT !.edition = e].edition = e
           /\ [c EXCEPT !.edition = e].place = c.place
           /\ [c EXCEPT !.edition = e].described = c.described
           /\ [c EXCEPT !.edition = e].live = c.live
  BY DEF Row

\* UPDATE copies SET location_id of one row.
LEMMA RowPlace ==
    ASSUME NEW c \in Row, NEW p \in Places \cup {NoPlace}
    PROVE  /\ [c EXCEPT !.place = p] \in Row
           /\ [c EXCEPT !.place = p].book = c.book
           /\ [c EXCEPT !.place = p].edition = c.edition
           /\ [c EXCEPT !.place = p].place = p
           /\ [c EXCEPT !.place = p].described = c.described
           /\ [c EXCEPT !.place = p].live = c.live
  BY DEF Row

\* UPDATE copies SET deleted_at of one row.
LEMMA RowRetired ==
    ASSUME NEW c \in Row
    PROVE  /\ [c EXCEPT !.live = FALSE] \in Row
           /\ [c EXCEPT !.live = FALSE].book = c.book
           /\ [c EXCEPT !.live = FALSE].edition = c.edition
           /\ [c EXCEPT !.live = FALSE].place = c.place
           /\ [c EXCEPT !.live = FALSE].live = FALSE
  BY DEF Row

\* UPDATE ... SET edition_id, location_id, deleted_at of the rows chosen.
LEMMA AdoptedRows ==
    ASSUME NEW cs \in Seq(Row), NEW e \in Editions \cup {NoEdition}, NEW chosen
    PROVE  /\ Adopted(cs, e, chosen) \in Seq(Row)
           /\ Len(Adopted(cs, e, chosen)) = Len(cs)
           /\ DOMAIN Adopted(cs, e, chosen) = DOMAIN cs
           /\ \A i \in DOMAIN cs :
                /\ Adopted(cs, e, chosen)[i].book = cs[i].book
                /\ Adopted(cs, e, chosen)[i].place = cs[i].place
                /\ Adopted(cs, e, chosen)[i].live = cs[i].live
                /\ i \in chosen => Adopted(cs, e, chosen)[i].edition = e
                /\ i \notin chosen => Adopted(cs, e, chosen)[i] = cs[i]
  <1> DEFINE f == Adopted(cs, e, chosen)
  <1>1. \A i \in DOMAIN cs : cs[i] \in Row
    OBVIOUS
  <1>2. f = [i \in DOMAIN cs |-> IF i \in chosen THEN [cs[i] EXCEPT !.edition = e] ELSE cs[i]]
    BY DEF Adopted
  <1>a. ASSUME NEW c \in Row
        PROVE  /\ [c EXCEPT !.edition = e] \in Row
               /\ [c EXCEPT !.edition = e].book = c.book
               /\ [c EXCEPT !.edition = e].edition = e
               /\ [c EXCEPT !.edition = e].place = c.place
               /\ [c EXCEPT !.edition = e].described = c.described
               /\ [c EXCEPT !.edition = e].live = c.live
    <2>1. e \in Editions \cup {NoEdition}
      OBVIOUS
    <2>2. QED  BY <2>1, RowEdition
  <1>3. f \in [DOMAIN cs -> Row]
    BY <1>1, <1>2, <1>a
  <1>4. f \in Seq(Row) /\ Len(f) = Len(cs) /\ DOMAIN f = DOMAIN cs
    BY <1>3, Rewritten
  <1>5. ASSUME NEW i \in DOMAIN cs
        PROVE  /\ f[i].book = cs[i].book /\ f[i].place = cs[i].place /\ f[i].live = cs[i].live
               /\ i \in chosen => f[i].edition = e
               /\ i \notin chosen => f[i] = cs[i]
    <2>1. cs[i] \in Row
      BY <1>1
    <2>2. i \in chosen => f[i] = [cs[i] EXCEPT !.edition = e]
      BY <1>2
    <2>3. i \notin chosen => f[i] = cs[i]
      BY <1>2
    <2>4. QED  BY <2>1, <2>2, <2>3, <1>a
  <1>6. QED  BY <1>4, <1>5

\* The copies that are retired keep what they say and are no longer live (copies.go:253-265).
LEMMA RetiredRows ==
    ASSUME NEW cs \in Seq(Row), NEW gone
    PROVE  /\ Retired(cs, gone) \in Seq(Row)
           /\ Len(Retired(cs, gone)) = Len(cs)
           /\ DOMAIN Retired(cs, gone) = DOMAIN cs
           /\ \A i \in DOMAIN cs :
                /\ Retired(cs, gone)[i].book = cs[i].book
                /\ Retired(cs, gone)[i].edition = cs[i].edition
                /\ Retired(cs, gone)[i].place = cs[i].place
                /\ i \in gone => Retired(cs, gone)[i].live = FALSE
                /\ i \notin gone => Retired(cs, gone)[i] = cs[i]
  <1> DEFINE f == Retired(cs, gone)
  <1>1. \A i \in DOMAIN cs : cs[i] \in Row
    OBVIOUS
  <1>2. f = [i \in DOMAIN cs |-> IF i \in gone THEN [cs[i] EXCEPT !.live = FALSE] ELSE cs[i]]
    BY DEF Retired
  <1>3. f \in [DOMAIN cs -> Row]
    BY <1>1, <1>2, RowRetired
  <1>4. f \in Seq(Row) /\ Len(f) = Len(cs) /\ DOMAIN f = DOMAIN cs
    BY <1>3, Rewritten
  <1>5. ASSUME NEW i \in DOMAIN cs
        PROVE  /\ f[i].book = cs[i].book /\ f[i].edition = cs[i].edition
               /\ f[i].place = cs[i].place
               /\ i \in gone => f[i].live = FALSE
               /\ i \notin gone => f[i] = cs[i]
    <2>1. cs[i] \in Row
      BY <1>1
    <2>2. i \in gone => f[i] = [cs[i] EXCEPT !.live = FALSE]
      BY <1>2
    <2>3. i \notin gone => f[i] = cs[i]
      BY <1>2
    <2>4. QED  BY <2>1, <2>2, <2>3, RowRetired
  <1>6. QED  BY <1>4, <1>5

\* PlaceNewestCopy writes the place of the newest copy only (copy_locations.go:199-217).
LEMMA PlacedRows ==
    ASSUME NEW cs \in Seq(Row), NEW e, NEW p \in Places \cup {NoPlace}
    PROVE  /\ PlaceNewestCopy(cs, e, p) \in Seq(Row)
           /\ Len(PlaceNewestCopy(cs, e, p)) = Len(cs)
           /\ DOMAIN PlaceNewestCopy(cs, e, p) = DOMAIN cs
           /\ \A i \in DOMAIN cs :
                /\ PlaceNewestCopy(cs, e, p)[i].book = cs[i].book
                /\ PlaceNewestCopy(cs, e, p)[i].edition = cs[i].edition
                /\ PlaceNewestCopy(cs, e, p)[i].described = cs[i].described
                /\ PlaceNewestCopy(cs, e, p)[i].live = cs[i].live
                /\ i \in Newest(cs, e) => PlaceNewestCopy(cs, e, p)[i].place = p
                /\ i \notin Newest(cs, e) => PlaceNewestCopy(cs, e, p)[i] = cs[i]
  <1> DEFINE f == PlaceNewestCopy(cs, e, p)
  <1>1. \A i \in DOMAIN cs : cs[i] \in Row
    OBVIOUS
  <1>2. f = [i \in DOMAIN cs |->
               IF i \in Newest(cs, e) THEN [cs[i] EXCEPT !.place = p] ELSE cs[i]]
    BY DEF PlaceNewestCopy
  <1>a. ASSUME NEW c \in Row
        PROVE  /\ [c EXCEPT !.place = p] \in Row
               /\ [c EXCEPT !.place = p].book = c.book
               /\ [c EXCEPT !.place = p].edition = c.edition
               /\ [c EXCEPT !.place = p].place = p
               /\ [c EXCEPT !.place = p].described = c.described
               /\ [c EXCEPT !.place = p].live = c.live
    <2>1. p \in Places \cup {NoPlace}
      OBVIOUS
    <2>2. QED  BY <2>1, RowPlace
  <1>3. f \in [DOMAIN cs -> Row]
    BY <1>1, <1>2, <1>a
  <1>4. f \in Seq(Row) /\ Len(f) = Len(cs) /\ DOMAIN f = DOMAIN cs
    BY <1>3, Rewritten
  <1>5. ASSUME NEW i \in DOMAIN cs
        PROVE  /\ f[i].book = cs[i].book /\ f[i].edition = cs[i].edition
               /\ f[i].described = cs[i].described
               /\ f[i].live = cs[i].live
               /\ i \in Newest(cs, e) => f[i].place = p
               /\ i \notin Newest(cs, e) => f[i] = cs[i]
    <2>1. cs[i] \in Row
      BY <1>1
    <2>2. i \in Newest(cs, e) => f[i] = [cs[i] EXCEPT !.place = p]
      BY <1>2
    <2>3. i \notin Newest(cs, e) => f[i] = cs[i]
      BY <1>2
    <2>4. QED  BY <2>1, <2>2, <2>3, <1>a
  <1>6. QED  BY <1>4, <1>5

------------------------------------------------------------------------------
(* Requests *)

\* A request is made, with what it asks for (handlers/copies.go, service/book.go).
Joins(r, pc, kind, b, e, p, u) ==
    /\ request' \in [Requests -> Request]
    /\ request'[r].pc = pc /\ request'[r].kind = kind /\ request'[r].book = b
    /\ request'[r].edition = e /\ request'[r].place = p /\ request'[r].under = u
    /\ request'[r].pick = 0 /\ request'[r].undone = FALSE /\ request'[r].passed = FALSE
    /\ \A q \in Requests \ {r} : request'[q] = request[q]

\* A request goes on, about the same thing.
Goes(r, pc, pick) ==
    /\ request' \in [Requests -> Request]
    /\ request'[r].pc = pc /\ request'[r].kind = request[r].kind
    /\ request'[r].book = request[r].book /\ request'[r].edition = request[r].edition
    /\ request'[r].place = request[r].place /\ request'[r].under = request[r].under
    /\ request'[r].pick = pick /\ request'[r].undone = request[r].undone
    /\ request'[r].passed = request[r].passed
    /\ \A q \in Requests \ {r} : request'[q] = request[q]

\* A request that was not made yet is a request.
LEMMA WaitingFields ==
    /\ Waiting \in Request
    /\ Waiting.pc = "new" /\ Waiting.kind = "none" /\ Waiting.book = NoBook
    /\ Waiting.edition = NoEdition /\ Waiting.place = NoPlace /\ Waiting.under = NoPlace
    /\ Waiting.pick = 0 /\ Waiting.undone = FALSE /\ Waiting.passed = FALSE
  BY DEF Waiting, Request, Points, Kinds

\* Begin makes the request and leaves the others alone.
LEMMA BeginMoves ==
    ASSUME request \in [Requests -> Request], NEW r \in Requests, NEW a \in Request,
           Begin(r, a), a.pick = 0, a.undone = FALSE, a.passed = FALSE
    PROVE  Joins(r, a.pc, a.kind, a.book, a.edition, a.place, a.under)
  <1>1. request' \in [Requests -> Request] /\ request'[r] = a
        /\ \A q \in Requests \ {r} : request'[q] = request[q]
    BY DEF Begin
  <1>2. QED  BY <1>1 DEF Joins

\* Go moves the request's program point and nothing else.
LEMMA GoMoves ==
    ASSUME request \in [Requests -> Request], NEW r \in Requests, NEW pc \in Points, Go(r, pc)
    PROVE  Goes(r, pc, request[r].pick)
  <1> DEFINE a == [request[r] EXCEPT !.pc = pc]
  <1>1. request[r] \in Request
    OBVIOUS
  <1>2. /\ a \in Request /\ a.pc = pc /\ a.kind = request[r].kind /\ a.book = request[r].book
        /\ a.edition = request[r].edition /\ a.place = request[r].place
        /\ a.under = request[r].under /\ a.pick = request[r].pick
        /\ a.undone = request[r].undone /\ a.passed = request[r].passed
    BY <1>1 DEF Request
  <1>3. request' = [request EXCEPT ![r] = a]
    BY DEF Go
  <1> HIDE DEF a
  <1>4. request' \in [Requests -> Request] /\ request'[r] = a
        /\ \A q \in Requests \ {r} : request'[q] = request[q]
    BY <1>2, <1>3
  <1>5. QED  BY <1>2, <1>4 DEF Goes

\* Look moves the program point, what the request works on and what it found.
LEMMA LookMoves ==
    ASSUME request \in [Requests -> Request], NEW r \in Requests, NEW pc \in Points, NEW i \in Nat,
           NEW found \in BOOLEAN, Look(r, pc, i, found)
    PROVE  Goes(r, pc, i) /\ request'[r].found = found
  <1> DEFINE a == [[[request[r] EXCEPT !.pc = pc] EXCEPT !.pick = i] EXCEPT !.found = found]
  <1>1. request[r] \in Request
    OBVIOUS
  <1>2. /\ a \in Request /\ a.pc = pc /\ a.kind = request[r].kind /\ a.book = request[r].book
        /\ a.edition = request[r].edition /\ a.place = request[r].place
        /\ a.under = request[r].under /\ a.pick = i /\ a.found = found
        /\ a.undone = request[r].undone /\ a.passed = request[r].passed
    BY <1>1 DEF Request
  <1>3. request' = [request EXCEPT ![r] = a]
    BY DEF Look
  <1> HIDE DEF a
  <1>4. request' \in [Requests -> Request] /\ request'[r] = a
        /\ \A q \in Requests \ {r} : request'[q] = request[q]
    BY <1>2, <1>3
  <1>5. QED  BY <1>2, <1>4 DEF Goes

\* What can be asked for: a book; an edition, to be filed at a place; the
\* removal of something; a place.
LEMMA AskedBook ==
    ASSUME NEW pc \in Points, NEW kind \in Kinds, NEW b \in Books \cup {NoBook},
           request \in [Requests -> Request], NEW r \in Requests,
           Begin(r, [Waiting EXCEPT !.pc = pc, !.kind = kind, !.book = b])
    PROVE  Joins(r, pc, kind, b, NoEdition, NoPlace, NoPlace)
  <1> DEFINE a == [Waiting EXCEPT !.pc = pc, !.kind = kind, !.book = b]
  <1>1. /\ a \in Request /\ a.pc = pc /\ a.kind = kind /\ a.book = b /\ a.edition = NoEdition
        /\ a.place = NoPlace /\ a.under = NoPlace /\ a.pick = 0
        /\ a.undone = FALSE /\ a.passed = FALSE
    BY WaitingFields DEF Request
  <1>2. Begin(r, a)
    OBVIOUS
  <1> HIDE DEF a
  <1>3. QED  BY <1>1, <1>2, BeginMoves

\* A request for an edition is a request (service/book.go:167-277).
LEMMA AskedEdition ==
    ASSUME NEW pc \in Points, NEW kind \in Kinds, NEW b \in Books, NEW e \in Editions,
           NEW p \in Places \cup {NoPlace},
           request \in [Requests -> Request], NEW r \in Requests,
           Begin(r, [Waiting EXCEPT !.pc = pc, !.kind = kind, !.book = b,
                                    !.edition = e, !.place = p])
    PROVE  Joins(r, pc, kind, b, e, p, NoPlace)
  <1> DEFINE a == [Waiting EXCEPT !.pc = pc, !.kind = kind, !.book = b,
                                  !.edition = e, !.place = p]
  <1>1. /\ a \in Request /\ a.pc = pc /\ a.kind = kind /\ a.book = b /\ a.edition = e
        /\ a.place = p /\ a.under = NoPlace /\ a.pick = 0
        /\ a.undone = FALSE /\ a.passed = FALSE
    BY WaitingFields DEF Request
  <1>2. Begin(r, a)
    OBVIOUS
  <1> HIDE DEF a
  <1>3. QED  BY <1>1, <1>2, BeginMoves

\* A request without arguments is a request.
LEMMA AskedKind ==
    ASSUME NEW pc \in Points, NEW kind \in Kinds,
           request \in [Requests -> Request], NEW r \in Requests,
           Begin(r, [Waiting EXCEPT !.pc = pc, !.kind = kind])
    PROVE  Joins(r, pc, kind, NoBook, NoEdition, NoPlace, NoPlace)
  <1> DEFINE a == [Waiting EXCEPT !.pc = pc, !.kind = kind]
  <1>1. /\ a \in Request /\ a.pc = pc /\ a.kind = kind /\ a.book = NoBook
        /\ a.edition = NoEdition
        /\ a.place = NoPlace /\ a.under = NoPlace /\ a.pick = 0
        /\ a.undone = FALSE /\ a.passed = FALSE
    BY WaitingFields DEF Request
  <1>2. Begin(r, a)
    OBVIOUS
  <1> HIDE DEF a
  <1>3. QED  BY <1>1, <1>2, BeginMoves

\* A request for a place is a request (copy_locations.go:113-193).
LEMMA AskedPlace ==
    ASSUME NEW p \in Places, NEW u \in Places \cup {NoPlace},
           request \in [Requests -> Request], NEW r \in Requests
    PROVE  /\ Begin(r, [Waiting EXCEPT !.pc = "move", !.kind = "move", !.place = p, !.under = u])
                => Joins(r, "move", "move", NoBook, NoEdition, p, u)
           /\ Begin(r, [Waiting EXCEPT !.pc = "delete", !.kind = "delete", !.place = p])
                => Joins(r, "delete", "delete", NoBook, NoEdition, p, NoPlace)
  <1> DEFINE a == [Waiting EXCEPT !.pc = "move", !.kind = "move", !.place = p, !.under = u]
             c == [Waiting EXCEPT !.pc = "delete", !.kind = "delete", !.place = p]
  <1>1. /\ a \in Request /\ a.pc = "move" /\ a.kind = "move" /\ a.book = NoBook
        /\ a.edition = NoEdition
        /\ a.place = p /\ a.under = u /\ a.pick = 0
        /\ a.undone = FALSE /\ a.passed = FALSE
    BY WaitingFields DEF Request, Points, Kinds
  <1>2. /\ c \in Request /\ c.pc = "delete" /\ c.kind = "delete" /\ c.book = NoBook
        /\ c.edition = NoEdition
        /\ c.place = p /\ c.under = NoPlace /\ c.pick = 0
        /\ c.undone = FALSE /\ c.passed = FALSE
    BY WaitingFields DEF Request, Points, Kinds
  <1> HIDE DEF a, c
  <1>3. Begin(r, a) => Joins(r, "move", "move", NoBook, NoEdition, p, u)
    BY <1>1, BeginMoves
  <1>4. Begin(r, c) => Joins(r, "delete", "delete", NoBook, NoEdition, p, NoPlace)
    BY <1>2, BeginMoves
  <1>5. QED  BY <1>3, <1>4 DEF a, c
------------------------------------------------------------------------------
(* Types *)

\* Rows refer to rows that are there.
Filed ==
    /\ copies \in Seq(Row)
    /\ \A i \in DOMAIN copies :
        /\ copies[i].book \in books /\ copies[i].edition \in EditionsOf(copies[i].book)
        /\ copies[i].place \in places \cup {NoPlace}
Catalogued ==
    /\ books \subseteq Books /\ editions \subseteq {e \in Editions : BookOf[e] \in books}
    /\ places \subseteq Places /\ books \cup places \subseteq spent
    /\ spent \subseteq Books \cup Places
Contained ==
    parent \in [Places -> places \cup {NoPlace}] /\ \A p \in Places : parent[p] # p
Asked ==
    request \in [Requests -> Request] /\ \A r \in Requests : request[r].pick \in 0..Len(copies)

\* What only observes: moves that met, and inserts that did.
Watched == raced \in BOOLEAN /\ overlaps \in [Books -> Nat]
\* A step counts inserts that met up, never down.
Counting == Watched' /\ \A b \in Books : overlaps[b] <= overlaps'[b]

\* A step that counts nothing.
LEMMA CountingStays ==
    ASSUME Watched, overlaps' = overlaps, raced' \in BOOLEAN \/ raced' = raced
    PROVE  Counting
  BY DEF Watched, Counting

\* An insert counts as one that met others if there is a copy its look had not found.
LEMMA OverlapCounts ==
    ASSUME Watched, raced' = raced, NEW r, NEW b \in Books, NEW met,
           Overlap(r, b, met), ~request[r].found
    PROVE  Counting /\ (met # {} => overlaps'[b] = overlaps[b] + 1)
  BY DEF Watched, Counting, Overlap

\* The parts of TypeOK, in the order the actions write them.
LEMMA TypeParts ==
    TypeOK <=> Filed /\ Catalogued /\ Contained /\ Asked /\ Watched
  BY DEF TypeOK, Filed, Catalogued, Contained, Asked, Watched

\* CreateBook with an edition nobody has: the copy AddBookToLibrary records
\* takes the edition, and there is no other (service/book.go:204-277).
LEMMA CreatedCopy ==
    ASSUME Filed, Catalogued, NEW e \in Editions, BookOf[e] \notin spent,
           NEW p \in Places \cup {NoPlace}
    PROVE  LET added == SetEditionCopyCount(
                            Append(copies, Copy(BookOf[e], NoEdition, NoPlace, 0)), e, 1)
           IN  PlaceNewestCopy(added, e, p) = Append(copies, Copy(BookOf[e], e, p, 0))
  <1> DEFINE b == BookOf[e]
             c == Copy(b, NoEdition, NoPlace, 0)
             n == Len(copies) + 1
             cs == Append(copies, c)
             d == Copy(b, e, p, 0)
  <1>0. b \in Books /\ BookOf \in [Editions -> Books] /\ NoEdition \notin Editions
    BY HoldingsAssumption
  <1>a. /\ NoEdition \in Editions \cup {NoEdition} /\ e \in Editions \cup {NoEdition}
        /\ NoPlace \in Places \cup {NoPlace} /\ p \in Places \cup {NoPlace} /\ 0 \in {0, 1}
    OBVIOUS
  <1>1. /\ c \in Row /\ c.book = b /\ c.edition = NoEdition /\ c.place = NoPlace
        /\ c.live = TRUE /\ c.described = 0
    BY <1>0, <1>a DEF Copy, Row
  <1>2. /\ d \in Row /\ d.book = b /\ d.edition = e /\ d.place = p
        /\ d.live = TRUE /\ d.described = 0
    BY <1>0, <1>a DEF Copy, Row
  <1>3. /\ cs \in Seq(Row) /\ Len(cs) = n /\ DOMAIN cs = DOMAIN copies \cup {n}
        /\ \A i \in DOMAIN copies : cs[i] = copies[i]
        /\ cs[n] = c /\ n \notin DOMAIN copies
    BY <1>1, Appended DEF Filed
  <1>4. \A i \in DOMAIN copies : copies[i].book # b /\ copies[i].edition # e
    <2>1. SUFFICES ASSUME NEW i \in DOMAIN copies
                   PROVE  copies[i].book # b /\ copies[i].edition # e
      OBVIOUS
    <2>2. copies[i].book \in books /\ books \subseteq spent
      BY DEF Filed, Catalogued
    <2>3. copies[i].edition \in {x \in editions : BookOf[x] = copies[i].book} \cup {NoEdition}
      BY DEF Filed, EditionsOf
    <2>4. QED  BY <2>2, <2>3, <1>0
  <1>5. Printed(cs, e) = {}
    BY <1>0, <1>1, <1>3, <1>4 DEF Printed
  <1>6. Surplus(cs, e, 1) = {}
    BY <1>5 DEF Surplus
  <1>7. Retired(cs, {}) = cs
    <2>2. Retired(cs, {}) = [i \in DOMAIN cs |-> cs[i]]
      BY DEF Retired
    <2>3. cs = [i \in DOMAIN cs |-> cs[i]]
      BY <1>3
    <2>4. QED  BY <2>2, <2>3
  <1>8. Editionless(cs, b) = {n}
    BY <1>1, <1>3, <1>4 DEF Editionless, Held
  <1>9. Cardinality({}) = 0
    BY FS_EmptySet
  <1>10. Shortfall(cs, e, 1) = 1
    BY <1>5, <1>9 DEF Shortfall
  <1>11. n \in Nat
    BY <1>3 DEF Filed
  <1>12. Adopting(cs, e, 1) = {n}
    <2>1. {j \in {n} : j < n} = {}
      BY <1>11
    <2>2. Adopting(cs, e, 1) = {i \in {n} : Cardinality({j \in {n} : j < i}) < 1}
      BY <1>8, <1>10 DEF Adopting
    <2>3. Cardinality({j \in {n} : j < n}) < 1
      <3> HIDE DEF n
      <3>1. Cardinality({j \in {n} : j < n}) = 0
        BY <2>1, <1>9
      <3>2. QED  BY <3>1
    <2> HIDE DEF n
    <2>4. QED  BY <2>2, <2>3, Zenon
  <1> DEFINE ad == Adopted(cs, e, {n})
  <1>13. /\ ad \in Seq(Row) /\ Len(ad) = n /\ DOMAIN ad = DOMAIN cs
         /\ ad[n].book = b /\ ad[n].place = NoPlace /\ ad[n].live = TRUE /\ ad[n].edition = e
         /\ ad[n].described = 0
         /\ \A i \in DOMAIN copies : ad[i] = copies[i]
    <2> HIDE DEF cs, n
    <2>1. /\ ad \in Seq(Row) /\ Len(ad) = Len(cs) /\ DOMAIN ad = DOMAIN cs
          /\ \A i \in DOMAIN cs :
                /\ ad[i].book = cs[i].book /\ ad[i].place = cs[i].place
                /\ ad[i].live = cs[i].live
                /\ i \in {n} => ad[i].edition = e
                /\ i \notin {n} => ad[i] = cs[i]
      BY <1>3, <1>a, AdoptedRows
    <2>2. ad[n] = [cs[n] EXCEPT !.edition = e]
      BY <1>3 DEF Adopted
    <2>3. ad[n].described = 0
      BY <2>2, <1>a, <1>1, <1>3 DEF Row
    <2> HIDE DEF ad, cs, n
    <2>4. QED  BY <2>1, <2>3, <1>1, <1>3
  <1> HIDE DEF ad
  <1>14. Printed(ad, e) = {n}
    BY <1>3, <1>4, <1>13 DEF Printed
  <1>15. Cardinality({n}) = 1
    BY FS_Singleton
  <1>16. Shortfall(ad, e, 1) = 0
    BY <1>14, <1>15 DEF Shortfall
  <1>17. ToppedUp(ad, e, 1) = ad
    <2>1. ToppedUp(ad, e, 1) = ad \o [i \in 1..0 |-> Copy(BookOf[e], e, NoPlace, 0)]
      BY <1>16 DEF ToppedUp
    <2>2. [i \in 1..0 |-> Copy(BookOf[e], e, NoPlace, 0)] = << >>
      <3>1. 1..0 = {}
        OBVIOUS
      <3>2. QED  BY <3>1
    <2>3. ad \o << >> = ad
      BY <1>13
    <2>4. QED  BY <2>1, <2>2, <2>3
  <1>18. SetEditionCopyCount(cs, e, 1) = ad
    <2>1. Retired(cs, Surplus(cs, e, 1)) = cs
      BY <1>6, <1>7
    <2>2. Adopted(cs, e, Adopting(cs, e, 1)) = ad
      BY <1>12 DEF ad
    <2>3. 1 # 0
      OBVIOUS
    <2> HIDE DEF cs
    <2>4. QED  BY <2>1, <2>2, <2>3, <1>17, Zenon DEF SetEditionCopyCount
  <1>19. Newest(ad, e) = {n}
    BY <1>14, <1>11 DEF Newest
  <1> DEFINE f == PlaceNewestCopy(ad, e, p)
  <1>20. /\ f \in Seq(Row) /\ Len(f) = n /\ DOMAIN f = DOMAIN cs
         /\ f[n] \in Row
         /\ f[n].book = b /\ f[n].place = p /\ f[n].live = TRUE /\ f[n].edition = e
         /\ f[n].described = 0
         /\ \A i \in DOMAIN copies : f[i] = copies[i]
    <2>1. /\ f \in Seq(Row) /\ Len(f) = Len(ad) /\ DOMAIN f = DOMAIN ad
          /\ \A i \in DOMAIN ad :
                /\ f[i].book = ad[i].book /\ f[i].edition = ad[i].edition
                /\ f[i].described = ad[i].described
                /\ f[i].live = ad[i].live
                /\ i \in Newest(ad, e) => f[i].place = p
                /\ i \notin Newest(ad, e) => f[i] = ad[i]
      BY <1>13, PlacedRows
    <2> HIDE DEF f, cs, n
    <2>2. f[n] \in Row
      BY <2>1, <1>3, <1>13
    <2>3. QED  BY <2>1, <2>2, <1>3, <1>13, <1>19
  <1> HIDE DEF f
  <1>21. f[n] = d
    BY <1>20, <1>2 DEF Row
  <1>22. /\ Append(copies, d) \in Seq(Row) /\ Len(Append(copies, d)) = n
         /\ DOMAIN Append(copies, d) = DOMAIN copies \cup {n}
         /\ \A i \in DOMAIN copies : Append(copies, d)[i] = copies[i]
         /\ Append(copies, d)[n] = d
    BY <1>2, Appended DEF Filed
  <1>23. f = Append(copies, d)
    <2> DEFINE g == Append(copies, d)
    <2>a. \A h \in Seq(Row) : h = [i \in DOMAIN h |-> h[i]]
      OBVIOUS
    <2> HIDE DEF n, d, cs, g
    <2>1. DOMAIN f = DOMAIN g /\ \A i \in DOMAIN f : f[i] = g[i]
      BY <1>3, <1>20, <1>21, <1>22 DEF g
    <2>2. f = [i \in DOMAIN f |-> f[i]]
      BY <1>20
    <2>5. g = [i \in DOMAIN g |-> g[i]]
      BY <1>22, <2>a DEF g
    <2>3. f = g
      BY <2>1, <2>2, <2>5
    <2>4. QED  BY <2>3 DEF g
  <1>24. QED  BY <1>18, <1>23 DEF f
\* A statement that writes copies leaves their books, and brings none back
\* (UPDATE copies; deleted_at is never cleared).
Writes ==
    /\ copies' \in Seq(Row) /\ Len(copies') = Len(copies) /\ DOMAIN copies' = DOMAIN copies
    /\ \A i \in DOMAIN copies :
        copies'[i].book = copies[i].book /\ (copies'[i].live => copies[i].live)
Inserts(c) == c \in Row /\ copies' = Append(copies, c)

\* One row written, with another edition, place and description or some of
\* them (copies.go:195-249, editions.go:322-341).
LEMMA OneRow ==
    ASSUME copies \in Seq(Row), NEW i \in DOMAIN copies, NEW c \in Row,
           c.book = copies[i].book, c.live = copies[i].live,
           copies' = [copies EXCEPT ![i] = c]
    PROVE  /\ Writes /\ copies'[i] = c
           /\ \A j \in DOMAIN copies : j # i => copies'[j] = copies[j]
  <1>1. copies' \in [DOMAIN copies -> Row]
    OBVIOUS
  <1>2. copies' \in Seq(Row) /\ Len(copies') = Len(copies) /\ DOMAIN copies' = DOMAIN copies
    BY <1>1, Rewritten
  <1>3. copies'[i] = c /\ \A j \in DOMAIN copies : j # i => copies'[j] = copies[j]
    OBVIOUS
  <1>4. QED  BY <1>2, <1>3 DEF Writes

\* A row that is inserted refers to rows that are there, as the others do.
LEMMA FiledInsert ==
    ASSUME Filed, NEW c, Inserts(c), books \subseteq books', editions \subseteq editions',
           places' = places, c.book \in books', c.place \in places \cup {NoPlace},
           c.edition \in {e \in editions' : BookOf[e] = c.book} \cup {NoEdition}
    PROVE  Filed'
  <1>1. /\ copies' \in Seq(Row) /\ DOMAIN copies' = DOMAIN copies \cup {Len(copies) + 1}
        /\ \A i \in DOMAIN copies : copies'[i] = copies[i]
        /\ copies'[Len(copies) + 1] = c
    BY Appended DEF Filed, Inserts
  <1>2. ASSUME NEW i \in DOMAIN copies'
        PROVE  /\ copies'[i].book \in books'
               /\ copies'[i].edition \in {e \in editions' : BookOf[e] = copies'[i].book}
                                            \cup {NoEdition}
               /\ copies'[i].place \in places' \cup {NoPlace}
    <2>1. CASE i \in DOMAIN copies
      BY <1>1, <2>1 DEF Filed, EditionsOf
    <2>2. CASE i = Len(copies) + 1
      BY <1>1, <2>2
    <2>3. QED  BY <1>1, <2>1, <2>2
  <1>3. QED  BY <1>1, <1>2 DEF Filed, EditionsOf

\* Which rows a statement leaves, written or not, still refer to rows that are
\* there.
LEMMA FiledWrite ==
    ASSUME Writes,
           \A i \in DOMAIN copies :
              /\ copies[i].book \in books'
              /\ copies'[i].edition \in {e \in editions' : BookOf[e] = copies[i].book}
                                            \cup {NoEdition}
              /\ copies'[i].place \in places' \cup {NoPlace}
    PROVE  Filed'
  BY DEF Filed, Writes, EditionsOf

\* A step that leaves the copies alone and takes no row away keeps them well filed.
LEMMA SameRows ==
    ASSUME copies \in Seq(Row), copies' = copies
    PROVE  Writes
  BY DEF Writes

\* InsertCopy and CreateCopy.
LEMMA InsertCopyMoves ==
    ASSUME TypeOK, NEW r \in Requests, InsertCopy(r), Sound(r)
    PROVE  \/ /\ request[r].book \notin books /\ copies' = copies /\ Go(r, "failed")
              /\ overlaps' = overlaps
           \/ /\ Inserts(Copy(request[r].book, NoEdition, NoPlace, 0))
              /\ request[r].book \in books /\ Go(r, AfterAdding(r))
              /\ Overlap(r, request[r].book, Held(copies, request[r].book))
  <1>1. request[r].book \in Books
    BY DEF InsertCopy, At, Sound
  <1>2. NoEdition \in Editions \cup {NoEdition} /\ NoPlace \in Places \cup {NoPlace} /\ 0 \in {0, 1}
    OBVIOUS
  <1>3. Copy(request[r].book, NoEdition, NoPlace, 0) \in Row
    BY <1>1, <1>2, CopyIsRow
  <1>4. QED  BY <1>3 DEF InsertCopy, Inserts

\* What AdoptCopy does to copies: it writes one or inserts one (editions.go:318-341).
LEMMA AdoptCopyMoves ==
    ASSUME TypeOK, NEW r \in Requests, AdoptCopy(r), Sound(r)
    PROVE  LET e == request[r].edition
               i == request[r].pick
           IN  /\ request[r].kind \in {"scan", "import"}
               /\ e \in Editions /\ request[r].book = BookOf[e] /\ i \in 0..Len(copies)
               /\ \/ /\ e \in editions /\ i # 0 /\ i \in DOMAIN copies
                     /\ copies[i].book = BookOf[e]
                     /\ Writes /\ copies'[i] = [copies[i] EXCEPT !.edition = e]
                     /\ \A j \in DOMAIN copies : j # i => copies'[j] = copies[j]
                     /\ Go(r, Filing(r)) /\ overlaps' = overlaps
                  \/ /\ e \in editions /\ i = 0 /\ Inserts(Copy(BookOf[e], e, NoPlace, 0))
                     /\ Go(r, Filing(r))
                     /\ Overlap(r, BookOf[e], Editionless(copies, BookOf[e]))
                  \/ /\ e \notin editions /\ Go(r, "failed") /\ copies' = copies
                     /\ overlaps' = overlaps
  <1> DEFINE e == request[r].edition
             i == request[r].pick
  <1>1. copies \in Seq(Row) /\ i \in 0..Len(copies) /\ BookOf \in [Editions -> Books]
    BY HoldingsAssumption DEF TypeOK
  <1>2. At(r, "adopt") /\ request[r].kind \in {"scan", "import"}
        /\ e \in Editions /\ request[r].book = BookOf[e]
        /\ (i # 0 => copies[i].book = request[r].book)
    BY DEF AdoptCopy, At, Sound
  <1>3. CASE /\ e \in editions /\ i # 0
             /\ copies' = [copies EXCEPT ![i].edition = e] /\ Go(r, Filing(r))
             /\ overlaps' = overlaps
    <2> DEFINE c == [copies[i] EXCEPT !.edition = e]
    <2>1. i \in DOMAIN copies
      BY <1>1, <1>3
    <2>2. copies[i] \in Row /\ e \in Editions \cup {NoEdition}
      BY <1>1, <1>2, <2>1
    <2>3. c \in Row /\ c.book = copies[i].book /\ c.live = copies[i].live
      BY <2>2 DEF Row
    <2>4. copies' = [copies EXCEPT ![i] = c]
      BY <1>3
    <2> HIDE DEF c
    <2>5. Writes /\ copies'[i] = c /\ \A j \in DOMAIN copies : j # i => copies'[j] = copies[j]
      BY <1>1, <2>1, <2>3, <2>4, OneRow
    <2>6. QED  BY <1>1, <1>2, <1>3, <2>1, <2>5 DEF c
  <1>4. CASE /\ e \in editions /\ i = 0
             /\ copies' = Append(copies, Copy(BookOf[e], e, NoPlace, 0))
             /\ Go(r, Filing(r))
             /\ Overlap(r, BookOf[e], Editionless(copies, BookOf[e]))
    <2>1. Copy(BookOf[e], e, NoPlace, 0) \in Row
      BY <1>1, <1>2 DEF Copy, Row
    <2>2. Inserts(Copy(BookOf[e], e, NoPlace, 0))
      BY <1>4, <2>1 DEF Inserts
    <2>3. QED  BY <1>1, <1>2, <1>4, <2>2
  <1>5. CASE e \notin editions /\ Go(r, "failed") /\ UNCHANGED <<copies, overlaps>>
    BY <1>1, <1>2, <1>5
  <1>6. QED  BY <1>3, <1>4, <1>5 DEF AdoptCopy

\* What FileCopy does to copies: it writes the place of one (copy_locations.go:199-217).
LEMMA FileCopyMoves ==
    ASSUME TypeOK, NEW r \in Requests, FileCopy(r)
    PROVE  /\ Writes
           /\ \A i \in DOMAIN copies :
                /\ copies'[i].edition = copies[i].edition /\ copies'[i].live = copies[i].live
                /\ copies'[i].place \in places \cup {NoPlace}
           /\ Go(r, "done") \/ Go(r, "failed")
  <1> DEFINE e == request[r].edition
             p == request[r].place
  <1>1. Filed /\ copies \in Seq(Row) /\ p \in Places \cup {NoPlace}
    BY TypeParts DEF Filed, Asked, Request
  <1>2. CASE p \notin places /\ Go(r, "failed") /\ UNCHANGED copies
    BY <1>1, <1>2, SameRows DEF Filed
  <1>3. CASE /\ p \in places \/ Printed(copies, e) = {}
             /\ copies' = PlaceNewestCopy(copies, e, p) /\ Go(r, "done")
    <2>1. /\ copies' \in Seq(Row)
          /\ Len(copies') = Len(copies)
          /\ DOMAIN copies' = DOMAIN copies
          /\ \A i \in DOMAIN copies :
                /\ copies'[i].book = copies[i].book
                /\ copies'[i].edition = copies[i].edition
                /\ copies'[i].live = copies[i].live
                /\ i \in Newest(copies, e) => copies'[i].place = p
                /\ i \notin Newest(copies, e) => copies'[i] = copies[i]
      BY <1>1, <1>3, PlacedRows
    <2>2. Newest(copies, e) = {} \/ p \in places
      BY <1>3 DEF Newest
    <2>3. \A i \in DOMAIN copies : copies'[i].place \in places \cup {NoPlace}
      BY <1>1, <2>1, <2>2 DEF Filed
    <2>4. QED  BY <1>3, <2>1, <2>3 DEF Writes
  <1>4. QED  BY <1>2, <1>3 DEF FileCopy

\* What UpdateCopy does to copies: it writes one (copies.go:195-249).
LEMMA UpdateCopyMoves ==
    ASSUME TypeOK, NEW r \in Requests, UpdateCopy(r)
    PROVE  \E i \in DOMAIN copies : \E e \in EditionsOf(copies[i].book) :
              /\ copies[i].live /\ Writes
              /\ copies'[i].edition = e /\ copies'[i].live = copies[i].live
              /\ copies'[i].place \in places \cup {NoPlace}
              /\ \A j \in DOMAIN copies : j # i => copies'[j] = copies[j]
              /\ Joins(r, "done", "edit",
                       IF copies[i].edition = NoEdition THEN copies[i].book ELSE NoBook,
                       NoEdition, NoPlace, NoPlace)
  <1>1. copies \in Seq(Row) /\ request \in [Requests -> Request] /\ editions \subseteq Editions
        /\ places \subseteq Places
    BY DEF TypeOK
  <1>2. PICK i \in DOMAIN copies, p \in places \cup {NoPlace}, d \in {0, 1} :
        \E e \in EditionsOf(copies[i].book) :
        /\ copies[i].live
        /\ copies' = [copies EXCEPT ![i].edition = e, ![i].place = p, ![i].described = d]
        /\ Begin(r, [Waiting EXCEPT !.pc = "done", !.kind = "edit",
               !.book = IF copies[i].edition = NoEdition THEN copies[i].book ELSE NoBook])
    BY DEF UpdateCopy
  <1>3. PICK e \in EditionsOf(copies[i].book) :
        /\ copies[i].live
        /\ copies' = [copies EXCEPT ![i].edition = e, ![i].place = p, ![i].described = d]
        /\ Begin(r, [Waiting EXCEPT !.pc = "done", !.kind = "edit",
               !.book = IF copies[i].edition = NoEdition THEN copies[i].book ELSE NoBook])
    BY <1>2
  <1> DEFINE c == [[[copies[i] EXCEPT !.edition = e] EXCEPT !.place = p] EXCEPT !.described = d]
             b == IF copies[i].edition = NoEdition THEN copies[i].book ELSE NoBook
  <1>4. copies[i] \in Row /\ e \in Editions \cup {NoEdition} /\ p \in Places \cup {NoPlace}
    BY <1>1 DEF EditionsOf
  <1>5. c \in Row /\ c.book = copies[i].book /\ c.live = copies[i].live /\ c.edition = e
        /\ c.place = p
    BY <1>4 DEF Row
  <1>6. copies' = [copies EXCEPT ![i] = c]
    BY <1>3
  <1>7. b \in Books \cup {NoBook}
    BY <1>4 DEF Row
  <1>8. Begin(r, [Waiting EXCEPT !.pc = "done", !.kind = "edit", !.book = b])
    BY <1>3
  <1> HIDE DEF c, b
  <1>9. Writes /\ copies'[i] = c /\ \A j \in DOMAIN copies : j # i => copies'[j] = copies[j]
    BY <1>1, <1>5, <1>6, OneRow
  <1>10. "done" \in Points /\ "edit" \in Kinds
    BY DEF Points, Kinds
  <1>11. Joins(r, "done", "edit", b, NoEdition, NoPlace, NoPlace)
    BY <1>1, <1>7, <1>8, <1>10, AskedBook
  <1>12. QED  BY <1>3, <1>5, <1>9, <1>11 DEF b

\* The other requests about a book learn that a copy of it is removed.
Told(r, b) == \A q \in Requests \ {r} : request[q].book = b => request'[q].undone

\* Copies are retired, and the requests about their book learn of it
\* (copies.go:253-265, library_books.go:72-85).
LEMMA RemoveMoves ==
    ASSUME TypeOK, NEW r \in Requests, NEW b, NEW is, Remove(r, b, is)
    PROVE  /\ Writes
           /\ \A i \in DOMAIN copies :
                /\ copies'[i].edition = copies[i].edition /\ copies'[i].place = copies[i].place
                /\ i \in is => copies'[i].live = FALSE
                /\ i \notin is => copies'[i] = copies[i]
           /\ request' \in [Requests -> Request]
           /\ request'[r].pc = "done" /\ request'[r].kind = "remove" /\ request'[r].book = NoBook
           /\ request'[r].pick = 0
           /\ \A q \in Requests \ {r} :
                /\ request'[q].pc = request[q].pc /\ request'[q].kind = request[q].kind
                /\ request'[q].book = request[q].book /\ request'[q].edition = request[q].edition
                /\ request'[q].place = request[q].place /\ request'[q].under = request[q].under
                /\ request'[q].pick = request[q].pick /\ request'[q].passed = request[q].passed
                /\ request'[q].found = request[q].found
                /\ request[q].undone => request'[q].undone
           /\ Told(r, b)
  <1>1. copies \in Seq(Row) /\ request \in [Requests -> Request]
    BY DEF TypeOK
  <1>2. copies' = Retired(copies, is)
    BY DEF Remove
  <1>3. /\ copies' \in Seq(Row)
        /\ Len(copies') = Len(copies)
        /\ DOMAIN copies' = DOMAIN copies
        /\ \A i \in DOMAIN copies :
            /\ copies'[i].book = copies[i].book
            /\ copies'[i].edition = copies[i].edition
            /\ copies'[i].place = copies[i].place
            /\ i \in is => copies'[i].live = FALSE
            /\ i \notin is => copies'[i] = copies[i]
    BY <1>1, <1>2, RetiredRows
  <1>4. Writes
    BY <1>3 DEF Writes
  <1> DEFINE a == [Waiting EXCEPT !.pc = "done", !.kind = "remove"]
             c(q) == [request[q] EXCEPT !.undone = @ \/ request[q].book = b]
  <1>5. a \in Request /\ a.pc = "done" /\ a.kind = "remove" /\ a.book = NoBook /\ a.pick = 0
    BY WaitingFields DEF Request, Points, Kinds
  <1>6. ASSUME NEW q \in Requests
        PROVE  /\ c(q) \in Request
               /\ c(q).pc = request[q].pc /\ c(q).kind = request[q].kind
               /\ c(q).book = request[q].book /\ c(q).edition = request[q].edition
               /\ c(q).place = request[q].place /\ c(q).under = request[q].under
               /\ c(q).pick = request[q].pick /\ c(q).passed = request[q].passed
               /\ c(q).found = request[q].found
               /\ c(q).undone = (request[q].undone \/ request[q].book = b)
    <2>1. request[q] \in Request
      BY <1>1
    <2>2. PICK u \in BOOLEAN : u = (request[q].undone \/ request[q].book = b)
      OBVIOUS
    <2>3. c(q) = [request[q] EXCEPT !.undone = u]
      BY <2>2
    <2>4. /\ c(q) \in Request
          /\ c(q).pc = request[q].pc /\ c(q).kind = request[q].kind
          /\ c(q).book = request[q].book /\ c(q).edition = request[q].edition
          /\ c(q).place = request[q].place /\ c(q).under = request[q].under
          /\ c(q).pick = request[q].pick /\ c(q).passed = request[q].passed
          /\ c(q).found = request[q].found
          /\ c(q).undone = u
      BY <2>1, <2>3 DEF Request
    <2> HIDE DEF c
    <2>5. QED  BY <2>2, <2>4
  <1>7. request' = [q \in Requests |-> IF q = r THEN a ELSE c(q)]
    BY DEF Remove
  <1> HIDE DEF a, c
  <1>8. /\ request' \in [Requests -> Request] /\ request'[r] = a
        /\ \A q \in Requests \ {r} : request'[q] = c(q)
    BY <1>5, <1>6, <1>7
  <1>9. \A q \in Requests \ {r} :
            /\ request[q].undone => request'[q].undone
            /\ request[q].book = b => request'[q].undone
    BY <1>6, <1>8, Zenon
  <1>12. Told(r, b)
    BY <1>9 DEF Told
  <1>10. \A q \in Requests \ {r} :
            /\ request'[q].pc = request[q].pc /\ request'[q].kind = request[q].kind
            /\ request'[q].book = request[q].book /\ request'[q].edition = request[q].edition
            /\ request'[q].place = request[q].place /\ request'[q].under = request[q].under
            /\ request'[q].pick = request[q].pick /\ request'[q].passed = request[q].passed
            /\ request'[q].found = request[q].found
    BY <1>6, <1>8
  <1>11. QED  BY <1>3, <1>4, <1>5, <1>8, <1>9, <1>10, <1>12

\* The copies of an edition that is deleted lose it (ON DELETE SET NULL).
LEMMA DeleteEditionMoves ==
    ASSUME TypeOK, NEW r \in Requests, DeleteEdition(r)
    PROVE  \E e \in editions :
            /\ editions' = editions \ {e} /\ Writes
            /\ \A i \in DOMAIN copies :
                /\ copies'[i].place = copies[i].place /\ copies'[i].live = copies[i].live
                /\ copies[i].edition = e => copies'[i].edition = NoEdition
                /\ copies[i].edition # e => copies'[i] = copies[i]
            /\ Joins(r, "done", "remove", NoBook, NoEdition, NoPlace, NoPlace)
  <1>1. copies \in Seq(Row) /\ request \in [Requests -> Request]
    BY DEF TypeOK
  <1>2. PICK e \in editions :
        /\ editions' = editions \ {e}
        /\ copies' = [i \in DOMAIN copies |-> IF copies[i].edition = e
                        THEN [copies[i] EXCEPT !.edition = NoEdition] ELSE copies[i]]
    BY DEF DeleteEdition
  <1>3. ASSUME NEW i \in DOMAIN copies
        PROVE  /\ copies'[i] \in Row /\ copies'[i].book = copies[i].book
               /\ copies'[i].place = copies[i].place /\ copies'[i].live = copies[i].live
               /\ copies[i].edition = e => copies'[i].edition = NoEdition
               /\ copies[i].edition # e => copies'[i] = copies[i]
    <2>1. copies[i] \in Row
      BY <1>1
    <2>2. CASE copies[i].edition = e
      <3>1. copies'[i] = [copies[i] EXCEPT !.edition = NoEdition]
        BY <1>2, <2>2
      <3>2. QED  BY <2>1, <2>2, <3>1 DEF Row
    <2>3. CASE copies[i].edition # e
      <3>1. copies'[i] = copies[i]
        BY <1>2, <2>3
      <3>2. QED  BY <2>1, <2>3, <3>1
    <2>4. QED  BY <2>2, <2>3
  <1>4. copies' \in [DOMAIN copies -> Row]
    BY <1>2, <1>3
  <1>5. copies' \in Seq(Row) /\ Len(copies') = Len(copies) /\ DOMAIN copies' = DOMAIN copies
    BY <1>1, <1>4, Rewritten
  <1>6. Writes
    BY <1>3, <1>5 DEF Writes
  <1>8. Joins(r, "done", "remove", NoBook, NoEdition, NoPlace, NoPlace)
    <2>1. "done" \in Points /\ "remove" \in Kinds
      BY DEF Points, Kinds
    <2>2. QED  BY <1>1, <2>1, AskedKind DEF DeleteEdition
  <1>9. QED  BY <1>2, <1>3, <1>6, <1>8

\* The copies filed at a place that is deleted are filed nowhere.
LEMMA DeletePlaceMoves ==
    ASSUME TypeOK, NEW r \in Requests, DeletePlace(r)
    PROVE  \/ /\ request[r].place \in places /\ places' = places \ {request[r].place}
              /\ Go(r, "done") /\ Writes
              /\ parent' = [q \in Places |-> IF q = request[r].place \/ parent[q] = request[r].place
                                             THEN NoPlace ELSE parent[q]]
              /\ \A i \in DOMAIN copies :
                    /\ copies'[i].edition = copies[i].edition
                    /\ copies'[i].live = copies[i].live
                    /\ copies'[i].place \in {copies[i].place, NoPlace} \ {request[r].place}
           \/ Go(r, "failed") /\ places' = places /\ parent' = parent /\ copies' = copies
  <1> DEFINE p == request[r].place
  <1>1. copies \in Seq(Row)
    BY DEF TypeOK
  <1>2. CASE p \notin places /\ Go(r, "failed") /\ UNCHANGED <<places, parent, copies>>
    BY <1>2
  <1>3. CASE /\ p \in places /\ places' = places \ {p} /\ Go(r, "done")
             /\ parent' = [q \in Places |-> IF q = p \/ parent[q] = p
                                             THEN NoPlace ELSE parent[q]]
             /\ copies' = [i \in DOMAIN copies |-> IF copies[i].place = p
                              THEN [copies[i] EXCEPT !.place = NoPlace] ELSE copies[i]]
    <2>1. ASSUME NEW i \in DOMAIN copies
          PROVE  /\ copies'[i] \in Row /\ copies'[i].book = copies[i].book
                 /\ copies'[i].edition = copies[i].edition /\ copies'[i].live = copies[i].live
                 /\ copies'[i].place \in {copies[i].place, NoPlace} \ {p}
      <3>1. copies[i] \in Row /\ NoPlace \in Places \cup {NoPlace}
        BY <1>1
      <3>2. p # NoPlace
        BY <1>3, HoldingsAssumption DEF TypeOK
      <3>3. CASE copies[i].place = p
        <4>1. copies'[i] = [copies[i] EXCEPT !.place = NoPlace]
          BY <1>3, <3>3
        <4>2. QED  BY <3>1, <3>2, <4>1 DEF Row
      <3>4. CASE copies[i].place # p
        <4>1. copies'[i] = copies[i]
          BY <1>3, <3>4
        <4>2. QED  BY <3>1, <3>4, <4>1
      <3>5. QED  BY <3>3, <3>4
    <2>2. copies' \in [DOMAIN copies -> Row]
      BY <1>3, <2>1
    <2>3. copies' \in Seq(Row) /\ Len(copies') = Len(copies) /\ DOMAIN copies' = DOMAIN copies
      BY <1>1, <2>2, Rewritten
    <2>4. Writes
      BY <2>1, <2>3 DEF Writes
    <2>5. QED  BY <1>3, <2>1, <2>4
  <1>4. QED  BY <1>2, <1>3 DEF DeletePlace

\* A place is moved, and the moves that are still to come learn of it
\* (copy_locations.go:181-193).
LEMMA MovePlaceMoves ==
    ASSUME TypeOK, NEW r \in Requests, MovePlace(r)
    PROVE  \/ /\ request[r].place \in places /\ request[r].under \in places \cup {NoPlace}
              /\ parent' = [parent EXCEPT ![request[r].place] = request[r].under]
              /\ raced' = (raced \/ request[r].passed)
              /\ request' \in [Requests -> Request]
              /\ request'[r].pc = "done" /\ request'[r].kind = request[r].kind
              /\ request'[r].book = request[r].book /\ request'[r].edition = request[r].edition
              /\ request'[r].place = request[r].place /\ request'[r].under = request[r].under
              /\ request'[r].pick = request[r].pick /\ request'[r].undone = request[r].undone
              /\ \A q \in Requests \ {r} :
                    /\ request'[q].pc = request[q].pc /\ request'[q].kind = request[q].kind
                    /\ request'[q].book = request[q].book
                    /\ request'[q].edition = request[q].edition
                    /\ request'[q].place = request[q].place
                    /\ request'[q].under = request[q].under
                    /\ request'[q].pick = request[q].pick /\ request'[q].found = request[q].found
                    /\ request'[q].undone = request[q].undone
                    /\ request'[q].passed = (request[q].passed \/ At(q, "move"))
           \/ Go(r, "failed") /\ parent' = parent /\ raced' = raced
  <1> DEFINE a == [request[r] EXCEPT !.pc = "done"]
             c(q) == [request[q] EXCEPT !.passed = @ \/ At(q, "move")]
  <1>1. request \in [Requests -> Request]
    BY DEF TypeOK
  <1>2. CASE /\ request[r].place \in places /\ request[r].under \in places \cup {NoPlace}
             /\ parent' = [parent EXCEPT ![request[r].place] = request[r].under]
             /\ raced' = (raced \/ request[r].passed)
             /\ request' = [q \in Requests |-> IF q = r THEN a ELSE c(q)]
    <2>1. /\ a \in Request /\ a.pc = "done" /\ a.kind = request[r].kind
          /\ a.book = request[r].book /\ a.edition = request[r].edition
          /\ a.place = request[r].place /\ a.under = request[r].under
          /\ a.pick = request[r].pick /\ a.undone = request[r].undone
      <3>1. request[r] \in Request
        BY <1>1
      <3>2. QED  BY <3>1 DEF Request, Points
    <2>2. ASSUME NEW q \in Requests
          PROVE  /\ c(q) \in Request
                 /\ c(q).pc = request[q].pc /\ c(q).kind = request[q].kind
                 /\ c(q).book = request[q].book /\ c(q).edition = request[q].edition
                 /\ c(q).place = request[q].place /\ c(q).under = request[q].under
                 /\ c(q).pick = request[q].pick /\ c(q).undone = request[q].undone
                 /\ c(q).found = request[q].found
                 /\ c(q).passed = (request[q].passed \/ At(q, "move"))
      <3>1. request[q] \in Request
        BY <1>1
      <3>2. PICK u \in BOOLEAN : u = (request[q].passed \/ At(q, "move"))
        OBVIOUS
      <3>3. c(q) = [request[q] EXCEPT !.passed = u]
        BY <3>2
      <3>4. /\ c(q) \in Request
            /\ c(q).pc = request[q].pc /\ c(q).kind = request[q].kind
            /\ c(q).book = request[q].book /\ c(q).edition = request[q].edition
            /\ c(q).place = request[q].place /\ c(q).under = request[q].under
            /\ c(q).pick = request[q].pick /\ c(q).undone = request[q].undone
            /\ c(q).found = request[q].found
            /\ c(q).passed = u
        BY <3>1, <3>3 DEF Request
      <3> HIDE DEF c
      <3>5. QED  BY <3>2, <3>4
    <2> HIDE DEF a, c
    <2>3. /\ request' \in [Requests -> Request] /\ request'[r] = a
          /\ \A q \in Requests \ {r} : request'[q] = c(q)
      BY <1>2, <2>1, <2>2
    <2>4. QED  BY <1>2, <2>1, <2>2, <2>3
  <1>3. CASE Go(r, "failed") /\ UNCHANGED <<parent, raced>>
    BY <1>3
  <1>4. QED  BY <1>2, <1>3 DEF MovePlace
------------------------------------------------------------------------------
(* Every step keeps the types, and what requests rely on *)

OthersGoOn(r) ==
    /\ request' \in [Requests -> Request]
    /\ \A q \in Requests \ {r} :
        /\ request'[q].pc = request[q].pc /\ request'[q].kind = request[q].kind
        /\ request'[q].book = request[q].book /\ request'[q].edition = request[q].edition
        /\ request'[q].place = request[q].place /\ request'[q].under = request[q].under
        /\ request'[q].pick = request[q].pick /\ request'[q].found = request[q].found
        /\ request[q].undone => request'[q].undone
        /\ request[q].passed => request'[q].passed

BooksStay ==
    /\ copies' \in Seq(Row) /\ Len(copies) <= Len(copies')
    /\ \A i \in DOMAIN copies : i \in DOMAIN copies' /\ copies'[i].book = copies[i].book

Well(r) ==
    TypeOK' /\ OthersGoOn(r) /\ Sound(r)' /\ BooksStay /\ spent \subseteq spent' /\ Counting

\* A request that is made relies on nothing it does not have.
LEMMA JoinsWell ==
    ASSUME NEW r \in Requests, NEW pc, NEW kind, NEW b, NEW e, NEW p, NEW u,
           Joins(r, pc, kind, b, e, p, u)
    PROVE  /\ OthersGoOn(r) /\ request'[r].pick = 0
           /\ pc = "done" /\ kind \notin {"scan", "import"} => Sound(r)'
           /\ pc \in {"look", "choose", "done"} /\ kind \in {"scan", "import"} /\ e \in Editions
                 /\ b = BookOf[e] /\ b \in Books => Sound(r)'
           /\ pc = "look" /\ kind = "add" /\ b \in Books => Sound(r)'
           /\ pc = "move" /\ kind = "move" /\ p \in Places /\ u # p /\ u \in spent' \cup {NoPlace}
                 => Sound(r)'
           /\ pc = "delete" /\ kind = "delete" /\ p \in Places => Sound(r)'
  <1>1. OthersGoOn(r) /\ request'[r].pick = 0
    BY DEF Joins, OthersGoOn
  <1>2. pc = "done" /\ kind \notin {"scan", "import"} => Sound(r)'
    BY DEF Joins, Sound
  <1>3. pc \in {"look", "choose", "done"} /\ kind \in {"scan", "import"} /\ e \in Editions
                 /\ b = BookOf[e] /\ b \in Books => Sound(r)'
    BY DEF Joins, Sound
  <1>4. pc = "look" /\ kind = "add" /\ b \in Books => Sound(r)'
    BY DEF Joins, Sound
  <1>5. pc = "move" /\ kind = "move" /\ p \in Places /\ u # p /\ u \in spent' \cup {NoPlace}
                 => Sound(r)'
    BY DEF Joins, Sound
  <1>6. pc = "delete" /\ kind = "delete" /\ p \in Places => Sound(r)'
    BY DEF Joins, Sound
  <1>7. QED  BY <1>1, <1>2, <1>3, <1>4, <1>5, <1>6

\* A request that goes on still has what it relies on.
LEMMA GoesWell ==
    ASSUME NEW r \in Requests, NEW pc, NEW pick, Goes(r, pc, pick), Sound(r)
    PROVE  /\ OthersGoOn(r) /\ request'[r].pick = pick
           /\ pc \in {"done", "failed"} => Sound(r)'
           /\ pc = "insert" /\ request[r].pc = "look" /\ ~request'[r].found => Sound(r)'
           /\ pc \in {"choose", "file"} /\ request[r].kind \in {"scan", "import"} => Sound(r)'
           /\ pc = "adopt" /\ request[r].kind \in {"scan", "import"}
                 /\ (pick # 0 => copies'[pick].book = request[r].book)
                 /\ (pick = 0 => ~request'[r].found) => Sound(r)'
  <1>1. OthersGoOn(r) /\ request'[r].pick = pick
    BY DEF Goes, OthersGoOn
  <1>2. pc \in {"done", "failed"} => Sound(r)'
    BY DEF Goes, Sound
  <1>3. pc = "insert" /\ request[r].pc = "look" /\ ~request'[r].found => Sound(r)'
    BY DEF Goes, Sound
  <1>4. pc \in {"choose", "file"} /\ request[r].kind \in {"scan", "import"} => Sound(r)'
    BY DEF Goes, Sound
  <1>5. pc = "adopt" /\ request[r].kind \in {"scan", "import"}
                 /\ (pick # 0 => copies'[pick].book = request[r].book)
                 /\ (pick = 0 => ~request'[r].found) => Sound(r)'
    BY DEF Goes, Sound
  <1>6. QED  BY <1>1, <1>2, <1>3, <1>4, <1>5

\* Together: from the parts of the types.
LEMMA PartsWell ==
    ASSUME TypeOK, NEW r \in Requests, Filed', Catalogued', Contained', Counting,
           OthersGoOn(r), request'[r].pick \in 0..Len(copies'), BooksStay,
           Sound(r)', spent \subseteq spent'
    PROVE  Well(r)
  <1>1. \A q \in Requests : request'[q].pick \in 0..Len(copies')
    <2>1. SUFFICES ASSUME NEW q \in Requests, q # r
                   PROVE  request'[q].pick \in 0..Len(copies')
      OBVIOUS
    <2>2. request[q].pick \in 0..Len(copies) /\ request'[q].pick = request[q].pick
      BY <2>1 DEF TypeOK, OthersGoOn
    <2>3. Len(copies) \in Nat /\ Len(copies') \in Nat /\ Len(copies) <= Len(copies')
      BY DEF TypeOK, BooksStay
    <2>4. QED  BY <2>2, <2>3
  <1>2. Asked'
    BY <1>1 DEF Asked, OthersGoOn
  <1>3. TypeOK'
    BY <1>2 DEF TypeOK, Filed, Catalogued, Contained, Asked, Watched, Counting
  <1>4. QED  BY <1>3 DEF Well

\* A step that only moves a request.
LEMMA QuietWell ==
    ASSUME TypeOK, NEW r \in Requests, UNCHANGED <<catalogue, copies, shelving>>,
           OthersGoOn(r), request'[r].pick \in 0..Len(copies), Sound(r)'
    PROVE  Well(r)
  <1>1. /\ books' = books /\ editions' = editions /\ spent' = spent /\ copies' = copies
        /\ places' = places /\ parent' = parent /\ raced' = raced /\ overlaps' = overlaps
    BY DEF catalogue, shelving
  <1>2. Filed' /\ Catalogued' /\ Contained' /\ Counting
    BY <1>1, TypeParts, CountingStays DEF Filed, Catalogued, Contained, EditionsOf
  <1>3. BooksStay
    BY <1>1 DEF BooksStay, TypeOK
  <1>4. QED  BY <1>1, <1>2, <1>3, PartsWell

\* Rows that are written stay the copies of their books.
LEMMA WritesStay == Writes => BooksStay
  BY DEF Writes, BooksStay

\* A row that is inserted leaves the copies before it to their books.
LEMMA InsertsStay ==
    ASSUME copies \in Seq(Row), NEW c, Inserts(c)
    PROVE  /\ BooksStay /\ Len(copies') = Len(copies) + 1
           /\ DOMAIN copies' = DOMAIN copies \cup {Len(copies) + 1}
           /\ Len(copies) + 1 \notin DOMAIN copies
           /\ \A i \in DOMAIN copies : copies'[i] = copies[i]
           /\ copies'[Len(copies) + 1] = c
  <1>1. /\ copies' \in Seq(Row) /\ Len(copies') = Len(copies) + 1
        /\ DOMAIN copies' = DOMAIN copies \cup {Len(copies) + 1}
        /\ \A i \in DOMAIN copies : copies'[i] = copies[i]
        /\ copies'[Len(copies) + 1] = c
        /\ Len(copies) + 1 \notin DOMAIN copies
    BY Appended DEF Inserts
  <1>2. Len(copies) \in Nat
    OBVIOUS
  <1>3. QED  BY <1>1, <1>2 DEF BooksStay

\* AskAdd, AskScan, AskImport: what the request is about, and when it needs no look.
LEMMA AskWell ==
    ASSUME TypeOK, NEW r \in Requests, AskAdd(r) \/ AskScan(r) \/ AskImport(r)
    PROVE  /\ Well(r) /\ UNCHANGED <<catalogue, copies, shelving>>
           /\ \E b \in books : \E e \in Editions \cup {NoEdition}, p \in Places \cup {NoPlace},
                 pc \in {"look", "choose", "done"}, kind \in {"add", "scan", "import"} :
                   /\ Joins(r, pc, kind, b, e, p, NoPlace)
                   /\ pc = "look" \/ Held(copies, b) # {}
  <1>1. /\ request \in [Requests -> Request] /\ BookOf \in [Editions -> Books]
        /\ books \subseteq Books /\ editions \subseteq {e \in Editions : BookOf[e] \in books}
        /\ places \subseteq Places /\ Len(copies) \in Nat
    BY HoldingsAssumption DEF TypeOK
  <1>2. /\ "look" \in Points /\ "choose" \in Points /\ "done" \in Points /\ "add" \in Kinds
        /\ "scan" \in Kinds /\ "import" \in Kinds
    BY DEF Points, Kinds
  <1>3. CASE AskAdd(r)
    <2>1. PICK b \in books : Begin(r, [Waiting EXCEPT !.pc = "look", !.kind = "add", !.book = b])
      BY <1>3 DEF AskAdd
    <2>2. Joins(r, "look", "add", b, NoEdition, NoPlace, NoPlace)
      BY <1>1, <1>2, <2>1, AskedBook
    <2>3. OthersGoOn(r) /\ request'[r].pick = 0 /\ Sound(r)'
      BY <1>1, <2>2, JoinsWell
    <2>4. UNCHANGED <<catalogue, copies, shelving>>
      BY <1>3 DEF AskAdd
    <2>5. Well(r)
      BY <1>1, <2>3, <2>4, QuietWell
    <2>6. QED  BY <2>2, <2>4, <2>5
  <1>4. CASE AskScan(r)
    <2>1. PICK e \in editions, p \in places \cup {NoPlace} :
            Begin(r, [Waiting EXCEPT !.pc = "look", !.kind = "scan", !.book = BookOf[e],
                             !.edition = e, !.place = p])
      BY <1>4 DEF AskScan
    <2>2. /\ e \in Editions /\ BookOf[e] \in books /\ BookOf[e] \in Books
          /\ p \in Places \cup {NoPlace}
      BY <1>1
    <2>3. Joins(r, "look", "scan", BookOf[e], e, p, NoPlace)
      BY <1>1, <1>2, <2>1, <2>2, AskedEdition
    <2>4. OthersGoOn(r) /\ request'[r].pick = 0 /\ Sound(r)'
      BY <2>2, <2>3, JoinsWell
    <2>5. UNCHANGED <<catalogue, copies, shelving>>
      BY <1>4 DEF AskScan
    <2>6. Well(r)
      BY <1>1, <2>4, <2>5, QuietWell
    <2>7. QED  BY <2>2, <2>3, <2>5, <2>6
  <1>5. CASE AskImport(r)
    <2>1. PICK e \in editions, p \in places \cup {NoPlace}, pc \in {"look", "choose", "done"} :
            /\ pc = "look" <=> Held(copies, BookOf[e]) = {}
            /\ Begin(r, [Waiting EXCEPT !.pc = pc, !.kind = "import", !.book = BookOf[e],
                             !.edition = e, !.place = p])
      BY <1>5 DEF AskImport
    <2>2. /\ e \in Editions /\ BookOf[e] \in books /\ BookOf[e] \in Books
          /\ p \in Places \cup {NoPlace}
          /\ pc \in Points
      BY <1>1, <1>2
    <2>3. Joins(r, pc, "import", BookOf[e], e, p, NoPlace)
      BY <1>1, <1>2, <2>1, <2>2, AskedEdition
    <2>4. OthersGoOn(r) /\ request'[r].pick = 0 /\ Sound(r)'
      BY <2>2, <2>3, JoinsWell
    <2>5. UNCHANGED <<catalogue, copies, shelving>>
      BY <1>5 DEF AskImport
    <2>6. Well(r)
      BY <1>1, <2>4, <2>5, QuietWell
    <2>7. QED  BY <2>1, <2>2, <2>3, <2>5, <2>6
  <1>6. QED  BY <1>3, <1>4, <1>5

\* LookForCopy goes on past the insert only if the library holds the book.
LEMMA LookWell ==
    ASSUME TypeOK, NEW r \in Requests, Sound(r), LookForCopy(r)
    PROVE  /\ Well(r) /\ UNCHANGED <<catalogue, copies, shelving>>
           /\ request[r].pc = "look"
           /\ \/ Goes(r, "insert", 0)
              \/ /\ Held(copies, request[r].book) # {}
                 /\ \E pc \in {"choose", "done"} : Goes(r, pc, 0)
  <1>1. /\ request \in [Requests -> Request] /\ request[r].pick \in 0..Len(copies)
        /\ request[r].pc = "look" /\ UNCHANGED <<catalogue, copies, shelving>>
    BY DEF TypeOK, LookForCopy, At
  <1>2. request[r].kind \in {"add", "scan", "import"}
    BY <1>1 DEF Sound
  <1>a. 0 \in 0..Len(copies) /\ 0 \in Nat
    BY DEF TypeOK
  <1>3. CASE Held(copies, request[r].book) # {} /\ Look(r, AfterAdding(r), 0, TRUE)
    <2>1. PICK pc \in {"choose", "done"} : pc = AfterAdding(r)
                                            /\ (pc = "choose" => request[r].kind # "add")
      BY DEF AfterAdding
    <2>2. pc \in Points
      BY DEF Points
    <2>3. Goes(r, pc, 0)
      BY <1>1, <1>3, <1>a, <2>1, <2>2, LookMoves
    <2>4. OthersGoOn(r) /\ request'[r].pick = 0 /\ Sound(r)'
      BY <1>2, <2>1, <2>3, GoesWell
    <2>5. Well(r)
      BY <1>1, <1>a, <2>4, QuietWell
    <2>6. QED  BY <1>1, <1>3, <2>3, <2>5
  <1>4. CASE Look(r, "insert", 0, FALSE)
    <2>1. "insert" \in Points
      BY DEF Points
    <2>2. Goes(r, "insert", 0) /\ ~request'[r].found
      BY <1>1, <1>4, <1>a, <2>1, LookMoves
    <2>3. OthersGoOn(r) /\ request'[r].pick = 0 /\ Sound(r)'
      BY <1>1, <2>2, GoesWell
    <2>4. Well(r)
      BY <1>1, <1>a, <2>3, QuietWell
    <2>5. QED  BY <1>1, <2>2, <2>4
  <1>5. QED  BY <1>3, <1>4 DEF LookForCopy

\* After the copy is there it is filed, or the request is done.
LEMMA FilingIs == ASSUME NEW r PROVE Filing(r) \in {"done", "file"} /\ Filing(r) \in Points
  BY DEF Filing, Points

\* ChooseCopy chooses a copy of the book without an edition, or none if there is none.
LEMMA ChooseWell ==
    ASSUME TypeOK, NEW r \in Requests, Sound(r), ChooseCopy(r)
    PROVE  /\ Well(r) /\ UNCHANGED <<catalogue, copies, shelving>>
           /\ request[r].pc = "choose" /\ request[r].kind \in {"scan", "import"}
           /\ \/ \E pc \in {"done", "file"} : Goes(r, pc, request[r].pick)
              \/ Editionless(copies, request[r].book) = {} /\ Goes(r, "adopt", 0)
              \/ \E i \in Editionless(copies, request[r].book) : i # 0 /\ Goes(r, "adopt", i)
  <1>1. /\ request \in [Requests -> Request] /\ request[r].pick \in 0..Len(copies)
        /\ request[r].pc = "choose" /\ UNCHANGED <<catalogue, copies, shelving>>
        /\ Len(copies) \in Nat /\ DOMAIN copies = 1..Len(copies)
    BY DEF TypeOK, ChooseCopy, At
  <1>2. request[r].kind \in {"scan", "import"}
    BY <1>1 DEF Sound
  <1>3. CASE Go(r, Filing(r))
    <2>1. PICK pc \in {"done", "file"} : pc = Filing(r) /\ pc \in Points
      BY FilingIs
    <2>2. Goes(r, pc, request[r].pick)
      BY <1>1, <1>3, <2>1, GoMoves
    <2>3. OthersGoOn(r) /\ request'[r].pick = request[r].pick /\ Sound(r)'
      BY <1>2, <2>2, GoesWell
    <2>4. Well(r)
      BY <1>1, <2>3, QuietWell
    <2>5. QED  BY <1>1, <1>2, <2>2, <2>4
  <1>a. "adopt" \in Points
    BY DEF Points
  <1>4. ASSUME NEW i \in 0..Len(copies), NEW found \in BOOLEAN, Look(r, "adopt", i, found),
               i # 0 => copies[i].book = request[r].book, i = 0 => ~found
        PROVE  Goes(r, "adopt", i) /\ Well(r)
    <2>1. Goes(r, "adopt", i) /\ request'[r].found = found
      BY <1>1, <1>4, <1>a, LookMoves
    <2>2. copies' = copies
      BY <1>1
    <2>3. OthersGoOn(r) /\ request'[r].pick = i /\ Sound(r)'
      BY <1>2, <1>4, <2>1, <2>2, GoesWell
    <2>4. QED  BY <1>1, <2>1, <2>3, QuietWell
  <1>5. CASE Editionless(copies, request[r].book) = {} /\ Look(r, "adopt", 0, FALSE)
    <2>1. 0 \in 0..Len(copies)
      BY <1>1
    <2>2. QED  BY <1>1, <1>2, <1>4, <1>5, <2>1
  <1>6. CASE \E i \in Editionless(copies, request[r].book) : Look(r, "adopt", i, TRUE)
    <2>1. PICK i \in Editionless(copies, request[r].book) : Look(r, "adopt", i, TRUE)
      BY <1>6
    <2>2. i \in DOMAIN copies /\ copies[i].book = request[r].book
      BY DEF Editionless, Held
    <2>3. i \in 0..Len(copies) /\ i # 0
      BY <1>1, <2>2
    <2>4. Goes(r, "adopt", i) /\ Well(r)
      BY <1>4, <2>1, <2>2, <2>3
    <2>5. QED  BY <1>1, <1>2, <2>3, <2>4
  <1>7. QED  BY <1>3, <1>5, <1>6 DEF ChooseCopy, ChooseOldest

\* A step that leaves the catalogue and the shelves alone counts nothing.
LEMMA ShelvesStay ==
    ASSUME TypeOK, UNCHANGED <<catalogue, shelving>>
    PROVE  UNCHANGED <<catalogue, places, parent>> /\ Counting
  BY TypeParts, CountingStays DEF shelving

\* A step that writes copies and moves a request.
LEMMA CopiesWell ==
    ASSUME TypeOK, NEW r \in Requests, UNCHANGED <<catalogue, places, parent>>, Filed', Counting,
           OthersGoOn(r), request'[r].pick \in 0..Len(copies'), BooksStay, Sound(r)'
    PROVE  Well(r)
  <1>1. /\ books' = books /\ editions' = editions /\ spent' = spent
        /\ places' = places /\ parent' = parent
    BY DEF catalogue
  <1>2. Catalogued' /\ Contained'
    BY <1>1, TypeParts DEF Catalogued, Contained
  <1>3. QED  BY <1>1, <1>2, PartsWell

\* An inserted row is well filed when nothing else but the requests changes.
LEMMA FiledInsertHere ==
    ASSUME TypeOK, NEW c, Inserts(c), UNCHANGED <<catalogue, places, parent>>,
           c.book \in books, c.place \in places \cup {NoPlace}, c.edition \in EditionsOf(c.book)
    PROVE  Filed' /\ BooksStay /\ Len(copies') = Len(copies) + 1
  <1>1. books' = books /\ editions' = editions /\ places' = places
    BY DEF catalogue
  <1>2. Filed /\ copies \in Seq(Row)
    BY TypeParts DEF Filed
  <1>3. c.edition \in {e \in editions' : BookOf[e] = c.book} \cup {NoEdition}
    BY <1>1 DEF EditionsOf
  <1>4. Filed'
    BY <1>1, <1>2, <1>3, FiledInsert
  <1>5. BooksStay /\ Len(copies') = Len(copies) + 1
    BY <1>2, InsertsStay
  <1>6. QED  BY <1>4, <1>5

\* Rows that are written are well filed when nothing else but the requests changes.
LEMMA FiledWriteHere ==
    ASSUME TypeOK, Writes, UNCHANGED <<catalogue, places, parent>>,
           \A i \in DOMAIN copies :
              /\ copies'[i].edition \in EditionsOf(copies[i].book)
              /\ copies'[i].place \in places \cup {NoPlace}
    PROVE  Filed' /\ BooksStay /\ Len(copies') = Len(copies)
  <1>1. books' = books /\ editions' = editions /\ places' = places
    BY DEF catalogue
  <1>2. \A i \in DOMAIN copies :
              /\ copies[i].book \in books'
              /\ copies'[i].edition \in {e \in editions' : BookOf[e] = copies[i].book}
                                            \cup {NoEdition}
              /\ copies'[i].place \in places' \cup {NoPlace}
    BY <1>1 DEF TypeOK, EditionsOf
  <1>3. Filed'
    BY <1>2, FiledWrite
  <1>4. QED  BY <1>3, WritesStay DEF Writes

\* InsertCopy inserts a copy of the book without an edition, or fails.
LEMMA InsertWell ==
    ASSUME TypeOK, NEW r \in Requests, Sound(r), InsertCopy(r)
    PROVE  /\ Well(r) /\ request[r].pc = "insert"
           /\ \/ copies' = copies /\ Goes(r, "failed", request[r].pick)
              \/ /\ Inserts(Copy(request[r].book, NoEdition, NoPlace, 0))
                 /\ request[r].book \in Books /\ request[r].kind \in {"add", "scan", "import"}
                 /\ \E pc \in {"choose", "done"} :
                       Goes(r, pc, request[r].pick) /\ (pc = "done" => request[r].kind = "add")
                 /\ Held(copies, request[r].book) # {}
                       => overlaps'[request[r].book] = overlaps[request[r].book] + 1
  <1>1. /\ request \in [Requests -> Request] /\ request[r].pick \in 0..Len(copies)
        /\ request[r].pc = "insert" /\ UNCHANGED <<catalogue, places, parent, raced>>
        /\ Len(copies) \in Nat /\ books \subseteq Books /\ Watched
    BY TypeParts DEF TypeOK, InsertCopy, At
  <1>2. request[r].kind \in {"add", "scan", "import"} /\ ~request[r].found
    BY <1>1 DEF Sound
  <1> DEFINE b == request[r].book
  <1>3. CASE b \notin books /\ copies' = copies /\ Go(r, "failed") /\ overlaps' = overlaps
    <2>1. "failed" \in Points
      BY DEF Points
    <2>2. Goes(r, "failed", request[r].pick)
      BY <1>1, <1>3, <2>1, GoMoves
    <2>3. OthersGoOn(r) /\ request'[r].pick = request[r].pick /\ Sound(r)'
      BY <2>2, GoesWell
    <2>4. UNCHANGED <<catalogue, copies, shelving>>
      BY <1>1, <1>3 DEF shelving
    <2>5. Well(r)
      BY <1>1, <2>3, <2>4, QuietWell
    <2>6. QED  BY <1>1, <1>3, <2>2, <2>5
  <1>4. CASE /\ Inserts(Copy(b, NoEdition, NoPlace, 0)) /\ b \in books /\ Go(r, AfterAdding(r))
             /\ Overlap(r, b, Held(copies, b))
    <2>1. PICK pc \in {"choose", "done"} : pc = AfterAdding(r)
                                            /\ (pc = "choose" <=> request[r].kind # "add")
      BY DEF AfterAdding
    <2>2. pc \in Points
      BY DEF Points
    <2>3. Goes(r, pc, request[r].pick)
      BY <1>1, <1>4, <2>1, <2>2, GoMoves
    <2>4. OthersGoOn(r) /\ request'[r].pick = request[r].pick /\ Sound(r)'
      BY <1>2, <2>1, <2>3, GoesWell
    <2> DEFINE c == Copy(b, NoEdition, NoPlace, 0)
    <2>5. c.book = b /\ c.edition = NoEdition /\ c.place = NoPlace
      BY DEF Copy
    <2>6. c.edition \in EditionsOf(c.book) /\ c.place \in places \cup {NoPlace} /\ c.book \in books
      BY <1>4, <2>5 DEF EditionsOf
    <2> HIDE DEF c
    <2>7. Filed' /\ BooksStay /\ Len(copies') = Len(copies) + 1
      BY <1>1, <1>4, <2>6, FiledInsertHere DEF c
    <2>8. request'[r].pick \in 0..Len(copies')
      BY <1>1, <2>4, <2>7
    <2>a. Counting /\ (Held(copies, b) # {} => overlaps'[b] = overlaps[b] + 1)
      BY <1>1, <1>2, <1>4, OverlapCounts
    <2>9. Well(r)
      BY <1>1, <2>4, <2>7, <2>8, <2>a, CopiesWell
    <2>10. QED  BY <1>1, <1>2, <1>4, <2>1, <2>3, <2>9, <2>a
  <1>5. QED  BY <1>3, <1>4, InsertCopyMoves

\* AdoptCopy gives the chosen copy the edition, inserts one if none was chosen, or fails.
LEMMA AdoptWell ==
    ASSUME TypeOK, NEW r \in Requests, Sound(r), AdoptCopy(r)
    PROVE  LET e == request[r].edition
               i == request[r].pick
           IN  /\ Well(r) /\ request[r].pc = "adopt" /\ request[r].kind \in {"scan", "import"}
               /\ e \in Editions /\ request[r].book = BookOf[e] /\ BookOf[e] \in Books
               /\ \/ /\ i \in DOMAIN copies /\ i # 0 /\ copies[i].book = BookOf[e]
                     /\ Writes /\ copies'[i].edition = e /\ copies'[i].live = copies[i].live
                     /\ \A j \in DOMAIN copies : j # i => copies'[j] = copies[j]
                     /\ \E pc \in {"done", "file"} : Goes(r, pc, i)
                  \/ /\ i = 0 /\ Inserts(Copy(BookOf[e], e, NoPlace, 0))
                     /\ \E pc \in {"done", "file"} : Goes(r, pc, i)
                     /\ Editionless(copies, BookOf[e]) # {}
                           => overlaps'[BookOf[e]] = overlaps[BookOf[e]] + 1
                  \/ copies' = copies /\ Goes(r, "failed", i)
  <1> DEFINE e == request[r].edition
             i == request[r].pick
  <1>1. /\ request \in [Requests -> Request] /\ i \in 0..Len(copies)
        /\ request[r].pc = "adopt" /\ UNCHANGED <<catalogue, places, parent, raced>>
        /\ copies \in Seq(Row)
        /\ Len(copies) \in Nat /\ DOMAIN copies = 1..Len(copies)
        /\ BookOf \in [Editions -> Books] /\ Filed /\ Catalogued /\ Watched
    BY HoldingsAssumption, TypeParts DEF TypeOK, AdoptCopy, At
  <1>2. /\ request[r].kind \in {"scan", "import"} /\ e \in Editions
        /\ request[r].book = BookOf[e] /\ BookOf[e] \in Books
        /\ (i = 0 => ~request[r].found)
    BY <1>1, AdoptCopyMoves DEF Sound
  <1>3. CASE /\ e \in editions /\ i # 0 /\ i \in DOMAIN copies
             /\ copies[i].book = BookOf[e]
             /\ Writes /\ copies'[i] = [copies[i] EXCEPT !.edition = e]
             /\ \A j \in DOMAIN copies : j # i => copies'[j] = copies[j]
             /\ Go(r, Filing(r)) /\ overlaps' = overlaps
    <2>1. PICK pc \in {"done", "file"} : pc = Filing(r) /\ pc \in Points
      BY FilingIs
    <2>2. Goes(r, pc, i)
      BY <1>1, <1>3, <2>1, GoMoves
    <2>3. OthersGoOn(r) /\ request'[r].pick = i /\ Sound(r)'
      BY <1>2, <2>2, GoesWell
    <2>4. copies[i] \in Row
      BY <1>1, <1>3
    <2>5. copies'[i].edition = e /\ copies'[i].live = copies[i].live
          /\ copies'[i].place = copies[i].place
      BY <1>2, <1>3, <2>4 DEF Row
    <2>6. \A j \in DOMAIN copies :
              /\ copies'[j].edition \in EditionsOf(copies[j].book)
              /\ copies'[j].place \in places \cup {NoPlace}
      BY <1>1, <1>3, <2>5 DEF Filed, EditionsOf
    <2>7. Filed' /\ BooksStay /\ Len(copies') = Len(copies)
      BY <1>1, <1>3, <2>6, FiledWriteHere
    <2>8. Well(r)
      BY <1>1, <1>3, <2>3, <2>7, CountingStays, CopiesWell
    <2>9. QED  BY <1>1, <1>2, <1>3, <2>2, <2>5, <2>8
  <1>4. CASE /\ e \in editions /\ i = 0 /\ Inserts(Copy(BookOf[e], e, NoPlace, 0))
             /\ Go(r, Filing(r)) /\ Overlap(r, BookOf[e], Editionless(copies, BookOf[e]))
    <2>1. PICK pc \in {"done", "file"} : pc = Filing(r) /\ pc \in Points
      BY FilingIs
    <2>2. Goes(r, pc, i)
      BY <1>1, <1>4, <2>1, GoMoves
    <2>3. OthersGoOn(r) /\ request'[r].pick = i /\ Sound(r)'
      BY <1>2, <2>2, GoesWell
    <2> DEFINE c == Copy(BookOf[e], e, NoPlace, 0)
    <2>5. c.book = BookOf[e] /\ c.edition = e /\ c.place = NoPlace
      BY DEF Copy
    <2>6. c.edition \in EditionsOf(c.book) /\ c.place \in places \cup {NoPlace} /\ c.book \in books
      BY <1>1, <1>4, <2>5 DEF EditionsOf, Catalogued
    <2> HIDE DEF c
    <2>7. Filed' /\ BooksStay /\ Len(copies') = Len(copies) + 1
      BY <1>1, <1>4, <2>6, FiledInsertHere DEF c
    <2>8. request'[r].pick \in 0..Len(copies')
      BY <1>1, <2>3, <2>7
    <2>a. Counting /\ (Editionless(copies, BookOf[e]) # {}
                          => overlaps'[BookOf[e]] = overlaps[BookOf[e]] + 1)
      BY <1>1, <1>2, <1>4, OverlapCounts
    <2>9. Well(r)
      BY <1>1, <2>3, <2>7, <2>8, <2>a, CopiesWell
    <2>10. QED  BY <1>1, <1>2, <1>4, <2>2, <2>9, <2>a
  <1>5. CASE e \notin editions /\ Go(r, "failed") /\ copies' = copies /\ overlaps' = overlaps
    <2>1. "failed" \in Points
      BY DEF Points
    <2>2. Goes(r, "failed", i)
      BY <1>1, <1>5, <2>1, GoMoves
    <2>3. OthersGoOn(r) /\ request'[r].pick = i /\ Sound(r)'
      BY <2>2, GoesWell
    <2>4. UNCHANGED <<catalogue, copies, shelving>>
      BY <1>1, <1>5 DEF shelving
    <2>5. Well(r)
      BY <1>1, <2>3, <2>4, QuietWell
    <2>6. QED  BY <1>1, <1>2, <1>5, <2>2, <2>5
  <1>6. QED  BY <1>3, <1>4, <1>5, AdoptCopyMoves

\* FileCopy writes the place of a copy, or fails.
LEMMA FileWell ==
    ASSUME TypeOK, NEW r \in Requests, Sound(r), FileCopy(r)
    PROVE  /\ Well(r) /\ request[r].pc = "file" /\ Writes
           /\ \A i \in DOMAIN copies :
                copies'[i].edition = copies[i].edition /\ copies'[i].live = copies[i].live
           /\ \E pc \in {"done", "failed"} : Goes(r, pc, request[r].pick)
  <1>1. /\ request \in [Requests -> Request] /\ request[r].pick \in 0..Len(copies)
        /\ request[r].pc = "file" /\ UNCHANGED <<catalogue, shelving>>
    BY DEF TypeOK, FileCopy, At
  <1>2. /\ Writes
        /\ \A i \in DOMAIN copies :
              /\ copies'[i].edition = copies[i].edition /\ copies'[i].live = copies[i].live
              /\ copies'[i].place \in places \cup {NoPlace}
        /\ Go(r, "done") \/ Go(r, "failed")
    BY FileCopyMoves
  <1>3. "done" \in Points /\ "failed" \in Points
    BY DEF Points
  <1>4. PICK pc \in {"done", "failed"} : Goes(r, pc, request[r].pick)
    BY <1>1, <1>2, <1>3, GoMoves
  <1>5. OthersGoOn(r) /\ request'[r].pick = request[r].pick /\ Sound(r)'
    BY <1>4, GoesWell
  <1>6. Filed' /\ BooksStay /\ Len(copies') = Len(copies)
    <2>1. \A i \in DOMAIN copies :
              /\ copies'[i].edition \in EditionsOf(copies[i].book)
              /\ copies'[i].place \in places \cup {NoPlace}
      BY <1>2 DEF TypeOK
    <2>2. QED  BY <1>1, <1>2, <2>1, ShelvesStay, FiledWriteHere
  <1>7. Well(r)
    BY <1>1, <1>5, <1>6, ShelvesStay, CopiesWell
  <1>8. QED  BY <1>1, <1>2, <1>4, <1>7

\* CreateBook inserts one copy with the edition.
LEMMA CreateBookWell ==
    ASSUME TypeOK, NEW r \in Requests, CreateBook(r)
    PROVE  /\ Well(r) /\ request[r].pc = "new"
           /\ \E e \in Editions, p \in Places \cup {NoPlace} :
                /\ BookOf[e] \in Books /\ \A i \in DOMAIN copies : copies[i].book # BookOf[e]
                /\ Inserts(Copy(BookOf[e], e, p, 0))
                /\ Joins(r, "done", "create", BookOf[e], NoEdition, NoPlace, NoPlace)
  <1>1. /\ request \in [Requests -> Request] /\ request[r].pc = "new"
        /\ copies \in Seq(Row) /\ UNCHANGED shelving
        /\ Len(copies) \in Nat /\ places \subseteq Places
        /\ BookOf \in [Editions -> Books] /\ Filed /\ Catalogued /\ Contained /\ Watched
    BY HoldingsAssumption, TypeParts DEF TypeOK, CreateBook, New
  <1>2. PICK e \in Editions, p \in places \cup {NoPlace} :
        LET b == BookOf[e]
            added == SetEditionCopyCount(Append(copies, Copy(b, NoEdition, NoPlace, 0)), e, 1)
        IN  /\ b \notin spent /\ spent' = spent \cup {b}
            /\ books' = books \cup {b} /\ editions' = editions \cup {e}
            /\ copies' = PlaceNewestCopy(added, e, p)
            /\ Begin(r, [Waiting EXCEPT !.pc = "done", !.kind = "create", !.book = b])
    BY DEF CreateBook
  <1> DEFINE b == BookOf[e]
             c == Copy(b, e, p, 0)
  <1>3. /\ b \in Books /\ p \in Places \cup {NoPlace} /\ "done" \in Points /\ "create" \in Kinds
        /\ b \in Books \cup {NoBook}
    BY <1>1 DEF Points, Kinds
  <1>4. copies' = Append(copies, c)
    BY <1>1, <1>2, <1>3, CreatedCopy
  <1>5. c \in Row /\ c.book = b /\ c.edition = e /\ c.place = p
    BY <1>3 DEF Copy, Row
  <1>6. Inserts(c)
    BY <1>4, <1>5 DEF Inserts
  <1>7. Joins(r, "done", "create", b, NoEdition, NoPlace, NoPlace)
    BY <1>1, <1>2, <1>3, AskedBook
  <1>8. OthersGoOn(r) /\ request'[r].pick = 0 /\ Sound(r)'
    BY <1>7, JoinsWell
  <1>9. /\ books' = books \cup {b} /\ editions' = editions \cup {e} /\ spent' = spent \cup {b}
        /\ places' = places /\ parent' = parent /\ raced' = raced /\ b \notin spent
        /\ overlaps' = overlaps
    BY <1>1, <1>2 DEF shelving
  <1>a. \A i \in DOMAIN copies : copies[i].book # b
    BY <1>1, <1>9 DEF Filed, Catalogued
  <1> HIDE DEF b, c
  <1>10. Filed'
    BY <1>1, <1>5, <1>6, <1>9, FiledInsert DEF b
  <1>11. Catalogued'
    BY <1>1, <1>3, <1>9 DEF Catalogued, b
  <1>12. Contained' /\ Counting
    BY <1>1, <1>9, CountingStays DEF Contained
  <1>13. BooksStay /\ Len(copies') = Len(copies) + 1
    BY <1>1, <1>6, InsertsStay
  <1>14. request'[r].pick \in 0..Len(copies')
    BY <1>1, <1>8, <1>13
  <1>15. Well(r)
    BY <1>8, <1>9, <1>10, <1>11, <1>12, <1>13, <1>14, PartsWell
  <1>16. QED  BY <1>1, <1>3, <1>6, <1>7, <1>15, <1>a DEF b, c

\* CreateCopy inserts one copy.
LEMMA CreateCopyWell ==
    ASSUME TypeOK, NEW r \in Requests, CreateCopy(r)
    PROVE  /\ Well(r) /\ request[r].pc = "new"
           /\ \E b \in Books, e \in Editions \cup {NoEdition},
                 p \in Places \cup {NoPlace}, d \in {0, 1} :
                /\ Inserts(Copy(b, e, p, d))
                /\ Joins(r, "done", "copy", b, NoEdition, NoPlace, NoPlace)
  <1>1. /\ request \in [Requests -> Request] /\ request[r].pc = "new"
        /\ copies \in Seq(Row) /\ UNCHANGED <<catalogue, shelving>>
        /\ Len(copies) \in Nat /\ places \subseteq Places /\ books \subseteq Books
        /\ editions \subseteq Editions
    BY DEF TypeOK, CreateCopy, New
  <1>2. PICK b \in books, p \in places \cup {NoPlace}, d \in {0, 1} : \E e \in EditionsOf(b) :
        /\ copies' = Append(copies, Copy(b, e, p, d))
        /\ Begin(r, [Waiting EXCEPT !.pc = "done", !.kind = "copy", !.book = b])
    BY DEF CreateCopy
  <1>3. PICK e \in EditionsOf(b) :
        /\ copies' = Append(copies, Copy(b, e, p, d))
        /\ Begin(r, [Waiting EXCEPT !.pc = "done", !.kind = "copy", !.book = b])
    BY <1>2
  <1> DEFINE c == Copy(b, e, p, d)
  <1>4. /\ b \in Books /\ p \in Places \cup {NoPlace} /\ "done" \in Points /\ "copy" \in Kinds
        /\ e \in Editions \cup {NoEdition} /\ b \in Books \cup {NoBook}
    BY <1>1 DEF Points, Kinds, EditionsOf
  <1>5. c \in Row /\ c.book = b /\ c.edition = e /\ c.place = p
    BY <1>4 DEF Copy, Row
  <1>6. Inserts(c)
    BY <1>3, <1>5 DEF Inserts
  <1>7. Joins(r, "done", "copy", b, NoEdition, NoPlace, NoPlace)
    BY <1>1, <1>3, <1>4, AskedBook
  <1>8. OthersGoOn(r) /\ request'[r].pick = 0 /\ Sound(r)'
    BY <1>7, JoinsWell
  <1> HIDE DEF c
  <1>9. Filed' /\ BooksStay /\ Len(copies') = Len(copies) + 1
    BY <1>1, <1>5, <1>6, ShelvesStay, FiledInsertHere
  <1>10. request'[r].pick \in 0..Len(copies')
    BY <1>1, <1>8, <1>9
  <1>11. Well(r)
    BY <1>1, <1>8, <1>9, <1>10, ShelvesStay, CopiesWell
  <1>12. QED  BY <1>1, <1>4, <1>6, <1>7, <1>11 DEF c

\* UpdateCopy writes one live copy and counts as adding if it had no edition.
LEMMA UpdateCopyWell ==
    ASSUME TypeOK, NEW r \in Requests, UpdateCopy(r)
    PROVE  /\ Well(r) /\ request[r].pc = "new"
           /\ \E i \in DOMAIN copies, e \in Editions \cup {NoEdition} :
                /\ Writes /\ copies'[i].edition = e /\ copies'[i].live = copies[i].live
                /\ \A j \in DOMAIN copies : j # i => copies'[j] = copies[j]
                /\ Joins(r, "done", "edit",
                         IF copies[i].edition = NoEdition THEN copies[i].book ELSE NoBook,
                         NoEdition, NoPlace, NoPlace)
  <1>1. /\ request[r].pc = "new" /\ UNCHANGED <<catalogue, shelving>>
        /\ editions \subseteq Editions /\ Filed /\ Len(copies) \in Nat
    BY TypeParts DEF TypeOK, UpdateCopy, New
  <1>2. PICK i \in DOMAIN copies : \E e \in EditionsOf(copies[i].book) :
              /\ copies[i].live /\ Writes
              /\ copies'[i].edition = e /\ copies'[i].live = copies[i].live
              /\ copies'[i].place \in places \cup {NoPlace}
              /\ \A j \in DOMAIN copies : j # i => copies'[j] = copies[j]
              /\ Joins(r, "done", "edit",
                       IF copies[i].edition = NoEdition THEN copies[i].book ELSE NoBook,
                       NoEdition, NoPlace, NoPlace)
    BY UpdateCopyMoves
  <1>3. PICK e \in EditionsOf(copies[i].book) :
              /\ copies[i].live /\ Writes
              /\ copies'[i].edition = e /\ copies'[i].live = copies[i].live
              /\ copies'[i].place \in places \cup {NoPlace}
              /\ \A j \in DOMAIN copies : j # i => copies'[j] = copies[j]
              /\ Joins(r, "done", "edit",
                       IF copies[i].edition = NoEdition THEN copies[i].book ELSE NoBook,
                       NoEdition, NoPlace, NoPlace)
    BY <1>2
  <1>4. e \in Editions \cup {NoEdition}
    BY <1>1 DEF EditionsOf
  <1>5. OthersGoOn(r) /\ request'[r].pick = 0 /\ Sound(r)'
    BY <1>3, JoinsWell
  <1>6. \A j \in DOMAIN copies :
              /\ copies'[j].edition \in EditionsOf(copies[j].book)
              /\ copies'[j].place \in places \cup {NoPlace}
    BY <1>1, <1>3 DEF Filed
  <1>7. Filed' /\ BooksStay /\ Len(copies') = Len(copies)
    BY <1>1, <1>3, <1>6, ShelvesStay, FiledWriteHere
  <1>8. request'[r].pick \in 0..Len(copies')
    BY <1>1, <1>5, <1>7
  <1>9. Well(r)
    BY <1>1, <1>5, <1>7, <1>8, ShelvesStay, CopiesWell
  <1>10. QED  BY <1>1, <1>3, <1>4, <1>9

\* DeleteCopy and RemoveBookFromLibrary.
LEMMA RemoveWell ==
    ASSUME TypeOK, NEW r \in Requests, NEW b, NEW is, Remove(r, b, is)
    PROVE  Well(r)
  <1>1. /\ Writes
        /\ \A i \in DOMAIN copies :
             copies'[i].edition = copies[i].edition /\ copies'[i].place = copies[i].place
    BY RemoveMoves
  <1>2. OthersGoOn(r) /\ request'[r].pick = 0
    <2>1. request' \in [Requests -> Request] /\ request'[r].pick = 0
      BY RemoveMoves
    <2>2. \A q \in Requests \ {r} :
            /\ request'[q].pc = request[q].pc /\ request'[q].kind = request[q].kind
            /\ request'[q].book = request[q].book /\ request'[q].edition = request[q].edition
            /\ request'[q].place = request[q].place /\ request'[q].under = request[q].under
            /\ request'[q].pick = request[q].pick /\ request'[q].passed = request[q].passed
            /\ request'[q].found = request[q].found
            /\ request[q].undone => request'[q].undone
      BY RemoveMoves
    <2>3. QED  BY <2>1, <2>2 DEF OthersGoOn
  <1>3. Sound(r)'
    <2>1. request'[r].pc = "done" /\ request'[r].kind = "remove"
      BY RemoveMoves
    <2>2. QED  BY <2>1 DEF Sound
  <1>4. UNCHANGED <<catalogue, shelving>>
    BY DEF Remove
  <1>5. Filed' /\ BooksStay /\ Len(copies') = Len(copies)
    <2>1. \A i \in DOMAIN copies :
              /\ copies'[i].edition \in EditionsOf(copies[i].book)
              /\ copies'[i].place \in places \cup {NoPlace}
      BY <1>1 DEF TypeOK
    <2>2. QED  BY <1>1, <1>4, <2>1, ShelvesStay, FiledWriteHere
  <1>6. request'[r].pick \in 0..Len(copies')
    BY <1>2, <1>5 DEF TypeOK
  <1>7. QED  BY <1>2, <1>3, <1>4, <1>5, <1>6, ShelvesStay, CopiesWell

\* DeleteEdition leaves every copy well filed.
LEMMA DeleteEditionWell ==
    ASSUME TypeOK, NEW r \in Requests, DeleteEdition(r)
    PROVE  Well(r) /\ request[r].pc = "new"
  <1>1. /\ request[r].pc = "new"
        /\ books' = books /\ spent' = spent
        /\ places' = places /\ parent' = parent /\ raced' = raced /\ overlaps' = overlaps
    BY DEF DeleteEdition, New, shelving
  <1>2. PICK e \in editions :
            /\ editions' = editions \ {e} /\ Writes
            /\ \A i \in DOMAIN copies :
                /\ copies'[i].place = copies[i].place /\ copies'[i].live = copies[i].live
                /\ copies[i].edition = e => copies'[i].edition = NoEdition
                /\ copies[i].edition # e => copies'[i] = copies[i]
            /\ Joins(r, "done", "remove", NoBook, NoEdition, NoPlace, NoPlace)
    BY DeleteEditionMoves
  <1>3. OthersGoOn(r) /\ request'[r].pick = 0 /\ Sound(r)'
    BY <1>2, JoinsWell
  <1>4. Filed /\ Catalogued /\ Contained /\ Watched
    BY TypeParts
  <1>5. Filed'
    <2>1. ASSUME NEW i \in DOMAIN copies
          PROVE  /\ copies[i].book \in books'
                 /\ copies'[i].edition \in {x \in editions' : BookOf[x] = copies[i].book}
                                            \cup {NoEdition}
                 /\ copies'[i].place \in places' \cup {NoPlace}
      BY <1>1, <1>2, <1>4 DEF Filed, EditionsOf
    <2>2. QED  BY <1>2, <2>1, FiledWrite
  <1>6. Catalogued' /\ Contained' /\ Counting
    BY <1>1, <1>2, <1>4, CountingStays DEF Catalogued, Contained
  <1>7. BooksStay /\ request'[r].pick \in 0..Len(copies')
    BY <1>2, <1>3, WritesStay DEF Writes, TypeOK
  <1>8. Well(r)
    BY <1>1, <1>3, <1>5, <1>6, <1>7, PartsWell
  <1>9. QED  BY <1>1, <1>8

\* DeleteBook leaves the copies alone: it has none.
LEMMA DeleteBookWell ==
    ASSUME TypeOK, NEW r \in Requests, DeleteBook(r)
    PROVE  /\ Well(r) /\ request[r].pc = "new" /\ copies' = copies
           /\ Joins(r, "done", "remove", NoBook, NoEdition, NoPlace, NoPlace)
  <1>1. /\ request[r].pc = "new" /\ copies' = copies /\ spent' = spent
        /\ places' = places /\ parent' = parent /\ raced' = raced /\ overlaps' = overlaps
        /\ request \in [Requests -> Request]
    BY DEF DeleteBook, New, shelving, TypeOK
  <1>2. PICK b \in books :
        /\ \A i \in DOMAIN copies : copies[i].book # b
        /\ books' = books \ {b}
        /\ editions' = {e \in editions : BookOf[e] # b}
    BY DEF DeleteBook
  <1>3. Joins(r, "done", "remove", NoBook, NoEdition, NoPlace, NoPlace)
    <2>1. "done" \in Points /\ "remove" \in Kinds
      BY DEF Points, Kinds
    <2>2. QED  BY <1>1, <2>1, AskedKind DEF DeleteBook
  <1>4. OthersGoOn(r) /\ request'[r].pick = 0 /\ Sound(r)'
    BY <1>3, JoinsWell
  <1>5. Filed /\ Catalogued /\ Contained /\ Watched
    BY TypeParts
  <1>6. Filed'
    BY <1>1, <1>2, <1>5 DEF Filed, EditionsOf
  <1>7. Catalogued' /\ Contained' /\ Counting
    BY <1>1, <1>2, <1>5, CountingStays DEF Catalogued, Contained
  <1>8. BooksStay /\ request'[r].pick \in 0..Len(copies')
    BY <1>1, <1>4 DEF BooksStay, TypeOK
  <1>9. Well(r)
    BY <1>1, <1>4, <1>6, <1>7, <1>8, PartsWell
  <1>10. QED  BY <1>1, <1>3, <1>9

\* CreatePlace makes one place of a new id.
LEMMA CreatePlaceWell ==
    ASSUME TypeOK, NEW r \in Requests, CreatePlace(r)
    PROVE  /\ Well(r) /\ request[r].pc = "new" /\ copies' = copies /\ raced' = raced
           /\ Joins(r, "done", "place", NoBook, NoEdition, NoPlace, NoPlace)
           /\ \E p \in Places \ spent, q \in places \cup {NoPlace} :
                places' = places \cup {p} /\ spent' = spent \cup {p}
                /\ parent' = [parent EXCEPT ![p] = q]
  <1>1. /\ request[r].pc = "new" /\ copies' = copies
        /\ books' = books /\ editions' = editions /\ raced' = raced
        /\ overlaps' = overlaps
        /\ request \in [Requests -> Request]
    BY DEF CreatePlace, New, TypeOK
  <1>2. PICK p \in Places \ spent, q \in places \cup {NoPlace} :
        /\ places' = places \cup {p} /\ spent' = spent \cup {p}
        /\ parent' = [parent EXCEPT ![p] = q]
    BY DEF CreatePlace
  <1>3. Joins(r, "done", "place", NoBook, NoEdition, NoPlace, NoPlace)
    <2>1. "done" \in Points /\ "place" \in Kinds
      BY DEF Points, Kinds
    <2>2. QED  BY <1>1, <2>1, AskedKind DEF CreatePlace
  <1>4. OthersGoOn(r) /\ request'[r].pick = 0 /\ Sound(r)'
    BY <1>3, JoinsWell
  <1>5. Filed /\ Catalogued /\ Contained /\ Watched
    BY TypeParts
  <1>6. Filed'
    BY <1>1, <1>2, <1>5 DEF Filed, EditionsOf
  <1>7. Catalogued' /\ Counting
    BY <1>1, <1>2, <1>5, CountingStays DEF Catalogued
  <1>8. Contained'
    <2>1. q # p
      BY <1>2, <1>5, HoldingsAssumption DEF Catalogued
    <2>2. QED  BY <1>2, <1>5, <2>1 DEF Contained
  <1>9. BooksStay /\ request'[r].pick \in 0..Len(copies')
    BY <1>1, <1>4 DEF BooksStay, TypeOK
  <1>10. Well(r)
    BY <1>2, <1>4, <1>6, <1>7, <1>8, <1>9, PartsWell
  <1>11. QED  BY <1>1, <1>2, <1>3, <1>10

\* AskMove waits for its UPDATE with checks that hold.
LEMMA AskMoveWell ==
    ASSUME TypeOK, NEW r \in Requests, AskMove(r)
    PROVE  /\ Well(r) /\ request[r].pc = "new" /\ UNCHANGED <<catalogue, copies, shelving>>
           /\ \E p \in places, q \in places \cup {NoPlace} :
                /\ q # p /\ (q # NoPlace => ~isDescendant(q, p))
                /\ Joins(r, "move", "move", NoBook, NoEdition, p, q)
  <1>1. /\ request[r].pc = "new" /\ UNCHANGED <<catalogue, copies, shelving>>
        /\ request \in [Requests -> Request] /\ places \subseteq Places /\ Len(copies) \in Nat
        /\ spent' = spent /\ places \subseteq spent
    BY DEF AskMove, New, TypeOK, catalogue
  <1>2. PICK p \in places, q \in places \cup {NoPlace} :
        /\ q # p /\ (q # NoPlace => ~isDescendant(q, p))
        /\ Begin(r, [Waiting EXCEPT !.pc = "move", !.kind = "move", !.place = p, !.under = q])
    BY DEF AskMove
  <1>3. p \in Places /\ q \in Places \cup {NoPlace} /\ q \in spent' \cup {NoPlace}
    BY <1>1
  <1>4. Joins(r, "move", "move", NoBook, NoEdition, p, q)
    BY <1>1, <1>2, <1>3, AskedPlace
  <1>5. OthersGoOn(r) /\ request'[r].pick = 0 /\ Sound(r)'
    BY <1>2, <1>3, <1>4, JoinsWell
  <1>6. Well(r)
    BY <1>1, <1>5, QuietWell
  <1>7. QED  BY <1>1, <1>2, <1>4, <1>6

\* AskDeletePlace waits for its DELETE.
LEMMA AskDeletePlaceWell ==
    ASSUME TypeOK, NEW r \in Requests, AskDeletePlace(r)
    PROVE  /\ Well(r) /\ request[r].pc = "new" /\ UNCHANGED <<catalogue, copies, shelving>>
           /\ \E p \in Places : Joins(r, "delete", "delete", NoBook, NoEdition, p, NoPlace)
  <1>1. /\ request[r].pc = "new" /\ UNCHANGED <<catalogue, copies, shelving>>
        /\ request \in [Requests -> Request] /\ places \subseteq Places /\ Len(copies) \in Nat
    BY DEF AskDeletePlace, New, TypeOK
  <1>2. PICK p \in places :
        Begin(r, [Waiting EXCEPT !.pc = "delete", !.kind = "delete", !.place = p])
    BY DEF AskDeletePlace
  <1>3. p \in Places /\ NoPlace \in Places \cup {NoPlace}
    BY <1>1
  <1>4. Joins(r, "delete", "delete", NoBook, NoEdition, p, NoPlace)
    BY <1>1, <1>2, <1>3, AskedPlace
  <1>5. OthersGoOn(r) /\ request'[r].pick = 0 /\ Sound(r)'
    BY <1>3, <1>4, JoinsWell
  <1>6. Well(r)
    BY <1>1, <1>5, QuietWell
  <1>7. QED  BY <1>1, <1>3, <1>4, <1>6

\* MovePlace ends the request and leaves the copies alone.
LEMMA MovePlaceWell ==
    ASSUME TypeOK, NEW r \in Requests, Sound(r), MovePlace(r)
    PROVE  /\ Well(r) /\ request[r].pc = "move" /\ copies' = copies
           /\ request'[r].kind = "move" \/ request'[r].kind = "delete"
           /\ request'[r].pc \in {"done", "failed"}
  <1>1. /\ request[r].pc = "move" /\ copies' = copies /\ places' = places
        /\ books' = books /\ editions' = editions /\ spent' = spent
        /\ overlaps' = overlaps
        /\ request \in [Requests -> Request] /\ request[r].pick \in 0..Len(copies)
    BY DEF MovePlace, At, TypeOK, catalogue
  <1>2. /\ request[r].kind \in {"move", "delete"} /\ request[r].under # request[r].place
    BY <1>1 DEF Sound
  <1>3. Filed /\ Catalogued /\ Contained /\ Watched
    BY TypeParts
  <1>4. Filed' /\ Catalogued' /\ BooksStay
    BY <1>1, <1>3 DEF Filed, EditionsOf, Catalogued, BooksStay
  <1>5. CASE Go(r, "failed") /\ parent' = parent /\ raced' = raced
    <2>1. "failed" \in Points
      BY DEF Points
    <2>2. Goes(r, "failed", request[r].pick)
      BY <1>1, <1>5, <2>1, GoMoves
    <2>3. OthersGoOn(r) /\ request'[r].pick = request[r].pick /\ Sound(r)'
      BY <2>2, GoesWell
    <2>4. Contained' /\ Counting
      BY <1>1, <1>3, <1>5, CountingStays DEF Contained
    <2>5. Well(r)
      BY <1>1, <1>4, <2>3, <2>4, PartsWell
    <2>6. QED  BY <1>1, <1>2, <2>2, <2>5 DEF Goes
  <1>6. CASE /\ request[r].place \in places /\ request[r].under \in places \cup {NoPlace}
             /\ parent' = [parent EXCEPT ![request[r].place] = request[r].under]
             /\ raced' = (raced \/ request[r].passed)
             /\ request' \in [Requests -> Request]
             /\ request'[r].pc = "done" /\ request'[r].kind = request[r].kind
             /\ request'[r].book = request[r].book /\ request'[r].edition = request[r].edition
             /\ request'[r].place = request[r].place /\ request'[r].under = request[r].under
             /\ request'[r].pick = request[r].pick /\ request'[r].undone = request[r].undone
             /\ \A q \in Requests \ {r} :
                    /\ request'[q].pc = request[q].pc /\ request'[q].kind = request[q].kind
                    /\ request'[q].book = request[q].book
                    /\ request'[q].edition = request[q].edition
                    /\ request'[q].place = request[q].place
                    /\ request'[q].under = request[q].under
                    /\ request'[q].pick = request[q].pick /\ request'[q].found = request[q].found
                    /\ request'[q].undone = request[q].undone
                    /\ request'[q].passed = (request[q].passed \/ At(q, "move"))
    <2>1. \A q \in Requests \ {r} : request[q].passed => request'[q].passed
      BY <1>6, Zenon
    <2>2. OthersGoOn(r)
      BY <1>6, <2>1 DEF OthersGoOn
    <2>3. Sound(r)'
      BY <1>2, <1>6 DEF Sound
    <2>4. Contained'
      BY <1>1, <1>2, <1>3, <1>6 DEF Contained
    <2>5. Counting
      BY <1>1, <1>3, <1>6, CountingStays DEF Watched
    <2>6. Well(r)
      BY <1>1, <1>4, <1>6, <2>2, <2>3, <2>4, <2>5, PartsWell
    <2>7. QED  BY <1>1, <1>2, <1>6, <2>6
  <1>7. QED  BY <1>5, <1>6, MovePlaceMoves

\* DeletePlace ends the request and only takes places away from copies.
LEMMA DeletePlaceWell ==
    ASSUME TypeOK, NEW r \in Requests, Sound(r), DeletePlace(r)
    PROVE  /\ Well(r) /\ request[r].pc = "delete" /\ Writes
           /\ \A i \in DOMAIN copies :
                copies'[i].edition = copies[i].edition /\ copies'[i].live = copies[i].live
           /\ request[r].kind \in {"move", "delete"}
           /\ \E pc \in {"done", "failed"} : Goes(r, pc, request[r].pick)
  <1>1. /\ request[r].pc = "delete"
        /\ books' = books /\ editions' = editions /\ spent' = spent /\ raced' = raced
        /\ overlaps' = overlaps
        /\ request \in [Requests -> Request] /\ request[r].pick \in 0..Len(copies)
        /\ copies \in Seq(Row)
    BY DEF DeletePlace, At, TypeOK, catalogue
  <1>2. request[r].kind \in {"move", "delete"}
    BY <1>1 DEF Sound
  <1>3. Filed /\ Catalogued /\ Contained /\ Watched
    BY TypeParts
  <1>4. "done" \in Points /\ "failed" \in Points
    BY DEF Points
  <1>5. CASE Go(r, "failed") /\ places' = places /\ parent' = parent /\ copies' = copies
    <2>1. Goes(r, "failed", request[r].pick)
      BY <1>1, <1>4, <1>5, GoMoves
    <2>2. OthersGoOn(r) /\ request'[r].pick = request[r].pick /\ Sound(r)'
      BY <2>1, GoesWell
    <2>3. Filed' /\ Catalogued' /\ Contained' /\ Counting /\ BooksStay
      BY <1>1, <1>3, <1>5, CountingStays DEF Filed, EditionsOf, Catalogued, Contained, BooksStay
    <2>4. Well(r)
      BY <1>1, <1>5, <2>2, <2>3, PartsWell
    <2>5. Writes
      BY <1>1, <1>5, SameRows
    <2>6. QED  BY <1>1, <1>2, <1>5, <2>1, <2>4, <2>5
  <1>6. CASE /\ request[r].place \in places /\ places' = places \ {request[r].place}
             /\ Go(r, "done") /\ Writes
             /\ parent' = [q \in Places |-> IF q = request[r].place \/ parent[q] = request[r].place
                                             THEN NoPlace ELSE parent[q]]
             /\ \A i \in DOMAIN copies :
                    /\ copies'[i].edition = copies[i].edition
                    /\ copies'[i].live = copies[i].live
                    /\ copies'[i].place \in {copies[i].place, NoPlace} \ {request[r].place}
    <2>1. Goes(r, "done", request[r].pick)
      BY <1>1, <1>4, <1>6, GoMoves
    <2>2. OthersGoOn(r) /\ request'[r].pick = request[r].pick /\ Sound(r)'
      BY <2>1, GoesWell
    <2>3. Filed'
      <3>1. ASSUME NEW i \in DOMAIN copies
            PROVE  /\ copies[i].book \in books'
                   /\ copies'[i].edition \in {e \in editions' : BookOf[e] = copies[i].book}
                                               \cup {NoEdition}
                   /\ copies'[i].place \in places' \cup {NoPlace}
        BY <1>1, <1>3, <1>6 DEF Filed, EditionsOf
      <3>2. QED  BY <1>6, <3>1, FiledWrite
    <2>4. Catalogued' /\ Counting
      BY <1>1, <1>3, <1>6, CountingStays DEF Catalogued
    <2>5. Contained'
      <3>1. NoPlace \notin Places
        BY HoldingsAssumption
      <3>2. ASSUME NEW q \in Places
            PROVE  parent'[q] \in places' \cup {NoPlace} /\ parent'[q] # q
        <4>1. parent[q] \in places \cup {NoPlace} /\ parent[q] # q
          BY <1>3 DEF Contained
        <4>2. CASE q = request[r].place \/ parent[q] = request[r].place
          <5>1. parent'[q] = NoPlace
            BY <1>6, <4>2
          <5>2. QED  BY <5>1, <3>1
        <4>3. CASE ~(q = request[r].place \/ parent[q] = request[r].place)
          <5>1. parent'[q] = parent[q]
            BY <1>6, <4>3
          <5>2. QED  BY <5>1, <4>1, <4>3, <1>6
        <4>4. QED  BY <4>2, <4>3
      <3>3. QED  BY <1>6, <3>2 DEF Contained
    <2>6. BooksStay /\ Len(copies') = Len(copies)
      BY <1>6, WritesStay DEF Writes
    <2>7. Well(r)
      BY <1>1, <2>2, <2>3, <2>4, <2>5, <2>6, PartsWell
    <2>8. QED  BY <1>1, <1>2, <1>6, <2>1, <2>7
  <1>7. QED  BY <1>5, <1>6, DeletePlaceMoves

\* Every step keeps the types, and what the request that takes it relies on.
LEMMA StepWell ==
    ASSUME TypeOK, NEW r \in Requests, Sound(r), Step(r)
    PROVE  Well(r)
  <1>1. CASE AskAdd(r) \/ AskScan(r) \/ AskImport(r)
    BY <1>1, AskWell
  <1>2. CASE LookForCopy(r)
    BY <1>2, LookWell
  <1>3. CASE InsertCopy(r)
    BY <1>3, InsertWell
  <1>4. CASE ChooseCopy(r)
    BY <1>4, ChooseWell
  <1>5. CASE AdoptCopy(r)
    BY <1>5, AdoptWell
  <1>6. CASE FileCopy(r)
    BY <1>6, FileWell
  <1>7. CASE CreateBook(r)
    BY <1>7, CreateBookWell
  <1>8. CASE CreateCopy(r)
    BY <1>8, CreateCopyWell
  <1>9. CASE UpdateCopy(r)
    BY <1>9, UpdateCopyWell
  <1>10. CASE DeleteCopy(r) \/ RemoveBookFromLibrary(r)
    BY <1>10, RemoveWell DEF DeleteCopy, RemoveBookFromLibrary
  <1>11. CASE DeleteEdition(r)
    BY <1>11, DeleteEditionWell
  <1>12. CASE DeleteBook(r)
    BY <1>12, DeleteBookWell
  <1>13. CASE CreatePlace(r)
    BY <1>13, CreatePlaceWell
  <1>14. CASE AskMove(r)
    BY <1>14, AskMoveWell
  <1>15. CASE MovePlace(r)
    BY <1>15, MovePlaceWell
  <1>16. CASE AskDeletePlace(r)
    BY <1>16, AskDeletePlaceWell
  <1>17. CASE DeletePlace(r)
    BY <1>17, DeletePlaceWell
  <1>18. QED  BY <1>1, <1>2, <1>3, <1>4, <1>5, <1>6, <1>7, <1>8, <1>9, <1>10, <1>11, <1>12,
                 <1>13, <1>14, <1>15, <1>16, <1>17 DEF Step

\* What the other requests rely on outlasts the step.
LEMMA SoundSteps ==
    ASSUME TypeOK, \A q \in Requests : Sound(q), NEW r \in Requests, Well(r)
    PROVE  \A q \in Requests : Sound(q)'
  <1>1. SUFFICES ASSUME NEW q \in Requests, q # r
                 PROVE  Sound(q)'
    BY DEF Well
  <1>2. OthersGoOn(r) /\ BooksStay /\ spent \subseteq spent' /\ Sound(q)
    BY DEF Well
  <1>3. /\ request'[q].pc = request[q].pc /\ request'[q].kind = request[q].kind
        /\ request'[q].book = request[q].book /\ request'[q].edition = request[q].edition
        /\ request'[q].place = request[q].place /\ request'[q].under = request[q].under
        /\ request'[q].pick = request[q].pick /\ request'[q].found = request[q].found
    BY <1>1, <1>2 DEF OthersGoOn
  <1>4. request[q].pick # 0 => copies'[request[q].pick].book = copies[request[q].pick].book
    <2>1. copies \in Seq(Row) /\ request[q].pick \in 0..Len(copies)
      BY DEF TypeOK
    <2>2. request[q].pick # 0 => request[q].pick \in DOMAIN copies
      BY <2>1
    <2>3. QED  BY <1>2, <2>2 DEF BooksStay
  <1>5. QED  BY <1>2, <1>3, <1>4 DEF Sound
------------------------------------------------------------------------------
(* Who accounts for which copy *)

\* A smaller set has no more members.
LEMMA NoMore ==
    ASSUME NEW S, NEW T, IsFiniteSet(T), S \subseteq T
    PROVE  IsFiniteSet(S) /\ Cardinality(S) <= Cardinality(T)
           /\ Cardinality(S) \in Nat /\ Cardinality(T) \in Nat
  <1>1. IsFiniteSet(S) /\ Cardinality(S) <= Cardinality(T)
    BY FS_Subset
  <1>2. QED  BY <1>1, FS_CardinalityType

\* A set that gains at most one member has at most one more.
LEMMA OneMoreAtMost ==
    ASSUME NEW S, NEW T, NEW x, IsFiniteSet(T), S \subseteq T \cup {x}
    PROVE  IsFiniteSet(S) /\ Cardinality(S) <= Cardinality(T) + 1
           /\ Cardinality(S) \in Nat /\ Cardinality(T) \in Nat
  <1>1. /\ IsFiniteSet(T \cup {x})
        /\ Cardinality(T \cup {x}) = IF x \in T THEN Cardinality(T) ELSE Cardinality(T) + 1
    BY FS_AddElement
  <1>2. Cardinality(T) \in Nat
    BY FS_CardinalityType
  <1>3. Cardinality(T \cup {x}) <= Cardinality(T) + 1 /\ Cardinality(T \cup {x}) \in Nat
    BY <1>1, <1>2
  <1>4. IsFiniteSet(S) /\ Cardinality(S) <= Cardinality(T \cup {x}) /\ Cardinality(S) \in Nat
    BY <1>1, NoMore
  <1>5. QED  BY <1>2, <1>3, <1>4

\* A set that gains a member has at least one more.
LEMMA OneMoreAtLeast ==
    ASSUME NEW S, NEW T, NEW x, IsFiniteSet(T), S \cup {x} \subseteq T, x \notin S
    PROVE  Cardinality(S) + 1 <= Cardinality(T)
           /\ Cardinality(S) \in Nat /\ Cardinality(T) \in Nat
  <1>1. IsFiniteSet(S) /\ IsFiniteSet(S \cup {x})
        /\ Cardinality(S \cup {x}) <= Cardinality(T) /\ Cardinality(T) \in Nat
    BY NoMore
  <1>2. Cardinality(S \cup {x}) = Cardinality(S) + 1
    BY <1>1, FS_AddElement
  <1>3. Cardinality(S) \in Nat
    BY <1>1, FS_CardinalityType
  <1>4. QED  BY <1>1, <1>2, <1>3

\* Sets of requests are finite.
LEMMA RequestsFinite ==
    ASSUME NEW S \in SUBSET Requests
    PROVE  IsFiniteSet(S) /\ Cardinality(S) \in Nat
  BY HoldingsAssumption, NoMore

\* The sets that are counted are sets of requests.
LEMMA RequestSets ==
    ASSUME NEW b
    PROVE  /\ Settled(b) \subseteq Requests /\ Scanned(b) \subseteq Settled(b)
           /\ Settled(b)' \subseteq Requests /\ Scanned(b)' \subseteq Settled(b)'
  BY DEF Settled, Scanned, Through, About

\* The sets that are counted are sets of copies.
LEMMA CopySets ==
    ASSUME NEW cs \in Seq(Row), NEW b
    PROVE  /\ Held(cs, b) \subseteq DOMAIN cs /\ WithEdition(cs, b) \subseteq Held(cs, b)
           /\ IsFiniteSet(Held(cs, b)) /\ IsFiniteSet(WithEdition(cs, b))
  <1>1. Held(cs, b) \subseteq DOMAIN cs /\ WithEdition(cs, b) \subseteq Held(cs, b)
    BY DEF Held, WithEdition
  <1>2. QED  BY <1>1, HeldFinite

\* What is counted is a number.
LEMMA SpareIs ==
    ASSUME NEW b
    PROVE  /\ Spare(b) \in {0, 1} /\ (Spare(b))' \in {0, 1}
           /\ (Scanned(b)' \subseteq Scanned(b) => (Spare(b))' >= Spare(b))
           /\ (Scanned(b)' # {} => (Spare(b))' = 0) /\ (Scanned(b)' = {} => (Spare(b))' = 1)
  BY DEF Spare

\* What the accounts may do: stay; grow by a copy of r; grow by a copy that met
\* another; begin with one copy; and grow by a copy where all have an edition.
LEMMA HeldStays ==
    ASSUME NEW b \in Books, NEW r, TypeOK, Counting, HeldPaid(b),
           Held(copies', b) \subseteq Held(copies, b), Settled(b) \subseteq Settled(b)',
           Scanned(b)' \subseteq Scanned(b) \cup {r},
           r \in Scanned(b)' => r \in Scanned(b) \/ r \notin Settled(b)
    PROVE  HeldPaid(b)'
  <1>0. IsFiniteSet(Held(copies, b)) /\ IsFiniteSet(Settled(b)')
    BY CopySets, RequestSets, RequestsFinite DEF TypeOK
  <1>1. Cardinality(Held(copies', b)) <= Cardinality(Held(copies, b))
        /\ Cardinality(Held(copies', b)) \in Nat /\ Cardinality(Held(copies, b)) \in Nat
    BY <1>0, NoMore
  <1>2. Cardinality(Settled(b)) <= Cardinality(Settled(b)')
        /\ Cardinality(Settled(b)) \in Nat /\ Cardinality(Settled(b)') \in Nat
    BY <1>0, NoMore
  <1>3. overlaps[b] \in Nat /\ overlaps'[b] \in Nat /\ overlaps[b] <= overlaps'[b]
    BY TypeParts DEF Counting, Watched
  <1>4. Spare(b) \in {0, 1} /\ (Spare(b))' \in {0, 1}
    BY SpareIs
  <1>5. CASE Scanned(b)' \subseteq Scanned(b)
    <2>1. (Spare(b))' >= Spare(b)
      BY <1>5, SpareIs
    <2>2. QED  BY <1>1, <1>2, <1>3, <1>4, <2>1 DEF HeldPaid
  <1>6. CASE ~(Scanned(b)' \subseteq Scanned(b))
    <2>1. r \in Scanned(b)' /\ r \notin Settled(b)
      BY <1>6
    <2>2. Settled(b) \cup {r} \subseteq Settled(b)'
      BY <2>1, RequestSets
    <2>3. Cardinality(Settled(b)) + 1 <= Cardinality(Settled(b)')
      BY <1>0, <2>1, <2>2, OneMoreAtLeast
    <2>4. QED  BY <1>1, <1>2, <1>3, <1>4, <2>3 DEF HeldPaid
  <1>7. QED  BY <1>5, <1>6

\* A copy more is paid for by a request that is through now, and if that was
\* the first to bring an edition, by its having met another copy besides.
LEMMA HeldGrows ==
    ASSUME NEW b \in Books, NEW x, NEW r, TypeOK, Counting, HeldPaid(b),
           Held(copies', b) \subseteq Held(copies, b) \cup {x},
           Settled(b) \cup {r} \subseteq Settled(b)', r \notin Settled(b),
           Scanned(b)' \subseteq Scanned(b) \/ overlaps'[b] = overlaps[b] + 1
    PROVE  HeldPaid(b)'
  <1>0. IsFiniteSet(Held(copies, b)) /\ IsFiniteSet(Settled(b)')
    BY CopySets, RequestSets, RequestsFinite DEF TypeOK
  <1>1. Cardinality(Held(copies', b)) <= Cardinality(Held(copies, b)) + 1
        /\ Cardinality(Held(copies', b)) \in Nat /\ Cardinality(Held(copies, b)) \in Nat
    BY <1>0, OneMoreAtMost
  <1>2. Cardinality(Settled(b)) + 1 <= Cardinality(Settled(b)')
        /\ Cardinality(Settled(b)) \in Nat /\ Cardinality(Settled(b)') \in Nat
    BY <1>0, OneMoreAtLeast
  <1>3. overlaps[b] \in Nat /\ overlaps'[b] \in Nat /\ overlaps[b] <= overlaps'[b]
    BY TypeParts DEF Counting, Watched
  <1>4. Spare(b) \in {0, 1} /\ (Spare(b))' \in {0, 1}
    BY SpareIs
  <1>5. CASE Scanned(b)' \subseteq Scanned(b)
    <2>1. (Spare(b))' >= Spare(b)
      BY <1>5, SpareIs
    <2>2. QED  BY <1>1, <1>2, <1>3, <1>4, <2>1 DEF HeldPaid
  <1>6. CASE overlaps'[b] = overlaps[b] + 1
    BY <1>1, <1>2, <1>3, <1>4, <1>6 DEF HeldPaid
  <1>7. QED  BY <1>5, <1>6

\* A copy more that met another is paid for by having met it.
LEMMA HeldOverlaps ==
    ASSUME NEW b \in Books, NEW x, TypeOK, Counting, HeldPaid(b),
           Held(copies', b) \subseteq Held(copies, b) \cup {x},
           Settled(b) \subseteq Settled(b)', Scanned(b)' \subseteq Scanned(b),
           overlaps'[b] = overlaps[b] + 1
    PROVE  HeldPaid(b)'
  <1>0. IsFiniteSet(Held(copies, b)) /\ IsFiniteSet(Settled(b)')
    BY CopySets, RequestSets, RequestsFinite DEF TypeOK
  <1>1. Cardinality(Held(copies', b)) <= Cardinality(Held(copies, b)) + 1
        /\ Cardinality(Held(copies', b)) \in Nat /\ Cardinality(Held(copies, b)) \in Nat
    BY <1>0, OneMoreAtMost
  <1>2. Cardinality(Settled(b)) <= Cardinality(Settled(b)')
        /\ Cardinality(Settled(b)) \in Nat /\ Cardinality(Settled(b)') \in Nat
    BY <1>0, NoMore
  <1>3. overlaps[b] \in Nat
    BY TypeParts DEF Watched
  <1>4. Spare(b) \in {0, 1} /\ (Spare(b))' \in {0, 1} /\ (Spare(b))' >= Spare(b)
    BY SpareIs
  <1>5. QED  BY <1>1, <1>2, <1>3, <1>4 DEF HeldPaid

\* One copy needs nobody until an edition was brought, and then has somebody.
LEMMA HeldFirst ==
    ASSUME NEW b \in Books, NEW x, Counting, Held(copies', b) \subseteq {x}
    PROVE  HeldPaid(b)'
  <1>1. IsFiniteSet({x}) /\ Cardinality({x}) = 1
    BY FS_Singleton
  <1>2. Cardinality(Held(copies', b)) <= 1 /\ Cardinality(Held(copies', b)) \in Nat
    BY <1>1, NoMore
  <1>3. overlaps'[b] \in Nat
    BY DEF Counting, Watched
  <1>4. IsFiniteSet(Settled(b)') /\ Cardinality(Settled(b)') \in Nat
    BY RequestSets, RequestsFinite
  <1>5. CASE Scanned(b)' = {}
    <2>1. (Spare(b))' = 1
      BY <1>5, SpareIs
    <2>2. QED  BY <1>2, <1>3, <1>4, <2>1 DEF HeldPaid
  <1>6. CASE Scanned(b)' # {}
    <2>1. PICK q : q \in Scanned(b)'
      BY <1>6
    <2>2. {q} \subseteq Settled(b)'
      BY <2>1, RequestSets
    <2>3. Cardinality({q}) = 1
      BY FS_Singleton
    <2>4. 1 <= Cardinality(Settled(b)')
      BY <1>4, <2>2, <2>3, NoMore
    <2>5. (Spare(b))' = 0
      BY <1>6, SpareIs
    <2>6. QED  BY <1>2, <1>3, <1>4, <2>4, <2>5 DEF HeldPaid
  <1>7. QED  BY <1>5, <1>6

\* No copy is without an edition: all are accounted for by requests that are
\* through, so that r, which was not, may insert one (editions.go:326-341).
LEMMA HeldOwes ==
    ASSUME NEW b \in Books, NEW x, NEW r, TypeOK, Counting, EditionPaid(b),
           Held(copies', b) \subseteq WithEdition(copies, b) \cup {x},
           Settled(b) \cup {r} \subseteq Settled(b)', r \notin Settled(b)
    PROVE  HeldPaid(b)'
  <1>0. IsFiniteSet(WithEdition(copies, b)) /\ IsFiniteSet(Settled(b)')
    BY CopySets, RequestSets, RequestsFinite DEF TypeOK
  <1>1. Cardinality(Held(copies', b)) <= Cardinality(WithEdition(copies, b)) + 1
        /\ Cardinality(Held(copies', b)) \in Nat /\ Cardinality(WithEdition(copies, b)) \in Nat
    BY <1>0, OneMoreAtMost
  <1>2. Cardinality(Settled(b)) + 1 <= Cardinality(Settled(b)')
        /\ Cardinality(Settled(b)) \in Nat /\ Cardinality(Settled(b)') \in Nat
    BY <1>0, OneMoreAtLeast
  <1>3. overlaps'[b] \in Nat /\ (Spare(b))' \in {0, 1}
    BY SpareIs DEF Counting, Watched
  <1>4. QED  BY <1>1, <1>2, <1>3 DEF HeldPaid, EditionPaid

\* No more copies have an edition and nobody leaves those who are through.
LEMMA EditionStays ==
    ASSUME NEW b, EditionPaid(b), copies \in Seq(Row),
           WithEdition(copies', b) \subseteq WithEdition(copies, b),
           Settled(b) \subseteq Settled(b)'
    PROVE  EditionPaid(b)'
  <1>1. IsFiniteSet(WithEdition(copies, b))
    BY CopySets
  <1>2. IsFiniteSet(Settled(b)')
    BY RequestSets, RequestsFinite
  <1>3. Cardinality(WithEdition(copies', b)) <= Cardinality(WithEdition(copies, b))
        /\ Cardinality(WithEdition(copies', b)) \in Nat
        /\ Cardinality(WithEdition(copies, b)) \in Nat
    BY <1>1, NoMore
  <1>4. Cardinality(Settled(b)) <= Cardinality(Settled(b)')
        /\ Cardinality(Settled(b)) \in Nat /\ Cardinality(Settled(b)') \in Nat
    BY <1>2, NoMore
  <1>5. QED  BY <1>3, <1>4 DEF EditionPaid

\* A copy more with an edition is paid for by a request that is through now.
LEMMA EditionGrows ==
    ASSUME NEW b, NEW x, NEW r, EditionPaid(b), copies \in Seq(Row),
           WithEdition(copies', b) \subseteq WithEdition(copies, b) \cup {x},
           Settled(b) \cup {r} \subseteq Settled(b)', r \notin Settled(b)
    PROVE  EditionPaid(b)'
  <1>1. IsFiniteSet(WithEdition(copies, b))
    BY CopySets
  <1>2. IsFiniteSet(Settled(b)')
    BY RequestSets, RequestsFinite
  <1>3. Cardinality(WithEdition(copies', b)) <= Cardinality(WithEdition(copies, b)) + 1
        /\ Cardinality(WithEdition(copies', b)) \in Nat
        /\ Cardinality(WithEdition(copies, b)) \in Nat
    BY <1>1, OneMoreAtMost
  <1>4. Cardinality(Settled(b)) + 1 <= Cardinality(Settled(b)')
        /\ Cardinality(Settled(b)) \in Nat /\ Cardinality(Settled(b)') \in Nat
    BY <1>2, OneMoreAtLeast
  <1>5. QED  BY <1>3, <1>4 DEF EditionPaid

\* Only the request that takes the step comes or goes in these sets.
LEMMA OthersCount ==
    ASSUME NEW r \in Requests, NEW b, OthersGoOn(r)
    PROVE  /\ (r \in Settled(b) => r \in Settled(b)') => Settled(b) \subseteq Settled(b)'
           /\ Scanned(b)' \subseteq Scanned(b) \cup {r}
           /\ (r \in Scanned(b)' => r \in Scanned(b)) => Scanned(b)' \subseteq Scanned(b)
  <1>1. ASSUME NEW q \in Requests \ {r}
        PROVE  /\ q \in Settled(b) <=> q \in Settled(b)'
               /\ q \in Scanned(b) <=> q \in Scanned(b)'
    <2>1. /\ request'[q].pc = request[q].pc /\ request'[q].kind = request[q].kind
          /\ request'[q].book = request[q].book
      BY DEF OthersGoOn
    <2>2. QED  BY <2>1 DEF Settled, Scanned, Through, About
  <1>2. Settled(b) \subseteq Requests /\ Scanned(b)' \subseteq Requests
    BY DEF Settled, Scanned, Through, About
  <1>3. QED  BY <1>1, <1>2

\* No more copies and nobody leaves: both accounts hold.
LEMMA BothStay ==
    ASSUME NEW r \in Requests, NEW b \in Books, TypeOK, Well(r), HeldPaid(b), EditionPaid(b),
           Held(copies', b) \subseteq Held(copies, b),
           WithEdition(copies', b) \subseteq WithEdition(copies, b),
           r \in Settled(b) => r \in Settled(b)',
           r \in Scanned(b)' => r \in Scanned(b) \/ r \notin Settled(b)
    PROVE  HeldPaid(b)' /\ EditionPaid(b)'
  <1>1. OthersGoOn(r) /\ Counting /\ copies \in Seq(Row)
    BY DEF Well, TypeOK
  <1>2. Settled(b) \subseteq Settled(b)' /\ Scanned(b)' \subseteq Scanned(b) \cup {r}
    BY <1>1, OthersCount
  <1>3. QED  BY <1>1, <1>2, HeldStays, EditionStays

\* Rows that are written and not revived are no more copies of a book.
LEMMA WritesHeld ==
    ASSUME NEW b, Writes
    PROVE  /\ Held(copies', b) \subseteq Held(copies, b)
           /\ (\A i \in DOMAIN copies : copies'[i].edition # NoEdition
                                           => copies[i].edition # NoEdition)
                 => WithEdition(copies', b) \subseteq WithEdition(copies, b)
  <1>1. Held(copies', b) \subseteq Held(copies, b)
    BY DEF Writes, Held
  <1>2. Held(copies', b) \subseteq DOMAIN copies
    BY DEF Writes, Held
  <1>3. QED  BY <1>1, <1>2 DEF WithEdition

\* A row that is inserted is one copy more of its book.
LEMMA InsertsHeld ==
    ASSUME NEW b, NEW c, copies \in Seq(Row), Inserts(c)
    PROVE  /\ Held(copies', b) \subseteq Held(copies, b) \cup {Len(copies) + 1}
           /\ Held(copies, b) \subseteq Held(copies', b)
           /\ WithEdition(copies', b) \subseteq WithEdition(copies, b) \cup {Len(copies) + 1}
           /\ c.edition = NoEdition => WithEdition(copies', b) \subseteq WithEdition(copies, b)
           /\ c.book # b => /\ Held(copies', b) \subseteq Held(copies, b)
                            /\ WithEdition(copies', b) \subseteq WithEdition(copies, b)
           /\ c.book = b /\ c.live => Len(copies) + 1 \in Held(copies', b)
  <1>1. /\ DOMAIN copies' = DOMAIN copies \cup {Len(copies) + 1}
        /\ Len(copies) + 1 \notin DOMAIN copies
        /\ \A i \in DOMAIN copies : copies'[i] = copies[i]
        /\ copies'[Len(copies) + 1] = c
    BY InsertsStay
  <1>2. /\ Held(copies', b) \subseteq Held(copies, b) \cup {Len(copies) + 1}
        /\ Held(copies, b) \subseteq Held(copies', b)
        /\ c.book # b => Held(copies', b) \subseteq Held(copies, b)
        /\ c.book = b /\ c.live => Len(copies) + 1 \in Held(copies', b)
    BY <1>1 DEF Held
  <1>3. /\ WithEdition(copies', b) \subseteq WithEdition(copies, b) \cup {Len(copies) + 1}
        /\ c.edition = NoEdition => WithEdition(copies', b) \subseteq WithEdition(copies, b)
        /\ c.book # b => WithEdition(copies', b) \subseteq WithEdition(copies, b)
    BY <1>1 DEF WithEdition, Held
  <1>4. QED  BY <1>2, <1>3

\* A request that has not begun, and one about places, accounts for nothing.
LEMMA NotAdding ==
    ASSUME NEW r \in Requests, NEW b, request[r].kind \notin Printing \cup ByHand
    PROVE  r \notin Settled(b) /\ r \notin Scanned(b)
  BY DEF Settled, Scanned, Through, About

\* A request that was not made yet counts for nothing.
LEMMA NewIsNone ==
    ASSUME NEW r \in Requests, Sound(r), request[r].pc = "new"
    PROVE  request[r].kind \notin Printing \cup ByHand
  BY DEF Sound, Printing, ByHand

\* What a request that is made counts for.
LEMMA JoinsCount ==
    ASSUME NEW r \in Requests, NEW b, NEW pc, NEW kind, NEW c, NEW e, NEW p, NEW u,
           Joins(r, pc, kind, c, e, p, u)
    PROVE  /\ r \in Settled(b)' <=> /\ kind \in Printing \cup ByHand /\ c = b
                                    /\ pc \notin {"look", "insert", "choose", "adopt"}
           /\ r \in Scanned(b)' <=> /\ kind \in Printing /\ c = b
                                    /\ pc \notin {"look", "insert", "choose", "adopt"}
  BY DEF Joins, Settled, Scanned, Through, About

\* What a request that goes on counts for.
LEMMA GoesCount ==
    ASSUME NEW r \in Requests, NEW b, NEW pc, NEW i, Goes(r, pc, i)
    PROVE  /\ r \in Settled(b)' <=> /\ request[r].kind \in Printing \cup ByHand
                                    /\ request[r].book = b
                                    /\ pc \notin {"look", "insert", "choose", "adopt"}
           /\ r \in Scanned(b)' <=> /\ request[r].kind \in Printing /\ request[r].book = b
                                    /\ pc \notin {"look", "insert", "choose", "adopt"}
  BY DEF Goes, Settled, Scanned, Through, About

\* What a request counts for depends on its kind, book and program point.
LEMMA IsCount ==
    ASSUME NEW r \in Requests, NEW b
    PROVE  /\ r \in Settled(b) <=> /\ request[r].kind \in Printing \cup ByHand
                                   /\ request[r].book = b
                                   /\ request[r].pc \notin {"look", "insert", "choose", "adopt"}
           /\ r \in Scanned(b) <=> /\ request[r].kind \in Printing /\ request[r].book = b
                                   /\ request[r].pc \notin {"look", "insert", "choose", "adopt"}
  BY DEF Settled, Scanned, Through, About

\* The accounts after each step.
LEMMA AddingPaid ==
    ASSUME TypeOK, NEW r \in Requests, Sound(r), NEW b \in Books, HeldPaid(b), EditionPaid(b),
           AskAdd(r) \/ AskScan(r) \/ AskImport(r) \/ LookForCopy(r) \/ InsertCopy(r)
              \/ ChooseCopy(r)
    PROVE  HeldPaid(b)' /\ EditionPaid(b)'
  <1>0. copies \in Seq(Row)
    BY DEF TypeOK
  <1>1. CASE AskAdd(r) \/ AskScan(r) \/ AskImport(r)
    <2>1. Well(r) /\ copies' = copies
      BY <1>1, AskWell
    <2>2. request[r].pc = "new"
      BY <1>1 DEF AskAdd, AskScan, AskImport, New
    <2>3. r \notin Settled(b)
      BY <2>2, NewIsNone, NotAdding
    <2>4. QED  BY <2>1, <2>3, BothStay
  <1>2. CASE LookForCopy(r)
    <2>1. Well(r) /\ copies' = copies /\ request[r].pc = "look"
      BY <1>2, LookWell
    <2>2. r \notin Settled(b)
      BY <2>1, IsCount
    <2>3. QED  BY <2>1, <2>2, BothStay
  <1>3. CASE InsertCopy(r)
    <2>1. Well(r) /\ request[r].pc = "insert"
      BY <1>3, InsertWell
    <2>2. r \notin Settled(b)
      BY <2>1, IsCount
    <2>3. OthersGoOn(r) /\ Counting
      BY <2>1 DEF Well
    <2>4. CASE copies' = copies /\ Goes(r, "failed", request[r].pick)
      BY <2>1, <2>2, <2>4, BothStay
    <2>5. ASSUME Inserts(Copy(request[r].book, NoEdition, NoPlace, 0)),
                 Held(copies, request[r].book) # {}
                    => overlaps'[request[r].book] = overlaps[request[r].book] + 1,
                 NEW pc \in {"choose", "done"}, Goes(r, pc, request[r].pick),
                 pc = "done" => request[r].kind = "add"
          PROVE  HeldPaid(b)' /\ EditionPaid(b)'
      <3> DEFINE c == Copy(request[r].book, NoEdition, NoPlace, 0)
      <3>1. c.edition = NoEdition /\ c.book = request[r].book
        BY DEF Copy
      <3> HIDE DEF c
      <3>2. Inserts(c)
        BY <2>5 DEF c
      <3>3. WithEdition(copies', b) \subseteq WithEdition(copies, b)
        BY <1>0, <3>1, <3>2, InsertsHeld
      <3>4. CASE request[r].book # b
        <4>1. Held(copies', b) \subseteq Held(copies, b)
          BY <1>0, <3>1, <3>2, <3>4, InsertsHeld
        <4>2. QED  BY <2>1, <2>2, <3>3, <4>1, BothStay
      <3>5. CASE request[r].book = b
        <4>1. Held(copies', b) \subseteq Held(copies, b) \cup {Len(copies) + 1}
          BY <1>0, <3>2, InsertsHeld
        <4>2. r \notin Scanned(b)'
          BY <2>5, GoesCount DEF Printing
        <4>3. Settled(b) \subseteq Settled(b)' /\ Scanned(b)' \subseteq Scanned(b)
          BY <2>2, <2>3, <4>2, OthersCount
        <4>4. HeldPaid(b)'
          <5>1. CASE Held(copies, b) = {}
            BY <2>3, <4>1, <5>1, HeldFirst
          <5>2. CASE Held(copies, b) # {}
            BY <2>3, <2>5, <3>5, <4>1, <4>3, <5>2, HeldOverlaps
          <5>3. QED  BY <5>1, <5>2
        <4>5. QED  BY <1>0, <3>3, <4>3, <4>4, EditionStays
      <3>6. QED  BY <3>4, <3>5
    <2>6. QED  BY <1>3, <2>4, <2>5, InsertWell
  <1>4. CASE ChooseCopy(r)
    <2>1. Well(r) /\ copies' = copies /\ request[r].pc = "choose"
      BY <1>4, ChooseWell
    <2>2. r \notin Settled(b)
      BY <2>1, IsCount
    <2>3. QED  BY <2>1, <2>2, BothStay
  <1>5. QED  BY <1>1, <1>2, <1>3, <1>4

\* AdoptCopy keeps the accounts (IncrementCopyCount, editions.go:318-341).
LEMMA AdoptingPaid ==
    ASSUME TypeOK, NEW r \in Requests, Sound(r), NEW b \in Books, HeldPaid(b), EditionPaid(b),
           AdoptCopy(r)
    PROVE  HeldPaid(b)' /\ EditionPaid(b)'
  <1> DEFINE e == request[r].edition
             i == request[r].pick
  <1>0. copies \in Seq(Row)
    BY DEF TypeOK
  <1>1. /\ Well(r) /\ request[r].pc = "adopt" /\ request[r].kind \in {"scan", "import"}
        /\ e \in Editions /\ request[r].book = BookOf[e]
    BY AdoptWell
  <1>2. OthersGoOn(r) /\ Counting
    BY <1>1 DEF Well
  <1>3. r \notin Settled(b)
    BY <1>1, IsCount
  <1>4. ASSUME NEW pc \in {"done", "file", "failed"}, Goes(r, pc, i)
        PROVE  /\ Settled(b) \subseteq Settled(b)'
               /\ request[r].book = b => Settled(b) \cup {r} \subseteq Settled(b)'
    <2>1. r \in Settled(b)' <=> request[r].book = b
      BY <1>1, <1>4, GoesCount DEF Printing
    <2>2. QED  BY <1>2, <1>3, <2>1, OthersCount
  <1>5. ASSUME i \in DOMAIN copies, i # 0, copies[i].book = BookOf[e], Writes,
               \A j \in DOMAIN copies : j # i => copies'[j] = copies[j],
               NEW pc \in {"done", "file"}, Goes(r, pc, i)
        PROVE  HeldPaid(b)' /\ EditionPaid(b)'
    <2>1. Held(copies', b) \subseteq Held(copies, b)
      BY <1>5, WritesHeld
    <2>2. CASE request[r].book # b
      <3>1. WithEdition(copies', b) \subseteq WithEdition(copies, b)
        <4>1. i \notin Held(copies, b)
          BY <1>1, <1>5, <2>2 DEF Held
        <4>2. Held(copies', b) \subseteq DOMAIN copies
          BY <2>1 DEF Held
        <4>3. QED  BY <1>5, <2>1, <4>1, <4>2 DEF WithEdition
      <3>2. QED  BY <1>1, <1>3, <2>1, <3>1, BothStay
    <2>3. CASE request[r].book = b
      <3>1. WithEdition(copies', b) \subseteq WithEdition(copies, b) \cup {i}
        <4>1. Held(copies', b) \subseteq DOMAIN copies
          BY <2>1 DEF Held
        <4>2. QED  BY <1>5, <2>1, <4>1 DEF WithEdition
      <3>2. Settled(b) \cup {r} \subseteq Settled(b)'
        BY <1>4, <1>5, <2>3
      <3>3. Scanned(b)' \subseteq Scanned(b) \cup {r}
        BY <1>2, OthersCount
      <3>4. HeldPaid(b)'
        BY <1>2, <1>3, <2>1, <3>2, <3>3, HeldStays
      <3>5. QED  BY <1>0, <1>3, <3>1, <3>2, <3>4, EditionGrows
    <2>4. QED  BY <2>2, <2>3
  <1>6. ASSUME Inserts(Copy(BookOf[e], e, NoPlace, 0)),
               Editionless(copies, BookOf[e]) # {}
                  => overlaps'[BookOf[e]] = overlaps[BookOf[e]] + 1,
               NEW pc \in {"done", "file"}, Goes(r, pc, i)
        PROVE  HeldPaid(b)' /\ EditionPaid(b)'
    <2> DEFINE c == Copy(BookOf[e], e, NoPlace, 0)
    <2>1. c.book = BookOf[e]
      BY DEF Copy
    <2> HIDE DEF c
    <2>2. Inserts(c)
      BY <1>6 DEF c
    <2>3. CASE request[r].book # b
      <3>1. Held(copies', b) \subseteq Held(copies, b)
            /\ WithEdition(copies', b) \subseteq WithEdition(copies, b)
        BY <1>0, <1>1, <2>1, <2>2, <2>3, InsertsHeld
      <3>2. QED  BY <1>1, <1>3, <3>1, BothStay
    <2>4. CASE request[r].book = b
      <3>1. Held(copies', b) \subseteq Held(copies, b) \cup {Len(copies) + 1}
            /\ WithEdition(copies', b) \subseteq WithEdition(copies, b) \cup {Len(copies) + 1}
        BY <1>0, <2>2, InsertsHeld
      <3>2. Settled(b) \cup {r} \subseteq Settled(b)'
        BY <1>4, <1>6, <2>4
      <3>3. HeldPaid(b)'
        <4>1. CASE Editionless(copies, b) = {}
          <5>1. Held(copies, b) \subseteq WithEdition(copies, b)
            BY <4>1 DEF WithEdition, Editionless
          <5>2. QED  BY <1>2, <1>3, <3>1, <3>2, <5>1, HeldOwes
        <4>2. CASE Editionless(copies, b) # {}
          BY <1>1, <1>2, <1>3, <1>6, <2>4, <3>1, <3>2, <4>2, HeldGrows
        <4>3. QED  BY <4>1, <4>2
      <3>4. QED  BY <1>0, <1>3, <3>1, <3>2, <3>3, EditionGrows
    <2>5. QED  BY <2>3, <2>4
  <1>7. CASE copies' = copies /\ Goes(r, "failed", i)
    BY <1>1, <1>3, <1>7, BothStay
  <1>8. QED  BY <1>5, <1>6, <1>7, AdoptWell

\* CreateBook keeps the accounts: the library had no copy of the book.
LEMMA CreateBookPaid ==
    ASSUME TypeOK, NEW r \in Requests, Sound(r), NEW b \in Books, HeldPaid(b), EditionPaid(b),
           CreateBook(r)
    PROVE  HeldPaid(b)' /\ EditionPaid(b)'
  <1>0. copies \in Seq(Row)
    BY DEF TypeOK
  <1>1. Well(r) /\ request[r].pc = "new"
    BY CreateBookWell
  <1>2. PICK e \in Editions, p \in Places \cup {NoPlace} :
                /\ \A i \in DOMAIN copies : copies[i].book # BookOf[e]
                /\ Inserts(Copy(BookOf[e], e, p, 0))
                /\ Joins(r, "done", "create", BookOf[e], NoEdition, NoPlace, NoPlace)
    BY CreateBookWell
  <1> DEFINE c == Copy(BookOf[e], e, p, 0)
  <1>3. c.book = BookOf[e]
    BY DEF Copy
  <1> HIDE DEF c
  <1>4. Inserts(c)
    BY <1>2 DEF c
  <1>5. r \notin Settled(b)
    BY <1>1, NewIsNone, NotAdding
  <1>6. CASE BookOf[e] # b
    <2>1. Held(copies', b) \subseteq Held(copies, b)
          /\ WithEdition(copies', b) \subseteq WithEdition(copies, b)
      BY <1>0, <1>3, <1>4, <1>6, InsertsHeld
    <2>2. QED  BY <1>1, <1>5, <2>1, BothStay
  <1>7. CASE BookOf[e] = b
    <2>1. Held(copies', b) \subseteq Held(copies, b) \cup {Len(copies) + 1}
          /\ WithEdition(copies', b) \subseteq WithEdition(copies, b) \cup {Len(copies) + 1}
      BY <1>0, <1>4, InsertsHeld
    <2>2. Held(copies, b) = {}
      BY <1>2, <1>7 DEF Held
    <2>3. r \in Settled(b)'
      BY <1>2, <1>7, JoinsCount DEF Printing
    <2>4. OthersGoOn(r) /\ Counting
      BY <1>1 DEF Well
    <2>5. Settled(b) \cup {r} \subseteq Settled(b)'
      BY <1>5, <2>3, <2>4, OthersCount
    <2>6. HeldPaid(b)'
      BY <2>1, <2>2, <2>4, HeldFirst
    <2>7. QED  BY <1>0, <1>5, <2>1, <2>5, <2>6, EditionGrows
  <1>8. QED  BY <1>6, <1>7

\* CreateCopy keeps the accounts: a copy by hand has its request.
LEMMA CreateCopyPaid ==
    ASSUME TypeOK, NEW r \in Requests, Sound(r), NEW b \in Books, HeldPaid(b), EditionPaid(b),
           CreateCopy(r)
    PROVE  HeldPaid(b)' /\ EditionPaid(b)'
  <1>0. copies \in Seq(Row)
    BY DEF TypeOK
  <1>1. Well(r) /\ request[r].pc = "new"
    BY CreateCopyWell
  <1>2. PICK x \in Books, e \in Editions \cup {NoEdition},
               p \in Places \cup {NoPlace}, d \in {0, 1} :
                /\ Inserts(Copy(x, e, p, d))
                /\ Joins(r, "done", "copy", x, NoEdition, NoPlace, NoPlace)
    BY CreateCopyWell
  <1> DEFINE c == Copy(x, e, p, d)
  <1>3. c.book = x
    BY DEF Copy
  <1> HIDE DEF c
  <1>4. Inserts(c)
    BY <1>2 DEF c
  <1>5. r \notin Settled(b)
    BY <1>1, NewIsNone, NotAdding
  <1>6. CASE x # b
    <2>1. Held(copies', b) \subseteq Held(copies, b)
          /\ WithEdition(copies', b) \subseteq WithEdition(copies, b)
      BY <1>0, <1>3, <1>4, <1>6, InsertsHeld
    <2>2. QED  BY <1>1, <1>5, <2>1, BothStay
  <1>7. CASE x = b
    <2>1. Held(copies', b) \subseteq Held(copies, b) \cup {Len(copies) + 1}
          /\ WithEdition(copies', b) \subseteq WithEdition(copies, b) \cup {Len(copies) + 1}
      BY <1>0, <1>4, InsertsHeld
    <2>2. r \in Settled(b)' /\ r \notin Scanned(b)'
      BY <1>2, <1>7, JoinsCount DEF Printing, ByHand
    <2>3. OthersGoOn(r) /\ Counting
      BY <1>1 DEF Well
    <2>4. Settled(b) \cup {r} \subseteq Settled(b)' /\ Scanned(b)' \subseteq Scanned(b)
      BY <1>5, <2>2, <2>3, OthersCount
    <2>5. HeldPaid(b)'
      BY <1>5, <2>1, <2>3, <2>4, HeldGrows
    <2>6. QED  BY <1>0, <1>5, <2>1, <2>4, <2>5, EditionGrows
  <1>8. QED  BY <1>6, <1>7

\* UpdateCopy keeps the accounts: giving an edition by hand counts.
LEMMA UpdatePaid ==
    ASSUME TypeOK, NEW r \in Requests, Sound(r), NEW b \in Books, HeldPaid(b), EditionPaid(b),
           UpdateCopy(r)
    PROVE  HeldPaid(b)' /\ EditionPaid(b)'
  <1>0. copies \in Seq(Row)
    BY DEF TypeOK
  <1>1. Well(r) /\ request[r].pc = "new"
    BY UpdateCopyWell
  <1>2. PICK i \in DOMAIN copies, e \in Editions \cup {NoEdition} :
          /\ Writes /\ copies'[i].edition = e /\ copies'[i].live = copies[i].live
          /\ \A j \in DOMAIN copies : j # i => copies'[j] = copies[j]
          /\ Joins(r, "done", "edit",
                   IF copies[i].edition = NoEdition THEN copies[i].book ELSE NoBook,
                   NoEdition, NoPlace, NoPlace)
    BY UpdateCopyWell
  <1> DEFINE c == IF copies[i].edition = NoEdition THEN copies[i].book ELSE NoBook
  <1>3. Joins(r, "done", "edit", c, NoEdition, NoPlace, NoPlace)
    BY <1>2
  <1>4. r \notin Settled(b)
    BY <1>1, NewIsNone, NotAdding
  <1>5. Held(copies', b) \subseteq Held(copies, b)
    BY <1>2, WritesHeld
  <1>6. Held(copies', b) \subseteq DOMAIN copies
    BY <1>5 DEF Held
  <1>7. CASE i \in Held(copies, b) /\ copies[i].edition = NoEdition
    <2>1. c = b
      BY <1>7 DEF Held
    <2> HIDE DEF c
    <2>2. r \in Settled(b)'
      BY <1>3, <2>1, JoinsCount DEF ByHand
    <2>3. OthersGoOn(r) /\ Counting
      BY <1>1 DEF Well
    <2>4. Settled(b) \cup {r} \subseteq Settled(b)' /\ Scanned(b)' \subseteq Scanned(b) \cup {r}
      BY <1>4, <2>2, <2>3, OthersCount
    <2>5. WithEdition(copies', b) \subseteq WithEdition(copies, b) \cup {i}
      BY <1>2, <1>5, <1>6 DEF WithEdition
    <2>6. HeldPaid(b)'
      BY <1>4, <1>5, <2>3, <2>4, HeldStays
    <2>7. QED  BY <1>0, <1>4, <2>4, <2>5, <2>6, EditionGrows
  <1>8. CASE ~(i \in Held(copies, b) /\ copies[i].edition = NoEdition)
    <2>1. WithEdition(copies', b) \subseteq WithEdition(copies, b)
      BY <1>2, <1>5, <1>6, <1>8 DEF WithEdition
    <2>2. QED  BY <1>1, <1>4, <1>5, <2>1, BothStay
  <1>9. QED  BY <1>7, <1>8

\* Steps that add no copy and give no edition.
LEMMA RestPaid ==
    ASSUME TypeOK, NEW r \in Requests, Sound(r), NEW b \in Books, HeldPaid(b), EditionPaid(b),
           \/ FileCopy(r) \/ DeleteCopy(r) \/ RemoveBookFromLibrary(r) \/ DeleteEdition(r)
           \/ DeleteBook(r) \/ CreatePlace(r) \/ AskMove(r) \/ MovePlace(r)
           \/ AskDeletePlace(r) \/ DeletePlace(r)
    PROVE  HeldPaid(b)' /\ EditionPaid(b)'
  <1>0. copies \in Seq(Row) /\ Well(r)
    BY StepWell DEF TypeOK, Step
  <1>2. /\ Held(copies', b) \subseteq Held(copies, b)
        /\ WithEdition(copies', b) \subseteq WithEdition(copies, b)
    <2>1. CASE FileCopy(r)
      BY <2>1, FileWell, WritesHeld
    <2>2. ASSUME NEW x, NEW is, Remove(r, x, is)
          PROVE  /\ Held(copies', b) \subseteq Held(copies, b)
                 /\ WithEdition(copies', b) \subseteq WithEdition(copies, b)
      <3>1. Writes /\ \A i \in DOMAIN copies : copies'[i].edition = copies[i].edition
        BY <2>2, RemoveMoves
      <3>2. QED  BY <3>1, WritesHeld
    <2>3. CASE DeleteCopy(r) \/ RemoveBookFromLibrary(r)
      BY <2>2, <2>3 DEF DeleteCopy, RemoveBookFromLibrary
    <2>4. CASE DeleteEdition(r)
      <3>1. /\ Writes
            /\ \A i \in DOMAIN copies :
                  copies'[i].edition # NoEdition => copies[i].edition # NoEdition
        <4>1. PICK e \in editions :
            /\ Writes
            /\ \A i \in DOMAIN copies :
                /\ copies[i].edition = e => copies'[i].edition = NoEdition
                /\ copies[i].edition # e => copies'[i] = copies[i]
          BY <2>4, DeleteEditionMoves
        <4>2. QED  BY <4>1
      <3>2. QED  BY <3>1, WritesHeld
    <2>5. CASE DeleteBook(r) \/ CreatePlace(r) \/ AskMove(r) \/ MovePlace(r) \/ AskDeletePlace(r)
      <3>1. copies' = copies
        BY <2>5 DEF DeleteBook, CreatePlace, AskMove, MovePlace, AskDeletePlace
      <3>2. QED  BY <3>1
    <2>6. CASE DeletePlace(r)
      BY <2>6, DeletePlaceWell, WritesHeld
    <2>7. QED  BY <2>1, <2>3, <2>4, <2>5, <2>6
  <1>3. CASE FileCopy(r)
    <2>1. PICK pc \in {"done", "failed"} : Goes(r, pc, request[r].pick)
      BY <1>3, FileWell
    <2>2. request[r].pc = "file"
      BY <1>3, FileWell
    <2>3. /\ r \in Settled(b) <=> r \in Settled(b)'
          /\ r \in Scanned(b) <=> r \in Scanned(b)'
      BY <2>1, <2>2, GoesCount, IsCount
    <2>4. QED  BY <1>0, <1>2, <2>3, BothStay
  <1>4. CASE ~FileCopy(r)
    <2>1. request[r].kind \notin Printing \cup ByHand
      <3>1. request[r].pc \in {"new", "move", "delete"}
        BY <1>4 DEF DeleteCopy, RemoveBookFromLibrary, DeleteEdition, DeleteBook, CreatePlace,
                    AskMove, MovePlace, AskDeletePlace, DeletePlace, New, At
      <3>2. QED  BY <3>1 DEF Sound, Printing, ByHand
    <2>2. r \notin Settled(b)
      BY <2>1, NotAdding
    <2>3. QED  BY <1>0, <1>2, <2>2, BothStay
  <1>5. QED  BY <1>3, <1>4

\* Every step keeps the accounts of a book.
LEMMA PaidSteps ==
    ASSUME TypeOK, NEW r \in Requests, Sound(r), NEW b \in Books, HeldPaid(b), EditionPaid(b),
           Step(r)
    PROVE  HeldPaid(b)' /\ EditionPaid(b)'
  <1>1. QED
    BY AddingPaid, AdoptingPaid, CreateBookPaid, CreateCopyPaid, UpdatePaid, RestPaid DEF Step
------------------------------------------------------------------------------
(* What was added stays *)

\* Rows that are written and stay live stay copies of their book.
LEMMA WritesLive ==
    ASSUME NEW b, Writes, \A i \in DOMAIN copies : copies'[i].live = copies[i].live
    PROVE  Held(copies, b) \subseteq Held(copies', b)
  BY DEF Writes, Held

\* Only the two requests that remove copies make a book's copies fewer.
LEMMA NothingLost ==
    ASSUME TypeOK, NEW r \in Requests, Sound(r), Step(r), NEW b,
           ~DeleteCopy(r), ~RemoveBookFromLibrary(r)
    PROVE  Held(copies, b) \subseteq Held(copies', b)
  <1>0. copies \in Seq(Row)
    BY DEF TypeOK
  <1>1. ASSUME NEW c, Inserts(c)
        PROVE  Held(copies, b) \subseteq Held(copies', b)
    BY <1>0, <1>1, InsertsHeld
  <1>2. CASE copies' = copies
    BY <1>2
  <1>3. CASE InsertCopy(r)
    BY <1>1, <1>2, <1>3, InsertWell
  <1>4. CASE AdoptCopy(r)
    <2>1. CASE /\ request[r].pick \in DOMAIN copies /\ Writes
               /\ copies'[request[r].pick].live = copies[request[r].pick].live
               /\ \A j \in DOMAIN copies : j # request[r].pick => copies'[j] = copies[j]
      BY <2>1, WritesLive
    <2>2. QED  BY <1>1, <1>2, <1>4, <2>1, AdoptWell
  <1>5. CASE FileCopy(r)
    BY <1>5, FileWell, WritesLive
  <1>6. CASE CreateBook(r)
    BY <1>1, <1>6, CreateBookWell
  <1>7. CASE CreateCopy(r)
    BY <1>1, <1>7, CreateCopyWell
  <1>8. CASE UpdateCopy(r)
    <2>1. PICK i \in DOMAIN copies :
            /\ Writes /\ copies'[i].live = copies[i].live
            /\ \A j \in DOMAIN copies : j # i => copies'[j] = copies[j]
      BY <1>8, UpdateCopyWell
    <2>2. QED  BY <2>1, WritesLive
  <1>9. CASE DeleteEdition(r)
    <2>1. Writes /\ \A i \in DOMAIN copies : copies'[i].live = copies[i].live
      BY <1>9, DeleteEditionMoves
    <2>2. QED  BY <2>1, WritesLive
  <1>10. CASE DeletePlace(r)
    BY <1>10, DeletePlaceWell, WritesLive
  <1>11. CASE \/ AskAdd(r) \/ AskScan(r) \/ AskImport(r) \/ LookForCopy(r) \/ ChooseCopy(r)
              \/ DeleteBook(r) \/ CreatePlace(r) \/ AskMove(r) \/ MovePlace(r)
              \/ AskDeletePlace(r)
    <2>1. copies' = copies
      BY <1>11 DEF AskAdd, AskScan, AskImport, LookForCopy, ChooseCopy, DeleteBook, CreatePlace,
                   AskMove, MovePlace, AskDeletePlace
    <2>2. QED  BY <2>1
  <1>12. QED  BY <1>3, <1>4, <1>5, <1>6, <1>7, <1>8, <1>9, <1>10, <1>11 DEF Step

\* The request that takes the step.
LEMMA KeptActor ==
    ASSUME TypeOK, NEW r \in Requests, Sound(r), Kept(r), Step(r)
    PROVE  Kept(r)'
  <1>0. copies \in Seq(Row)
    BY DEF TypeOK
  <1>1. SUFFICES ASSUME request'[r].kind \in Adding,
                        request'[r].pc \notin {"look", "insert", "failed"}, ~request'[r].undone
                 PROVE  Held(copies', request'[r].book) # {}
    BY DEF Kept
  <1>2. ASSUME NEW c, Inserts(c), c.live, request'[r].book = c.book
        PROVE  Held(copies', request'[r].book) # {}
    <2>1. Len(copies) + 1 \in Held(copies', c.book)
      BY <1>0, <1>2, InsertsHeld
    <2>2. QED  BY <1>2, <2>1
  <1>3. CASE AskAdd(r) \/ AskScan(r) \/ AskImport(r)
    <2>1. PICK b \in books, pc \in {"look", "choose", "done"} :
             /\ request'[r].pc = pc /\ request'[r].book = b
             /\ pc = "look" \/ Held(copies, b) # {}
      BY <1>3, AskWell DEF Joins
    <2>2. copies' = copies
      BY <1>3, AskWell
    <2>3. QED  BY <1>1, <2>1, <2>2
  <1>4. CASE LookForCopy(r)
    <2>1. copies' = copies
      BY <1>4, LookWell
    <2>2. CASE Goes(r, "insert", 0)
      BY <1>1, <2>2 DEF Goes
    <2>3. CASE /\ Held(copies, request[r].book) # {}
               /\ \E pc \in {"choose", "done"} : Goes(r, pc, 0)
      BY <2>1, <2>3 DEF Goes
    <2>4. QED  BY <1>4, <2>2, <2>3, LookWell
  <1>5. CASE InsertCopy(r)
    <2>1. CASE Goes(r, "failed", request[r].pick)
      BY <1>1, <2>1 DEF Goes
    <2>2. CASE /\ Inserts(Copy(request[r].book, NoEdition, NoPlace, 0))
               /\ \E pc \in {"choose", "done"} : Goes(r, pc, request[r].pick)
      <3> DEFINE c == Copy(request[r].book, NoEdition, NoPlace, 0)
      <3>1. c.book = request[r].book /\ c.live
        BY DEF Copy
      <3>2. request'[r].book = request[r].book
        BY <2>2 DEF Goes
      <3> HIDE DEF c
      <3>3. Inserts(c)
        BY <2>2 DEF c
      <3>4. QED  BY <1>2, <3>1, <3>2, <3>3
    <2>3. QED  BY <1>5, <2>1, <2>2, InsertWell
  <1>6. CASE ChooseCopy(r) \/ AdoptCopy(r) \/ FileCopy(r)
    <2>1. /\ request[r].pc \in {"choose", "adopt", "file"}
          /\ request'[r].kind = request[r].kind /\ request'[r].book = request[r].book
          /\ request'[r].undone = request[r].undone
      <3>1. CASE ChooseCopy(r)
        BY <3>1, ChooseWell DEF Goes
      <3>2. CASE AdoptCopy(r)
        BY <3>2, AdoptWell DEF Goes
      <3>3. CASE FileCopy(r)
        BY <3>3, FileWell DEF Goes
      <3>4. QED  BY <1>6, <3>1, <3>2, <3>3
    <2>2. Held(copies, request[r].book) # {}
      BY <1>1, <2>1 DEF Kept
    <2>3. ~DeleteCopy(r) /\ ~RemoveBookFromLibrary(r)
      BY <2>1 DEF DeleteCopy, RemoveBookFromLibrary, New
    <2>4. Held(copies, request[r].book) \subseteq Held(copies', request[r].book)
      BY <2>3, NothingLost
    <2>5. QED  BY <2>1, <2>2, <2>4
  <1>7. CASE CreateBook(r)
    <2>1. PICK e \in Editions, p \in Places \cup {NoPlace} :
                /\ Inserts(Copy(BookOf[e], e, p, 0))
                /\ Joins(r, "done", "create", BookOf[e], NoEdition, NoPlace, NoPlace)
      BY <1>7, CreateBookWell
    <2> DEFINE c == Copy(BookOf[e], e, p, 0)
    <2>2. c.book = BookOf[e] /\ c.live
      BY DEF Copy
    <2>3. request'[r].book = BookOf[e]
      BY <2>1 DEF Joins
    <2> HIDE DEF c
    <2>4. Inserts(c)
      BY <2>1 DEF c
    <2>5. QED  BY <1>2, <2>2, <2>3, <2>4
  <1>8. CASE CreateCopy(r)
    <2>1. PICK b \in Books, e \in Editions \cup {NoEdition},
               p \in Places \cup {NoPlace}, d \in {0, 1} :
                /\ Inserts(Copy(b, e, p, d))
                /\ Joins(r, "done", "copy", b, NoEdition, NoPlace, NoPlace)
      BY <1>8, CreateCopyWell
    <2> DEFINE c == Copy(b, e, p, d)
    <2>2. c.book = b /\ c.live
      BY DEF Copy
    <2>3. request'[r].book = b
      BY <2>1 DEF Joins
    <2> HIDE DEF c
    <2>4. Inserts(c)
      BY <2>1 DEF c
    <2>5. QED  BY <1>2, <2>2, <2>3, <2>4
  <1>9. CASE \/ UpdateCopy(r) \/ DeleteCopy(r) \/ RemoveBookFromLibrary(r) \/ DeleteEdition(r)
             \/ DeleteBook(r) \/ CreatePlace(r) \/ AskMove(r) \/ MovePlace(r)
             \/ AskDeletePlace(r) \/ DeletePlace(r)
    <2>1. request'[r].kind \in {"edit", "remove", "place", "move", "delete"}
      <3>1. CASE UpdateCopy(r)
        BY <3>1, UpdateCopyWell DEF Joins
      <3>2. CASE DeleteCopy(r) \/ RemoveBookFromLibrary(r)
        BY <3>2, RemoveMoves DEF DeleteCopy, RemoveBookFromLibrary
      <3>3. CASE DeleteEdition(r)
        BY <3>3, DeleteEditionMoves DEF Joins
      <3>4. CASE DeleteBook(r)
        BY <3>4, DeleteBookWell DEF Joins
      <3>5. CASE CreatePlace(r)
        BY <3>5, CreatePlaceWell DEF Joins
      <3>6. CASE AskMove(r)
        BY <3>6, AskMoveWell DEF Joins
      <3>7. CASE MovePlace(r)
        BY <3>7, MovePlaceWell
      <3>8. CASE AskDeletePlace(r)
        BY <3>8, AskDeletePlaceWell DEF Joins
      <3>9. CASE DeletePlace(r)
        BY <3>9, DeletePlaceWell DEF Goes
      <3>10. QED  BY <1>9, <3>1, <3>2, <3>3, <3>4, <3>5, <3>6, <3>7, <3>8, <3>9
    <2>2. QED  BY <1>1, <2>1 DEF Adding
  <1>10. QED  BY <1>3, <1>4, <1>5, <1>6, <1>7, <1>8, <1>9 DEF Step

\* The others: those whose book lost a copy know of it.
LEMMA KeptOthers ==
    ASSUME TypeOK, NEW r \in Requests, Sound(r), Step(r),
           NEW q \in Requests, q # r, Kept(q)
    PROVE  Kept(q)'
  <1>1. OthersGoOn(r)
    BY StepWell DEF Well
  <1>2. /\ request'[q].pc = request[q].pc /\ request'[q].kind = request[q].kind
        /\ request'[q].book = request[q].book
        /\ request[q].undone => request'[q].undone
    BY <1>1 DEF OthersGoOn
  <1>3. SUFFICES ASSUME request'[q].kind \in Adding,
                        request'[q].pc \notin {"look", "insert", "failed"}, ~request'[q].undone
                 PROVE  Held(copies', request'[q].book) # {}
    BY DEF Kept
  <1>4. Held(copies, request[q].book) # {}
    BY <1>2, <1>3 DEF Kept
  <1>5. CASE ~DeleteCopy(r) /\ ~RemoveBookFromLibrary(r)
    <2>1. Held(copies, request[q].book) \subseteq Held(copies', request[q].book)
      BY <1>5, NothingLost
    <2>2. QED  BY <1>2, <1>4, <2>1
  <1>6. ASSUME NEW b, NEW is, Remove(r, b, is), \A i \in is : copies[i].book = b
        PROVE  Held(copies', request'[q].book) # {}
    <2>1. Writes /\ \A i \in DOMAIN copies : i \notin is => copies'[i] = copies[i]
      BY <1>6, RemoveMoves
    <2>2. request[q].book # b
      <3>1. Told(r, b)
        BY <1>6, RemoveMoves
      <3>2. QED  BY <1>3, <3>1 DEF Told
    <2>3. Held(copies, request[q].book) \subseteq Held(copies', request[q].book)
      BY <1>6, <2>1, <2>2 DEF Held, Writes
    <2>4. QED  BY <1>2, <1>4, <2>3
  <1>7. CASE DeleteCopy(r)
    <2>1. PICK i \in DOMAIN copies : Remove(r, copies[i].book, {i})
      BY <1>7 DEF DeleteCopy
    <2>2. QED  BY <1>6, <2>1
  <1>8. CASE RemoveBookFromLibrary(r)
    <2>1. PICK b \in books : Remove(r, b, Held(copies, b))
      BY <1>8 DEF RemoveBookFromLibrary
    <2>2. \A i \in Held(copies, b) : copies[i].book = b
      BY DEF Held
    <2>3. QED  BY <1>6, <2>1, <2>2
  <1>9. QED  BY <1>5, <1>7, <1>8
------------------------------------------------------------------------------
(* Places *)

\* The UPDATE of a move that goes through (copy_locations.go, UpdateLocation).
Moves(r) ==
    /\ request[r].place \in places /\ request[r].under \in places \cup {NoPlace}
    /\ parent' = [parent EXCEPT ![request[r].place] = request[r].under]
    /\ places' = places

\* Every other step leaves a place's parent alone or takes it away; c is a place
\* that is new and contains nothing yet, or none.
Prunes(c) ==
    /\ places' \subseteq places \cup {c}
    /\ \A x \in Places : parent'[x] \in Places =>
          parent'[x] # c /\ (x # c => parent'[x] = parent[x])

\* Every step but a move's UPDATE prunes, or leaves the places alone.
LEMMA StepPrunes ==
    ASSUME TypeOK, NEW r \in Requests, Step(r), ~MovePlace(r)
    PROVE  raced' = raced /\ \E c \in (Places \ spent) \cup {NoPlace} : Prunes(c)
  <1>1. /\ parent \in [Places -> places \cup {NoPlace}] /\ NoPlace \notin Places
        /\ places \subseteq Places /\ places \subseteq spent
    BY HoldingsAssumption DEF TypeOK
  <1>2. CASE CreatePlace(r)
    <2>1. PICK c \in Places \ spent, q \in places \cup {NoPlace} :
            places' = places \cup {c} /\ parent' = [parent EXCEPT ![c] = q]
      BY <1>2 DEF CreatePlace
    <2>2. \A x \in Places : parent'[x] # c /\ (x # c => parent'[x] = parent[x])
      BY <1>1, <2>1
    <2>3. Prunes(c)
      BY <2>1, <2>2 DEF Prunes
    <2>4. QED  BY <1>2, <2>3 DEF CreatePlace
  <1>3. CASE DeletePlace(r)
    <2>1. places' \subseteq places /\ raced' = raced
      BY <1>3 DEF DeletePlace
    <2>2. \A x \in Places : parent'[x] = parent[x] \/ parent'[x] = NoPlace
      BY <1>1, <1>3 DEF DeletePlace
    <2>3. Prunes(NoPlace)
      BY <1>1, <2>1, <2>2 DEF Prunes
    <2>4. QED  BY <2>1, <2>3
  <1>4. CASE ~CreatePlace(r) /\ ~DeletePlace(r)
    <2>1. places' = places /\ parent' = parent /\ raced' = raced
      BY <1>4 DEF Step, AskAdd, AskScan, AskImport, LookForCopy, InsertCopy, ChooseCopy, AdoptCopy,
                  FileCopy, CreateBook, CreateCopy, UpdateCopy, DeleteCopy,
                  RemoveBookFromLibrary, Remove, DeleteEdition, DeleteBook, AskMove,
                  AskDeletePlace, shelving
    <2>2. Prunes(NoPlace)
      BY <1>1, <2>1 DEF Prunes
    <2>3. QED  BY <2>1, <2>2
  <1>5. QED  BY <1>2, <1>3, <1>4

\* What contains a place that was there contained it before (isDescendant).
LEMMA PrunedUpwards ==
    ASSUME NEW c, Prunes(c), NEW p, p # c, NEW q, q \in Upwards(p)'
    PROVE  q \in Upwards(p)
  <1>0. PICK n \in 1..MaxDepth : \E path \in [1..n -> Places] :
            /\ q \in Places /\ path[1] = p /\ path[n] = q
            /\ \A i \in 1..(n - 1) : path[i + 1] = parent'[path[i]]
    BY DEF Upwards
  <1>1. PICK path \in [1..n -> Places] :
            /\ q \in Places /\ path[1] = p /\ path[n] = q
            /\ \A i \in 1..(n - 1) : path[i + 1] = parent'[path[i]]
    BY <1>0
  <1>2. n \in Nat \ {0}
    BY <1>1, HoldingsAssumption
  <1>3. ASSUME NEW i \in 1..(n - 1)
        PROVE  path[i + 1] = parent[path[i]]
    <2>1. i \in 1..n /\ i + 1 \in 1..n
      BY <1>2, <1>3
    <2>2. path[i] \in Places /\ parent'[path[i]] \in Places
      BY <1>1, <1>3, <2>1
    <2>3. path[i] # c
      <3>1. CASE i = 1
        BY <1>1, <3>1
      <3>2. CASE i # 1
        <4>1. i - 1 \in 1..(n - 1) /\ i - 1 \in 1..n /\ (i - 1) + 1 = i
          BY <1>2, <1>3, <3>2
        <4>2. path[i] = parent'[path[i - 1]] /\ path[i - 1] \in Places
          BY <1>1, <4>1
        <4>3. QED  BY <2>2, <4>2 DEF Prunes
      <3>3. QED  BY <3>1, <3>2
    <2>4. QED  BY <1>1, <1>3, <2>2, <2>3 DEF Prunes
  <1>4. QED  BY <1>0, <1>1, <1>3 DEF Upwards

\* The UPDATE of a move spoils the checks of those that wait for theirs.
LEMMA MovePasses ==
    ASSUME TypeOK, NEW r \in Requests, MovePlace(r)
    PROVE  \/ /\ Moves(r) /\ raced' = (raced \/ request[r].passed)
              /\ \A s \in Requests \ {r} : At(s, "move") => request'[s].passed
           \/ parent' = parent /\ raced' = raced /\ places' = places
  <1>1. places' = places
    BY DEF MovePlace
  <1>2. CASE /\ request[r].place \in places /\ request[r].under \in places \cup {NoPlace}
             /\ parent' = [parent EXCEPT ![request[r].place] = request[r].under]
             /\ raced' = (raced \/ request[r].passed)
             /\ request' = [s \in Requests |->
                    IF s = r THEN [request[r] EXCEPT !.pc = "done"]
                    ELSE [request[s] EXCEPT !.passed = @ \/ At(s, "move")]]
    <2>1. ASSUME NEW s \in Requests \ {r}, At(s, "move")
          PROVE  request'[s].passed
      <3>1. request'[s] = [request[s] EXCEPT !.passed = @ \/ At(s, "move")]
        BY <1>2
      <3>2. request[s] \in Request
        BY DEF TypeOK
      <3>3. QED  BY <2>1, <3>1, <3>2 DEF Request
    <2>2. QED  BY <1>1, <1>2, <2>1 DEF Moves
  <1>3. CASE UNCHANGED <<parent, raced>>
    BY <1>1, <1>3
  <1>4. QED  BY <1>2, <1>3 DEF MovePlace
\* The request that takes the step: only asking for a move waits for one.
LEMMA ClearedActor ==
    ASSUME TypeOK, NEW r \in Requests, Sound(r), Step(r)
    PROVE  Cleared(r)'
  <1>1. CASE AskMove(r)
    <2>1. parent' = parent
      BY <1>1, AskMoveWell DEF shelving
    <2>2. PICK p \in places, q \in places \cup {NoPlace} :
                /\ q # p /\ (q # NoPlace => ~isDescendant(q, p))
                /\ Joins(r, "move", "move", NoBook, NoEdition, p, q)
      BY <1>1, AskMoveWell
    <2>3. request'[r].place = p /\ request'[r].under = q
      BY <2>2 DEF Joins
    <2>4. q # NoPlace => ~isDescendant(q, p)'
      BY <2>1, <2>2 DEF isDescendant, Upwards
    <2>5. QED  BY <2>3, <2>4 DEF Cleared, isDescendant
  <1>2. CASE ~AskMove(r)
    <2>1. request'[r].pc # "move"
      <3>1. CASE AskAdd(r) \/ AskScan(r) \/ AskImport(r)
        BY <3>1, AskWell DEF Joins
      <3>2. CASE LookForCopy(r)
        BY <3>2, LookWell DEF Goes
      <3>3. CASE InsertCopy(r)
        BY <3>3, InsertWell DEF Goes
      <3>4. CASE ChooseCopy(r)
        BY <3>4, ChooseWell DEF Goes
      <3>5. CASE AdoptCopy(r)
        BY <3>5, AdoptWell DEF Goes
      <3>6. CASE FileCopy(r)
        BY <3>6, FileWell DEF Goes
      <3>7. CASE CreateBook(r)
        BY <3>7, CreateBookWell DEF Joins
      <3>8. CASE CreateCopy(r)
        BY <3>8, CreateCopyWell DEF Joins
      <3>9. CASE UpdateCopy(r)
        BY <3>9, UpdateCopyWell DEF Joins
      <3>10. CASE DeleteCopy(r) \/ RemoveBookFromLibrary(r)
        BY <3>10, RemoveMoves DEF DeleteCopy, RemoveBookFromLibrary
      <3>11. CASE DeleteEdition(r)
        BY <3>11, DeleteEditionMoves DEF Joins
      <3>12. CASE DeleteBook(r)
        BY <3>12, DeleteBookWell DEF Joins
      <3>13. CASE CreatePlace(r)
        BY <3>13, CreatePlaceWell DEF Joins
      <3>14. CASE MovePlace(r)
        BY <3>14, MovePlaceWell
      <3>15. CASE AskDeletePlace(r)
        BY <3>15, AskDeletePlaceWell DEF Joins
      <3>16. CASE DeletePlace(r)
        BY <3>16, DeletePlaceWell DEF Goes
      <3>17. QED  BY <1>2, <3>1, <3>2, <3>3, <3>4, <3>5, <3>6, <3>7, <3>8, <3>9, <3>10, <3>11,
                     <3>12, <3>13, <3>14, <3>15, <3>16 DEF Step
    <2>2. QED  BY <2>1 DEF Cleared, At
  <1>3. QED  BY <1>1, <1>2

\* The others: their checks still hold unless a move went through.
LEMMA ClearedOthers ==
    ASSUME TypeOK, NEW r \in Requests, Sound(r), Step(r),
           NEW q \in Requests, q # r, Sound(q), Cleared(q)
    PROVE  Cleared(q)'
  <1>1. OthersGoOn(r)
    BY StepWell DEF Well
  <1>2. /\ request'[q].pc = request[q].pc /\ request'[q].place = request[q].place
        /\ request'[q].under = request[q].under
        /\ request[q].passed => request'[q].passed
    BY <1>1 DEF OthersGoOn
  <1>3. SUFFICES ASSUME request[q].pc = "move", ~request'[q].passed,
                        request[q].under # NoPlace,
                        isDescendant(request[q].under, request[q].place)'
                 PROVE  FALSE
    BY <1>2 DEF Cleared, At, isDescendant
  <1>4. request[q].place \notin Upwards(request[q].under)
    BY <1>2, <1>3 DEF Cleared, At, isDescendant
  <1>5. request[q].place \in Upwards(request[q].under)'
    BY <1>2, <1>3 DEF isDescendant
  <1>6. CASE parent' = parent
    BY <1>2, <1>4, <1>5, <1>6 DEF Upwards
  <1>7. CASE MovePlace(r)
    <2>1. CASE \A s \in Requests \ {r} : At(s, "move") => request'[s].passed
      BY <1>3, <2>1 DEF At
    <2>2. QED  BY <1>6, <1>7, <2>1, MovePasses
  <1>8. CASE ~MovePlace(r)
    <2>1. PICK c \in (Places \ spent) \cup {NoPlace} : Prunes(c)
      BY <1>8, StepPrunes
    <2>2. request[q].under # c
      BY <1>3 DEF Sound
    <2>3. PICK p, x : p = request[q].under /\ x = request[q].place
      OBVIOUS
    <2>4. x \in Upwards(p)' /\ p # c
      BY <1>2, <1>5, <2>2, <2>3 DEF Upwards
    <2>5. x \in Upwards(p)
      BY <2>1, <2>4, PrunedUpwards
    <2>6. QED  BY <1>4, <2>3, <2>5
  <1>9. QED  BY <1>7, <1>8
\* Places are a forest: of any of them one is in none of the others.
Forest == \A ps \in SUBSET places : ps # {} => \E p \in ps : parent[p] \notin ps

\* Pruning leaves a forest.
LEMMA PrunedForest ==
    ASSUME places \subseteq Places, Forest, NEW c, Prunes(c), places' \subseteq Places
    PROVE  Forest'
  <1>1. SUFFICES ASSUME NEW ps \in SUBSET places', ps # {}, \A p \in ps : parent'[p] \in ps
                 PROVE  FALSE
    BY DEF Forest
  <1>2. \A p \in ps : parent'[p] # c /\ (p # c => parent'[p] = parent[p])
    BY <1>1 DEF Prunes
  <1>3. ps \ {c} # {}
    BY <1>1, <1>2
  <1>4. ps \ {c} \in SUBSET places
    BY DEF Prunes
  <1>5. \A p \in ps \ {c} : parent[p] \in ps \ {c}
    BY <1>1, <1>2
  <1>6. QED  BY <1>3, <1>4, <1>5 DEF Forest

\* In a forest of at most MaxDepth places isDescendant walks to the top: what
\* contains a place it passed is passed too.
LEMMA UpwardsClosed ==
    ASSUME places \subseteq Places, parent \in [Places -> places \cup {NoPlace}], Forest,
           IsFiniteSet(Places), Cardinality(Places) <= MaxDepth,
           NEW p \in places, NEW q \in Upwards(p), parent[q] \in Places
    PROVE  parent[q] \in Upwards(p)
  <1>0. PICK n \in 1..MaxDepth : \E path \in [1..n -> Places] :
            /\ q \in Places /\ path[1] = p /\ path[n] = q
            /\ \A i \in 1..(n - 1) : path[i + 1] = parent[path[i]]
    BY DEF Upwards
  <1>1. PICK path \in [1..n -> Places] :
            /\ q \in Places /\ path[1] = p /\ path[n] = q
            /\ \A i \in 1..(n - 1) : path[i + 1] = parent[path[i]]
    BY <1>0
  <1>2. n \in Nat \ {0} /\ MaxDepth \in Nat \ {0} /\ NoPlace \notin Places
    BY <1>0, HoldingsAssumption
  <1> DEFINE longer == [i \in 1..(n + 1) |-> IF i = n + 1 THEN parent[q] ELSE path[i]]
  <1>3. /\ longer \in [1..(n + 1) -> Places] /\ longer[1] = p /\ longer[n + 1] = parent[q]
        /\ \A i \in 1..n : longer[i] = path[i]
    BY <1>1, <1>2
  <1> HIDE DEF longer
  <1>4. \A i \in 1..n : longer[i + 1] = parent[longer[i]]
    <2>1. TAKE i \in 1..n
    <2>2. CASE i = n
      BY <1>1, <1>3, <2>2
    <2>3. CASE i # n
      <3>1. i \in 1..(n - 1) /\ i + 1 \in 1..n
        BY <1>2, <2>3
      <3>2. QED  BY <1>1, <1>3, <3>1
    <2>4. QED  BY <2>2, <2>3
  <1>5. CASE n < MaxDepth
    <2>1. n + 1 \in 1..MaxDepth /\ (n + 1) - 1 = n
      BY <1>2, <1>5
    <2>2. QED  BY <1>3, <1>4, <2>1 DEF Upwards
  <1>6. CASE ~(n < MaxDepth)
    <2>1. Cardinality(Places) <= n
      BY <1>0, <1>2, <1>6
    <2>2. IsFiniteSet(1..(n + 1)) /\ Cardinality(1..(n + 1)) = n + 1
      BY <1>2, FS_Interval
    <2>3. Cardinality(Places) \in Nat
      BY FS_CardinalityType
    <2>4. Cardinality(Places) < Cardinality(1..(n + 1))
      BY <1>2, <2>1, <2>2, <2>3
    <2>5. \E i, j \in 1..(n + 1) : i # j /\ longer[i] = longer[j]
      BY <1>3, <2>2, <2>4, FS_PigeonHole
    <2>6. PICK i, j \in 1..(n + 1) : i < j /\ longer[i] = longer[j]
      BY <1>2, <2>5
    <2> DEFINE loop == {longer[k] : k \in i..(j - 1)}
    <2>7. \A k \in 1..(n + 1) : longer[k] \in places
      <3>1. TAKE k \in 1..(n + 1)
      <3>2. CASE k = 1
        BY <1>3, <3>2
      <3>3. CASE k # 1
        <4>1. k - 1 \in 1..n /\ k - 1 \in 1..(n + 1) /\ (k - 1) + 1 = k
          BY <1>2, <3>3
        <4>2. longer[k] = parent[longer[k - 1]] /\ longer[k - 1] \in Places /\ longer[k] \in Places
          BY <1>3, <1>4, <4>1
        <4>3. QED  BY <1>2, <4>2
      <3>4. QED  BY <3>2, <3>3
    <2>8. loop \in SUBSET places /\ loop # {}
      <3>1. i \in i..(j - 1) /\ \A k \in i..(j - 1) : k \in 1..(n + 1)
        BY <1>2, <2>6
      <3>2. QED  BY <2>7, <3>1
    <2>9. \A x \in loop : parent[x] \in loop
      <3>1. TAKE x \in loop
      <3>2. PICK k \in i..(j - 1) : x = longer[k]
        OBVIOUS
      <3>3. k \in 1..n /\ longer[k + 1] = parent[x]
        BY <1>2, <1>4, <2>6, <3>2
      <3>4. CASE k + 1 \in i..(j - 1)
        BY <3>3, <3>4
      <3>5. CASE k + 1 \notin i..(j - 1)
        <4>1. k + 1 = j /\ i \in i..(j - 1)
          BY <1>2, <2>6, <3>2, <3>5
        <4>2. QED  BY <2>6, <3>3, <4>1
      <3>6. QED  BY <3>4, <3>5
    <2>10. QED  BY <2>8, <2>9 DEF Forest
  <1>7. QED  BY <1>5, <1>6

\* A move whose checks still hold leaves a forest.
LEMMA MovedForest ==
    ASSUME TypeOK, Forest, NEW r \in Requests, At(r, "move"), Moves(r), Cleared(r),
           ~request[r].passed, IsFiniteSet(Places), Cardinality(Places) <= MaxDepth
    PROVE  Forest'
  <1> DEFINE p == request[r].place
             q == request[r].under
  <1>1. /\ places \subseteq Places /\ NoPlace \notin Places /\ MaxDepth \in Nat \ {0}
        /\ parent \in [Places -> places \cup {NoPlace}]
    BY HoldingsAssumption DEF TypeOK
  <1>2. /\ p \in places /\ q \in places \cup {NoPlace}
        /\ parent' = [parent EXCEPT ![p] = q] /\ places' = places
        /\ q # NoPlace => p \notin Upwards(q)
    BY DEF Moves, Cleared, isDescendant
  <1> HIDE DEF p, q
  <1>3. SUFFICES ASSUME NEW ps \in SUBSET places, ps # {}, \A x \in ps : parent'[x] \in ps
                 PROVE  FALSE
    BY <1>2 DEF Forest
  <1>4. /\ \A x \in ps : x \in Places
        /\ \A x \in ps : x # p => parent'[x] = parent[x]
        /\ p \in ps => q \in ps
    <2>1. \A x \in Places : parent'[x] = IF x = p THEN q ELSE parent[x]
      BY <1>1, <1>2
    <2>2. QED  BY <1>1, <1>3, <2>1
  <1>5. CASE p \notin ps
    BY <1>3, <1>4, <1>5 DEF Forest
  <1>6. CASE p \in ps
    <2>1. q \in ps /\ q \in places /\ q \in Places /\ p \notin Upwards(q)
      BY <1>1, <1>2, <1>4, <1>6
    <2> DEFINE R == ps \cap Upwards(q)
    <2>2. q \in R
      <3> DEFINE path == [i \in 1..1 |-> q]
      <3>1. /\ 1 \in 1..MaxDepth /\ path \in [1..1 -> Places] /\ path[1] = q
            /\ \A i \in 1..(1 - 1) : path[i + 1] = parent[path[i]]
        BY <1>1, <2>1
      <3>2. q \in Upwards(q)
        BY <2>1, <3>1 DEF Upwards
      <3>3. QED  BY <2>1, <3>2
    <2>3. \A x \in R : parent[x] \in R
      <3>1. TAKE x \in R
      <3>2. parent[x] \in ps /\ parent[x] \in Places
        BY <1>3, <1>4, <2>1
      <3>3. parent[x] \in Upwards(q)
        BY <1>1, <2>1, <3>2, UpwardsClosed
      <3>4. QED  BY <3>2, <3>3
    <2>4. R \in SUBSET places
      BY <1>3
    <2>5. QED  BY <2>2, <2>3, <2>4 DEF Forest
  <1>7. QED  BY <1>5, <1>6

\* Every step keeps the places a forest, unless a move overtook another.
LEMMA LoopSteps ==
    ASSUME TypeOK, NEW r \in Requests, Sound(r), Cleared(r), Step(r), LoopsNeedTwoMoves,
           IsFiniteSet(Places), Cardinality(Places) <= MaxDepth
    PROVE  LoopsNeedTwoMoves'
  <1>1. places \subseteq Places /\ places' \subseteq Places
    <2>1. TypeOK'
      BY StepWell DEF Well
    <2>2. QED  BY <2>1 DEF TypeOK
  <1>2. SUFFICES ASSUME ~raced'
                 PROVE  Forest'
    BY DEF LoopsNeedTwoMoves, Forest
  <1>3. CASE MovePlace(r)
    <2>1. CASE parent' = parent /\ raced' = raced /\ places' = places
      BY <1>2, <2>1 DEF LoopsNeedTwoMoves, Forest
    <2>2. CASE Moves(r) /\ raced' = (raced \/ request[r].passed)
      <3>1. ~raced /\ ~request[r].passed
        BY <1>2, <2>2
      <3>2. Forest /\ At(r, "move")
        BY <1>3, <3>1 DEF LoopsNeedTwoMoves, Forest, MovePlace
      <3>3. QED  BY <2>2, <3>1, <3>2, MovedForest
    <2>3. QED  BY <1>3, <2>1, <2>2, MovePasses
  <1>4. CASE ~MovePlace(r)
    <2>1. PICK c \in (Places \ spent) \cup {NoPlace} : Prunes(c) /\ raced' = raced
      BY <1>4, StepPrunes
    <2>2. Forest
      BY <1>2, <2>1 DEF LoopsNeedTwoMoves, Forest
    <2>3. QED  BY <1>1, <2>1, <2>2, PrunedForest
  <1>5. QED  BY <1>3, <1>4
------------------------------------------------------------------------------
(* SetEditionCopyCount *)

\* The members of S that come before x in the order L; those that fewer than n
\* members come before.
Below(S, L, x) == {y \in S : <<y, x>> \in L}
First(S, L, n) == {x \in S : Cardinality(Below(S, L, x)) < n}

\* Of a finite set in a strict order L, as many members have fewer than n
\* members before them as there are, up to n (ORDER BY ... OFFSET, LIMIT).
LEMMA Ranks ==
    ASSUME NEW S, IsFiniteSet(S), NEW L, NEW n \in Nat,
           \A x \in S : <<x, x>> \notin L,
           \A x, y \in S : x # y => <<x, y>> \in L \/ <<y, x>> \in L,
           \A x, y, z \in S : <<x, y>> \in L /\ <<y, z>> \in L => <<x, z>> \in L
    PROVE  Cardinality(First(S, L, n)) = IF n < Cardinality(S) THEN n ELSE Cardinality(S)
  <1> DEFINE m == Cardinality(S)
             below(x) == {y \in S : <<y, x>> \in L}
             rank == [x \in S |-> Cardinality(below(x))]
             low == {x \in S : rank[x] < n}
             k == IF n < m THEN n ELSE m
             g == [x \in low |-> rank[x]]
  <1>1. m \in Nat
    BY FS_CardinalityType
  <1>2. ASSUME NEW x \in S
        PROVE  IsFiniteSet(below(x)) /\ rank[x] \in 0..(m - 1)
    <2>1. IsFiniteSet(S \ {x}) /\ Cardinality(S \ {x}) = m - 1
      BY FS_RemoveElement
    <2>2. below(x) \in SUBSET (S \ {x})
      OBVIOUS
    <2>5. rank[x] = Cardinality(below(x))
      OBVIOUS
    <2> HIDE DEF rank, below, m
    <2>3. IsFiniteSet(below(x)) /\ Cardinality(below(x)) <= m - 1
      BY <2>1, <2>2, FS_Subset
    <2>4. Cardinality(below(x)) \in Nat
      BY <2>3, FS_CardinalityType
    <2>6. QED  BY <1>1, <2>3, <2>4, <2>5
  <1>3. ASSUME NEW x \in S, NEW y \in S, <<x, y>> \in L
        PROVE  rank[x] # rank[y]
    <2>1. below(x) \in SUBSET below(y)
      BY <1>3
    <2>2. x \in below(y) /\ x \notin below(x)
      BY <1>3
    <2>3. IsFiniteSet(below(y)) /\ below(x) # below(y)
      BY <1>2, <2>2
    <2>4. rank[x] = Cardinality(below(x)) /\ rank[y] = Cardinality(below(y))
      OBVIOUS
    <2> HIDE DEF rank, below, m
    <2>5. QED  BY <2>1, <2>3, <2>4, FS_Subset
  <1>4. low = {x \in S : Cardinality(below(x)) < n}
    OBVIOUS
  <1> HIDE DEF rank
  <1>5. \A x, y \in S : rank[x] = rank[y] => x = y
    BY <1>3
  <1>6. DOMAIN rank = S
    BY DEF rank
  <1>7. rank \in [S -> 0..(m - 1)]
    <2>1. rank = [x \in S |-> rank[x]]
      BY <1>6 DEF rank
    <2>2. QED  BY <1>2, <2>1
  <1> HIDE DEF below, m
  <1>8. IsFiniteSet(0..(m - 1)) /\ Cardinality(0..(m - 1)) = m
    <2>1. 0 \in Int /\ m - 1 \in Int
      BY <1>1
    <2>2. /\ IsFiniteSet(0..(m - 1))
          /\ Cardinality(0..(m - 1)) = IF 0 > m - 1 THEN 0 ELSE (m - 1) - 0 + 1
      BY <2>1, FS_Interval
    <2>3. QED  BY <1>1, <2>2
  <1>9. rank \in Surjection(S, 0..(m - 1))
    <2>1. rank \in Injection(S, 0..(m - 1))
      BY <1>5, <1>7 DEF Injection, IsInjective
    <2>2. Cardinality(S) = Cardinality(0..(m - 1)) <=> rank \in Surjection(S, 0..(m - 1))
      BY <1>8, <2>1, FS_Injection
    <2>3. QED  BY <1>8, <2>2 DEF m
  <1>10. k \in Nat /\ k <= m /\ k <= n /\ (k = n \/ k = m)
    BY <1>1
  <1> HIDE DEF k
  <1>11. IsFiniteSet(0..(k - 1)) /\ Cardinality(0..(k - 1)) = k
    <2>1. 0 \in Int /\ k - 1 \in Int
      BY <1>10
    <2>2. /\ IsFiniteSet(0..(k - 1))
          /\ Cardinality(0..(k - 1)) = IF 0 > k - 1 THEN 0 ELSE (k - 1) - 0 + 1
      BY <2>1, FS_Interval
    <2>3. QED  BY <1>10, <2>2
  <1>12. \A x \in S : rank[x] < n <=> rank[x] \in 0..(k - 1)
    BY <1>1, <1>7, <1>10
  <1>13. g \in Injection(low, 0..(k - 1))
    <2>1. g \in [low -> 0..(k - 1)]
      BY <1>12
    <2>2. \A x, y \in low : g[x] = g[y] => x = y
      BY <1>5
    <2>3. QED  BY <2>1, <2>2 DEF Injection, IsInjective
  <1>14. g \in Surjection(low, 0..(k - 1))
    <2>1. ASSUME NEW t \in 0..(k - 1)
          PROVE  \E x \in low : g[x] = t
      <3>1. t \in 0..(m - 1)
        BY <1>1, <1>10
      <3>2. PICK x \in S : rank[x] = t
        BY <1>9, <3>1 DEF Surjection
      <3>3. x \in low
        BY <1>12, <3>2
      <3>4. QED  BY <3>2, <3>3
    <2>2. g \in [low -> 0..(k - 1)]
      BY <1>12
    <2>3. QED  BY <2>1, <2>2 DEF Surjection
  <1> HIDE DEF g, low
  <1>15. Cardinality(low) = k
    BY <1>11, <1>13, <1>14, FS_Injection
  <1>16. low = First(S, L, n)
    BY <1>4 DEF First, Below, below
  <1>17. QED  BY <1>15, <1>16 DEF k, m
\* As many copies of the edition are kept as asked for, if there are as many.
LEMMA KeptCopies ==
    ASSUME NEW cs \in Seq(Row), NEW e, NEW n \in Nat
    PROVE  LET kept == Retired(cs, Surplus(cs, e, n))
           IN  /\ kept \in Seq(Row) /\ Len(kept) = Len(cs) /\ DOMAIN kept = DOMAIN cs
               /\ Cardinality(Printed(kept, e))
                    = IF n < Cardinality(Printed(cs, e)) THEN n ELSE Cardinality(Printed(cs, e))
               /\ \A b : Editionless(kept, b) \subseteq Editionless(cs, b)
               /\ \A i \in DOMAIN cs : i \notin Printed(cs, e) => kept[i] = cs[i]
  <1> DEFINE S == Printed(cs, e)
             L == {p \in S \X S : Before(cs, p[1], p[2])}
             gone == Surplus(cs, e, n)
             kept == Retired(cs, gone)
  <1>1. S \in SUBSET (DOMAIN cs) /\ gone \in SUBSET S
    BY DEF Printed, Surplus
  <1>2. IsFiniteSet(S)
    BY <1>1, HeldFinite
  <1>3. \A i \in S : cs[i].described \in {0, 1} /\ i \in Nat
    <2>1. \A i \in DOMAIN cs : cs[i] \in Row /\ i \in Nat
      OBVIOUS
    <2>2. \A i \in S : cs[i] \in Row /\ i \in Nat
      BY <1>1, <2>1
    <2> HIDE DEF S
    <2>3. QED  BY <2>2, RowFields
  <1>4. \A x, y \in S : <<x, y>> \in L <=> Before(cs, x, y)
    OBVIOUS
  <1> HIDE DEF L, S
  <1>5. \A x \in S : <<x, x>> \notin L
    BY <1>3, <1>4 DEF Before
  <1>6. \A x, y \in S : x # y => <<x, y>> \in L \/ <<y, x>> \in L
    BY <1>3, <1>4 DEF Before
  <1>7. \A x, y, z \in S : <<x, y>> \in L /\ <<y, z>> \in L => <<x, z>> \in L
    BY <1>3, <1>4 DEF Before
  <1>8. Cardinality(First(S, L, n))
              = IF n < Cardinality(S) THEN n ELSE Cardinality(S)
    BY <1>2, <1>5, <1>6, <1>7, Ranks
  <1>9. \A x \in S : x \notin gone <=> Cardinality(Below(S, L, x)) < n
    <2>1. TAKE x \in S
    <2>2. Below(S, L, x) = {y \in S : Before(cs, y, x)}
      BY <1>4 DEF Below
    <2>3. Below(S, L, x) \in SUBSET (DOMAIN cs)
      BY <1>1 DEF Below
    <2>4. Cardinality(Below(S, L, x)) \in Nat
      BY <2>3, HeldFinite
    <2>5. gone = {i \in S : Cardinality({y \in S : Before(cs, y, i)}) >= n}
      BY DEF Surplus, S
    <2>6. x \in gone <=> Cardinality(Below(S, L, x)) >= n
      BY <2>2, <2>5
    <2> HIDE DEF gone
    <2>7. QED  BY <2>4, <2>6
  <1> HIDE DEF gone
  <1>10. /\ kept \in Seq(Row) /\ Len(kept) = Len(cs) /\ DOMAIN kept = DOMAIN cs
         /\ \A i \in DOMAIN cs :
              /\ kept[i].book = cs[i].book /\ kept[i].edition = cs[i].edition
              /\ i \in gone => kept[i].live = FALSE
              /\ i \notin gone => kept[i] = cs[i]
    BY RetiredRows
  <1> HIDE DEF kept
  <1>11. Printed(kept, e) = First(S, L, n)
    <2>1. \A i \in DOMAIN cs : i \in Printed(kept, e) <=> i \in S /\ i \notin gone
      BY <1>10 DEF Printed, S
    <2>2. Printed(kept, e) = {i \in S : i \notin gone}
      BY <1>1, <1>10, <2>1 DEF Printed
    <2>3. QED  BY <1>9, <2>2 DEF First
  <1>12. \A b : Editionless(kept, b) \subseteq Editionless(cs, b)
    BY <1>10 DEF Editionless, Held
  <1>13. \A i \in DOMAIN cs : i \notin S => kept[i] = cs[i]
    BY <1>1, <1>10
  <1>14. QED  BY <1>8, <1>10, <1>11, <1>12, <1>13 DEF kept, gone, S

\* As many copies without an edition take it as are short, if there are as many.
LEMMA AdoptedCopies ==
    ASSUME NEW cs \in Seq(Row), NEW e \in Editions, NEW n \in Nat
    PROVE  LET spare == Editionless(cs, BookOf[e])
               chosen == Adopting(cs, e, n)
               k == Shortfall(cs, e, n)
           IN  /\ chosen \in SUBSET spare /\ k \in Nat
               /\ Cardinality(chosen) = IF k < Cardinality(spare) THEN k ELSE Cardinality(spare)
  <1> DEFINE S == Editionless(cs, BookOf[e])
             L == {p \in S \X S : p[1] < p[2]}
             k == Shortfall(cs, e, n)
             chosen == Adopting(cs, e, n)
  <1>1. S \in SUBSET (DOMAIN cs) /\ Printed(cs, e) \in SUBSET (DOMAIN cs)
    BY DEF Editionless, Held, Printed
  <1>2. IsFiniteSet(S) /\ Cardinality(Printed(cs, e)) \in Nat
    BY <1>1, HeldFinite
  <1>3. k \in Nat
    BY <1>2 DEF Shortfall
  <1>4. \A i \in S : i \in Nat
    <2>1. \A i \in DOMAIN cs : i \in Nat
      OBVIOUS
    <2>2. QED  BY <1>1, <2>1
  <1>5. chosen = {x \in S : Cardinality({y \in S : y < x}) < k}
    BY DEF Adopting
  <1> HIDE DEF S, k, chosen
  <1>6. \A x, y \in S : <<x, y>> \in L <=> x < y
    OBVIOUS
  <1> HIDE DEF L
  <1>7. \A x \in S : <<x, x>> \notin L
    BY <1>4, <1>6
  <1>8. \A x, y \in S : x # y => <<x, y>> \in L \/ <<y, x>> \in L
    BY <1>4, <1>6
  <1>9. \A x, y, z \in S : <<x, y>> \in L /\ <<y, z>> \in L => <<x, z>> \in L
    BY <1>4, <1>6
  <1>10. Cardinality(First(S, L, k))
              = IF k < Cardinality(S) THEN k ELSE Cardinality(S)
    BY <1>2, <1>3, <1>7, <1>8, <1>9, Ranks
  <1>11. \A x \in S : Below(S, L, x) = {y \in S : y < x}
    BY <1>6 DEF Below
  <1>12. First(S, L, k) = chosen
    BY <1>5, <1>11 DEF First
  <1>13. QED  BY <1>3, <1>5, <1>10, <1>12 DEF S, k, chosen
\* The copies that are adopted are copies of the edition then, and no longer
\* without one.
LEMMA AfterAdopting ==
    ASSUME NEW cs \in Seq(Row), NEW e \in Editions, NEW n \in Nat
    PROVE  LET ad == Adopted(cs, e, Adopting(cs, e, n))
               held == Cardinality(Printed(cs, e))
               spare == Cardinality(Editionless(cs, BookOf[e]))
               k == Shortfall(cs, e, n)
           IN  /\ ad \in Seq(Row) /\ Len(ad) = Len(cs) /\ DOMAIN ad = DOMAIN cs
               /\ Cardinality(Printed(ad, e)) = held + (IF k < spare THEN k ELSE spare)
               /\ held \in Nat /\ spare \in Nat
               /\ k >= spare => Editionless(ad, BookOf[e]) = {}
               /\ \A i \in DOMAIN cs : i \notin Editionless(cs, BookOf[e]) => ad[i] = cs[i]
  <1> DEFINE chosen == Adopting(cs, e, n)
             ad == Adopted(cs, e, chosen)
             S == Editionless(cs, BookOf[e])
             P == Printed(cs, e)
             k == Shortfall(cs, e, n)
  <1>1. /\ chosen \in SUBSET S /\ k \in Nat
        /\ Cardinality(chosen) = IF k < Cardinality(S) THEN k ELSE Cardinality(S)
    BY AdoptedCopies
  <1>2. /\ S \in SUBSET (DOMAIN cs) /\ P \in SUBSET (DOMAIN cs) /\ P \cap S = {}
        /\ \A i \in S : cs[i].live /\ cs[i].edition = NoEdition
    BY HoldingsAssumption DEF Editionless, Held, Printed
  <1>3. e # NoEdition /\ e \in Editions \cup {NoEdition}
    BY HoldingsAssumption
  <1> HIDE DEF chosen, S, k
  <1>4. /\ ad \in Seq(Row) /\ Len(ad) = Len(cs) /\ DOMAIN ad = DOMAIN cs
        /\ \A i \in DOMAIN cs :
              /\ ad[i].live = cs[i].live
              /\ i \in chosen => ad[i].edition = e
              /\ i \notin chosen => ad[i] = cs[i]
    BY <1>3, AdoptedRows
  <1> HIDE DEF ad
  <1>5. IsFiniteSet(P) /\ IsFiniteSet(chosen) /\ IsFiniteSet(S)
        /\ Cardinality(P) \in Nat /\ Cardinality(chosen) \in Nat /\ Cardinality(S) \in Nat
    <2>1. chosen \in SUBSET (DOMAIN cs)
      BY <1>1, <1>2
    <2> HIDE DEF P
    <2>2. QED  BY <1>2, <2>1, HeldFinite
  <1>6. Printed(ad, e) = P \cup chosen
    <2>1. \A i \in DOMAIN cs : i \in Printed(ad, e) <=> i \in P \/ i \in chosen
      BY <1>1, <1>2, <1>4 DEF Printed
    <2>2. Printed(ad, e) \in SUBSET (DOMAIN cs)
      BY <1>4 DEF Printed
    <2> HIDE DEF P
    <2>3. QED  BY <1>1, <1>2, <2>1, <2>2
  <1> HIDE DEF P
  <1>7. Cardinality(Printed(ad, e)) = Cardinality(P) + Cardinality(chosen)
    <2>0. P \cap chosen = {}
      BY <1>1, <1>2
    <2>1. Cardinality(P \cap chosen) = 0
      BY <2>0, FS_EmptySet
    <2>2. Cardinality(P \cup chosen)
            = Cardinality(P) + Cardinality(chosen) - Cardinality(P \cap chosen)
      BY <1>5, FS_Union
    <2>3. QED  BY <1>5, <1>6, <2>1, <2>2
  <1>8. ASSUME k >= Cardinality(S)
        PROVE  Editionless(ad, BookOf[e]) = {}
    <2>1. Cardinality(chosen) = Cardinality(S)
      BY <1>1, <1>5, <1>8
    <2>2. chosen = S
      BY <1>1, <1>5, <2>1, FS_Subset
    <2>3. ASSUME NEW i \in Editionless(ad, BookOf[e])
          PROVE  FALSE
      <3>1. i \in DOMAIN cs /\ ad[i].edition = NoEdition
        BY <1>4, <2>3 DEF Editionless, Held
      <3>2. i \notin chosen
        BY <1>3, <1>4, <3>1
      <3>3. ad[i] = cs[i]
        BY <1>4, <3>1, <3>2
      <3>4. i \in S
        BY <1>4, <2>3, <3>3 DEF Editionless, Held, S
      <3>5. QED  BY <2>2, <3>2, <3>4
    <2>4. QED  BY <2>3
  <1>9. \A i \in DOMAIN cs : i \notin S => ad[i] = cs[i]
    BY <1>1, <1>4
  <1>10. QED  BY <1>1, <1>4, <1>5, <1>7, <1>8, <1>9 DEF chosen, ad, S, P, k

\* Copies that are still short are added after the others (generate_series).
LEMMA AfterToppingUp ==
    ASSUME NEW cs \in Seq(Row), NEW e \in Editions, NEW n \in Nat
    PROVE  LET up == ToppedUp(cs, e, n)
               held == Cardinality(Printed(cs, e))
           IN  /\ Cardinality(Printed(up, e)) = IF n > held THEN n ELSE held
               /\ \A i \in DOMAIN cs : up[i] = cs[i]
               /\ Len(up) > Len(cs) => n > held
               /\ Editionless(up, BookOf[e]) \subseteq Editionless(cs, BookOf[e])
  <1> DEFINE up == ToppedUp(cs, e, n)
             P == Printed(cs, e)
             k == Shortfall(cs, e, n)
             c == Copy(BookOf[e], e, NoPlace, 0)
             l == Len(cs)
  <1>1. P \in SUBSET (DOMAIN cs) /\ e # NoEdition /\ BookOf[e] \in Books
    BY HoldingsAssumption DEF Printed
  <1>2. IsFiniteSet(P) /\ Cardinality(P) \in Nat
    BY <1>1, HeldFinite
  <1>3. k \in Nat /\ k = IF n > Cardinality(P) THEN n - Cardinality(P) ELSE 0
    BY <1>2 DEF Shortfall
  <1>4. c.edition = e /\ c.live = TRUE
    BY DEF Copy
  <1>5. up = cs \o [i \in 1..k |-> c]
    BY DEF ToppedUp
  <1>6. c \in Row
    <2>1. NoPlace \in Places \cup {NoPlace} /\ e \in Editions \cup {NoEdition} /\ 0 \in {0, 1}
      OBVIOUS
    <2>2. QED  BY <1>1, <2>1, CopyIsRow
  <1> HIDE DEF up, k, c
  <1>7. /\ l \in Nat /\ DOMAIN cs = 1..l
        /\ Len(up) = l + k /\ DOMAIN up = 1..(l + k)
        /\ \A i \in 1..l : up[i] = cs[i]
        /\ \A i \in (l + 1)..(l + k) : up[i] = c
    <2>1. [i \in 1..k |-> c] \in Seq(Row) /\ Len([i \in 1..k |-> c]) = k
      BY <1>3, <1>6
    <2>2. QED  BY <1>3, <1>5, <2>1
  <1> DEFINE fresh == (l + 1)..(l + k)
  <1>8. Printed(up, e) = P \cup fresh
    <2>1. \A i \in 1..(l + k) : i \in Printed(up, e) <=> i \in P \/ i \in fresh
      <3>1. TAKE i \in 1..(l + k)
      <3>2. CASE i \in 1..l
        BY <1>3, <1>7, <3>2 DEF Printed
      <3>3. CASE i \notin 1..l
        <4>1. i \in fresh
          BY <1>3, <1>7, <3>3
        <4>2. QED  BY <1>4, <1>7, <4>1 DEF Printed
      <3>4. QED  BY <3>2, <3>3
    <2>2. /\ Printed(up, e) \in SUBSET (1..(l + k))
          /\ P \in SUBSET (1..(l + k)) /\ fresh \in SUBSET (1..(l + k))
      <3>1. Printed(up, e) \in SUBSET (1..(l + k))
        BY <1>7 DEF Printed
      <3>2. 1..l \in SUBSET (1..(l + k)) /\ fresh \in SUBSET (1..(l + k))
        BY <1>3, <1>7
      <3>3. QED  BY <1>1, <1>7, <3>1, <3>2
    <2>3. QED  BY <2>1, <2>2
  <1>9. IsFiniteSet(fresh) /\ Cardinality(fresh) = k
    <2>1. l + 1 \in Int /\ l + k \in Int
      BY <1>3, <1>7
    <2>2. /\ IsFiniteSet(fresh)
          /\ Cardinality(fresh) = IF l + 1 > l + k THEN 0 ELSE (l + k) - (l + 1) + 1
      BY <2>1, FS_Interval
    <2>3. QED  BY <1>3, <1>7, <2>2
  <1>10. Cardinality(P \cap fresh) = 0
    <2>1. P \cap fresh = {}
      BY <1>1, <1>3, <1>7
    <2>2. QED  BY <2>1, FS_EmptySet
  <1> HIDE DEF fresh, P
  <1>11. Cardinality(Printed(up, e)) = Cardinality(P) + k
    <2>1. Cardinality(P \cup fresh)
            = Cardinality(P) + Cardinality(fresh) - Cardinality(P \cap fresh)
      BY <1>2, <1>9, FS_Union
    <2>2. QED  BY <1>2, <1>3, <1>8, <1>9, <1>10, <2>1
  <1>12. ASSUME NEW i \in Editionless(up, BookOf[e])
         PROVE  i \in Editionless(cs, BookOf[e])
    <2>1. i \in 1..(l + k) /\ up[i].edition = NoEdition
      BY <1>7, <1>12 DEF Editionless, Held
    <2>2. i \in 1..l
      BY <1>1, <1>3, <1>4, <1>7, <2>1
    <2>3. QED  BY <1>7, <1>12, <2>2 DEF Editionless, Held
  <1>13. QED  BY <1>2, <1>3, <1>7, <1>11, <1>12 DEF up, P

\* SetEditionCopyCount, for whatever copies there are (library_books.go:170-245).
LEMMA ExactCount ==
    ASSUME NEW rows \in Seq(Row), NEW e \in Editions, NEW n \in Nat
    PROVE  LET cs == SetEditionCopyCount(rows, e, n)
           IN  /\ Cardinality(Printed(cs, e)) = n
               /\ Len(cs) > Len(rows) => Editionless(cs, BookOf[e]) = {}
               /\ \A i \in DOMAIN rows :
                     i \notin Printed(rows, e) \cup Editionless(rows, BookOf[e])
                         => cs[i] = rows[i]
  <1> DEFINE b == BookOf[e]
             kept == Retired(rows, Surplus(rows, e, n))
             ad == Adopted(kept, e, Adopting(kept, e, n))
             up == ToppedUp(ad, e, n)
             cs == SetEditionCopyCount(rows, e, n)
             held == Cardinality(Printed(rows, e))
             left == Cardinality(Printed(kept, e))
             spare == Cardinality(Editionless(kept, b))
             k == Shortfall(kept, e, n)
  <1>1. cs = IF n = 0 THEN kept ELSE up
    BY DEF SetEditionCopyCount
  <1>2. held \in Nat
    <2>1. Printed(rows, e) \in SUBSET (DOMAIN rows)
      BY DEF Printed
    <2>2. QED  BY <2>1, HeldFinite
  <1>3. /\ kept \in Seq(Row) /\ Len(kept) = Len(rows) /\ DOMAIN kept = DOMAIN rows
        /\ left = IF n < held THEN n ELSE held
        /\ Editionless(kept, b) \subseteq Editionless(rows, b)
        /\ \A i \in DOMAIN rows : i \notin Printed(rows, e) => kept[i] = rows[i]
    BY KeptCopies
  <1>4. k = IF n > left THEN n - left ELSE 0
    BY DEF Shortfall
  <1> HIDE DEF kept, cs, k, b, held
  <1>5. CASE n = 0
    <2>1. cs = kept /\ left = 0 /\ ~(Len(cs) > Len(rows))
      BY <1>1, <1>2, <1>3, <1>5
    <2> HIDE DEF left
    <2>2. QED  BY <1>3, <1>5, <2>1 DEF left, cs
  <1>6. CASE n # 0
    <2>1. /\ ad \in Seq(Row) /\ Len(ad) = Len(kept) /\ DOMAIN ad = DOMAIN kept
          /\ Cardinality(Printed(ad, e)) = left + (IF k < spare THEN k ELSE spare)
          /\ left \in Nat /\ spare \in Nat
          /\ k >= spare => Editionless(ad, b) = {}
          /\ \A i \in DOMAIN kept : i \notin Editionless(kept, b) => ad[i] = kept[i]
      BY <1>3, AfterAdopting DEF b, k
    <2> HIDE DEF ad, left, spare
    <2>2. /\ Cardinality(Printed(up, e))
                = IF n > Cardinality(Printed(ad, e)) THEN n ELSE Cardinality(Printed(ad, e))
          /\ \A i \in DOMAIN ad : up[i] = ad[i]
          /\ Len(up) > Len(ad) => n > Cardinality(Printed(ad, e))
          /\ Editionless(up, b) \subseteq Editionless(ad, b)
      BY <2>1, AfterToppingUp DEF b
    <2> HIDE DEF up
    <2>3. Cardinality(Printed(up, e)) = n
      BY <1>2, <1>3, <1>4, <2>1, <2>2
    <2>4. ASSUME Len(up) > Len(rows)
          PROVE  Editionless(up, b) = {}
      <3>1. k >= spare
        BY <1>2, <1>3, <1>4, <2>1, <2>2, <2>4
      <3>2. QED  BY <2>1, <2>2, <3>1
    <2>5. \A i \in DOMAIN rows :
             i \notin Printed(rows, e) \cup Editionless(rows, b) => up[i] = rows[i]
      BY <1>3, <2>1, <2>2
    <2>6. QED  BY <1>1, <1>6, <2>3, <2>4, <2>5 DEF cs, b
  <1>7. QED  BY <1>5, <1>6
------------------------------------------------------------------------------
(* The theorems *)

\* The invariant holds at first.
LEMMA InitInv == Init => Inv
  <1>1. SUFFICES ASSUME Init
                 PROVE  Inv
    OBVIOUS
  <1>2. request \in [Requests -> Request] /\ \A r \in Requests : request[r] = Waiting
    BY <1>1, WaitingFields DEF Init
  <1>3. /\ copies = <<>> /\ copies \in Seq(Row) /\ Len(copies) = 0 /\ DOMAIN copies = {}
    BY <1>1 DEF Init
  <1>4. \A r \in Requests :
          /\ request[r].pc = "new" /\ request[r].kind = "none" /\ request[r].pick = 0
    BY <1>2 DEF Waiting
  <1>5. TypeOK
    <2>1. /\ books \subseteq Books /\ editions \subseteq {e \in Editions : BookOf[e] \in books}
          /\ places \subseteq Places /\ books \cup places \subseteq spent
          /\ spent \subseteq Books \cup Places /\ raced \in BOOLEAN
          /\ overlaps \in [Books -> Nat]
      BY <1>1 DEF Init
    <2>2. parent \in [Places -> places \cup {NoPlace}] /\ \A p \in Places : parent[p] # p
      BY <1>1, HoldingsAssumption DEF Init
    <2>3. QED  BY <1>2, <1>3, <1>4, <2>1, <2>2 DEF TypeOK
  <1>6. \A r \in Requests : Sound(r) /\ Cleared(r) /\ Kept(r)
    BY <1>4 DEF Sound, Cleared, Kept, At, Adding
  <1>7. ASSUME NEW b \in Books
        PROVE  HeldPaid(b) /\ EditionPaid(b)
    <2>1. Settled(b) = {}
      BY <1>4 DEF Settled, Through, About, Printing, ByHand
    <2>2. overlaps[b] = 0 /\ Spare(b) \in {0, 1}
      BY <1>1 DEF Init, Spare
    <2>3. Held(copies, b) = {} /\ WithEdition(copies, b) = {}
      BY <1>3 DEF Held, WithEdition
    <2>4. Cardinality({}) = 0
      BY FS_EmptySet
    <2>5. QED  BY <2>1, <2>2, <2>3, <2>4 DEF HeldPaid, EditionPaid
  <1>8. QED  BY <1>5, <1>6, <1>7 DEF Inv

\* Every step keeps the invariant.
LEMMA StepInv == Inv /\ [Next]_vars => Inv'
  <1>1. ASSUME Inv, NEW r \in Requests, Step(r)
        PROVE  Inv'
    <2>1. TypeOK /\ Sound(r) /\ Kept(r)
      BY <1>1 DEF Inv
    <2>2. Well(r)
      BY <1>1, <2>1, StepWell
    <2>3. \A q \in Requests : Sound(q)'
      BY <1>1, <2>2, SoundSteps DEF Inv
    <2>4. ASSUME NEW q \in Requests
          PROVE  Cleared(q)'
      <3>1. CASE q = r
        BY <1>1, <2>1, <3>1, ClearedActor
      <3>2. CASE q # r
        BY <1>1, <2>1, <3>2, ClearedOthers DEF Inv
      <3>3. QED  BY <3>1, <3>2
    <2>5. ASSUME NEW b \in Books
          PROVE  HeldPaid(b)' /\ EditionPaid(b)'
      BY <1>1, <2>1, PaidSteps DEF Inv
    <2>6. ASSUME NEW q \in Requests
          PROVE  Kept(q)'
      <3>1. CASE q = r
        BY <1>1, <2>1, <3>1, KeptActor
      <3>2. CASE q # r
        BY <1>1, <2>1, <3>2, KeptOthers DEF Inv
      <3>3. QED  BY <3>1, <3>2
    <2>7. QED  BY <2>2, <2>3, <2>4, <2>5, <2>6 DEF Inv, Well
  <1>2. ASSUME Inv, UNCHANGED vars
        PROVE  Inv'
    <2>1. /\ books' = books /\ editions' = editions /\ copies' = copies /\ places' = places
          /\ parent' = parent /\ spent' = spent /\ request' = request /\ raced' = raced
          /\ overlaps' = overlaps
      BY <1>2 DEF vars
    <2>2. TypeOK'
      BY <1>2, <2>1 DEF Inv, TypeOK, EditionsOf
    <2>3. \A r \in Requests : Sound(r)' /\ Cleared(r)' /\ Kept(r)'
      BY <1>2, <2>1 DEF Inv, Sound, Cleared, Kept, At, isDescendant, Upwards
    <2>4. \A b \in Books : HeldPaid(b)' /\ EditionPaid(b)'
      BY <1>2, <2>1 DEF Inv, HeldPaid, EditionPaid, Spare, Scanned, Settled, Through, About
    <2>5. QED  BY <2>2, <2>3, <2>4 DEF Inv
  <1>3. QED  BY <1>1, <1>2 DEF Next

\* The invariant holds throughout: the theorems below read their properties off it.
THEOREM InvariantHolds == Spec => []Inv
  BY InitInv, StepInv, PTL DEF Spec

\* Every variable keeps its type, copies, editions and places refer to rows
\* that are there, and a copy's edition is one of its own book
\* (migrations/000025, copies_edition_matches_book).
THEOREM Typed == Spec => []TypeOK
  <1>1. Inv => TypeOK
    BY DEF Inv
  <1>2. QED  BY <1>1, InvariantHolds, PTL

\* However adds, scans, imports and removals meet, a library has one copy of a
\* book for each scan, import and creation, or one for all adds if there was
\* none, and more only of copies made or given an edition by hand and of inserts
\* that met a copy their look had not found; nor has it none after an add, scan
\* or import ended well, unless somebody removed a copy
\* (library_books.go:46-63, editions.go:318-341, librarium-ios #81).
THEOREM CopiesCounted == Spec => []CopiesAsAdded
  <1>1. ASSUME Inv
        PROVE  CopiesAsAdded
    <2>1. ASSUME NEW b \in Books
          PROVE  LET printed == Cardinality(About(b, Printing))
                 IN  Cardinality(Held(copies, b)) <= (IF printed = 0 THEN 1 ELSE printed)
                       + Cardinality(About(b, ByHand)) + overlaps[b]
      <3> DEFINE P == About(b, Printing)
                 H == About(b, ByHand)
      <3>1. P \in SUBSET Requests /\ H \in SUBSET Requests
        BY DEF About
      <3>2. /\ IsFiniteSet(P) /\ IsFiniteSet(H)
            /\ Cardinality(P) \in Nat /\ Cardinality(H) \in Nat
        BY <3>1, RequestsFinite
      <3>3. P \cap H = {}
        BY DEF About, Printing, ByHand
      <3>4. Settled(b) \subseteq P \cup H /\ Scanned(b) \subseteq P
            /\ (Scanned(b) = {} => Settled(b) \subseteq H)
        BY DEF Settled, Scanned, Through, About
      <3>5. overlaps[b] \in Nat /\ copies \in Seq(Row)
        BY <1>1 DEF Inv, TypeOK
      <3>6. Cardinality(Held(copies, b)) \in Nat
        BY <3>5, CopySets, FS_CardinalityType
      <3>7. Cardinality(Held(copies, b)) <= Cardinality(Settled(b)) + Spare(b) + overlaps[b]
        BY <1>1 DEF Inv, HeldPaid
      <3>8. Cardinality({}) = 0
        BY FS_EmptySet
      <3>9. CASE Scanned(b) = {}
        <4>1. Cardinality(Settled(b)) <= Cardinality(H) /\ Cardinality(Settled(b)) \in Nat
          BY <3>2, <3>4, <3>9, NoMore
        <4>2. Spare(b) = 1
          BY <3>9 DEF Spare
        <4> HIDE DEF P, H
        <4>3. Cardinality(Held(copies, b)) <= 1 + Cardinality(H) + overlaps[b]
          BY <3>2, <3>5, <3>6, <3>7, <4>1, <4>2
        <4>4. QED  BY <3>2, <3>5, <3>6, <4>3 DEF P, H
      <3>10. CASE Scanned(b) # {}
        <4>1. IsFiniteSet(P \cup H) /\ Cardinality(P \cup H) = Cardinality(P) + Cardinality(H)
          <5> HIDE DEF P, H
          <5>1. /\ IsFiniteSet(P \cup H)
                /\ Cardinality(P \cup H)
                     = Cardinality(P) + Cardinality(H) - Cardinality(P \cap H)
            BY <3>2, FS_Union
          <5>2. Cardinality(P \cap H) = 0
            BY <3>3, <3>8
          <5>3. QED  BY <3>2, <5>1, <5>2
        <4>2. Cardinality(Settled(b)) <= Cardinality(P \cup H) /\ Cardinality(Settled(b)) \in Nat
          BY <3>4, <4>1, NoMore
        <4>3. Spare(b) = 0
          BY <3>10 DEF Spare
        <4>4. P # {}
          BY <3>4, <3>10
        <4>5. Cardinality(P) # 0
          BY <3>2, <4>4, FS_EmptySet
        <4> HIDE DEF P, H
        <4>6. Cardinality(Held(copies, b)) <= Cardinality(P) + Cardinality(H) + overlaps[b]
          BY <3>2, <3>5, <3>6, <3>7, <4>1, <4>2, <4>3
        <4>7. QED  BY <4>5, <4>6 DEF P, H
      <3>11. QED  BY <3>9, <3>10
    <2>2. ASSUME NEW r \in Requests, request[r].kind \in Adding, At(r, "done"),
                 ~request[r].undone
          PROVE  Held(copies, request[r].book) # {}
      BY <1>1, <2>2 DEF Inv, Kept, At
    <2>3. QED  BY <2>1, <2>2 DEF CopiesAsAdded
  <1>2. QED  BY <1>1, InvariantHolds, PTL

\* Of at most MaxDepth places none come to contain each other in a loop, unless
\* one was moved between another move's checks and its UPDATE
\* (copy_locations.go:66-70 and 306-321, depth < 32).
THEOREM LoopFree ==
    ASSUME IsFiniteSet(Places), Cardinality(Places) <= MaxDepth
    PROVE  Spec => []LoopsNeedTwoMoves
  <1>1. Init => LoopsNeedTwoMoves
    <2>1. SUFFICES ASSUME Init, NEW ps \in SUBSET places, ps # {}
                   PROVE  \E p \in ps : parent[p] \notin ps
      BY DEF LoopsNeedTwoMoves
    <2>2. PICK p \in ps : p \in Places
      BY <2>1 DEF Init
    <2>3. parent[p] = NoPlace /\ NoPlace \notin ps
      BY <2>1, <2>2, HoldingsAssumption DEF Init
    <2>4. QED  BY <2>3
  <1>2. Inv /\ LoopsNeedTwoMoves /\ [Next]_vars => LoopsNeedTwoMoves'
    <2>1. ASSUME Inv, LoopsNeedTwoMoves, NEW r \in Requests, Step(r)
          PROVE  LoopsNeedTwoMoves'
      BY <2>1, LoopSteps DEF Inv
    <2>2. ASSUME LoopsNeedTwoMoves, UNCHANGED vars
          PROVE  LoopsNeedTwoMoves'
      BY <2>2 DEF LoopsNeedTwoMoves, vars
    <2>3. QED  BY <2>1, <2>2 DEF Next
  <1>3. QED  BY <1>1, <1>2, InvariantHolds, PTL DEF Spec

\* SetEditionCopyCount leaves as many copies of the edition as asked for, makes
\* none while a copy of the book is without an edition, and leaves every other
\* copy alone, in every state the system reaches (library_books.go:170-245).
THEOREM CountsExact == Spec => []SetCountExact
  <1>1. ASSUME Inv
        PROVE  SetCountExact
    <2>1. SUFFICES ASSUME NEW e \in editions, NEW n \in 0..MaxCount
                   PROVE  LET cs == SetEditionCopyCount(copies, e, n)
                          IN  /\ Cardinality(Printed(cs, e)) = n
                              /\ Len(cs) > Len(copies) => Editionless(cs, BookOf[e]) = {}
                              /\ \A i \in DOMAIN copies :
                                    i \notin Printed(copies, e) \cup Editionless(copies, BookOf[e])
                                        => cs[i] = copies[i]
      BY DEF SetCountExact
    <2>2. copies \in Seq(Row) /\ e \in Editions /\ n \in Nat
      BY <1>1, HoldingsAssumption DEF Inv, TypeOK
    <2>3. QED  BY <2>2, ExactCount
  <1>2. QED  BY <1>1, InvariantHolds, PTL
=============================================================================
