------------------------ MODULE SeriesVolumesProofs ------------------------
(***************************************************************************)
(* For every set of passes, every catalogue, every total and list of the   *)
(* provider's and every bound on edits and failures: a promoted book stays *)
(* the book of its volume, and a deletion takes the placeholders there     *)
(* were when it began.                                                     *)
(*                                                                         *)
(* The argument is the advisory lock.  Whoever is between Lock and Unlock  *)
(* is its holder (Exclusion), so what a pass has listed as a volume        *)
(* without a book still is one when it commits (Pending): the only others  *)
(* that touch the volumes' books take books away.                          *)
(***************************************************************************)
EXTENDS SeriesVolumes, TLAPS

Pass == [pc : ProgramPoints, todo : SUBSET Positions, book : Books \cup {NoBook},
         ok : BOOLEAN]
Row == [on : BOOLEAN, said : SUBSET {"title", "id"}, book : Books \cup {NoBook}]

\* the advisory lock is held by a pass that is inside, and by nobody else
Exclusion ==
    /\ lock \in Runners => runner[lock].pc \in Statements
    /\ \A r \in Runners : runner[r].pc \in Statements => lock = r

\* the volumes a pass has yet to promote have no book; they are there as long
\* as the series is
Pending(r) == runner[r].pc \in {"check", "commit"} =>
                \A p \in runner[r].todo : /\ volumes[p].book = NoBook
                                          /\ alive => volumes[p].on

\* a volume that is not there names no book
Linked ==
    /\ \A p \in Positions : ~volumes[p].on => volumes[p].book = NoBook
    /\ \A b \in Books : books[b] = "thin" => born[b] # 0
    /\ PlaceholdersLinked

\* every placeholder a deletion did not see being made is among the volumes it
\* has read, and is gone once it has demoted them
Doomed ==
    LET Old == {b \in Books \ amid : books[b] = "thin"} IN
    /\ alive = (deleter.pc # "ended")
    /\ deleter.pc = "demote" => \A b \in Old : born[b] \in deleter.ids
    /\ deleter.pc \in {"delete", "ended"} => Old = {}

Invariant == TypeOK /\ Exclusion /\ (\A r \in Runners : Pending(r)) /\ Linked /\ Doomed

------------------------------------------------------------------------------
(* How a pass moves *)

\* the pass r steps, the others rest
Moves(r) == /\ runner' \in [Runners -> Pass]
            /\ \A k \in Runners \ {r} : runner'[k] = runner[k]

\* a pass goes on, and nothing else of it changes
LEMMA GotoMoves ==
    ASSUME TypeOK, NEW r \in Runners, NEW pc \in ProgramPoints, Goto(r, pc)
    PROVE  /\ Moves(r) /\ runner'[r].pc = pc /\ runner'[r].todo = runner[r].todo
           /\ runner'[r].book = runner[r].book
<1>1. runner \in [Runners -> Pass] BY DEF TypeOK, Pass
<1> QED BY <1>1 DEF Goto, Moves, Pass

\* a pass takes a list of volumes
LEMMA ListMoves ==
    ASSUME TypeOK, NEW r \in Runners, NEW pc \in ProgramPoints, NEW ps \in SUBSET Positions,
           \/ runner' = [runner EXCEPT ![r].todo = ps, ![r].pc = pc]
           \/ runner' = [runner EXCEPT ![r].pc = pc, ![r].todo = ps]
    PROVE  Moves(r) /\ runner'[r].pc = pc /\ runner'[r].todo = ps
<1>1. runner \in [Runners -> Pass] BY DEF TypeOK, Pass
<1> QED BY <1>1 DEF Moves, Pass

\* a pass has seen to a volume of its list, well or not
LEMMA StrikeMoves ==
    ASSUME TypeOK, NEW r \in Runners, NEW p \in Positions,
           \/ runner' = [runner EXCEPT ![r].todo = @ \ {p}]
           \/ runner' = [runner EXCEPT ![r].todo = @ \ {p}, ![r].ok = FALSE]
    PROVE  Moves(r) /\ runner'[r].pc = runner[r].pc
<1>1. runner \in [Runners -> Pass] BY DEF TypeOK, Pass
<1> QED BY <1>1 DEF Moves, Pass

\* a pass has found the book to link, or none
LEMMA FoundMoves ==
    ASSUME TypeOK, NEW r \in Runners, NEW b \in Books \cup {NoBook},
           runner' = [runner EXCEPT ![r].pc = "commit", ![r].book = b]
    PROVE  Moves(r) /\ runner'[r].pc = "commit" /\ runner'[r].todo = runner[r].todo
<1>1. runner \in [Runners -> Pass] BY DEF TypeOK, Pass
<1> QED BY <1>1 DEF Moves, Pass, ProgramPoints, Statements

\* a pass has promoted a volume
LEMMA PromotedMoves ==
    ASSUME TypeOK, NEW r \in Runners, NEW p \in Positions, Next1(r, p)
    PROVE  Moves(r) /\ runner'[r].pc = "check" /\ runner'[r].todo = runner[r].todo \ {p}
<1>1. runner \in [Runners -> Pass] BY DEF TypeOK, Pass
<1> QED BY <1>1 DEF Moves, Pass, Next1, ProgramPoints, Statements

\* what a pass in the critical section does with its list
Inside(r) == runner'[r].pc \in {"check", "commit"} =>
                \/ /\ runner[r].pc \in {"check", "commit"}
                   /\ runner'[r].todo \subseteq runner[r].todo
                \/ /\ runner'[r].todo = {p \in Positions : volumes[p].on /\ volumes[p].book = NoBook}
                   /\ UNCHANGED <<alive, volumes>>
\* a pass stays in or out of the critical section, enters it or leaves it
Stays(r)  == lock' = lock /\ (runner'[r].pc \in Statements <=> runner[r].pc \in Statements)
Enters(r) == lock = NoOne /\ lock' = r /\ runner'[r].pc \in Statements
Leaves(r) == /\ runner[r].pc \in Statements /\ lock' = IF lock = r THEN NoOne ELSE lock
             /\ runner'[r].pc \notin Statements

\* every step of a pass moves that pass alone, and through the lock
LEMMA PassMoves ==
    ASSUME TypeOK, NEW r \in Runners, Step(r) \/ PromotionFails(r) \/ StopsWaiting(r)
    PROVE  Moves(r) /\ Inside(r) /\ (Stays(r) \/ Enters(r) \/ Leaves(r))
<1> USE DEF Inside, Stays, Enters, Leaves, ProgramPoints, Statements
<1>1. CASE Fetch(r)
  <2>1. ASSUME NEW list \in SUBSET Listed,
               runner' = [runner EXCEPT ![r].pc = "sync", ![r].todo = list]
        PROVE  Moves(r) /\ Inside(r) /\ Stays(r)
    <3>1. list \in SUBSET Positions BY VolumesAssumption
    <3>2. Moves(r) /\ runner'[r].pc = "sync" BY <2>1, <3>1, ListMoves
    <3> QED BY <1>1, <3>2 DEF Fetch
  <2>2. CASE Goto(r, IF r \in Nightly THEN "acquire" ELSE "ended")
    BY <1>1, <2>2, GotoMoves DEF Fetch
  <2> QED BY <1>1, <2>1, <2>2 DEF Fetch
<1>2. CASE SyncVolume(r)
  <2>1. runner[r].todo \subseteq Positions BY DEF TypeOK
  <2> QED BY <1>2, <2>1, StrikeMoves DEF SyncVolume
<1>3. CASE SyncEnds(r)
  <2>1. Goto(r, IF r \in Nightly \/ runner[r].ok THEN "acquire" ELSE "ended")
        /\ runner[r].pc = "sync" /\ lock' = lock
    BY <1>3 DEF SyncEnds
  <2>2. \/ Goto(r, "acquire") \/ Goto(r, "ended") BY <2>1
  <2> QED BY <2>1, <2>2, GotoMoves
<1>4. CASE Acquire(r) BY <1>4, GotoMoves DEF Acquire
<1>5. CASE Lock(r) BY <1>5, GotoMoves DEF Lock
<1>6. CASE Seed(r)
  <2>1. Goto(r, "fill") \/ Goto(r, "unlock") BY <1>6 DEF Seed
  <2> QED BY <1>6, <2>1, GotoMoves DEF Seed
<1>7. CASE FillTotal(r) BY <1>7, GotoMoves DEF FillTotal
<1>8. CASE FindStale(r)
  <2>1. Dropped \in SUBSET Positions BY DEF Dropped, Recorded
  <2>2. \E pc \in {"list", "demote"} :
          runner' = [runner EXCEPT ![r].todo = Dropped, ![r].pc = pc]
    BY <1>8 DEF FindStale
  <2> QED BY <1>8, <2>1, <2>2, ListMoves DEF FindStale
<1>9. CASE DemoteStale(r) BY <1>9, GotoMoves DEF DemoteStale
<1>10. CASE PruneStale(r) BY <1>10, GotoMoves DEF PruneStale
<1>11. CASE ListPending(r)
  <2> DEFINE ps == {p \in Positions : volumes[p].on /\ volumes[p].book = NoBook}
  <2>1. ps = {p \in Recorded : volumes[p].book = NoBook} BY DEF Recorded
  <2>2. runner' = [runner EXCEPT ![r].todo = ps, ![r].pc = "check"]
    BY <1>11, <2>1 DEF ListPending
  <2>3. ps \in SUBSET Positions OBVIOUS
  <2>4. Moves(r) /\ runner'[r].pc = "check" /\ runner'[r].todo = ps
    <3> HIDE DEF ps
    <3> QED BY <2>2, <2>3, ListMoves
  <2> QED BY <1>11, <2>4 DEF ListPending
<1>12. CASE CheckPosition(r)
  <2>1. \A p : Matches(p) \subseteq Books BY DEF Matches, LiveBooks
  <2>2. \E b \in Books \cup {NoBook} :
          runner' = [runner EXCEPT ![r].pc = "commit", ![r].book = b]
    BY <1>12, <2>1 DEF CheckPosition
  <2> QED BY <1>12, <2>2, FoundMoves DEF CheckPosition
<1>13. CASE CommitVolume(r)
  <2>1. PICK p \in runner[r].todo : Next1(r, p) \/ Goto(r, "unlock")
    BY <1>13 DEF CommitVolume
  <2>2. p \in Positions BY DEF TypeOK
  <2> QED BY <1>13, <2>1, <2>2, GotoMoves, PromotedMoves DEF CommitVolume
<1>14. CASE PromotionEnds(r) BY <1>14, GotoMoves DEF PromotionEnds
<1>15. CASE Unlock(r) BY <1>15, GotoMoves DEF Unlock
<1>16. CASE PromotionFails(r) BY <1>16, GotoMoves DEF PromotionFails
<1>17. CASE StopsWaiting(r) BY <1>17, GotoMoves DEF StopsWaiting
<1> QED
  BY <1>1, <1>2, <1>3, <1>4, <1>5, <1>6, <1>7, <1>8, <1>9, <1>10, <1>11, <1>12, <1>13,
     <1>14, <1>15, <1>16, <1>17 DEF Step

------------------------------------------------------------------------------
(* The tables *)

Tables ==
    /\ alive \in BOOLEAN /\ total \in Totals
    /\ volumes \in [Positions -> Row]
    /\ books \in [Books -> {"unborn", "thin", "worked", "gone"}]
    /\ place \in [Books -> Positions \cup {0}]
    /\ born \in [Books -> Positions \cup {0}] /\ amid \subseteq Books
    /\ deleter \in [pc : {"idle", "demote", "delete", "ended"}, ids : SUBSET Positions]
    /\ edits \in 0..MaxEdits /\ faults \in 0..MaxFaults

\* the steps of a pass that read the tables or the lock only
Reads(r) == \/ Fetch(r) \/ SyncEnds(r) \/ Acquire(r) \/ Lock(r) \/ Seed(r)
            \/ FindStale(r) \/ ListPending(r) \/ CheckPosition(r) \/ PromotionEnds(r)
            \/ Unlock(r) \/ PromotionFails(r) \/ StopsWaiting(r)

\* a statement may fail within the bound on faults
LEMMA FaultsFit ==
    ASSUME TypeOK, Fault \/ UNCHANGED faults
    PROVE  faults' \in 0..MaxFaults
BY VolumesAssumption DEF TypeOK, Fault

\* A statement of a pass that only reads writes no table.
LEMMA ReadsNothing ==
    ASSUME TypeOK, NEW r \in Runners, Reads(r)
    PROVE  /\ UNCHANGED <<alive, total, volumes, books, place, born, amid, deleter, edits>>
           /\ faults' \in 0..MaxFaults
<1>1. /\ UNCHANGED <<alive, total, volumes, books, place, born, amid, deleter, edits>>
      /\ Fault \/ UNCHANGED faults
  BY DEF Reads, Fetch, SyncEnds, Acquire, Lock, Seed, FindStale, ListPending,
         CheckPosition, PromotionEnds, Unlock, PromotionFails, StopsWaiting
<1> QED BY <1>1, FaultsFit

\* deleting books takes them, their places and their volumes' link to them
LEMMA TakenBooks ==
    ASSUME TypeOK, NEW gone \in SUBSET Books, TakeBooks(gone)
    PROVE  /\ books' \in [Books -> {"unborn", "thin", "worked", "gone"}]
           /\ place' \in [Books -> Positions \cup {0}]
           /\ volumes' \in [Positions -> Row]
           /\ \A b \in Books : books'[b] = IF b \in gone THEN "gone" ELSE books[b]
           /\ \A p \in Positions :
                /\ volumes'[p].on = volumes[p].on
                /\ \/ volumes'[p].book = NoBook
                   \/ volumes'[p].book = volumes[p].book /\ volumes'[p].book \notin gone
                   \/ ~volumes[p].on /\ volumes'[p] = volumes[p]
                /\ volumes[p].book \notin gone => volumes'[p] = volumes[p]
<1>1. volumes \in [Positions -> Row] BY DEF TypeOK, Row
<1>2. volumes' = Unlinked(gone) BY DEF TakeBooks
<1>3. /\ volumes' \in [Positions -> Row]
      /\ \A p \in Positions :
            /\ volumes'[p].on = volumes[p].on
            /\ \/ volumes'[p].book = NoBook
               \/ volumes'[p].book = volumes[p].book /\ volumes'[p].book \notin gone
               \/ ~volumes[p].on /\ volumes'[p] = volumes[p]
            /\ volumes[p].book \notin gone => volumes'[p] = volumes[p]
  BY <1>1, <1>2 DEF Unlinked, Recorded, Row
<1>4. /\ books' \in [Books -> {"unborn", "thin", "worked", "gone"}]
      /\ place' \in [Books -> Positions \cup {0}]
      /\ \A b \in Books : books'[b] = IF b \in gone THEN "gone" ELSE books[b]
  BY DEF TakeBooks, TypeOK
<1> QED BY <1>3, <1>4

\* an upsert, the fill and the prune: no row loses or gains a book, but one
\* that has none may come or go
LEMMA WrittenRows ==
    ASSUME TypeOK, NEW r \in Runners, SyncVolume(r) \/ FillTotal(r) \/ PruneStale(r)
    PROVE  /\ volumes' \in [Positions -> Row]
           /\ \A p \in Positions :
                /\ volumes'[p].book \in {volumes[p].book, NoBook}
                /\ volumes[p].on /\ volumes[p].book # NoBook =>
                        volumes'[p].on /\ volumes'[p].book = volumes[p].book
                /\ ~volumes'[p].on => volumes'[p].book \in {NoBook, volumes[p].book}
                /\ ~volumes'[p].on => volumes'[p].book = NoBook \/ ~volumes[p].on
                /\ ~PruneStale(r) => (volumes[p].on => volumes'[p].on)
<1>1. volumes \in [Positions -> Row] BY DEF TypeOK, Row
<1>2. CASE SyncVolume(r)
  <2>1. PICK p \in runner[r].todo :
            \/ \E said \in Descriptions : volumes' = [volumes EXCEPT ![p] =
                  Volume(said \cup (@.said \cap {"id"}), @.book)]
            \/ UNCHANGED volumes
    BY <1>2 DEF SyncVolume
  <2>2. p \in Positions BY DEF TypeOK
  <2>3. PICK new : /\ new \in Row /\ new.on /\ new.book = volumes[p].book
                   /\ volumes' = [volumes EXCEPT ![p] = new] \/ volumes' = volumes
    <3>0. volumes[p] \in Row BY <1>1, <2>2
    <3>1. CASE UNCHANGED volumes
      <4> DEFINE same == Volume({}, volumes[p].book)
      <4>1. same \in Row /\ same.on /\ same.book = volumes[p].book BY <3>0 DEF Volume, Row
      <4> QED BY <3>1, <4>1
    <3>2. ASSUME NEW said \in Descriptions, volumes' = [volumes EXCEPT ![p] =
                   Volume(said \cup (@.said \cap {"id"}), @.book)]
          PROVE  \E n : /\ n \in Row /\ n.on /\ n.book = volumes[p].book
                        /\ volumes' = [volumes EXCEPT ![p] = n]
      <4> DEFINE new == Volume(said \cup (volumes[p].said \cap {"id"}), volumes[p].book)
      <4>1. said \in SUBSET {"title", "id"} BY VolumesAssumption
      <4>2. new \in Row /\ new.on /\ new.book = volumes[p].book
        BY <3>0, <4>1 DEF Volume, Row
      <4>3. volumes' = [volumes EXCEPT ![p] = new] BY <1>1, <2>2, <3>2
      <4> QED BY <4>2, <4>3
    <3> QED BY <2>1, <3>1, <3>2
  <2>4. /\ volumes' \in [Positions -> Row]
        /\ \A q \in Positions : /\ volumes'[q].book = volumes[q].book
                                /\ volumes'[q].on \/ volumes'[q].on = volumes[q].on
    BY <1>1, <2>2, <2>3
  <2> QED BY <1>1, <2>4 DEF Row
<1>3. CASE FillTotal(r) BY <1>1, <1>3 DEF FillTotal, Implied, Recorded, Volume, Row
<1>4. CASE PruneStale(r) BY <1>1, <1>4 DEF PruneStale, Recorded, None, Row
<1> QED BY <1>2, <1>3, <1>4

\* a volume is linked if it is there
LEMMA LinkedRows ==
    ASSUME TypeOK, NEW p \in Positions, NEW b \in Books, Link(p, b)
    PROVE  /\ volumes' \in [Positions -> Row]
           /\ \A q \in Positions \ {p} : volumes'[q] = volumes[q]
           /\ volumes'[p].on = volumes[p].on
           /\ IF volumes[p].on THEN volumes'[p].book = b ELSE volumes'[p] = volumes[p]
<1>1. volumes \in [Positions -> Row] BY DEF TypeOK, Row
<1> QED BY <1>1 DEF Link, Recorded, Row

\* a pass invents a book for a volume, or links one
LEMMA CommitMoves ==
    ASSUME TypeOK, NEW r \in Runners, CommitVolume(r)
    PROVE  \/ \E p \in runner[r].todo, b \in LiveBooks :
                /\ Link(p, b) /\ Next1(r, p) /\ UNCHANGED <<books, place, born, amid>>
           \/ \E p \in runner[r].todo, b \in Books :
                /\ alive /\ books[b] = "unborn" /\ books' = [books EXCEPT ![b] = "thin"]
                /\ place' = [place EXCEPT ![b] = p] /\ born' = [born EXCEPT ![b] = p]
                /\ amid' = IF deleter.pc = "idle" THEN amid ELSE amid \cup {b}
                /\ Link(p, b) /\ Next1(r, p)
           \/ Goto(r, "unlock") /\ UNCHANGED <<volumes, books, place, born, amid>>
BY DEF CommitVolume

\* every step keeps the types of the tables
LEMMA TablesKept ==
    ASSUME TypeOK, [Next]_vars
    PROVE  Tables'
<1> USE DEF Tables
<1>1. Tables /\ runner \in [Runners -> Pass] BY DEF TypeOK, Row, Pass
<1>2. ASSUME NEW r \in Runners, Reads(r) PROVE Tables'
  BY <1>1, <1>2, ReadsNothing
<1>3. ASSUME NEW r \in Runners, SyncVolume(r) \/ FillTotal(r) \/ PruneStale(r) PROVE Tables'
  <2>1. Fault \/ UNCHANGED faults BY <1>3 DEF SyncVolume, FillTotal, PruneStale
  <2>2. UNCHANGED <<alive, total, books, place, born, amid, deleter, edits>>
    BY <1>3 DEF SyncVolume, FillTotal, PruneStale
  <2>3. volumes' \in [Positions -> Row] BY <1>3, WrittenRows
  <2> QED BY <1>1, <2>1, <2>2, <2>3, FaultsFit
<1>4. ASSUME NEW r \in Runners, DemoteStale(r) PROVE Tables'
  <2>1. Demoted(runner[r].todo) \in SUBSET Books BY DEF Demoted
  <2> QED BY <1>1, <1>4, <2>1, TakenBooks DEF DemoteStale
<1>5. ASSUME NEW r \in Runners, CommitVolume(r) PROVE Tables'
  <2>1. runner[r].todo \subseteq Positions /\ LiveBooks \subseteq Books
    BY <1>1 DEF Pass, LiveBooks
  <2>2. /\ volumes' \in [Positions -> Row]
        /\ books' \in [Books -> {"unborn", "thin", "worked", "gone"}]
        /\ place' \in [Books -> Positions \cup {0}]
        /\ born' \in [Books -> Positions \cup {0}] /\ amid' \subseteq Books
    BY <1>1, <1>5, <2>1, CommitMoves, LinkedRows
  <2> QED BY <1>1, <1>5, <2>2 DEF CommitVolume
<1>6. CASE PlaceBook
  BY <1>1, <1>6, VolumesAssumption DEF PlaceBook, Edit, LiveBooks
<1>7. CASE RemoveBook
  BY <1>1, <1>7, VolumesAssumption DEF RemoveBook, Edit, LiveBooks
<1>8. CASE WorkOnBook
  BY <1>1, <1>8, VolumesAssumption DEF WorkOnBook, Edit
<1>9. CASE DeleteBook
  <2>1. PICK b \in Books : TakeBooks({b}) BY <1>9 DEF DeleteBook, LiveBooks
  <2>2. edits' \in 0..MaxEdits BY <1>1, <1>9, VolumesAssumption DEF DeleteBook, Edit
  <2> QED BY <1>1, <1>9, <2>1, <2>2, TakenBooks DEF DeleteBook
<1>10. CASE SetTotal
  BY <1>1, <1>10, VolumesAssumption DEF SetTotal, Edit
<1>11. CASE ReadVolumeIDs
  BY <1>1, <1>11 DEF ReadVolumeIDs, Recorded
<1>12. CASE DemoteAll
  <2>1. Demoted(deleter.ids) \in SUBSET Books BY DEF Demoted
  <2>2. Fault \/ UNCHANGED faults BY <1>12 DEF DemoteAll
  <2>3. deleter' \in [pc : {"idle", "demote", "delete", "ended"}, ids : SUBSET Positions]
    BY <1>1, <1>12 DEF DemoteAll
  <2>4. \/ TakeBooks(Demoted(deleter.ids)) \/ UNCHANGED <<volumes, books, place>>
    BY <1>12 DEF DemoteAll
  <2>5. /\ volumes' \in [Positions -> Row]
        /\ books' \in [Books -> {"unborn", "thin", "worked", "gone"}]
        /\ place' \in [Books -> Positions \cup {0}]
    BY <1>1, <2>1, <2>4, TakenBooks
  <2> QED BY <1>1, <1>12, <2>2, <2>3, <2>5, FaultsFit DEF DemoteAll
<1>13. CASE DeleteRow
  <2>1. Fault \/ UNCHANGED faults BY <1>13 DEF DeleteRow
  <2>2. /\ alive' \in BOOLEAN /\ volumes' \in [Positions -> Row]
        /\ place' \in [Books -> Positions \cup {0}]
    <3>1. None \in Row BY DEF None, Row
    <3> QED BY <1>1, <1>13, <3>1 DEF DeleteRow
  <2>3. deleter' \in [pc : {"idle", "demote", "delete", "ended"}, ids : SUBSET Positions]
    BY <1>13 DEF DeleteRow
  <2> QED BY <1>1, <1>13, <2>1, <2>2, <2>3, FaultsFit DEF DeleteRow
<1>14. CASE UNCHANGED vars BY <1>1, <1>14 DEF vars
<1> QED
  BY <1>2, <1>3, <1>4, <1>5, <1>6, <1>7, <1>8, <1>9, <1>10, <1>11, <1>12, <1>13, <1>14
     DEF Next, Step, Reads

\* readers and the deletion leave the passes alone
Request == \/ PlaceBook \/ RemoveBook \/ WorkOnBook \/ DeleteBook \/ SetTotal
           \/ ReadVolumeIDs \/ DemoteAll \/ DeleteRow \/ UNCHANGED vars

\* A request leaves the passes and their lock alone.
LEMMA RequestsRest ==
    ASSUME Request
    PROVE  UNCHANGED <<runner, lock>>
BY DEF Request, PlaceBook, RemoveBook, WorkOnBook, DeleteBook, SetTotal, ReadVolumeIDs,
       DemoteAll, DeleteRow, vars

\* a step is a pass's or a request's
LEMMA WhoSteps ==
    ASSUME [Next]_vars
    PROVE  \/ \E r \in Runners : Step(r) \/ PromotionFails(r) \/ StopsWaiting(r)
           \/ Request
BY DEF Next, Request

------------------------------------------------------------------------------
(* The lock *)

\* the lock has one holder, and only the holder is inside
LEMMA ExclusionKept ==
    ASSUME TypeOK, Exclusion, [Next]_vars
    PROVE  Exclusion' /\ lock' \in Runners \cup {NoOne} /\ runner' \in [Runners -> Pass]
<1>1. lock \in Runners \cup {NoOne} /\ NoOne \notin Runners /\ runner \in [Runners -> Pass]
  BY VolumesAssumption DEF TypeOK, Pass
<1>2. CASE Request BY <1>1, <1>2, RequestsRest DEF Exclusion
<1>3. ASSUME NEW r \in Runners, Step(r) \/ PromotionFails(r) \/ StopsWaiting(r)
      PROVE  Exclusion' /\ lock' \in Runners \cup {NoOne} /\ runner' \in [Runners -> Pass]
  <2>1. Moves(r) /\ (Stays(r) \/ Enters(r) \/ Leaves(r)) BY <1>3, PassMoves
  <2> QED BY <1>1, <2>1 DEF Exclusion, Moves, Stays, Enters, Leaves
<1> QED BY <1>2, <1>3, WhoSteps

\* the type invariant and the lock are inductive together
LEMMA TypesKept ==
    ASSUME TypeOK, Exclusion, [Next]_vars
    PROVE  TypeOK' /\ Exclusion'
BY TablesKept, ExclusionKept DEF TypeOK, Tables, Exclusion, Row, Pass

------------------------------------------------------------------------------
(* The volumes *)

\* outside the prune and the commit of a volume nobody gives a volume a book or
\* takes one away
Harmless == \A p \in Positions :
                /\ volumes[p].book = NoBook => volumes'[p].book = NoBook
                /\ alive' => alive /\ (volumes[p].on => volumes'[p].on)

\* Every step but pruning and committing a volume is harmless.
LEMMA HarmlessSteps ==
    ASSUME TypeOK, [Next]_vars, \A r \in Runners : ~PruneStale(r) /\ ~CommitVolume(r)
    PROVE  Harmless
<1>1. NoBook \notin Books BY VolumesAssumption
<1>2. ASSUME NEW gone \in SUBSET Books, TakeBooks(gone), alive' = alive PROVE Harmless
  BY <1>1, <1>2, TakenBooks DEF Harmless
<1>3. ASSUME NEW r \in Runners, Reads(r) PROVE Harmless
  BY <1>3, ReadsNothing DEF Harmless
<1>4. ASSUME NEW r \in Runners, SyncVolume(r) \/ FillTotal(r) PROVE Harmless
  BY <1>4, WrittenRows DEF Harmless, SyncVolume, FillTotal
<1>5. ASSUME NEW r \in Runners, DemoteStale(r) PROVE Harmless
  <2>1. Demoted(runner[r].todo) \in SUBSET Books BY DEF Demoted
  <2> QED BY <1>2, <1>5, <2>1 DEF DemoteStale
<1>6. CASE DeleteBook BY <1>2, <1>6 DEF DeleteBook, LiveBooks
<1>7. CASE DemoteAll
  <2>1. Demoted(deleter.ids) \in SUBSET Books BY DEF Demoted
  <2> QED BY <1>2, <1>7, <2>1 DEF DemoteAll, Harmless
<1>8. CASE DeleteRow BY <1>8 DEF DeleteRow, Harmless, None
<1>9. CASE PlaceBook \/ RemoveBook \/ WorkOnBook \/ SetTotal \/ ReadVolumeIDs \/ UNCHANGED vars
  BY <1>9 DEF PlaceBook, RemoveBook, WorkOnBook, SetTotal, ReadVolumeIDs, vars, Harmless
<1> QED BY <1>3, <1>4, <1>5, <1>6, <1>7, <1>8, <1>9 DEF Next, Step, Reads

\* what a pass has yet to promote stays without a book
LEMMA PendingKept ==
    ASSUME Invariant, [Next]_vars, NEW k \in Runners
    PROVE  Pending(k)'
<1> SUFFICES ASSUME runner'[k].pc \in {"check", "commit"}
             PROVE  \A p \in runner'[k].todo : /\ volumes'[p].book = NoBook
                                               /\ alive' => volumes'[p].on
  BY DEF Pending
<1>1. runner' \in [Runners -> Pass] /\ runner \in [Runners -> Pass]
  BY TypesKept DEF Invariant, TypeOK, Pass
<1>2. runner'[k].todo \subseteq Positions BY <1>1 DEF Pass
<1>3. \/ /\ runner[k].pc \in {"check", "commit"} /\ runner'[k].todo \subseteq runner[k].todo
      \/ /\ runner'[k].todo = {p \in Positions : volumes[p].on /\ volumes[p].book = NoBook}
         /\ UNCHANGED <<alive, volumes>>
  <2>1. CASE Request BY <2>1, RequestsRest
  <2>2. ASSUME NEW r \in Runners, Step(r) \/ PromotionFails(r) \/ StopsWaiting(r)
        PROVE  runner'[k] = runner[k] \/ Inside(k)
    BY <2>2, PassMoves DEF Invariant, Moves
  <2> QED BY <2>1, <2>2, WhoSteps DEF Inside
<1>4. CASE UNCHANGED <<alive, volumes>> BY <1>3, <1>4 DEF Invariant, Pending
<1>5. CASE \A r \in Runners : ~PruneStale(r) /\ ~CommitVolume(r)
  <2>1. Harmless BY <1>5, HarmlessSteps DEF Invariant
  <2> QED BY <1>2, <1>3, <2>1 DEF Harmless, Invariant, Pending
<1>6. ASSUME NEW r \in Runners, PruneStale(r) \/ CommitVolume(r), runner[k].pc \in {"check", "commit"},
             runner'[k].todo \subseteq runner[k].todo
      PROVE  \A p \in runner'[k].todo : /\ volumes'[p].book = NoBook
                                        /\ alive' => volumes'[p].on
  <2>1. r = k
    <3>1. runner[r].pc \in {"prune", "commit"} BY <1>6 DEF PruneStale, CommitVolume
    <3> QED BY <1>6, <3>1 DEF Invariant, Exclusion, Statements
  <2>2. CommitVolume(k) BY <1>6, <2>1 DEF PruneStale
  <2>3. CASE UNCHANGED volumes BY <1>4, <2>2, <2>3 DEF CommitVolume
  <2>4. ASSUME NEW p \in runner[k].todo, NEW b \in Books, Link(p, b), Next1(k, p)
        PROVE  \A q \in runner'[k].todo : volumes'[q] = volumes[q]
    <3>1. runner[k].todo \subseteq Positions BY <1>1 DEF Pass
    <3>2. runner'[k].todo = runner[k].todo \ {p}
      BY <2>4, <3>1, PromotedMoves DEF Invariant
    <3> QED BY <1>2, <2>4, <3>1, <3>2, LinkedRows DEF Invariant
  <2>5. UNCHANGED volumes \/ \A q \in runner'[k].todo : volumes'[q] = volumes[q]
    BY <2>2, <2>4, CommitMoves DEF Invariant, LiveBooks
  <2>6. alive' = alive BY <2>2 DEF CommitVolume
  <2> QED BY <1>6, <2>3, <2>5, <2>6 DEF Invariant, Pending
<1> QED BY <1>3, <1>4, <1>5, <1>6

------------------------------------------------------------------------------
(* The books *)

\* a volume keeps its book as long as book and series live, and one that is not
\* there names none
KeepsLinks ==
    /\ \A p \in Positions : ~volumes'[p].on => volumes'[p].book = NoBook
    /\ alive' => \A b \in Books, p \in Positions :
            books'[b] \in {"thin", "worked"} /\ volumes[p].on /\ volumes[p].book = b =>
                volumes'[p].on /\ volumes'[p].book = b

\* Every step keeps the links.
LEMMA LinksKept ==
    ASSUME Invariant, [Next]_vars
    PROVE  KeepsLinks
<1>1. NoBook \notin Books /\ TypeOK BY VolumesAssumption DEF Invariant
<1>2. \A p \in Positions : ~volumes[p].on => volumes[p].book = NoBook
  BY DEF Invariant, Linked
<1>3. CASE UNCHANGED volumes BY <1>2, <1>3 DEF KeepsLinks
<1>4. ASSUME NEW gone \in SUBSET Books, TakeBooks(gone) PROVE KeepsLinks
  BY <1>1, <1>2, <1>4, TakenBooks DEF KeepsLinks
<1>5. ASSUME NEW r \in Runners, SyncVolume(r) \/ FillTotal(r) \/ PruneStale(r) PROVE KeepsLinks
  BY <1>1, <1>2, <1>5, WrittenRows DEF KeepsLinks
<1>6. ASSUME NEW r \in Runners, DemoteStale(r) PROVE KeepsLinks
  <2>1. Demoted(runner[r].todo) \in SUBSET Books BY DEF Demoted
  <2> QED BY <1>4, <1>6, <2>1 DEF DemoteStale
<1>7. ASSUME NEW r \in Runners, CommitVolume(r) PROVE KeepsLinks
  <2>1. runner[r].todo \subseteq Positions BY <1>1 DEF TypeOK
  <2>2. \A p \in runner[r].todo : volumes[p].book = NoBook
    BY <1>7 DEF CommitVolume, Invariant, Pending
  <2>3. ASSUME NEW p \in runner[r].todo, NEW b \in Books, Link(p, b) PROVE KeepsLinks
    BY <1>1, <1>2, <2>1, <2>2, <2>3, LinkedRows DEF KeepsLinks
  <2> QED BY <1>3, <1>7, <2>3, CommitMoves, <1>1 DEF LiveBooks
<1>8. CASE DeleteBook BY <1>4, <1>8 DEF DeleteBook, LiveBooks
<1>9. CASE DemoteAll
  <2>1. Demoted(deleter.ids) \in SUBSET Books BY DEF Demoted
  <2> QED BY <1>3, <1>4, <1>9, <2>1 DEF DemoteAll
<1>10. CASE DeleteRow
  BY <1>2, <1>3, <1>10 DEF DeleteRow, KeepsLinks, None
<1>11. CASE PlaceBook \/ RemoveBook \/ WorkOnBook \/ SetTotal \/ ReadVolumeIDs \/ UNCHANGED vars
  BY <1>3, <1>11 DEF PlaceBook, RemoveBook, WorkOnBook, SetTotal, ReadVolumeIDs, vars
<1>12. ASSUME NEW r \in Runners, Reads(r) PROVE KeepsLinks
  BY <1>1, <1>3, <1>12, ReadsNothing
<1> QED
  BY <1>5, <1>6, <1>7, <1>8, <1>9, <1>10, <1>11, <1>12 DEF Next, Step, Reads

\* one book enters the catalogue, as the placeholder of a volume that is there
Invents == /\ alive /\ alive'
           /\ UNCHANGED deleter
           /\ \E b \in Books, p \in Positions :
                /\ books[b] = "unborn" /\ books' = [books EXCEPT ![b] = "thin"]
                /\ born' = [born EXCEPT ![b] = p]
                /\ amid' = IF deleter.pc = "idle" THEN amid ELSE amid \cup {b}
                /\ volumes'[p].on /\ volumes'[p].book = b
\* or none does: books are worked on and go
Ages == /\ born' = born /\ amid' = amid
        /\ \A b \in Books : /\ books'[b] = "thin" => books[b] = "thin"
                            /\ books'[b] \in {"thin", "worked"} =>
                                   books[b] \in {"thin", "worked"}

\* Every step invents a placeholder, or lets the books age.
LEMMA InventsOrAges ==
    ASSUME Invariant, [Next]_vars
    PROVE  Invents \/ Ages
<1>1. TypeOK BY DEF Invariant
<1>2. ASSUME UNCHANGED <<books, born, amid>> PROVE Ages BY <1>2 DEF Ages
<1>3. ASSUME NEW gone \in SUBSET Books, TakeBooks(gone), UNCHANGED <<born, amid>> PROVE Ages
  BY <1>1, <1>3, TakenBooks DEF Ages
<1>4. ASSUME NEW r \in Runners, SyncVolume(r) \/ FillTotal(r) \/ PruneStale(r) PROVE Ages
  BY <1>2, <1>4 DEF SyncVolume, FillTotal, PruneStale
<1>5. ASSUME NEW r \in Runners, DemoteStale(r) PROVE Ages
  <2>1. Demoted(runner[r].todo) \in SUBSET Books BY DEF Demoted
  <2> QED BY <1>3, <1>5, <2>1 DEF DemoteStale
<1>6. ASSUME NEW r \in Runners, CommitVolume(r) PROVE Invents \/ Ages
  <2>1. runner[r].todo \subseteq Positions /\ UNCHANGED <<alive, deleter>>
    BY <1>1, <1>6 DEF TypeOK, CommitVolume
  <2>2. \A p \in runner[r].todo : alive => volumes[p].on
    BY <1>6 DEF CommitVolume, Invariant, Pending
  <2>3. CASE UNCHANGED <<books, born, amid>> BY <1>2, <2>3
  <2>4. ASSUME NEW p \in runner[r].todo, NEW b \in Books,
               alive, books[b] = "unborn", books' = [books EXCEPT ![b] = "thin"],
               born' = [born EXCEPT ![b] = p],
               amid' = IF deleter.pc = "idle" THEN amid ELSE amid \cup {b}, Link(p, b)
        PROVE  Invents
    <3>1. volumes'[p].on /\ volumes'[p].book = b
      BY <1>1, <2>1, <2>2, <2>4, LinkedRows
    <3> QED BY <2>1, <2>4, <3>1 DEF Invents
  <2> QED BY <1>1, <1>6, <2>3, <2>4, CommitMoves
<1>7. CASE DeleteBook BY <1>3, <1>7 DEF DeleteBook, LiveBooks
<1>8. CASE DemoteAll
  <2>1. Demoted(deleter.ids) \in SUBSET Books BY DEF Demoted
  <2> QED BY <1>2, <1>3, <1>8, <2>1 DEF DemoteAll
<1>9. CASE WorkOnBook
  BY <1>1, <1>9 DEF WorkOnBook, Ages, TypeOK
<1>10. CASE PlaceBook \/ RemoveBook \/ SetTotal \/ ReadVolumeIDs \/ DeleteRow \/ UNCHANGED vars
  BY <1>2, <1>10 DEF PlaceBook, RemoveBook, SetTotal, ReadVolumeIDs, DeleteRow, vars
<1>11. ASSUME NEW r \in Runners, Reads(r) PROVE Ages
  BY <1>1, <1>2, <1>11, ReadsNothing
<1> QED
  BY <1>4, <1>5, <1>6, <1>7, <1>8, <1>9, <1>10, <1>11 DEF Next, Step, Reads

\* a series that is gone stays gone
LEMMA GoneStays ==
    ASSUME TypeOK, [Next]_vars
    PROVE  alive' => alive
<1>1. ASSUME NEW r \in Runners, Reads(r) PROVE alive' = alive BY <1>1, ReadsNothing
<1>2. CASE DeleteRow BY <1>2 DEF DeleteRow
<1> QED
  BY <1>1, <1>2 DEF Next, Step, Reads, SyncVolume, FillTotal, PruneStale, DemoteStale,
     CommitVolume, PlaceBook, RemoveBook, WorkOnBook, DeleteBook, SetTotal, ReadVolumeIDs,
     DemoteAll, vars

\* a placeholder stays linked to its volume
LEMMA LinkedKept ==
    ASSUME Invariant, [Next]_vars
    PROVE  Linked'
<1>1. KeepsLinks /\ (Invents \/ Ages) /\ (alive' => alive)
  BY LinksKept, InventsOrAges, GoneStays DEF Invariant
<1>2. /\ born \in [Books -> Positions \cup {0}]
      /\ books \in [Books -> {"unborn", "thin", "worked", "gone"}]
      /\ Positions \subseteq Nat \ {0}
  BY VolumesAssumption DEF Invariant, TypeOK, Positions
<1>3. /\ \A b \in Books : books[b] = "thin" => born[b] # 0
      /\ alive => \A b \in Books : books[b] \in {"thin", "worked"} /\ born[b] # 0 =>
            born[b] \in Positions /\ volumes[born[b]].on /\ volumes[born[b]].book = b
  BY DEF Invariant, Linked, PlaceholdersLinked, LiveBooks, Recorded
<1>4. CASE Ages
  <2>1. \A b \in Books : books'[b] = "thin" => born'[b] # 0 BY <1>3, <1>4 DEF Ages
  <2>2. alive' => \A b \in Books : books'[b] \in {"thin", "worked"} /\ born'[b] # 0 =>
            born'[b] \in Positions /\ volumes'[born'[b]].on /\ volumes'[born'[b]].book = b
    BY <1>1, <1>3, <1>4 DEF Ages, KeepsLinks
  <2> QED
    BY <1>1, <2>1, <2>2 DEF KeepsLinks, Linked, PlaceholdersLinked, LiveBooks, Recorded
<1>5. CASE Invents
  <2>1. PICK b \in Books, p \in Positions :
            /\ books[b] = "unborn" /\ books' = [books EXCEPT ![b] = "thin"]
            /\ born' = [born EXCEPT ![b] = p]
            /\ volumes'[p].on /\ volumes'[p].book = b
    BY <1>5 DEF Invents
  <2>2. /\ born'[b] = p /\ p # 0
        /\ \A c \in Books \ {b} : born'[c] = born[c] /\ books'[c] = books[c]
    BY <1>2, <2>1
  <2>3. \A c \in Books : books'[c] = "thin" => born'[c] # 0 BY <1>3, <2>2
  <2>4. alive' => \A c \in Books \ {b} : books'[c] \in {"thin", "worked"} /\ born'[c] # 0 =>
            born'[c] \in Positions /\ volumes'[born'[c]].on /\ volumes'[born'[c]].book = c
    BY <1>1, <1>3, <2>2 DEF KeepsLinks
  <2>5. alive' => \A c \in Books : books'[c] \in {"thin", "worked"} /\ born'[c] # 0 =>
            born'[c] \in Positions /\ volumes'[born'[c]].on /\ volumes'[born'[c]].book = c
    BY <2>1, <2>2, <2>4
  <2> QED
    BY <1>1, <2>3, <2>5 DEF KeepsLinks, Linked, PlaceholdersLinked, LiveBooks, Recorded
<1> QED BY <1>1, <1>4, <1>5

\* how a deletion gets on: it begins with the volumes there are, takes their
\* placeholders, then the series; or it stays where it is, or breaks off
LEMMA DeleterSteps ==
    ASSUME TypeOK, [Next]_vars
    PROVE  \/ UNCHANGED <<alive, deleter>>
           \/ /\ deleter.pc = "idle" /\ alive /\ alive' = alive
              /\ deleter'.pc = "demote" /\ deleter'.ids = Recorded
           \/ /\ deleter.pc = "demote" /\ alive' = alive /\ deleter'.pc = "delete"
              /\ TakeBooks(Demoted(deleter.ids))
           \/ deleter.pc = "delete" /\ ~alive' /\ deleter'.pc = "ended"
           \/ deleter.pc \in {"demote", "delete"} /\ alive' = alive /\ deleter'.pc = "idle"
           \/ deleter.pc = "delete" /\ alive' = alive /\ ~alive /\ deleter'.pc = "ended"
<1>1. deleter \in [pc : {"idle", "demote", "delete", "ended"}, ids : SUBSET Positions]
      /\ alive \in BOOLEAN
  BY DEF TypeOK
<1>2. ASSUME NEW r \in Runners, Reads(r) PROVE UNCHANGED <<alive, deleter>>
  BY <1>2, ReadsNothing
<1>3. ASSUME NEW r \in Runners,
             \/ SyncVolume(r) \/ FillTotal(r) \/ PruneStale(r) \/ DemoteStale(r)
             \/ CommitVolume(r)
      PROVE  UNCHANGED <<alive, deleter>>
  BY <1>3 DEF SyncVolume, FillTotal, PruneStale, DemoteStale, CommitVolume
<1>4. CASE PlaceBook \/ RemoveBook \/ WorkOnBook \/ DeleteBook \/ SetTotal \/ UNCHANGED vars
  BY <1>4 DEF PlaceBook, RemoveBook, WorkOnBook, DeleteBook, SetTotal, vars
<1>5. CASE ReadVolumeIDs BY <1>1, <1>5 DEF ReadVolumeIDs
<1>6. CASE DemoteAll BY <1>1, <1>6 DEF DemoteAll
<1>7. CASE DeleteRow BY <1>1, <1>7 DEF DeleteRow
<1> QED BY <1>2, <1>3, <1>4, <1>5, <1>6, <1>7 DEF Next, Step, Reads

\* a deletion has every placeholder on its list that it did not see being made
LEMMA DoomedKept ==
    ASSUME Invariant, [Next]_vars
    PROVE  Doomed'
<1> DEFINE Old == {b \in Books \ amid : books[b] = "thin"}
<1>1. TypeOK /\ (Invents \/ Ages) BY InventsOrAges DEF Invariant
<1>2. /\ alive = (deleter.pc # "ended")
      /\ deleter.pc = "demote" => \A b \in Old : born[b] \in deleter.ids
      /\ deleter.pc \in {"delete", "ended"} => Old = {}
  BY DEF Invariant, Doomed
<1>3. /\ born \in [Books -> Positions \cup {0}] /\ amid \subseteq Books
      /\ books \in [Books -> {"unborn", "thin", "worked", "gone"}]
      /\ deleter \in [pc : {"idle", "demote", "delete", "ended"}, ids : SUBSET Positions]
      /\ alive \in BOOLEAN /\ alive' \in BOOLEAN
  BY <1>1, TablesKept DEF TypeOK, Tables
\* no placeholder joins the old ones once a deletion is under way
<1>4. deleter.pc # "idle" => Old' \subseteq Old /\ \A b \in Old' : born'[b] = born[b]
  <2>1. CASE Ages BY <2>1 DEF Ages
  <2>2. CASE Invents BY <1>3, <2>2 DEF Invents
  <2> QED BY <1>1, <2>1, <2>2
<1>5. CASE UNCHANGED <<alive, deleter>>
  <2>1. CASE deleter.pc = "idle" BY <1>2, <1>5, <2>1 DEF Doomed
  <2>2. CASE deleter.pc # "idle" BY <1>2, <1>4, <1>5, <2>2 DEF Doomed
  <2> QED BY <2>1, <2>2
<1>6. CASE /\ deleter.pc = "idle" /\ alive /\ alive' = alive
           /\ deleter'.pc = "demote" /\ deleter'.ids = Recorded
  <2>1. Ages BY <1>1, <1>3, <1>6 DEF Invents
  <2>2. \A b \in Old' : b \in Books /\ books[b] = "thin" /\ born'[b] = born[b]
    BY <2>1 DEF Ages
  <2>3. \A b \in Old' : born'[b] \in deleter'.ids
    BY <1>6, <2>2 DEF Invariant, Linked, PlaceholdersLinked, LiveBooks
  <2> QED BY <1>6, <2>3 DEF Doomed
<1>7. CASE /\ deleter.pc = "demote" /\ alive' = alive /\ deleter'.pc = "delete"
           /\ TakeBooks(Demoted(deleter.ids))
  <2>1. Demoted(deleter.ids) \in SUBSET Books BY DEF Demoted
  <2>2. \A b \in Old : b \in Demoted(deleter.ids)
    BY <1>2, <1>7 DEF Invariant, Linked, PlaceholdersLinked, LiveBooks, Demoted
  <2>3. \A b \in Old : books'[b] = "gone" BY <1>1, <1>7, <2>1, <2>2, TakenBooks
  <2>4. Old' = {} BY <1>4, <1>7, <2>3
  <2> QED BY <1>2, <1>7, <2>4 DEF Doomed
<1>8. CASE deleter.pc = "delete" /\ ~alive' /\ deleter'.pc = "ended"
  <2>1. Old' = {} BY <1>2, <1>4, <1>8
  <2> QED BY <1>3, <1>8, <2>1 DEF Doomed
<1>9. CASE deleter.pc \in {"demote", "delete"} /\ alive' = alive /\ deleter'.pc = "idle"
  BY <1>2, <1>9 DEF Doomed
<1>10. CASE deleter.pc = "delete" /\ alive' = alive /\ ~alive /\ deleter'.pc = "ended"
  BY <1>2, <1>10
<1> QED BY <1>1, <1>5, <1>6, <1>7, <1>8, <1>9, <1>10, DeleterSteps

------------------------------------------------------------------------------
(* The theorems *)

\* The invariant holds at first.
LEMMA InvariantStarts ==
    ASSUME Init
    PROVE  Invariant
<1>1. /\ 0 \in 0..MaxEdits /\ 0 \in 0..MaxFaults /\ 1 \in Positions
      /\ NoOne \notin Runners
  BY VolumesAssumption DEF Positions
<1>2. runner \in [Runners -> Pass] /\ \A r \in Runners : runner[r].pc = "idle"
  BY DEF Init, Idle, Pass, ProgramPoints
<1>3. /\ volumes \in [Positions -> Row]
      /\ \A p \in Positions : volumes[p].book = NoBook /\ ~volumes[p].on
  BY DEF Init, None, Row
<1>4. TypeOK BY <1>1, <1>2, <1>3 DEF Init, TypeOK, Row, Pass
<1>5. Exclusion BY <1>1, <1>2 DEF Init, Exclusion, Statements
<1>6. \A r \in Runners : Pending(r) BY <1>2 DEF Pending
<1>7. \A b \in Books : books[b] # "thin" /\ born[b] = 0 BY DEF Init
<1>8. Linked /\ Doomed
  BY <1>3, <1>7 DEF Init, Linked, PlaceholdersLinked, LiveBooks, Doomed
<1> QED BY <1>4, <1>5, <1>6, <1>8 DEF Invariant

\* the invariant is inductive, and every specification with these steps has it
LEMMA InvariantKept == Invariant /\ [Next]_vars => Invariant'
BY TypesKept, PendingKept, LinkedKept, DoomedKept DEF Invariant

\* Every step keeps the invariant: the theorems below read their properties off it.
LEMMA InvariantHolds == Spec => []Invariant
BY InvariantStarts, InvariantKept, PTL DEF Spec

\* Every variable keeps its type, and the pass that holds the advisory lock is
\* between pg_advisory_lock and its deferred unlock, on its own connection.
THEOREM Typed == Spec => []TypeOK
<1>1. Invariant => TypeOK BY DEF Invariant
<1> QED BY <1>1, InvariantHolds, PTL

\* Two passes of one series never run together: a pass that is between
\* pg_advisory_lock and the deferred unlock is the lock's holder.
THEOREM OnePassAtATime == Spec => []Exclusion
<1>1. Invariant => Exclusion BY DEF Invariant
<1> QED BY <1>1, InvariantHolds, PTL

\* PromoteVolumes under its advisory lock: for any number of passes, books and
\* volumes, a promoted book stays the book of its volume as long as the series
\* and the book are there, so that no volume is promoted twice.
THEOREM PromotedOnce == Spec => []PlaceholdersLinked
<1>1. Invariant => PlaceholdersLinked BY DEF Invariant, Linked
<1> QED BY <1>1, InvariantHolds, PTL

\* DeleteSeries: no placeholder outlives its series, but for one a pass made
\* between the first and the last statement of the deletion.
THEOREM DeletedWhole == Spec => []DeletionTakesPlaceholders
<1>1. Invariant => DeletionTakesPlaceholders
  BY DEF Invariant, Doomed, DeletionTakesPlaceholders
<1> QED BY <1>1, InvariantHolds, PTL

=============================================================================
