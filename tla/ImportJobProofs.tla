--------------------------- MODULE ImportJobProofs ---------------------------
(***************************************************************************)
(* For every set of imports, every CSV and every bound on attempts that    *)
(* die and statements that fail: a retry keeps to the rows without a       *)
(* result, a cancelled import starts no row but through a lost read, and   *)
(* an import brings an ISBN into the catalogue at most once; an import     *)
(* that nothing disturbs reports what its rows say and hands on the books  *)
(* it added; and, whatever is disturbed, all imports together make no copy *)
(* that no row answers for.                                                *)
(*                                                                         *)
(* Invariant says of each import alone what its row, its items and the     *)
(* running attempt have to do with each other (Import); the two things     *)
(* imports share are the tables (Shared) and the count of editions, which  *)
(* together with the books about to be created never passes the imports    *)
(* that mention the ISBN (Editions).                                       *)
(*                                                                         *)
(* Bookkeeping rests on it: what an attempt has counted is what its rows   *)
(* say (Placed, Accounted); the copies of an ISBN, with those about to be  *)
(* added, are covered by the rows that are done or in hand and by what was *)
(* lost (Covered); undisturbed, done rows, printed copies and books with   *)
(* no ISBN match one for one (Stocked, Traced).  Each attempt keeps to the *)
(* copy it picked (Picked).  Progress counts the rows an attempt has left  *)
(* without a result, for the refinement of WorkList.                       *)
(***************************************************************************)
EXTENDS ImportJob, FiniteSetTheorems, TLAPS

\* a row is being worked on: where its book is linked or counted, and all told
Linking == {"look", "insert", "choose", "adopt", "file"}
Undecided == {"row", "create"} \cup Linking
Steps == {"idle", "mark", "mirrorMark", "list", "check", "row", "look", "insert", "choose",
          "adopt", "file", "create", "setItem", "report", "mirrorReport", "mirrorDone",
          "spawn", "spawnCovers"}
Attempt == [pc : Steps, todo : SUBSET Nat, row : Nat, outcome : Settled \cup {"pending"},
            pick : Nat, done : Nat, failed : Nat, skipped : Nat, fresh : SUBSET Nat]
Unsettled == {"pending", "gone"}
ImportRow == [status : ImportStatus, done : Nat, failed : Nat, skipped : Nat]
UmbrellaState == {"absent", "pending", "running", "completed", "gone"}
RiverState == {"none", "unsent", "available", "running", "completed", "discarded"}

Tables ==
    /\ imports \in [Jobs -> ImportRow]
    /\ items = [j \in Jobs |-> items[j]] /\ untraced = [j \in Jobs |-> untraced[j]]
    /\ umbrella \in [Jobs -> UmbrellaState]
    /\ river \in [Jobs -> RiverState]
    /\ editions \in [ISBNs -> Nat] /\ copies \in [ISBNs -> Seq(BOOLEAN)]
    /\ crossed \subseteq ISBNs /\ late \in [Jobs -> Nat \cup {-1}]
    /\ stops \in 0..MaxStops /\ faults \in 0..MaxFaults
Shared == Tables /\ worker \in [Jobs -> Attempt]

\* an attempt has rows of this import, and none it has yet to decide on has a
\* result; only a book that is known is linked
AttemptFits(j) ==
    LET w == worker[j] IN
    /\ w.todo \subseteq Rows(j) /\ w.fresh \subseteq Rows(j) /\ w.row \in Rows(j) \cup {0}
    /\ w.pc \in Undecided \cup {"setItem"} => w.row \in Rows(j) \ w.todo
    /\ w.pc \in Linking => Csv[j][w.row].isbn \in ISBNs /\ w.outcome \in {"linked", "counted"}
    /\ w.pc = "setItem" => w.outcome \in Settled
    /\ w.pc \in Undecided => items[j][w.row] \in Unsettled
    /\ \A r \in w.todo : items[j][r] \in Unsettled
\* a cancelled import stays cancelled until its row goes
CancelledRests(j) ==
    /\ late[j] >= 0 => imports[j].status \in {"cancelled", "gone"}
    /\ imports[j].status # "gone" => late[j] <= faults
Import(j) ==
    /\ items[j] \in [Rows(j) -> {"absent", "pending", "gone"} \cup Settled]
    /\ untraced[j] \in [Rows(j) -> Nat]
    /\ AttemptFits(j) /\ CancelledRests(j)

Mentioning(i) == {j \in Jobs : \E r \in Rows(j) : Csv[j][r].isbn = i}
Creating(i) == {j \in Jobs : worker[j].pc = "create" /\ Csv[j][worker[j].row].isbn = i}
Editions(i) ==
    editions[i] + Cardinality(Creating(i))
        <= (IF i \in Elsewhere THEN 1 ELSE 0) + faults + Cardinality(Mentioning(i))

Invariant ==
    Shared /\ (\A j \in Jobs : Import(j)) /\ (\A i \in ISBNs : Editions(i))

------------------------------------------------------------------------------
(* Rows and attempts *)

\* rows are numbered from one and carry a known ISBN or none
LEMMA CsvRows ==
    ASSUME NEW j \in Jobs
    PROVE  /\ Rows(j) \subseteq Nat \ {0}
           /\ \A r \in Rows(j) : /\ Csv[j][r].isbn \in ISBNs \cup {NoISBN}
                                 /\ Csv[j][r].titled \in BOOLEAN /\ Csv[j][r].shelved \in BOOLEAN
<1> DEFINE Line == [isbn : ISBNs \cup {NoISBN}, titled : BOOLEAN, shelved : BOOLEAN]
<1>1. Csv[j] \in Seq(Line) BY ImportAssumption
<1>2. \A r \in DOMAIN Csv[j] : Csv[j][r] \in Line
  <2> HIDE DEF Line
  <2> QED BY <1>1
<1>3. Rows(j) = 1..Len(Csv[j]) /\ Len(Csv[j]) \in Nat BY <1>1 DEF Rows
<1> QED BY <1>2, <1>3 DEF Rows

\* an import has finitely many rows
LEMMA RowsFinite == ASSUME NEW j \in Jobs PROVE IsFiniteSet(Rows(j))
<1> DEFINE Line == [isbn : ISBNs \cup {NoISBN}, titled : BOOLEAN, shelved : BOOLEAN]
<1>1. Csv[j] \in Seq(Line) BY ImportAssumption
<1>2. Rows(j) = 1..Len(Csv[j]) /\ Len(Csv[j]) \in Nat BY <1>1 DEF Rows
<1> QED BY <1>2, FS_Interval

\* the worker of j steps, the others rest
Moves(j) == /\ worker' \in [Jobs -> Attempt]
            /\ \A k \in Jobs \ {j} : worker'[k] = worker[k]
\* the list of rows, the row and the books to report stay
Keeps(j) == /\ worker'[j].todo = worker[j].todo /\ worker'[j].row = worker[j].row
            /\ worker'[j].fresh = worker[j].fresh
\* so do its counters
Counts(j) == /\ worker'[j].done = worker[j].done /\ worker'[j].failed = worker[j].failed
             /\ worker'[j].skipped = worker[j].skipped /\ worker'[j].fresh = worker[j].fresh

\* an attempt goes on, and nothing else of it changes
LEMMA GotoMoves ==
    ASSUME Shared, NEW j \in Jobs, NEW pc \in Steps, Goto(j, pc)
    PROVE  /\ Moves(j) /\ Keeps(j) /\ worker'[j].pc = pc /\ worker'[j].outcome = worker[j].outcome
           /\ worker'[j].pick = worker[j].pick /\ Counts(j)
<1>1. worker \in [Jobs -> Attempt] BY DEF Shared
<1> QED BY <1>1 DEF Goto, Attempt, Moves, Keeps, Counts

\* an attempt has come to an outcome, or knows which it will be
LEMMA DecideMoves ==
    ASSUME Shared, NEW j \in Jobs, NEW pc \in Steps, NEW how \in Settled, Decide(j, pc, how)
    PROVE  /\ Moves(j) /\ Keeps(j) /\ worker'[j].pc = pc /\ worker'[j].outcome = how
           /\ worker'[j].pick = worker[j].pick /\ Counts(j)
<1> DEFINE w == worker[j]
           u == [w EXCEPT !.pc = pc, !.outcome = how]
<1>1. worker \in [Jobs -> Attempt] /\ w \in Attempt BY DEF Shared
<1>2. u \in Attempt BY <1>1 DEF Attempt
<1>3. /\ u.pc = pc /\ u.todo = w.todo /\ u.row = w.row /\ u.outcome = how
      /\ u.fresh = w.fresh /\ u.pick = w.pick
      /\ u.done = w.done /\ u.failed = w.failed /\ u.skipped = w.skipped
  BY <1>1 DEF Attempt
<1>4. worker' = [worker EXCEPT ![j] = u] BY <1>1 DEF Decide
<1> HIDE DEF u
<1> QED BY <1>1, <1>2, <1>3, <1>4 DEF Moves, Keeps, Counts

\* an attempt has chosen a copy, or is done with it
LEMMA PickMoves ==
    ASSUME Shared, NEW j \in Jobs, NEW pc \in Steps, NEW n \in Nat,
           worker' = [worker EXCEPT ![j].pc = pc, ![j].pick = n]
    PROVE  /\ Moves(j) /\ Keeps(j) /\ worker'[j].pc = pc /\ worker'[j].outcome = worker[j].outcome
           /\ worker'[j].pick = n /\ Counts(j)
<1>1. worker \in [Jobs -> Attempt] BY DEF Shared
<1> QED BY <1>1 DEF Attempt, Moves, Keeps, Counts

\* an attempt returns
LEMMA ReturnMoves ==
    ASSUME Shared, NEW j \in Jobs, NEW state, Return(j, state)
    PROVE  Moves(j) /\ worker'[j] = NoAttempt
<1>1. NoAttempt \in Attempt BY DEF NoAttempt, Attempt, Steps
<1>2. worker \in [Jobs -> Attempt] BY DEF Shared
<1> QED BY <1>1, <1>2 DEF Return, Moves

\* an attempt takes a list of rows
LEMMA ListMoves ==
    ASSUME Shared, NEW j \in Jobs, NEW rows \in SUBSET Nat,
           worker' = [worker EXCEPT ![j].pc = "check", ![j].todo = rows]
    PROVE  /\ Moves(j) /\ worker'[j].pc = "check" /\ worker'[j].todo = rows
           /\ worker'[j].row = worker[j].row /\ worker'[j].fresh = worker[j].fresh
           /\ Counts(j)
<1>1. worker \in [Jobs -> Attempt] BY DEF Shared
<1> QED BY <1>1 DEF Attempt, Steps, Moves, Counts

\* an attempt takes a row off its list
LEMMA StartMoves ==
    ASSUME Shared, NEW j \in Jobs, AttemptFits(j), StartRow(j)
    PROVE  /\ Moves(j) /\ worker'[j].pc = "row" /\ worker'[j].row \in worker[j].todo
           /\ worker'[j].todo = worker[j].todo \ {worker'[j].row}
           /\ worker'[j].fresh = worker[j].fresh /\ Counts(j)
<1>1. PICK r \in worker[j].todo :
        worker' = [worker EXCEPT ![j].pc = "row", ![j].row = r, ![j].todo = @ \ {r}]
  BY DEF StartRow
<1>2. r \in Nat BY CsvRows DEF AttemptFits
<1>3. worker \in [Jobs -> Attempt] BY DEF Shared
<1> QED BY <1>1, <1>2, <1>3 DEF Attempt, Steps, Moves, Counts

\* after its row, v has counted what w has decided
TallyOf(w, v) ==
    /\ v.done = IF w.outcome \in Done THEN w.done + 1 ELSE w.done
    /\ v.failed = IF w.outcome = "failed" THEN w.failed + 1 ELSE w.failed
    /\ v.skipped = IF w.outcome = "skipped" THEN w.skipped + 1 ELSE w.skipped
    /\ v.fresh = IF w.outcome \in Added THEN w.fresh \cup {w.row} ELSE w.fresh

\* an attempt counts its row
LEMMA TallyMoves ==
    ASSUME Shared, NEW j \in Jobs,
           worker' = [worker EXCEPT ![j] = [Tally(@, Row(j)) EXCEPT !.pc = "report"]]
    PROVE  /\ Moves(j) /\ worker'[j].pc = "report"
           /\ worker'[j].todo = worker[j].todo /\ worker'[j].row = worker[j].row
           /\ worker'[j].fresh \subseteq worker[j].fresh \cup {worker[j].row}
           /\ TallyOf(worker[j], worker'[j])
<1> DEFINE w == worker[j]
           t == Tally(w, w.row)
           u == [t EXCEPT !.pc = "report"]
<1>1. worker \in [Jobs -> Attempt] /\ w \in Attempt BY DEF Shared
<1>2. t \in Attempt
  <2> DEFINE d == IF w.outcome \in Done THEN w.done + 1 ELSE w.done
             f == IF w.outcome = "failed" THEN w.failed + 1 ELSE w.failed
             s == IF w.outcome = "skipped" THEN w.skipped + 1 ELSE w.skipped
             new == IF w.outcome \in Added THEN w.fresh \cup {w.row} ELSE w.fresh
  <2>1. d \in Nat /\ f \in Nat /\ s \in Nat BY <1>1 DEF Attempt
  <2>2. new \in SUBSET Nat BY <1>1 DEF Attempt
  <2>3. t = [w EXCEPT !.done = d, !.failed = f, !.skipped = s, !.fresh = new] BY DEF Tally
  <2> HIDE DEF d, f, s, new
  <2>4. [w EXCEPT !.done = d, !.failed = f, !.skipped = s, !.fresh = new] \in Attempt
    BY <1>1, <2>1, <2>2 DEF Attempt
  <2> QED BY <2>3, <2>4
<1>3. t.todo = w.todo /\ t.row = w.row /\ t.fresh \subseteq w.fresh \cup {w.row}
      /\ TallyOf(w, t)
  BY <1>1 DEF Tally, Attempt, TallyOf
<1>4. worker' = [worker EXCEPT ![j] = u] BY <1>1 DEF Row
<1>5. /\ u \in Attempt /\ u.pc = "report" /\ u.todo = t.todo /\ u.row = t.row
      /\ u.fresh = t.fresh /\ u.done = t.done /\ u.failed = t.failed /\ u.skipped = t.skipped
  <2> HIDE DEF t
  <2> QED BY <1>2 DEF Attempt, Steps
<1>6. worker'[j] = u /\ \A k \in Jobs \ {j} : worker'[k] = worker[k]
  <2> HIDE DEF u
  <2> QED BY <1>1, <1>4
<1>7. worker' \in [Jobs -> Attempt]
  <2> HIDE DEF u
  <2> QED BY <1>1, <1>4, <1>5
<1>8. TallyOf(w, u)
  <2> HIDE DEF t, u
  <2> QED BY <1>3, <1>5 DEF TallyOf
<1> QED BY <1>3, <1>5, <1>6, <1>7, <1>8 DEF Moves

------------------------------------------------------------------------------
(* What a step of one import leaves the others *)

Others(j) == \A k \in Jobs \ {j} :
                /\ imports'[k] = imports[k] /\ items'[k] = items[k]
                /\ untraced'[k] = untraced[k] /\ late'[k] = late[k]
ImportsKept(j) == Moves(j) /\ \A k \in Jobs : Import(k)'
FaultsGrow == faults' = faults \/ faults' = faults + 1

\* what is said of one import says nothing of the others' attempts and rows
LEMMA OthersStay ==
    ASSUME Invariant, NEW j \in Jobs, Moves(j), Others(j), FaultsGrow, Import(j)'
    PROVE  \A k \in Jobs : Import(k)'
<1> SUFFICES ASSUME NEW k \in Jobs \ {j} PROVE Import(k)'
  OBVIOUS
<1>1. /\ worker'[k] = worker[k] /\ imports'[k] = imports[k] /\ items'[k] = items[k]
      /\ untraced'[k] = untraced[k] /\ late'[k] = late[k]
  BY DEF Moves, Others
<1>2. Import(k) BY DEF Invariant
<1>3. AttemptFits(k)' BY <1>1, <1>2 DEF Import, AttemptFits
<1>4. CancelledRests(k)'
  <2>1. faults \in Nat /\ late[k] \in Nat \cup {-1}
    BY ImportAssumption DEF Invariant, Shared, Tables
  <2> QED BY <1>1, <1>2, <2>1 DEF Import, CancelledRests, FaultsGrow
<1> QED BY <1>1, <1>2, <1>3, <1>4 DEF Import

\* a step that writes neither the import's row nor its items
LEMMA AttemptStays ==
    ASSUME Invariant, NEW j \in Jobs, Moves(j), FaultsGrow, AttemptFits(j)',
           UNCHANGED <<imports, items, untraced, late>>
    PROVE  \A k \in Jobs : Import(k)'
<1>1. faults \in Nat /\ late[j] \in Nat \cup {-1} BY ImportAssumption DEF Invariant, Shared, Tables
<1>2. Import(j) BY DEF Invariant
<1>3. CancelledRests(j)' BY <1>1, <1>2 DEF Import, CancelledRests, FaultsGrow
<1>4. Import(j)' BY <1>2, <1>3 DEF Import
<1> QED BY <1>4, OthersStay DEF ImportsKept, Others

\* an attempt that is over fits any rows
LEMMA IdleFits ==
    ASSUME NEW j \in Jobs, worker'[j] = NoAttempt PROVE AttemptFits(j)'
BY DEF AttemptFits, NoAttempt, Undecided, Linking

\* no row is being decided on
LEMMA BetweenRows ==
    ASSUME NEW j \in Jobs, AttemptFits(j), Keeps(j), items' = items,
           worker'[j].pc \notin Undecided \cup {"setItem"}
    PROVE  AttemptFits(j)'
BY DEF AttemptFits, Keeps, Undecided

\* the decision on the row goes on
LEMMA SameRow ==
    ASSUME NEW j \in Jobs, AttemptFits(j), Keeps(j), items' = items,
           worker[j].pc \in Undecided, worker'[j].pc \in Undecided \cup {"setItem"},
           worker'[j].pc = "setItem" => worker'[j].outcome \in Settled,
           worker'[j].pc \in Linking => /\ Csv[j][worker[j].row].isbn \in ISBNs
                                        /\ worker'[j].outcome \in {"linked", "counted"}
    PROVE  AttemptFits(j)'
BY DEF AttemptFits, Keeps, Undecided

\* an attempt that returns, through the ways it has of doing so
LEMMA Returned ==
    ASSUME Invariant, NEW j \in Jobs, NEW state, Return(j, state), FaultsGrow,
           UNCHANGED <<imports, items, untraced, late>>
    PROVE  ImportsKept(j)
<1>1. Moves(j) /\ worker'[j] = NoAttempt BY ReturnMoves DEF Invariant
<1> QED BY <1>1, IdleFits, AttemptStays DEF ImportsKept

\* an attempt goes on to a point without a row
LEMMA WentBetweenRows ==
    ASSUME Invariant, NEW j \in Jobs, NEW pc \in Steps \ (Undecided \cup {"setItem"}),
           Goto(j, pc), FaultsGrow, UNCHANGED <<imports, items, untraced, late>>
    PROVE  ImportsKept(j)
<1>1. Moves(j) /\ Keeps(j) /\ worker'[j].pc = pc BY GotoMoves DEF Invariant
<1>2. AttemptFits(j) BY DEF Invariant, Import
<1>3. AttemptFits(j)' BY <1>1, <1>2, BetweenRows
<1> QED BY <1>1, <1>3, AttemptStays DEF ImportsKept

\* an attempt goes on with its row, or has come to an outcome
LEMMA WentOn ==
    ASSUME Invariant, NEW j \in Jobs, worker[j].pc \in Undecided, Moves(j), Keeps(j),
           worker'[j].pc \in Undecided \cup {"setItem"},
           worker'[j].pc = "setItem" => worker'[j].outcome \in Settled,
           worker'[j].pc \in Linking => /\ Csv[j][worker[j].row].isbn \in ISBNs
                                        /\ worker'[j].outcome \in {"linked", "counted"},
           FaultsGrow, UNCHANGED <<imports, items, late>>,
           Others(j), untraced'[j] \in [Rows(j) -> Nat]
    PROVE  ImportsKept(j)
<1>2. Import(j) BY DEF Invariant
<1>3. AttemptFits(j)' BY <1>2, SameRow DEF Import
<1>4. faults \in Nat /\ late[j] \in Nat \cup {-1} BY ImportAssumption DEF Invariant, Shared, Tables
<1>5. CancelledRests(j)' BY <1>2, <1>4 DEF Import, CancelledRests, FaultsGrow
<1>6. Import(j)' BY <1>2, <1>3, <1>5 DEF Import
<1> QED BY <1>6, OthersStay DEF ImportsKept

\* ... and makes no book of it
LEMMA WentOnOnly ==
    ASSUME Invariant, NEW j \in Jobs, worker[j].pc \in Undecided, Moves(j), Keeps(j),
           worker'[j].pc \in Undecided \cup {"setItem"},
           worker'[j].pc = "setItem" => worker'[j].outcome \in Settled,
           worker'[j].pc \in Linking => /\ Csv[j][worker[j].row].isbn \in ISBNs
                                        /\ worker'[j].outcome \in {"linked", "counted"},
           FaultsGrow, UNCHANGED <<imports, items, untraced, late>>
    PROVE  ImportsKept(j)
<1>1. untraced'[j] \in [Rows(j) -> Nat] /\ Others(j) BY DEF Invariant, Import, Others
<1> QED BY <1>1, WentOn

\* the decision on the row is made
LEMMA Decided ==
    ASSUME Invariant, NEW j \in Jobs, worker[j].pc \in Undecided, NEW how \in Settled,
           Outcome(j, how), FaultsGrow, UNCHANGED <<imports, items, untraced, late>>
    PROVE  ImportsKept(j)
<1>1. /\ Moves(j) /\ Keeps(j) /\ worker'[j].pc = "setItem" /\ worker'[j].outcome = how
      /\ "setItem" \notin Linking
  BY DecideMoves DEF Invariant, Outcome, Steps, Linking
<1> QED BY <1>1, WentOnOnly

------------------------------------------------------------------------------
(* Every step keeps the tables' types *)

\* the row an attempt decides on
LEMMA RowIsbn ==
    ASSUME Invariant, NEW j \in Jobs, worker[j].pc \in Undecided
    PROVE  /\ Row(j) = worker[j].row /\ Row(j) \in Rows(j)
           /\ Csv[j][Row(j)].isbn \in ISBNs \cup {NoISBN}
           /\ worker[j].pc \in Linking => /\ Csv[j][Row(j)].isbn \in ISBNs
                                       /\ worker[j].outcome \in {"linked", "counted"}
           /\ Isbn(j) = Csv[j][worker[j].row].isbn
BY CsvRows DEF Invariant, Import, AttemptFits, Row, Isbn

\* UpdateJobStatus writes one row
LEMMA WrittenStatus ==
    ASSUME Invariant, NEW j \in Jobs, NEW status \in ImportStatus, WriteStatus(j, status)
    PROVE  /\ imports' \in [Jobs -> ImportRow]
           /\ imports'[j].status = status /\ \A k \in Jobs \ {j} : imports'[k] = imports[k]
<1>1. worker[j].done \in Nat /\ worker[j].failed \in Nat /\ worker[j].skipped \in Nat
  BY DEF Invariant, Shared, Attempt
<1>2. imports \in [Jobs -> ImportRow]
  BY DEF Invariant, Shared, Tables
<1> QED BY <1>1, <1>2 DEF WriteStatus, ImportRow

\* so does a statement that writes a status alone
LEMMA SetStatus ==
    ASSUME Invariant, NEW j \in Jobs, NEW status \in ImportStatus,
           imports' = [imports EXCEPT ![j].status = status]
    PROVE  /\ imports' \in [Jobs -> ImportRow]
           /\ imports'[j].status = status /\ \A k \in Jobs \ {j} : imports'[k] = imports[k]
<1>1. imports \in [Jobs -> ImportRow]
  BY DEF Invariant, Shared, Tables
<1> QED BY <1>1 DEF ImportRow

\* lost statements are counted and bounded
LEMMA FaultsFit ==
    ASSUME Invariant, Fault \/ UNCHANGED faults
    PROVE  faults' \in 0..MaxFaults /\ FaultsGrow
BY ImportAssumption DEF Invariant, Shared, Tables, Fault, FaultsGrow

\* the umbrella row keeps to its vocabulary
LEMMA Mirrored ==
    ASSUME Tables, NEW j \in Jobs, NEW status \in {"pending", "processing", "done"},
           MirrorStatus(j, status)
    PROVE  umbrella' \in [Jobs -> UmbrellaState]
BY DEF Tables, MirrorStatus, Umbrella, UmbrellaState

\* so does the state of the River job
LEMMA RiverReturns ==
    ASSUME Tables, NEW j \in Jobs, NEW state \in {"available", "completed", "discarded"},
           Return(j, state)
    PROVE  river' \in [Jobs -> RiverState]
BY DEF Tables, Return, RiverState

\* a copy that takes an edition leaves a list of copies
LEMMA Marked ==
    ASSUME NEW held \in Seq(BOOLEAN), NEW c
    PROVE  /\ [held EXCEPT ![c] = TRUE] \in Seq(BOOLEAN)
           /\ Len([held EXCEPT ![c] = TRUE]) = Len(held)
           /\ DOMAIN [held EXCEPT ![c] = TRUE] = DOMAIN held
           /\ \A d \in DOMAIN held :
                [held EXCEPT ![c] = TRUE][d] = (held[d] \/ d = c)
<1> DEFINE now == [held EXCEPT ![c] = TRUE]
<1>1. DOMAIN held = 1..Len(held) /\ Len(held) \in Nat /\ held \in [1..Len(held) -> BOOLEAN]
  OBVIOUS
<1>2. now \in [1..Len(held) -> BOOLEAN] BY <1>1
<1>3. \A d \in DOMAIN held : now[d] = (held[d] \/ d = c) BY <1>1
<1>4. now \in Seq(BOOLEAN) /\ Len(now) = Len(held)
  <2> HIDE DEF now
  <2> QED BY <1>1, <1>2
<1> QED BY <1>1, <1>2, <1>3, <1>4

\* no step of an attempt breaks a type
LEMMA WorkTables ==
    ASSUME Invariant, NEW j \in Jobs, Work(j) PROVE Tables'
<1> USE DEF store
<1>0. Tables BY DEF Invariant, Shared
<1>1. CASE Load(j)
  <2>1. faults' \in 0..MaxFaults BY <1>1, FaultsFit DEF Load
  <2>2. river' \in [Jobs -> RiverState]
    BY <1>0, <1>1, RiverReturns DEF Load, Tables, RiverState
  <2> QED BY <1>0, <1>1, <2>1, <2>2 DEF Load, Tables, RiverState
<1>2. CASE MarkProcessing(j)
  <2>1. faults' \in 0..MaxFaults BY <1>2, FaultsFit DEF MarkProcessing
  <2>2. river' \in [Jobs -> RiverState]
    BY <1>0, <1>2, RiverReturns DEF MarkProcessing, Tables
  <2>3. imports' \in [Jobs -> ImportRow]
    BY <1>0, <1>2, WrittenStatus DEF MarkProcessing, Tables, ImportStatus
  <2> QED BY <1>0, <1>2, <2>1, <2>2, <2>3 DEF MarkProcessing, Tables
<1>3. CASE MirrorProcessing(j)
  <2>1. faults' \in 0..MaxFaults BY <1>3, FaultsFit DEF MirrorProcessing
  <2>2. river' \in [Jobs -> RiverState]
    BY <1>0, <1>3, RiverReturns DEF MirrorProcessing, Tables
  <2>3. umbrella' \in [Jobs -> UmbrellaState]
    BY <1>0, <1>3, Mirrored DEF MirrorProcessing, Tables
  <2> QED BY <1>0, <1>3, <2>1, <2>2, <2>3 DEF MirrorProcessing, Tables
<1>4. CASE ListPendingItems(j)
  <2>1. faults' \in 0..MaxFaults BY <1>4, FaultsFit DEF ListPendingItems
  <2>2. river' \in [Jobs -> RiverState]
    BY <1>0, <1>4, RiverReturns DEF ListPendingItems, Tables
  <2> QED BY <1>0, <1>4, <2>1, <2>2 DEF ListPendingItems, Tables
<1>5. CASE CheckCancelled(j)
  <2>1. faults' \in 0..MaxFaults BY <1>5, FaultsFit DEF CheckCancelled
  <2>2. river' \in [Jobs -> RiverState]
    BY <1>0, <1>5, RiverReturns DEF CheckCancelled, StartRow, Tables
  <2>3. late' \in [Jobs -> Nat \cup {-1}]
    <3>1. ASSUME StartRow(j) PROVE late' \in [Jobs -> Nat \cup {-1}]
      <4>1. late \in [Jobs -> Nat \cup {-1}] BY <1>0 DEF Tables
      <4> QED BY <3>1, <4>1 DEF StartRow
    <3> QED BY <1>0, <1>5, <3>1 DEF CheckCancelled, Tables
  <2> QED BY <1>0, <1>5, <2>1, <2>2, <2>3 DEF CheckCancelled, Tables
<1>6. CASE ReadRow(j)
  <2>1. faults' \in 0..MaxFaults BY <1>6, FaultsFit DEF ReadRow
  <2> QED BY <1>0, <1>6, <2>1 DEF ReadRow, Tables
<1>7. CASE LookForCopy(j) \/ ChooseCopy(j) \/ FileCopy(j)
  <2>1. faults' \in 0..MaxFaults BY <1>7, FaultsFit DEF LookForCopy, ChooseCopy, FileCopy
  <2> QED BY <1>0, <1>7, <2>1 DEF LookForCopy, ChooseCopy, FileCopy, Tables
<1>8. CASE InsertCopy(j) \/ AdoptCopy(j)
  <2>1. worker[j].pc \in Linking BY <1>8 DEF InsertCopy, AdoptCopy, Linking
  <2>2. Isbn(j) \in ISBNs BY <2>1, RowIsbn DEF Isbn, Undecided
  <2>3. copies \in [ISBNs -> Seq(BOOLEAN)] /\ crossed \subseteq ISBNs BY <1>0 DEF Tables
  <2>4. ASSUME NEW now \in Seq(BOOLEAN), NEW overlaps \in BOOLEAN, WriteCopies(Isbn(j), now, overlaps)
        PROVE  /\ copies' \in [ISBNs -> Seq(BOOLEAN)] /\ crossed' \subseteq ISBNs
               /\ UNCHANGED <<editions, untraced>>
    BY <2>2, <2>3, <2>4 DEF WriteCopies
  <2> DEFINE held == copies[Isbn(j)]
  <2>5. held \in Seq(BOOLEAN) BY <2>2, <2>3
  <2>6. /\ Append(held, FALSE) \in Seq(BOOLEAN) /\ Append(held, TRUE) \in Seq(BOOLEAN)
        /\ \A c : [held EXCEPT ![c] = TRUE] \in Seq(BOOLEAN)
    <3> HIDE DEF held
    <3>1. ASSUME NEW c PROVE [held EXCEPT ![c] = TRUE] \in Seq(BOOLEAN)
      BY <2>5, Marked
    <3> QED BY <2>5, <3>1
  <2>7. /\ copies' \in [ISBNs -> Seq(BOOLEAN)] /\ crossed' \subseteq ISBNs
        /\ UNCHANGED <<editions, untraced>>
    <3>1. CASE InsertCopy(j) BY <3>1, <2>4, <2>6 DEF InsertCopy
    <3>2. CASE AdoptCopy(j)
      <4> DEFINE c == worker[j].pick
                 now == IF c = 0 THEN Append(held, TRUE) ELSE [held EXCEPT ![c] = TRUE]
                 overlaps == c # 0 /\ held[c]
      <4>1. now \in Seq(BOOLEAN) BY <2>6
      <4>2. WriteCopies(Isbn(j), now, overlaps) BY <3>2 DEF AdoptCopy
      <4>3. copies' \in [ISBNs -> Seq(BOOLEAN)]
        BY <4>1, <4>2, <2>2, <2>3 DEF WriteCopies
      <4> QED BY <4>2, <4>3, <2>2, <2>3 DEF WriteCopies
    <3> QED BY <1>8, <3>1, <3>2
  <2> QED BY <1>0, <1>8, <2>7 DEF InsertCopy, AdoptCopy, Tables
<1>9. CASE CreateBook(j)
  <2>2. editions' \in [ISBNs -> Nat] /\ copies' \in [ISBNs -> Seq(BOOLEAN)]
    <3> DEFINE isbn == Isbn(j)
    <3>1. editions \in [ISBNs -> Nat] /\ copies \in [ISBNs -> Seq(BOOLEAN)] BY <1>0 DEF Tables
    <3>2. \/ editions' = editions
          \/ editions' = [editions EXCEPT ![isbn] = @ + 1]
      BY <1>9 DEF CreateBook
    <3>3. \/ copies' = copies
          \/ copies' = [copies EXCEPT ![isbn] = Append(@, TRUE)]
      BY <1>9 DEF CreateBook
    <3> HIDE DEF isbn
    <3>4. CASE isbn \in ISBNs
      <4>1. Append(copies[isbn], TRUE) \in Seq(BOOLEAN) BY <3>1, <3>4
      <4>2. editions[isbn] + 1 \in Nat BY <3>1, <3>4
      <4>3. editions' \in [ISBNs -> Nat] BY <3>1, <3>2, <4>2
      <4>4. copies' \in [ISBNs -> Seq(BOOLEAN)] BY <3>1, <3>3, <4>1
      <4> QED BY <4>3, <4>4
    <3>5. CASE isbn \notin ISBNs BY <3>1, <3>2, <3>3, <3>5
    <3> QED BY <3>4, <3>5
  <2>3. untraced' = [k \in Jobs |-> untraced'[k]]
    <3>1. ASSUME NEW n, untraced' = [untraced EXCEPT ![j] = n]
          PROVE  untraced' = [k \in Jobs |-> untraced'[k]]
      BY <1>0, <3>1 DEF Tables
    <3> QED BY <1>0, <1>9, <3>1 DEF CreateBook, Tables
  <2> QED BY <1>0, <1>9, <2>2, <2>3 DEF CreateBook, Tables
<1>10. CASE UpdateItemStatus(j)
  <2>1. faults' \in 0..MaxFaults BY <1>10, FaultsFit DEF UpdateItemStatus
  <2>2. items' = [k \in Jobs |-> items'[k]]
    <3>1. ASSUME NEW n, items' = [items EXCEPT ![j] = n]
          PROVE  items' = [k \in Jobs |-> items'[k]]
      BY <1>0, <3>1 DEF Tables
    <3> QED BY <1>0, <1>10, <3>1 DEF UpdateItemStatus, Tables
  <2> QED BY <1>0, <1>10, <2>1, <2>2 DEF UpdateItemStatus, Tables
<1>11. CASE Report(j)
  <2>1. faults' \in 0..MaxFaults BY <1>11, FaultsFit DEF Report
  <2>2. imports' \in [Jobs -> ImportRow]
    BY <1>0, <1>11, WrittenStatus DEF Report, Tables, ImportStatus
  <2> QED BY <1>0, <1>11, <2>1, <2>2 DEF Report, Tables
<1>12. CASE MirrorReport(j)
  <2>1. faults' \in 0..MaxFaults BY <1>12, FaultsFit DEF MirrorReport
  <2>2. umbrella' \in [Jobs -> UmbrellaState]
    BY <1>0, <1>12, Mirrored DEF MirrorReport, Tables
  <2> QED BY <1>0, <1>12, <2>1, <2>2 DEF MirrorReport, Tables
<1>13. CASE Finish(j)
  <2>1. faults' \in 0..MaxFaults BY <1>13, FaultsFit DEF Finish
  <2>2. river' \in [Jobs -> RiverState]
    BY <1>0, <1>13, RiverReturns DEF Finish, Tables
  <2>3. imports' \in [Jobs -> ImportRow]
    BY <1>0, <1>13, WrittenStatus DEF Finish, Tables, ImportStatus
  <2> QED BY <1>0, <1>13, <2>1, <2>2, <2>3 DEF Finish, Tables
<1>14. CASE MirrorDone(j)
  <2>1. faults' \in 0..MaxFaults BY <1>14, FaultsFit DEF MirrorDone
  <2>2. river' \in [Jobs -> RiverState]
    BY <1>0, <1>14, RiverReturns DEF MirrorDone, Tables
  <2>3. umbrella' \in [Jobs -> UmbrellaState]
    BY <1>0, <1>14, Mirrored DEF MirrorDone, Tables
  <2> QED BY <1>0, <1>14, <2>1, <2>2, <2>3 DEF MirrorDone, Tables
<1>15. CASE SpawnMetadata(j) \/ SpawnCovers(j)
  <2>1. faults' \in 0..MaxFaults BY <1>15, FaultsFit DEF SpawnMetadata, SpawnCovers, Spawn
  <2>2. river' \in [Jobs -> RiverState]
    BY <1>0, <1>15, RiverReturns DEF SpawnMetadata, SpawnCovers, Tables
  <2> QED BY <1>0, <1>15, <2>1, <2>2 DEF SpawnMetadata, SpawnCovers, Tables
<1> QED BY <1>1, <1>2, <1>3, <1>4, <1>5, <1>6, <1>7, <1>8, <1>9, <1>10, <1>11, <1>12,
           <1>13, <1>14, <1>15 DEF Work

\* StartImport, users and the machine
OutsideWork(j) == \/ CreateJob(j) \/ Enqueue(j) \/ Cancel(j) \/ Delete(j)
                  \/ DeleteUmbrella(j) \/ Stop(j)

\* nor does any other step
LEMMA OutsideTables ==
    ASSUME Invariant, NEW j \in Jobs, OutsideWork(j) PROVE Tables'
<1> USE DEF store
<1>0. Tables BY DEF Invariant, Shared
<1>1. CASE CreateJob(j)
  <2>1. imports' \in [Jobs -> ImportRow]
    BY <1>1, SetStatus DEF CreateJob, ImportStatus
  <2> QED BY <1>0, <1>1, <2>1 DEF CreateJob, Tables, Umbrella, UmbrellaState, RiverState
<1>2. CASE Enqueue(j)
  <2>1. faults' \in 0..MaxFaults BY <1>2, FaultsFit DEF Enqueue
  <2> QED BY <1>0, <1>2, <2>1 DEF Enqueue, Tables, RiverState
<1>3. CASE Cancel(j)
  <2>1. imports' \in [Jobs -> ImportRow]
    BY <1>3, SetStatus DEF Cancel, ImportStatus
  <2> QED BY <1>0, <1>3, <2>1 DEF Cancel, Tables
<1>4. CASE Delete(j)
  <2>1. imports' \in [Jobs -> ImportRow]
    BY <1>4, SetStatus DEF Delete, ImportStatus
  <2> QED BY <1>0, <1>4, <2>1 DEF Delete, Tables
<1>5. CASE DeleteUmbrella(j)
  <2>1. imports' \in [Jobs -> ImportRow]
    BY <1>5, SetStatus DEF DeleteUmbrella, ImportStatus
  <2> QED BY <1>0, <1>5, <2>1 DEF DeleteUmbrella, Tables, UmbrellaState
<1>6. CASE Stop(j)
  <2>1. river' \in [Jobs -> RiverState]
    BY <1>0, <1>6, RiverReturns DEF Stop
  <2>2. stops' \in 0..MaxStops BY <1>0, <1>6, ImportAssumption DEF Stop, Tables
  <2> QED BY <1>0, <1>6, <2>1, <2>2 DEF Stop, Tables
<1> QED BY <1>1, <1>2, <1>3, <1>4, <1>5, <1>6 DEF OutsideWork

------------------------------------------------------------------------------
(* Every step leaves every import's rows and attempt in order *)

\* a status is written over no cancelled row
LEMMA StatusWritten ==
    ASSUME Invariant, NEW j \in Jobs, NEW status \in {"processing", "done"}, Live(j),
           WriteStatus(j, status), NEW pc \in Steps \ (Undecided \cup {"setItem"}),
           Goto(j, pc), FaultsGrow, UNCHANGED <<items, untraced, late>>
    PROVE  ImportsKept(j)
<1>1. /\ imports'[j].status = status /\ \A k \in Jobs \ {j} : imports'[k] = imports[k]
  BY WrittenStatus DEF ImportStatus
<1>2. Moves(j) /\ Keeps(j) /\ worker'[j].pc = pc BY GotoMoves DEF Invariant
<1>3. Import(j) /\ late[j] \in Nat \cup {-1} /\ faults \in Nat
  BY ImportAssumption DEF Invariant, Shared, Tables
<1>4. AttemptFits(j)' BY <1>2, <1>3, BetweenRows DEF Import
<1>5. CancelledRests(j)' BY <1>1, <1>3 DEF Import, CancelledRests, Live, FaultsGrow
<1>6. Import(j)' BY <1>3, <1>4, <1>5 DEF Import
<1> QED BY <1>1, <1>2, <1>6, OthersStay DEF ImportsKept, Others

\* the row with the smallest number is decided on next
LEMMA RowStarts ==
    ASSUME Invariant, NEW j \in Jobs, worker[j].pc = "check", StartRow(j),
           \/ imports[j].status # "cancelled" /\ UNCHANGED faults
           \/ faults' = faults + 1,
           UNCHANGED <<imports, items, untraced>>
    PROVE  ImportsKept(j)
<1>1. Import(j) /\ late \in [Jobs -> Nat \cup {-1}] /\ faults \in Nat
  BY ImportAssumption DEF Invariant, Shared, Tables
<1>2. /\ Moves(j) /\ worker'[j].pc = "row" /\ worker'[j].row \in worker[j].todo
      /\ worker'[j].todo = worker[j].todo \ {worker'[j].row}
      /\ worker'[j].fresh = worker[j].fresh
  BY <1>1, StartMoves DEF Invariant, Import
<1>3. AttemptFits(j)' BY <1>1, <1>2 DEF Import, AttemptFits, Undecided, Linking
<1>4. /\ late'[j] = IF late[j] >= 0 THEN late[j] + 1 ELSE late[j]
      /\ \A k \in Jobs \ {j} : late'[k] = late[k]
  BY <1>1 DEF StartRow
<1>5. CancelledRests(j)' BY <1>1, <1>4 DEF Import, CancelledRests
<1>6. Import(j)' BY <1>1, <1>3, <1>5 DEF Import
<1> QED BY <1>2, <1>4, <1>6, OthersStay DEF ImportsKept, Others, FaultsGrow

\* a row gets its result when it is on no list
LEMMA ItemWritten ==
    ASSUME Invariant, NEW j \in Jobs, UpdateItemStatus(j)
    PROVE  ImportsKept(j)
<1> DEFINE r == worker[j].row
<1>1. Import(j) /\ faults \in Nat /\ late[j] \in Nat \cup {-1}
      /\ items = [k \in Jobs |-> items[k]]
  BY ImportAssumption DEF Invariant, Shared, Tables
<1>2. /\ Moves(j) /\ worker'[j].pc = "report" /\ worker'[j].todo = worker[j].todo
      /\ worker'[j].row = r /\ worker'[j].fresh \subseteq worker[j].fresh \cup {r}
  BY TallyMoves DEF Invariant, UpdateItemStatus
<1>3. r \in Rows(j) \ worker[j].todo /\ worker[j].outcome \in Settled
  BY <1>1 DEF Import, AttemptFits, UpdateItemStatus
<1>4. items' = items \/ items' = [items EXCEPT ![j] = [@ EXCEPT ![r] = worker[j].outcome]]
  BY DEF UpdateItemStatus, Row
<1>5. /\ items'[j] \in [Rows(j) -> {"absent", "pending", "gone"} \cup Settled]
      /\ \A s \in Rows(j) \ {r} : items'[j][s] = items[j][s]
      /\ \A k \in Jobs \ {j} : items'[k] = items[k]
  BY <1>1, <1>3, <1>4 DEF Import
<1>6. AttemptFits(j)'
  BY <1>1, <1>2, <1>3, <1>5 DEF Import, AttemptFits, Undecided, Linking
<1>7. UNCHANGED <<imports, late, untraced>> /\ FaultsGrow
  BY FaultsFit DEF UpdateItemStatus, store
<1>8. CancelledRests(j)' BY <1>1, <1>7 DEF Import, CancelledRests, FaultsGrow
<1>9. Import(j)' BY <1>1, <1>5, <1>6, <1>7, <1>8 DEF Import
<1> QED BY <1>2, <1>5, <1>7, <1>9, OthersStay DEF ImportsKept, Others

\* the transaction that makes the book touches no item
LEMMA BookCreated ==
    ASSUME Invariant, NEW j \in Jobs, CreateBook(j)
    PROVE  ImportsKept(j)
<1> DEFINE r == worker[j].row
<1>1. worker[j].pc \in Undecided /\ r \in Rows(j) /\ untraced[j] \in [Rows(j) -> Nat]
      /\ untraced = [k \in Jobs |-> untraced[k]]
  BY DEF CreateBook, Invariant, Import, AttemptFits, Undecided, Shared, Tables
<1> DEFINE n == untraced[j][r] + 1
<1>2. untraced' = untraced \/ untraced' = [untraced EXCEPT ![j][r] = n]
  BY DEF CreateBook, Row
<1>3. untraced'[j] \in [Rows(j) -> Nat] /\ \A k \in Jobs \ {j} : untraced'[k] = untraced[k]
  <2>1. n \in Nat BY <1>1
  <2> HIDE DEF n
  <2> QED BY <1>1, <1>2, <2>1
<1>4. UNCHANGED <<imports, items, late, faults>> BY DEF CreateBook
<1>5. PICK how \in Settled : Outcome(j, how)
  BY DEF CreateBook, Settled, Done, Brought, Added
<1>6. /\ Moves(j) /\ Keeps(j) /\ worker'[j].pc = "setItem" /\ worker'[j].outcome = how
      /\ "setItem" \notin Linking
  BY <1>5, DecideMoves DEF Invariant, Outcome, Steps, Linking
<1> QED BY <1>1, <1>3, <1>4, <1>6, WentOn DEF Others, FaultsGrow

\* copies are numbered from one
LEMMA BareCopies ==
    ASSUME Invariant, NEW i \in ISBNs
    PROVE  /\ copies[i] \in Seq(BOOLEAN) /\ DOMAIN copies[i] = 1..Len(copies[i])
           /\ Len(copies[i]) \in Nat /\ Bare(i) \subseteq 1..Len(copies[i])
BY DEF Invariant, Shared, Tables, Bare

\* every step of an attempt
LEMMA WorkImports ==
    ASSUME Invariant, NEW j \in Jobs, Work(j)
    PROVE  ImportsKept(j)
<1> USE DEF store
<1> DEFINE Between == Steps \ (Undecided \cup {"setItem"})
<1>0. /\ {"mark", "mirrorMark", "list", "check", "mirrorReport", "mirrorDone", "spawn"}
            \subseteq Between
      /\ "spawnCovers" \in Between
      /\ {"failed", "skipped", "refreshed", "imported"} \subseteq Settled
      /\ Undecided \cup {"setItem"} \subseteq Steps /\ {"row", "create"} \subseteq Undecided
      /\ Linking \subseteq Undecided /\ "create" \notin Linking
      /\ Linking = {"look", "insert", "choose", "adopt", "file"}
      /\ {"linked", "counted"} \subseteq Settled
  BY DEF Steps, Undecided, Linking, Settled, Done, Brought, Added
<1>1. CASE Load(j)
  <2>1. FaultsGrow BY <1>1, FaultsFit DEF Load
  <2> QED BY <1>1, <2>1, <1>0, Returned, WentBetweenRows DEF Load
<1>2. CASE MarkProcessing(j)
  <2>1. FaultsGrow BY <1>2, FaultsFit DEF MarkProcessing
  <2>2. CASE Live(j) /\ WriteStatus(j, "processing") /\ Goto(j, "mirrorMark")
    BY <1>2, <2>1, <2>2, <1>0, StatusWritten DEF MarkProcessing, Between
  <2>3. CASE Goto(j, "list") /\ UNCHANGED imports
    BY <1>2, <2>1, <2>3, <1>0, WentBetweenRows DEF MarkProcessing
  <2>4. CASE Return(j, "available") /\ UNCHANGED imports
    BY <1>2, <2>1, <2>4, Returned DEF MarkProcessing
  <2> QED BY <1>2, <2>2, <2>3, <2>4 DEF MarkProcessing
<1>3. CASE MirrorProcessing(j)
  <2>1. FaultsGrow BY <1>3, FaultsFit DEF MirrorProcessing
  <2> QED BY <1>3, <2>1, <1>0, Returned, WentBetweenRows DEF MirrorProcessing
<1>4. CASE ListPendingItems(j)
  <2>1. FaultsGrow BY <1>4, FaultsFit DEF ListPendingItems
  <2>2. CASE Return(j, "available")
    BY <1>4, <2>1, <2>2, Returned DEF ListPendingItems
  <2> DEFINE open == {r \in Rows(j) : items[j][r] = "pending"}
  <2>3. ASSUME worker' = [worker EXCEPT ![j].pc = "check", ![j].todo = open] PROVE ImportsKept(j)
    <3>1. open \subseteq Rows(j) /\ Rows(j) \subseteq Nat BY CsvRows
    <3>2. /\ Moves(j) /\ worker'[j].pc = "check" /\ worker'[j].todo = open
          /\ worker'[j].row = worker[j].row /\ worker'[j].fresh = worker[j].fresh
      BY <2>3, <3>1, ListMoves DEF Invariant
    <3>3. AttemptFits(j) BY DEF Invariant, Import
    <3>4. AttemptFits(j)'
      BY <1>4, <3>1, <3>2, <3>3 DEF ListPendingItems, AttemptFits, Undecided, Linking, Unsettled
    <3> QED BY <1>4, <2>1, <3>2, <3>4, AttemptStays DEF ListPendingItems, ImportsKept
  <2> QED BY <1>4, <2>2, <2>3 DEF ListPendingItems
<1>5. CASE CheckCancelled(j)
  <2>1. FaultsGrow BY <1>5, FaultsFit DEF CheckCancelled
  <2>2. CASE Return(j, "completed") /\ UNCHANGED late
    BY <1>5, <2>1, <2>2, Returned DEF CheckCancelled
  <2>3. CASE StartRow(j) /\ imports[j].status # "cancelled" /\ UNCHANGED faults
    BY <1>5, <2>3, RowStarts DEF CheckCancelled
  <2>4. CASE StartRow(j) /\ Fault BY <1>5, <2>4, RowStarts DEF CheckCancelled, Fault
  <2> QED BY <1>5, <2>2, <2>3, <2>4 DEF CheckCancelled
<1>6. CASE ReadRow(j)
  <2>1. FaultsGrow /\ worker[j].pc \in Undecided BY <1>6, FaultsFit, <1>0 DEF ReadRow
  <2>2. UNCHANGED <<imports, items, untraced, late>> BY <1>6 DEF ReadRow
  <2>3. Isbn(j) = Csv[j][worker[j].row].isbn /\ Isbn(j) \in ISBNs \cup {NoISBN}
    BY <2>1, RowIsbn DEF Isbn
  <2>4. ASSUME NEW how \in Settled, Outcome(j, how) PROVE ImportsKept(j)
    BY <2>1, <2>2, <2>4, Decided
  <2>5. CASE Goto(j, "create")
    <3>1. Moves(j) /\ Keeps(j) /\ worker'[j].pc = "create" BY <2>5, <1>0, GotoMoves DEF Invariant
    <3> QED BY <2>1, <2>2, <3>1, <1>0, WentOnOnly
  <2>6. ASSUME NEW pc \in Linking, NEW how \in {"linked", "counted"}, Decide(j, pc, how),
               Known(Isbn(j))
        PROVE  ImportsKept(j)
    <3>1. /\ Moves(j) /\ Keeps(j) /\ worker'[j].pc = pc /\ worker'[j].outcome = how
          /\ pc # "setItem"
      BY <2>6, <1>0, DecideMoves DEF Invariant
    <3>2. Isbn(j) \in ISBNs BY <2>3, <2>6 DEF Known
    <3> QED BY <2>1, <2>2, <2>3, <3>1, <3>2, <1>0, WentOnOnly
  <2>7. CASE Known(Isbn(j)) /\ Decide(j, "look", "linked") BY <2>6, <2>7, <1>0
  <2>8. CASE Known(Isbn(j)) /\ Decide(j, "choose", "counted") BY <2>6, <2>8, <1>0
  <2> QED BY <1>6, <1>0, <2>4, <2>5, <2>7, <2>8 DEF ReadRow
<1>7. CASE LookForCopy(j) \/ InsertCopy(j) \/ ChooseCopy(j) \/ AdoptCopy(j) \/ FileCopy(j)
  <2>1. FaultsGrow /\ worker[j].pc \in Linking
    BY <1>7, FaultsFit, <1>0 DEF LookForCopy, InsertCopy, ChooseCopy, AdoptCopy, FileCopy, FaultsGrow
  <2>2. /\ Csv[j][worker[j].row].isbn \in ISBNs /\ worker[j].outcome \in {"linked", "counted"}
        /\ worker[j].pc \in Undecided
    BY <2>1, <1>0, RowIsbn
  <2>3. UNCHANGED <<imports, items, untraced, late>>
    BY <1>7 DEF LookForCopy, InsertCopy, ChooseCopy, AdoptCopy, FileCopy, WriteCopies
  <2>4. CASE Outcome(j, "failed") BY <2>1, <2>2, <2>3, <2>4, <1>0, Decided
  <2>5. ASSUME NEW pc \in Linking \cup {"setItem"}, Goto(j, pc) PROVE ImportsKept(j)
    <3>1. Moves(j) /\ Keeps(j) /\ worker'[j].pc = pc /\ worker'[j].outcome = worker[j].outcome
      BY <2>5, <1>0, GotoMoves DEF Invariant
    <3> QED BY <2>1, <2>2, <2>3, <3>1, <1>0, WentOnOnly
  <2>6. ASSUME NEW pc \in Linking \cup {"setItem"}, NEW n \in Nat,
               worker' = [worker EXCEPT ![j].pc = pc, ![j].pick = n]
        PROVE  ImportsKept(j)
    <3>1. Moves(j) /\ Keeps(j) /\ worker'[j].pc = pc /\ worker'[j].outcome = worker[j].outcome
      BY <2>6, <1>0, PickMoves DEF Invariant
    <3> QED BY <2>1, <2>2, <2>3, <3>1, <1>0, WentOnOnly
  <2>7. CASE LookForCopy(j) BY <2>4, <2>5, <2>7, <1>0 DEF LookForCopy
  <2>8. CASE InsertCopy(j) BY <2>5, <2>8, <1>0 DEF InsertCopy
  <2>9. CASE ChooseCopy(j)
    <3>1. Bare(Isbn(j)) \cup {0} \subseteq Nat
      BY <2>2, <2>1, <1>0, BareCopies, RowIsbn
    <3> QED BY <2>4, <2>6, <2>9, <3>1, <1>0 DEF ChooseCopy
  <2>10. CASE AdoptCopy(j) BY <2>6, <2>10, <1>0 DEF AdoptCopy, Recorded
  <2>11. CASE FileCopy(j) BY <2>4, <2>5, <2>11, <1>0 DEF FileCopy
  <2> QED BY <1>7, <2>7, <2>8, <2>9, <2>10, <2>11
<1>9. CASE CreateBook(j) BY <1>9, BookCreated
<1>10. CASE UpdateItemStatus(j) BY <1>10, ItemWritten
<1>11. CASE Report(j)
  <2>1. FaultsGrow BY <1>11, FaultsFit DEF Report
  <2>2. CASE Live(j) /\ WriteStatus(j, "processing") /\ Goto(j, "mirrorReport")
    BY <1>11, <2>1, <2>2, <1>0, StatusWritten DEF Report, Between
  <2>3. CASE Goto(j, "check") /\ UNCHANGED imports
    BY <1>11, <2>1, <2>3, <1>0, WentBetweenRows DEF Report
  <2> QED BY <1>11, <2>2, <2>3 DEF Report, NextRow
<1>12. CASE MirrorReport(j)
  <2>1. FaultsGrow BY <1>12, FaultsFit DEF MirrorReport
  <2> QED BY <1>12, <2>1, <1>0, WentBetweenRows DEF MirrorReport, NextRow
<1>13. CASE Finish(j)
  <2>1. FaultsGrow BY <1>13, FaultsFit DEF Finish
  <2>2. CASE Live(j) /\ WriteStatus(j, "done") /\ Goto(j, "mirrorDone")
    BY <1>13, <2>1, <2>2, <1>0, StatusWritten DEF Finish, Between
  <2>3. CASE Goto(j, "spawn") /\ UNCHANGED imports
    BY <1>13, <2>1, <2>3, <1>0, WentBetweenRows DEF Finish
  <2>4. CASE Return(j, "available") /\ UNCHANGED imports
    BY <1>13, <2>1, <2>4, Returned DEF Finish
  <2> QED BY <1>13, <2>2, <2>3, <2>4 DEF Finish
<1>14. CASE MirrorDone(j)
  <2>1. FaultsGrow BY <1>14, FaultsFit DEF MirrorDone
  <2> QED BY <1>14, <2>1, <1>0, Returned, WentBetweenRows DEF MirrorDone
<1>15. CASE SpawnMetadata(j)
  <2>1. FaultsGrow BY <1>15, FaultsFit DEF SpawnMetadata, Spawn
  <2> QED BY <1>15, <2>1, <1>0, WentBetweenRows DEF SpawnMetadata
<1>16. CASE SpawnCovers(j)
  <2>1. FaultsGrow BY <1>16, FaultsFit DEF SpawnCovers, Spawn
  <2> QED BY <1>16, <2>1, Returned DEF SpawnCovers
<1> QED BY <1>1, <1>2, <1>3, <1>4, <1>5, <1>6, <1>7, <1>9, <1>10, <1>11, <1>12,
           <1>13, <1>14, <1>15, <1>16 DEF Work

\* a step that leaves every attempt where it is
LEMMA AttemptsRest ==
    ASSUME Invariant, NEW j \in Jobs, worker' = worker, Others(j), FaultsGrow,
           items'[j] \in [Rows(j) -> {"absent", "pending", "gone"} \cup Settled],
           \A r \in Rows(j) : items'[j][r] = items[j][r] \/ items'[j][r] \in Unsettled,
           untraced'[j] = untraced[j], CancelledRests(j)'
    PROVE  ImportsKept(j)
<1>1. Moves(j) BY DEF Moves, Invariant, Shared
<1>2. Import(j) BY DEF Invariant
<1>3. AttemptFits(j)' BY <1>2 DEF Import, AttemptFits
<1>4. Import(j)' BY <1>2, <1>3 DEF Import
<1> QED BY <1>1, <1>4, OthersStay DEF ImportsKept

\* every other step
LEMMA OutsideImports ==
    ASSUME Invariant, NEW j \in Jobs, OutsideWork(j) PROVE ImportsKept(j)
<1> USE DEF store
<1>0. /\ Import(j) /\ late \in [Jobs -> Nat \cup {-1}] /\ faults \in Nat
      /\ items = [k \in Jobs |-> items[k]]
  BY ImportAssumption DEF Invariant, Shared, Tables
<1>1. CASE CreateJob(j)
  <2>1. imports'[j].status = "pending" /\ \A k \in Jobs \ {j} : imports'[k] = imports[k]
    BY <1>1, SetStatus DEF CreateJob, ImportStatus
  <2>2. CancelledRests(j)' BY <1>0, <1>1, <2>1 DEF CreateJob, CancelledRests, Import
  <2>3. /\ items'[j] = [r \in Rows(j) |-> "pending"]
        /\ \A k \in Jobs \ {j} : items'[k] = items[k]
    BY <1>0, <1>1 DEF CreateJob
  <2> QED BY <1>1, <2>1, <2>2, <2>3, AttemptsRest DEF CreateJob, Others, FaultsGrow, Unsettled
<1>2. CASE Enqueue(j)
  <2>1. FaultsGrow BY <1>2, FaultsFit DEF Enqueue
  <2>2. CancelledRests(j)'
    BY <1>0, <1>2, <2>1 DEF Enqueue, CancelledRests, Import, FaultsGrow
  <2> QED BY <1>0, <1>2, <2>1, <2>2, AttemptsRest DEF Enqueue, Others, Import
<1>3. CASE Cancel(j)
  <2>1. imports'[j].status = "cancelled" /\ \A k \in Jobs \ {j} : imports'[k] = imports[k]
    BY <1>3, SetStatus DEF Cancel, ImportStatus
  <2>2. late'[j] = 0 /\ \A k \in Jobs \ {j} : late'[k] = late[k] BY <1>0, <1>3 DEF Cancel
  <2>3. CancelledRests(j)' BY <1>0, <1>3, <2>1, <2>2 DEF Cancel, CancelledRests
  <2> QED BY <1>0, <1>3, <2>1, <2>2, <2>3, AttemptsRest DEF Cancel, Others, FaultsGrow, Import
<1>4. ASSUME imports' = [imports EXCEPT ![j].status = "gone"],
             items' = [items EXCEPT ![j] = [r \in Rows(j) |-> "gone"]],
             UNCHANGED <<worker, untraced, late, faults>>
      PROVE  ImportsKept(j)
  <2>1. imports'[j].status = "gone" /\ \A k \in Jobs \ {j} : imports'[k] = imports[k]
    BY <1>4, SetStatus DEF ImportStatus
  <2>2. CancelledRests(j)' BY <2>1 DEF CancelledRests
  <2>3. /\ items'[j] = [r \in Rows(j) |-> "gone"]
        /\ \A k \in Jobs \ {j} : items'[k] = items[k]
    BY <1>0, <1>4
  <2> QED BY <1>4, <2>1, <2>2, <2>3, AttemptsRest DEF Others, FaultsGrow, Unsettled
<1>5. CASE Delete(j) BY <1>4, <1>5 DEF Delete
<1>6. CASE DeleteUmbrella(j) BY <1>4, <1>6 DEF DeleteUmbrella
<1>7. CASE Stop(j) BY <1>7, Returned DEF Stop, FaultsGrow
<1> QED BY <1>1, <1>2, <1>3, <1>5, <1>6, <1>7 DEF OutsideWork

------------------------------------------------------------------------------
(* How many editions an ISBN gets *)

\* who makes a book with an ISBN has a row that mentions it
LEMMA Creators ==
    ASSUME Invariant, NEW i \in ISBNs
    PROVE  /\ Creating(i) \subseteq Mentioning(i)
           /\ IsFiniteSet(Creating(i)) /\ IsFiniteSet(Mentioning(i))
           /\ Cardinality(Creating(i)) \in Nat /\ Cardinality(Mentioning(i)) \in Nat
           /\ Cardinality(Creating(i)) <= Cardinality(Mentioning(i))
<1>1. Creating(i) \subseteq Mentioning(i)
  BY DEF Creating, Mentioning, Invariant, Import, AttemptFits, Undecided
<1>2. IsFiniteSet(Mentioning(i)) BY ImportAssumption, FS_Subset DEF Mentioning
<1> QED BY <1>1, <1>2, FS_Subset, FS_CardinalityType

\* a step that brings nobody closer to making a book
LEMMA FewerCreators ==
    ASSUME Invariant, NEW i \in ISBNs, Creating(i)' \subseteq Creating(i),
           editions' = editions, FaultsGrow
    PROVE  Editions(i)'
<1>1. Cardinality(Creating(i)') \in Nat /\ Cardinality(Creating(i)') <= Cardinality(Creating(i))
  BY Creators, FS_Subset, FS_CardinalityType
<1>2. /\ editions[i] \in Nat /\ faults \in Nat /\ Cardinality(Creating(i)) \in Nat
      /\ Cardinality(Mentioning(i)) \in Nat
  BY ImportAssumption, Creators DEF Invariant, Shared, Tables
<1>3. Editions(i) BY DEF Invariant
<1>4. Mentioning(i)' = Mentioning(i) BY DEF Mentioning
<1> QED BY <1>1, <1>2, <1>3, <1>4 DEF Editions, FaultsGrow

\* who goes elsewhere makes no book
LEMMA NotCreating ==
    ASSUME Invariant, NEW j \in Jobs, Moves(j), worker'[j].pc # "create", NEW i \in ISBNs
    PROVE  Creating(i)' = Creating(i) \ {j}
BY DEF Moves, Creating

\* to the transaction that makes the book one comes over the duplicate check
LEMMA ReadRowEditions ==
    ASSUME Invariant, NEW j \in Jobs, ReadRow(j), NEW i \in ISBNs PROVE Editions(i)'
<1> USE DEF store
<1>1. FaultsGrow /\ editions' = editions BY FaultsFit DEF ReadRow
<1> DEFINE isbn == Isbn(j)
<1>3. ASSUME NEW pc \in {"setItem", "look", "choose"}, NEW how \in Settled, Decide(j, pc, how)
      PROVE  Editions(i)'
  <2>1. Moves(j) /\ worker'[j].pc = pc BY <1>3, DecideMoves DEF Invariant, Steps
  <2> QED BY <1>1, <2>1, NotCreating, FewerCreators
<1>2. ASSUME NEW how \in Settled, Outcome(j, how) PROVE Editions(i)'
  BY <1>2, <1>3 DEF Outcome
<1>4. CASE Goto(j, "create") /\ (~Known(isbn) \/ Fault)
  <2>1. Moves(j) /\ Keeps(j) /\ worker'[j].pc = "create" BY <1>4, GotoMoves DEF Invariant, Steps
  <2>2. isbn = Csv[j][worker[j].row].isbn /\ worker'[j].row = worker[j].row
    BY <2>1 DEF Isbn, Row, Keeps
  <2>3. CASE isbn # i
    <3>1. Creating(i)' \subseteq Creating(i) BY <2>1, <2>2, <2>3 DEF Creating, Moves
    <3> QED BY <1>1, <3>1, FewerCreators
  <2>4. CASE isbn = i
    <3>1. Creating(i)' = Creating(i) \cup {j} BY <2>1, <2>2, <2>4 DEF Creating, Moves
    <3>2. j \in Mentioning(i)
      BY <2>2, <2>4, RowIsbn DEF Mentioning, ReadRow, Undecided
    <3>3. /\ Cardinality(Creating(i)') <= Cardinality(Mentioning(i))
          /\ Cardinality(Creating(i)') <= Cardinality(Creating(i)) + 1
          /\ Cardinality(Creating(i)') \in Nat
      <4>1. Creating(i) \cup {j} \subseteq Mentioning(i) BY <3>2, Creators
      <4>2. /\ Cardinality(Creating(i) \cup {j}) <= Cardinality(Creating(i)) + 1
            /\ Cardinality(Creating(i) \cup {j}) \in Nat
        <5>1. IsFiniteSet(Creating(i)) /\ Cardinality(Creating(i)) \in Nat BY Creators
        <5>2. Cardinality(Creating(i) \cup {j}) = IF j \in Creating(i) THEN Cardinality(Creating(i))
                                                  ELSE Cardinality(Creating(i)) + 1
          BY <5>1, FS_AddElement
        <5> QED BY <5>1, <5>2
      <4> QED BY <3>1, <4>1, <4>2, Creators, FS_Subset
    <3>4. /\ editions[i] \in Nat /\ faults \in Nat /\ Cardinality(Creating(i)) \in Nat
          /\ Cardinality(Mentioning(i)) \in Nat /\ Editions(i)
      BY ImportAssumption, Creators DEF Invariant, Shared, Tables
    <3>5. Mentioning(i)' = Mentioning(i) BY DEF Mentioning
    <3>6. CASE ~Known(isbn)
      <4>1. editions[i] = 0 BY <2>4, <3>4, <3>6, ImportAssumption DEF Known
      <4> QED BY <1>1, <3>3, <3>4, <3>5, <4>1 DEF Editions, FaultsGrow
    <3>7. CASE Fault BY <1>1, <3>3, <3>4, <3>5, <3>7 DEF Editions, Fault
    <3> QED BY <1>4, <3>6, <3>7
  <2> QED BY <2>3, <2>4
<1> QED BY <1>2, <1>3, <1>4 DEF ReadRow, Settled, Done, Brought, Added

\* the transaction makes one edition and is over
LEMMA CreateBookEditions ==
    ASSUME Invariant, NEW j \in Jobs, CreateBook(j), NEW i \in ISBNs PROVE Editions(i)'
<1> DEFINE isbn == Isbn(j)
<1>1. PICK how \in Settled : Outcome(j, how)
  BY DEF CreateBook, Settled, Done, Brought, Added
<1>2. Moves(j) /\ worker'[j].pc = "setItem" BY <1>1, DecideMoves DEF Invariant, Outcome, Steps
<1>3. Creating(i)' = Creating(i) \ {j} BY <1>2, NotCreating
<1>4. faults' = faults /\ FaultsGrow BY DEF CreateBook, FaultsGrow
<1>5. CASE editions' = editions BY <1>3, <1>4, <1>5, FewerCreators
<1>6. CASE isbn # NoISBN /\ editions' = [editions EXCEPT ![isbn] = @ + 1]
  <2>1. isbn \in ISBNs BY <1>6, RowIsbn DEF CreateBook, Undecided, Isbn
  <2>2. editions \in [ISBNs -> Nat] BY DEF Invariant, Shared, Tables
  <2>3. editions'[i] = IF isbn = i THEN editions[i] + 1 ELSE editions[i]
    BY <1>6, <2>1, <2>2
  <2>4. /\ faults \in Nat /\ Cardinality(Creating(i)) \in Nat
        /\ Cardinality(Mentioning(i)) \in Nat /\ Editions(i)
    BY ImportAssumption, Creators DEF Invariant, Shared, Tables
  <2>5. Mentioning(i)' = Mentioning(i) BY DEF Mentioning
  <2>6. CASE isbn = i
    <3>1. j \in Creating(i) BY <2>6 DEF Creating, CreateBook, Row, Isbn
    <3>2. Cardinality(Creating(i)') = Cardinality(Creating(i)) - 1
      BY <1>3, <3>1, Creators, FS_RemoveElement
    <3> QED BY <1>4, <2>2, <2>3, <2>4, <2>5, <2>6, <3>2 DEF Editions
  <2>7. CASE isbn # i
    <3>1. Cardinality(Creating(i)') <= Cardinality(Creating(i)) /\ Cardinality(Creating(i)') \in Nat
      BY <1>3, Creators, FS_Subset, FS_CardinalityType
    <3> QED BY <1>4, <2>2, <2>3, <2>4, <2>5, <2>7, <3>1 DEF Editions
  <2> QED BY <2>6, <2>7
<1> QED BY <1>5, <1>6 DEF CreateBook

\* where a step other than to the transaction leads
LEMMA ElsewhereGoes ==
    ASSUME Invariant, NEW j \in Jobs, Work(j) \/ Stop(j), ~ReadRow(j), ~CreateBook(j)
    PROVE  worker'[j].pc # "create" /\ editions' = editions /\ FaultsGrow
<1> USE DEF store
<1>0. Shared BY DEF Invariant
<1>a. ASSUME NEW pc \in {"mark", "mirrorMark", "list", "check", "insert", "choose", "setItem",
                         "mirrorReport", "mirrorDone", "spawn", "spawnCovers"}, Goto(j, pc)
      PROVE  worker'[j].pc # "create"
  BY <1>0, <1>a, GotoMoves DEF Steps
<1>b. ASSUME NEW state, Return(j, state) PROVE worker'[j].pc # "create"
  BY <1>0, <1>b, ReturnMoves DEF NoAttempt
<1>c. ASSUME Outcome(j, "failed") PROVE worker'[j].pc # "create"
  BY <1>0, <1>c, DecideMoves DEF Outcome, Steps, Settled
<1>d. ASSUME NEW pc \in {"adopt", "file", "setItem"}, NEW n \in Nat,
             worker' = [worker EXCEPT ![j].pc = pc, ![j].pick = n]
      PROVE  worker'[j].pc # "create"
  BY <1>0, <1>d, PickMoves DEF Steps
<1>1. CASE Load(j) BY <1>1, <1>a, <1>b, FaultsFit DEF Load
<1>2. CASE MarkProcessing(j) BY <1>2, <1>a, <1>b, FaultsFit DEF MarkProcessing
<1>3. CASE MirrorProcessing(j) BY <1>3, <1>a, <1>b, FaultsFit DEF MirrorProcessing
<1>4. CASE ListPendingItems(j)
  <2> DEFINE open == {r \in Rows(j) : items[j][r] = "pending"}
  <2>1. ASSUME worker' = [worker EXCEPT ![j].pc = "check", ![j].todo = open]
        PROVE  worker'[j].pc # "create"
    <3>1. open \in SUBSET Nat BY CsvRows
    <3> HIDE DEF open
    <3> QED BY <1>0, <2>1, <3>1, ListMoves
  <2> QED BY <1>4, <2>1, <1>b, FaultsFit DEF ListPendingItems
<1>5. CASE CheckCancelled(j)
  <2>1. ASSUME StartRow(j) PROVE worker'[j].pc # "create"
    BY <1>0, <2>1, StartMoves DEF Invariant, Import
  <2> QED BY <1>5, <2>1, <1>b, FaultsFit DEF CheckCancelled
<1>6. CASE LookForCopy(j) BY <1>6, <1>a, <1>c, FaultsFit DEF LookForCopy
<1>7. CASE InsertCopy(j)
  BY <1>7, <1>a DEF InsertCopy, WriteCopies, FaultsGrow
<1>8. CASE ChooseCopy(j)
  <2>1. Isbn(j) \in ISBNs
    BY <1>8, RowIsbn DEF ChooseCopy, Linking, Undecided, Isbn
  <2>2. Bare(Isbn(j)) \cup {0} \subseteq Nat BY <2>1, BareCopies
  <2> QED BY <1>8, <1>c, <1>d, <2>2, FaultsFit DEF ChooseCopy
<1>9. CASE AdoptCopy(j)
  BY <1>9, <1>d DEF AdoptCopy, Recorded, WriteCopies, FaultsGrow
<1>10. CASE FileCopy(j) BY <1>10, <1>a, <1>c, FaultsFit DEF FileCopy
<1>11. CASE UpdateItemStatus(j)
  <2>1. worker'[j].pc = "report" BY <1>0, <1>11, TallyMoves DEF UpdateItemStatus
  <2> QED BY <1>11, <2>1, FaultsFit DEF UpdateItemStatus
<1>12. CASE Report(j) BY <1>12, <1>a, FaultsFit DEF Report, NextRow
<1>13. CASE MirrorReport(j) BY <1>13, <1>a, FaultsFit DEF MirrorReport, NextRow
<1>14. CASE Finish(j) BY <1>14, <1>a, <1>b, FaultsFit DEF Finish
<1>15. CASE MirrorDone(j) BY <1>15, <1>a, <1>b, FaultsFit DEF MirrorDone
<1>16. CASE SpawnMetadata(j) BY <1>16, <1>a, FaultsFit DEF SpawnMetadata, Spawn
<1>17. CASE SpawnCovers(j) BY <1>17, <1>b, FaultsFit DEF SpawnCovers, Spawn
<1>18. CASE Stop(j) BY <1>18, <1>b, FaultsFit DEF Stop
<1> QED BY <1>1, <1>2, <1>3, <1>4, <1>5, <1>6, <1>7, <1>8, <1>9, <1>10, <1>11, <1>12,
           <1>13, <1>14, <1>15, <1>16, <1>17, <1>18 DEF Work

\* no step lets an ISBN have an edition too many
LEMMA EditionsKept ==
    ASSUME Invariant, NEW j \in Jobs, Work(j) \/ OutsideWork(j), NEW i \in ISBNs
    PROVE  Editions(i)'
<1>1. CASE ReadRow(j) BY <1>1, ReadRowEditions
<1>2. CASE CreateBook(j) BY <1>2, CreateBookEditions
<1>3. CASE (Work(j) \/ Stop(j)) /\ ~ReadRow(j) /\ ~CreateBook(j)
  <2>1. Moves(j) BY <1>3, WorkImports, OutsideImports DEF ImportsKept, OutsideWork
  <2>2. Creating(i)' = Creating(i) \ {j} BY <1>3, <2>1, ElsewhereGoes, NotCreating
  <2> QED BY <1>3, <2>2, ElsewhereGoes, FewerCreators
<1>4. CASE CreateJob(j) \/ Enqueue(j) \/ Cancel(j) \/ Delete(j) \/ DeleteUmbrella(j)
  <2>1. worker' = worker /\ editions' = editions /\ FaultsGrow
    BY <1>4, FaultsFit DEF CreateJob, Enqueue, Cancel, Delete, DeleteUmbrella, store
  <2>2. Creating(i)' = Creating(i) BY <2>1 DEF Creating
  <2> QED BY <2>1, <2>2, FewerCreators
<1> QED BY <1>1, <1>2, <1>3, <1>4 DEF OutsideWork

------------------------------------------------------------------------------
(* What an import counts *)

\* an attempt belongs to a running River job; rows come and go with their import;
\* a row that is decided on and not written down has no result
Placed(j) ==
    LET w == worker[j] IN
    /\ w.pc = "idle" => w = NoAttempt
    /\ w.pc # "idle" => river[j] = "running"
    /\ w.pc = "setItem" => items[j][w.row] \in Unsettled
    /\ \A r \in Rows(j) : items[j][r] = "gone" => imports[j].status = "gone"
    /\ imports[j].status = "absent" =>
          river[j] = "none" /\ \A r \in Rows(j) : items[j][r] = "absent"

\* the attempt's counters and its list of new books are what its rows say
Tallied(j) ==
    LET w == worker[j] IN
    /\ w.done = Cardinality(Ended(j, Done))
    /\ w.failed = Cardinality(Ended(j, {"failed"}))
    /\ w.skipped = Cardinality(Ended(j, {"skipped"}))
    /\ w.fresh = Ended(j, Added)
Reported(j) ==
    /\ imports[j].done = Cardinality(Ended(j, Done))
    /\ imports[j].failed = Cardinality(Ended(j, {"failed"}))
    /\ imports[j].skipped = Cardinality(Ended(j, {"skipped"}))
\* the new books go to the metadata batch first, to the cover batch at the end
HandedOver(j) ==
    /\ Handed("metadata", j) =
          IF Options[j].metadata /\ (river[j] = "completed" \/ worker[j].pc = "spawnCovers")
          THEN Ended(j, Added) ELSE {}
    /\ Handed("cover", j) \subseteq
          IF Options[j].covers /\ river[j] = "completed" THEN Ended(j, Added) ELSE {}

\* the only attempt of an import that nothing disturbs has counted its rows, and
\* leaves no result behind it to count
Accounted(j) == (Undisturbed /\ Live(j)) =>
    /\ river[j] \in {"none", "unsent", "available"} =>
          worker[j].pc = "idle" /\ Ended(j, Settled) = {}
    /\ worker[j].pc # "idle" => Tallied(j)
    /\ HandedOver(j)
    /\ imports[j].status = "done" =>
          /\ Reported(j) /\ worker[j].pc \in {"mirrorDone", "spawn", "spawnCovers", "idle"}
          /\ worker[j].pc = "idle" => river[j] = "completed"

\* a step of one import is none of the others'
Alone(j) ==
    \A k \in Jobs \ {j} :
        /\ worker'[k] = worker[k] /\ imports'[k] = imports[k] /\ items'[k] = items[k]
        /\ river'[k] = river[k] /\ \A type : Handed(type, k)' = Handed(type, k)

\* columns of other imports are not written
LEMMA WorkAlone ==
    ASSUME Invariant, NEW j \in Jobs, Work(j) PROVE Alone(j)
<1> USE DEF store
<1>0. /\ imports \in [Jobs -> ImportRow] /\ items = [k \in Jobs |-> items[k]]
      /\ river \in [Jobs -> RiverState]
  BY DEF Invariant, Shared, Tables
<1>1. \A k \in Jobs \ {j} : worker'[k] = worker[k] BY WorkImports DEF ImportsKept, Moves
<1>2. \A k \in Jobs \ {j} : imports'[k] = imports[k]
  <2>1. ASSUME NEW status, WriteStatus(j, status)
        PROVE  \A k \in Jobs \ {j} : imports'[k] = imports[k]
    BY <1>0, <2>1 DEF WriteStatus
  <2> QED BY <2>1 DEF Work, Load, MarkProcessing, MirrorProcessing, ListPendingItems,
        CheckCancelled, ReadRow, LookForCopy, InsertCopy, ChooseCopy, AdoptCopy, FileCopy,
        CreateBook, UpdateItemStatus, Report, MirrorReport, Finish, MirrorDone,
        SpawnMetadata, SpawnCovers
<1>3. \A k \in Jobs \ {j} : items'[k] = items[k]
  <2>1. CASE UpdateItemStatus(j) BY <1>0, <2>1 DEF UpdateItemStatus
  <2> QED BY <2>1 DEF Work, Load, MarkProcessing, MirrorProcessing, ListPendingItems,
        CheckCancelled, ReadRow, LookForCopy, InsertCopy, ChooseCopy, AdoptCopy, FileCopy,
        CreateBook, Report, MirrorReport, Finish, MirrorDone, SpawnMetadata, SpawnCovers
<1>4. \A k \in Jobs \ {j} : river'[k] = river[k]
  <2>1. ASSUME NEW state, river' = [river EXCEPT ![j] = state]
        PROVE  \A k \in Jobs \ {j} : river'[k] = river[k]
    BY <1>0, <2>1
  <2>2. ASSUME NEW state, Return(j, state)
        PROVE  \A k \in Jobs \ {j} : river'[k] = river[k]
    BY <2>1, <2>2 DEF Return
  <2> QED BY <2>1, <2>2 DEF Work, Load, MarkProcessing, MirrorProcessing, ListPendingItems,
        CheckCancelled, StartRow, ReadRow, LookForCopy, InsertCopy, ChooseCopy, AdoptCopy,
        FileCopy, CreateBook, UpdateItemStatus, Report, MirrorReport, Finish, MirrorDone,
        SpawnMetadata, SpawnCovers
<1>5. ASSUME NEW k \in Jobs \ {j}, NEW type PROVE Handed(type, k)' = Handed(type, k)
  <2>1. CASE enriched' = enriched BY <2>1 DEF Handed, Rows
  <2>2. ASSUME NEW t, NEW books, Spawn(t, j, books) PROVE Handed(type, k)' = Handed(type, k)
    <3>1. \A r \in Rows(k) : <<type, k, r>> \in enriched' <=> <<type, k, r>> \in enriched
      BY <2>2 DEF Spawn
    <3> QED BY <3>1 DEF Handed, Rows
  <2>3. CASE SpawnMetadata(j) BY <2>2, <2>3 DEF SpawnMetadata
  <2>4. CASE SpawnCovers(j) BY <2>2, <2>4 DEF SpawnCovers
  <2> QED BY <2>1, <2>3, <2>4 DEF Work, Load, MarkProcessing, MirrorProcessing,
        ListPendingItems, CheckCancelled, ReadRow, LookForCopy, InsertCopy, ChooseCopy, AdoptCopy,
        FileCopy, CreateBook, UpdateItemStatus, Report, MirrorReport, Finish, MirrorDone
<1> QED BY <1>1, <1>2, <1>3, <1>4, <1>5 DEF Alone

\* nor are they by users and the machine
LEMMA OutsideAlone ==
    ASSUME Invariant, NEW j \in Jobs, OutsideWork(j) PROVE Alone(j)
<1> USE DEF store
<1>0. /\ imports \in [Jobs -> ImportRow] /\ items = [k \in Jobs |-> items[k]]
      /\ river \in [Jobs -> RiverState]
  BY DEF Invariant, Shared, Tables
<1>1. \A k \in Jobs \ {j} : worker'[k] = worker[k] BY OutsideImports DEF ImportsKept, Moves
<1>2. \A k \in Jobs \ {j} : imports'[k] = imports[k]
  BY <1>0 DEF OutsideWork, CreateJob, Enqueue, Cancel, Delete, DeleteUmbrella, Stop
<1>3. \A k \in Jobs \ {j} : items'[k] = items[k]
  BY <1>0 DEF OutsideWork, CreateJob, Enqueue, Cancel, Delete, DeleteUmbrella, Stop
<1>4. \A k \in Jobs \ {j} : river'[k] = river[k]
  BY <1>0 DEF OutsideWork, CreateJob, Enqueue, Cancel, Delete, DeleteUmbrella, Stop, Return
<1>5. enriched' = enriched
  BY DEF OutsideWork, CreateJob, Enqueue, Cancel, Delete, DeleteUmbrella, Stop
<1>6. \A k \in Jobs : \A type : Handed(type, k)' = Handed(type, k) BY <1>5 DEF Handed, Rows
<1> QED BY <1>1, <1>2, <1>3, <1>4, <1>6 DEF Alone

\* what an import that rests has counted
LEMMA EndedRests ==
    ASSUME NEW j \in Jobs, items'[j] = items[j]
    PROVE  \A how : Ended(j, how)' = Ended(j, how)
BY DEF Ended, Rows

\* nothing that was lost comes back, and no closed import opens
LEMMA CalmBack ==
    ASSUME Invariant, NEW j \in Jobs, Work(j) \/ OutsideWork(j)
    PROVE  /\ Undisturbed' => Undisturbed /\ ~Fault /\ ~Stop(j)
           /\ \A k \in Jobs : /\ Live(k)' => Live(k)
                              /\ imports[k].status = "gone" => imports'[k].status = "gone"
<1> USE DEF store
<1>0. /\ imports \in [Jobs -> ImportRow] /\ faults \in Nat /\ stops \in Nat
  BY ImportAssumption DEF Invariant, Shared, Tables
<1>1. faults' \in {faults, faults + 1} /\ stops' \in {stops, stops + 1}
  BY DEF Work, OutsideWork, Load, MarkProcessing, MirrorProcessing, ListPendingItems,
         CheckCancelled, ReadRow, LookForCopy, InsertCopy, ChooseCopy, AdoptCopy, FileCopy,
         CreateBook, UpdateItemStatus, Report, MirrorReport, Finish, MirrorDone, SpawnMetadata,
         SpawnCovers, Spawn, CreateJob, Enqueue, Cancel, Delete, DeleteUmbrella, Stop, Fault
<1>2. Undisturbed' => Undisturbed /\ ~Fault /\ ~Stop(j)
  BY <1>0, <1>1 DEF Undisturbed, Fault, Stop
<1>3. /\ Live(j)' => Live(j)
      /\ imports[j].status = "gone" => imports'[j].status = "gone"
  <2>1. CASE imports' = imports BY <2>1 DEF Live
  <2>2. CASE Live(j) /\ \E status \in {"processing", "done"} : WriteStatus(j, status)
    BY <2>2 DEF Live
  <2>3. CASE CreateJob(j) BY <1>0, <2>3 DEF CreateJob, Live
  <2>4. CASE Cancel(j) \/ Delete(j) \/ DeleteUmbrella(j)
    BY <1>0, <2>4 DEF Cancel, Delete, DeleteUmbrella, Live, ImportRow
  <2> QED BY <2>1, <2>2, <2>3, <2>4 DEF Work, OutsideWork, Load, MarkProcessing,
         MirrorProcessing, ListPendingItems, CheckCancelled, ReadRow, LookForCopy, InsertCopy,
         ChooseCopy, AdoptCopy, FileCopy, CreateBook, UpdateItemStatus, Report, MirrorReport,
         Finish, MirrorDone, SpawnMetadata, SpawnCovers, Enqueue, Stop
<1>4. Alone(j) BY WorkAlone, OutsideAlone
<1> QED BY <1>2, <1>3, <1>4 DEF Alone, Live

\* what is said of another import stays
LEMMA OthersAccounted ==
    ASSUME Invariant, NEW j \in Jobs, Work(j) \/ OutsideWork(j), NEW k \in Jobs \ {j},
           Placed(k), Accounted(k)
    PROVE  Placed(k)' /\ Accounted(k)'
<1>1. /\ worker'[k] = worker[k] /\ imports'[k] = imports[k] /\ items'[k] = items[k]
      /\ river'[k] = river[k] /\ \A type : Handed(type, k)' = Handed(type, k)
  BY WorkAlone, OutsideAlone DEF Alone
<1>2. \A how : Ended(k, how)' = Ended(k, how) BY <1>1, EndedRests
<1>3. Placed(k)' BY <1>1 DEF Placed, Rows
<1>4. Undisturbed' => Undisturbed BY CalmBack
<1>5. Tallied(k) => Tallied(k)' BY <1>1, <1>2 DEF Tallied
<1>6. Reported(k) => Reported(k)' BY <1>1, <1>2 DEF Reported
<1>7. HandedOver(k) => HandedOver(k)' BY <1>1, <1>2 DEF HandedOver
<1>8. Accounted(k)' BY <1>1, <1>2, <1>4, <1>5, <1>6, <1>7 DEF Accounted, Live
<1> QED BY <1>3, <1>8

\* an attempt that goes on keeps what it has counted
LEMMA Onward ==
    ASSUME Invariant, NEW j \in Jobs, Placed(j), Accounted(j), Work(j), Counts(j),
           worker[j].pc \notin {"idle", "spawnCovers"},
           worker'[j].pc \notin {"idle", "spawnCovers"},
           UNCHANGED <<river, items, enriched>>,
           imports'[j].status = "absent" => imports' = imports,
           worker'[j].pc = "setItem" => items[j][worker'[j].row] \in Unsettled,
           (Undisturbed /\ imports'[j].status = "done") =>
                /\ worker'[j].pc \in {"mirrorDone", "spawn"}
                /\ imports' = imports \/ WriteStatus(j, "done")
    PROVE  Placed(j)' /\ Accounted(j)'
<1>1. \A how : Ended(j, how)' = Ended(j, how) BY EndedRests
<1>2. \A type : Handed(type, j)' = Handed(type, j) BY DEF Handed, Rows
<1>3. /\ Undisturbed' => Undisturbed
      /\ Live(j)' => Live(j)
      /\ imports[j].status = "gone" => imports'[j].status = "gone"
  BY CalmBack
<1>4. river[j] = "running" BY DEF Placed
<1>5. Placed(j)' BY <1>3 DEF Placed, Rows
<1>6. Accounted(j)'
  <2> SUFFICES ASSUME Undisturbed', Live(j)' PROVE Accounted(j)'
    BY DEF Accounted
  <2>1. Undisturbed /\ Live(j) BY <1>3
  <2>2. Tallied(j)' BY <1>1, <2>1 DEF Tallied, Accounted, Counts
  <2>3. imports'[j].status = "done" => Reported(j)'
    <3>1. CASE imports' = imports BY <1>1, <2>1, <3>1 DEF Reported, Accounted
    <3>2. CASE WriteStatus(j, "done")
      <4>1. imports \in [Jobs -> ImportRow] BY DEF Invariant, Shared, Tables
      <4>2. /\ imports'[j].done = worker[j].done /\ imports'[j].failed = worker[j].failed
            /\ imports'[j].skipped = worker[j].skipped
        BY <3>2, <4>1 DEF WriteStatus
      <4> QED BY <1>1, <2>1, <4>2 DEF Reported, Accounted, Tallied
    <3> QED BY <2>1, <3>1, <3>2
  <2>4. HandedOver(j)' BY <1>1, <1>2, <2>1 DEF Accounted, HandedOver
  <2> QED BY <1>4, <2>1, <2>2, <2>3, <2>4 DEF Accounted
<1> QED BY <1>5, <1>6

\* an attempt that returns early was stopped, refused or cancelled
LEMMA ReturnedEarly ==
    ASSUME Invariant, NEW j \in Jobs, Placed(j), NEW state, Return(j, state),
           river[j] \in {"available", "running"}, UNCHANGED <<imports, items>>,
           ~(Undisturbed' /\ Live(j)')
    PROVE  Placed(j)' /\ Accounted(j)'
<1>1. worker'[j] = NoAttempt BY ReturnMoves DEF Invariant
<1>2. Placed(j)' BY <1>1 DEF Placed, NoAttempt, Rows
<1> QED BY <1>2 DEF Accounted

\* the row an attempt decides on has no result yet
LEMMA RowOpen ==
    ASSUME Invariant, NEW j \in Jobs, worker[j].pc \in Undecided
    PROVE  worker[j].row \in Rows(j) /\ items[j][worker[j].row] \in Unsettled
BY DEF Invariant, Import, AttemptFits, Undecided

\* an import that is done has no attempt but one past its last row
LEMMA DoneIsPast ==
    ASSUME NEW j \in Jobs, Accounted(j), Undisturbed,
           worker[j].pc \notin {"mirrorDone", "spawn", "spawnCovers", "idle"}
    PROVE  imports[j].status # "done"
BY DEF Accounted, Live

\* the steps up to the first row, and between two
LEMMA BetweenAccounted ==
    ASSUME Invariant, NEW j \in Jobs, Placed(j), Accounted(j),
           \/ MarkProcessing(j) \/ MirrorProcessing(j) \/ ListPendingItems(j)
           \/ CheckCancelled(j) \/ Report(j) \/ MirrorReport(j) \/ Finish(j) \/ MirrorDone(j)
    PROVE  Placed(j)' /\ Accounted(j)'
<1>0. Work(j) /\ worker[j].pc \notin {"idle", "spawnCovers"} /\ river[j] = "running" /\ Shared
  BY DEF Work, MarkProcessing, MirrorProcessing, ListPendingItems, CheckCancelled, Report,
         MirrorReport, Finish, MirrorDone, Placed, Invariant
<1>1. Undisturbed' => Undisturbed /\ ~Fault BY <1>0, CalmBack
<1>2. UNCHANGED <<items, enriched>>
  BY DEF MarkProcessing, MirrorProcessing, ListPendingItems, CheckCancelled, Report,
         MirrorReport, Finish, MirrorDone
<1>3. ASSUME NEW state, Return(j, state), UNCHANGED imports,
             Fault \/ imports[j].status = "cancelled"
      PROVE  Placed(j)' /\ Accounted(j)'
  <2>1. ~(Undisturbed' /\ Live(j)') BY <1>1, <1>3 DEF Live
  <2> QED BY <1>0, <1>2, <1>3, <2>1, ReturnedEarly
<1>4. ASSUME NEW pc \in {"mirrorMark", "list", "check", "mirrorReport", "mirrorDone", "spawn"},
             Goto(j, pc), UNCHANGED river,
             \/ UNCHANGED imports /\ (pc = "spawn" \/ worker[j].pc \notin {"mirrorDone", "spawn"})
             \/ WriteStatus(j, "processing")
             \/ pc = "mirrorDone" /\ WriteStatus(j, "done")
      PROVE  Placed(j)' /\ Accounted(j)'
  <2>1. worker'[j].pc = pc /\ Counts(j) BY <1>0, <1>4, GotoMoves DEF Steps
  <2>2. \/ imports' = imports
        \/ imports'[j].status = "processing"
        \/ imports'[j].status = "done" /\ WriteStatus(j, "done")
    BY <1>4, WrittenStatus DEF ImportStatus
  <2>3. imports'[j].status = "absent" => imports' = imports BY <2>2
  <2>4. (Undisturbed /\ imports'[j].status = "done") =>
           /\ worker'[j].pc \in {"mirrorDone", "spawn"}
           /\ imports' = imports \/ WriteStatus(j, "done")
    BY <1>0, <1>4, <2>1, <2>2, DoneIsPast, WrittenStatus DEF ImportStatus
  <2> QED BY <1>0, <1>2, <1>4, <2>1, <2>3, <2>4, Onward
<1>5. CASE MarkProcessing(j) BY <1>3, <1>4, <1>5 DEF MarkProcessing
<1>6. CASE MirrorProcessing(j) BY <1>3, <1>4, <1>6 DEF MirrorProcessing
<1>7. CASE ListPendingItems(j)
  <2> DEFINE open == {r \in Rows(j) : items[j][r] = "pending"}
  <2>1. CASE UNCHANGED river /\ worker' = [worker EXCEPT ![j].pc = "check", ![j].todo = open]
    <3>1. open \in SUBSET Nat BY CsvRows
    <3>2. worker'[j].pc = "check" /\ Counts(j)
      <4> HIDE DEF open
      <4> QED BY <1>0, <2>1, <3>1, ListMoves
    <3>3. UNCHANGED imports /\ worker[j].pc = "list" BY <1>7 DEF ListPendingItems
    <3> QED BY <1>0, <1>2, <2>1, <3>2, <3>3, Onward, DoneIsPast
  <2> QED BY <1>3, <1>7, <2>1 DEF ListPendingItems
<1>8. CASE CheckCancelled(j)
  <2>1. CASE StartRow(j)
    <3>1. worker'[j].pc = "row" /\ Counts(j) BY <1>0, <2>1, StartMoves DEF Invariant, Import
    <3>2. UNCHANGED <<imports, river>> /\ worker[j].pc = "check"
      BY <1>8, <2>1 DEF CheckCancelled, StartRow
    <3> QED BY <1>0, <1>2, <3>1, <3>2, Onward, DoneIsPast
  <2> QED BY <1>3, <1>8, <2>1 DEF CheckCancelled
<1>9. CASE Report(j) BY <1>4, <1>9 DEF Report, NextRow
<1>10. CASE MirrorReport(j) BY <1>4, <1>10 DEF MirrorReport, NextRow
<1>11. CASE Finish(j) BY <1>3, <1>4, <1>11 DEF Finish
<1>12. CASE MirrorDone(j) BY <1>3, <1>4, <1>12 DEF MirrorDone
<1> QED BY <1>5, <1>6, <1>7, <1>8, <1>9, <1>10, <1>11, <1>12

\* the steps that decide on a row
LEMMA DecidingAccounted ==
    ASSUME Invariant, NEW j \in Jobs, Placed(j), Accounted(j),
           \/ ReadRow(j) \/ LookForCopy(j) \/ InsertCopy(j) \/ ChooseCopy(j) \/ AdoptCopy(j)
           \/ FileCopy(j) \/ CreateBook(j)
    PROVE  Placed(j)' /\ Accounted(j)'
<1>0. Work(j) /\ worker[j].pc \in Undecided /\ worker[j].pc \notin {"idle", "spawnCovers"} /\ Shared
  BY DEF Work, ReadRow, LookForCopy, InsertCopy, ChooseCopy, AdoptCopy, FileCopy, CreateBook,
         Undecided, Linking, Invariant
<1>1. UNCHANGED <<imports, items, river, enriched>>
  BY DEF ReadRow, LookForCopy, InsertCopy, ChooseCopy, AdoptCopy, FileCopy, CreateBook
<1>2. Undisturbed => imports[j].status # "done" BY <1>0, DoneIsPast DEF Undecided, Linking
<1> DEFINE Later == {"look", "insert", "choose", "adopt", "file", "create", "setItem"}
<1>3. ASSUME worker'[j].pc \in Later, worker'[j].row = worker[j].row, Counts(j)
      PROVE  Placed(j)' /\ Accounted(j)'
  <2>1. items[j][worker'[j].row] \in Unsettled BY <1>0, <1>3, RowOpen
  <2> QED BY <1>0, <1>1, <1>2, <1>3, <2>1, Onward
<1>4. ASSUME NEW pc \in Later, Goto(j, pc) PROVE Placed(j)' /\ Accounted(j)'
  BY <1>0, <1>3, <1>4, GotoMoves DEF Steps, Keeps
<1>5. ASSUME NEW pc \in Later, NEW how \in Settled, Decide(j, pc, how)
      PROVE  Placed(j)' /\ Accounted(j)'
  BY <1>0, <1>3, <1>5, DecideMoves DEF Steps, Keeps
<1>6. ASSUME NEW how \in Settled, Outcome(j, how) PROVE Placed(j)' /\ Accounted(j)'
  BY <1>5, <1>6 DEF Outcome
<1>7. ASSUME NEW pc \in Later, NEW n \in Nat,
             worker' = [worker EXCEPT ![j].pc = pc, ![j].pick = n]
      PROVE  Placed(j)' /\ Accounted(j)'
  BY <1>0, <1>3, <1>7, PickMoves DEF Steps, Keeps
<1>8. {"linked", "counted", "refreshed", "imported", "skipped", "failed"} = Settled
  BY DEF Settled, Done, Brought, Added
<1>9. CASE ReadRow(j) BY <1>4, <1>5, <1>6, <1>8, <1>9 DEF ReadRow
<1>10. CASE LookForCopy(j) BY <1>4, <1>6, <1>8, <1>10 DEF LookForCopy
<1>11. CASE InsertCopy(j) BY <1>4, <1>11 DEF InsertCopy
<1>12. CASE ChooseCopy(j)
  <2>1. Isbn(j) \in ISBNs BY <1>12, RowIsbn DEF ChooseCopy, Linking, Undecided, Isbn
  <2>2. Bare(Isbn(j)) \cup {0} \subseteq Nat BY <2>1, BareCopies
  <2> QED BY <1>6, <1>7, <1>8, <1>12, <2>2 DEF ChooseCopy
<1>13. CASE AdoptCopy(j) BY <1>7, <1>13 DEF AdoptCopy, Recorded
<1>14. CASE FileCopy(j) BY <1>4, <1>6, <1>8, <1>14 DEF FileCopy
<1>15. CASE CreateBook(j) BY <1>6, <1>8, <1>15 DEF CreateBook
<1> QED BY <1>9, <1>10, <1>11, <1>12, <1>13, <1>14, <1>15

\* the row that gets its result is counted in the same step
LEMMA WrittenAccounted ==
    ASSUME Invariant, NEW j \in Jobs, Placed(j), Accounted(j), UpdateItemStatus(j)
    PROVE  Placed(j)' /\ Accounted(j)'
<1> DEFINE w == worker[j]
           r == w.row
<1>1. /\ Import(j) /\ items = [k \in Jobs |-> items[k]] /\ w \in Attempt
      /\ river[j] = "running" /\ w.pc = "setItem"
  BY DEF Invariant, Shared, Tables, UpdateItemStatus, Placed
<1>2. worker'[j].pc = "report" /\ TallyOf(w, worker'[j])
  BY TallyMoves DEF Invariant, UpdateItemStatus
<1>3. r \in Rows(j) /\ w.outcome \in Settled /\ items[j][r] \in Unsettled
  BY <1>1 DEF Import, AttemptFits, Placed
<1>4. UNCHANGED <<imports, river, enriched>> BY DEF UpdateItemStatus
<1>5. \/ items'[j] = items[j]
      \/ items'[j] = [items[j] EXCEPT ![r] = w.outcome]
  BY <1>1, <1>3 DEF UpdateItemStatus, Row
<1>6. items[j] \in [Rows(j) -> {"absent", "pending", "gone"} \cup Settled] BY <1>1 DEF Import
<1>7. \A s \in Rows(j) : items'[j][s] = items[j][s] \/ items'[j][s] \in Settled
  BY <1>3, <1>5, <1>6
<1>8. Placed(j)'
  <2>1. river'[j] = "running" /\ imports'[j] = imports[j] BY <1>1, <1>4
  <2>2. \A s \in Rows(j) : items'[j][s] = "gone" => imports'[j].status = "gone"
    BY <1>7, <2>1 DEF Placed, Settled, Done, Brought, Added
  <2>3. imports'[j].status # "absent" BY <1>1, <2>1 DEF Placed
  <2> QED BY <1>2, <2>1, <2>2, <2>3 DEF Placed, Rows
<1>9. Accounted(j)'
  <2> SUFFICES ASSUME Undisturbed', Live(j)' PROVE Accounted(j)'
    BY DEF Accounted
  <2>1. Undisturbed /\ Live(j) /\ ~Fault BY CalmBack DEF Work
  <2>2. Tallied(j) /\ imports[j].status # "done" BY <1>1, <2>1 DEF Accounted
  <2>3. items'[j] = [items[j] EXCEPT ![r] = w.outcome]
    <3>1. items[j][r] # "gone" BY <1>3, <2>1 DEF Placed, Live
    <3> QED BY <1>1, <1>3, <2>1, <3>1 DEF UpdateItemStatus, Row
  <2>4. ASSUME NEW how \in SUBSET Settled
        PROVE  /\ Ended(j, how)' = IF w.outcome \in how THEN Ended(j, how) \cup {r}
                                   ELSE Ended(j, how)
               /\ r \notin Ended(j, how)
    <3>1. items[j][r] \notin how
      BY <1>3 DEF Unsettled, Settled, Done, Brought, Added
    <3> QED BY <1>3, <1>6, <2>3, <3>1 DEF Ended, Rows
  <2>5. ASSUME NEW how \in SUBSET Settled
        PROVE  /\ Cardinality(Ended(j, how))
                     \in Nat /\ Cardinality(Ended(j, how) \cup {r}) = Cardinality(Ended(j, how)) + 1
    <3>1. IsFiniteSet(Rows(j)) /\ Ended(j, how) \subseteq Rows(j)
      BY RowsFinite DEF Ended
    <3>2. IsFiniteSet(Ended(j, how)) BY <3>1, FS_Subset
    <3> QED BY <2>4, <3>2, FS_AddElement, FS_CardinalityType
  <2>6. /\ Done \in SUBSET Settled /\ {"failed"} \in SUBSET Settled
        /\ {"skipped"} \in SUBSET Settled /\ Added \in SUBSET Settled
    BY DEF Settled, Done, Brought
  <2>7. Cardinality(Ended(j, Done)') = worker'[j].done
    BY <1>2, <2>2, <2>4, <2>5, <2>6 DEF Tallied, TallyOf
  <2>8. Cardinality(Ended(j, {"failed"})') = worker'[j].failed
    BY <1>2, <2>2, <2>4, <2>5, <2>6 DEF Tallied, TallyOf
  <2>9. Cardinality(Ended(j, {"skipped"})') = worker'[j].skipped
    BY <1>2, <2>2, <2>4, <2>5, <2>6 DEF Tallied, TallyOf
  <2>10. worker'[j].fresh = Ended(j, Added)'
    BY <1>2, <2>2, <2>4, <2>6 DEF Tallied, TallyOf
  <2>11. Tallied(j)' BY <2>7, <2>8, <2>9, <2>10 DEF Tallied, Done, Added, Brought
  <2>12. \A type : Handed(type, j)' = Handed(type, j) BY <1>4 DEF Handed, Rows
  <2>13. HandedOver(j)' BY <1>1, <1>2, <1>4, <2>1, <2>12 DEF Accounted, HandedOver
  <2> QED BY <1>1, <1>2, <1>4, <2>1, <2>2, <2>11, <2>13 DEF Accounted
<1> QED BY <1>8, <1>9

\* the first step of an attempt and the last
LEMMA EndsAccounted ==
    ASSUME Invariant, NEW j \in Jobs, Placed(j), Accounted(j),
           Load(j) \/ SpawnMetadata(j) \/ SpawnCovers(j)
    PROVE  Placed(j)' /\ Accounted(j)'
<1>0. Work(j) /\ Shared /\ UNCHANGED <<imports, items>>
  BY DEF Work, Load, SpawnMetadata, SpawnCovers, Invariant
<1>a. river \in [Jobs -> RiverState] BY <1>0 DEF Shared, Tables
<1>1. Undisturbed' => Undisturbed /\ ~Fault BY <1>0, CalmBack
<1>2. \A how : Ended(j, how)' = Ended(j, how) BY <1>0, EndedRests
<1>3. CASE Load(j)
  <2>1. river[j] = "available" /\ worker[j] = NoAttempt /\ enriched' = enriched
    BY <1>3 DEF Load, Placed
  <2>2. ASSUME NEW state, Return(j, state), Fault \/ ~Live(j) PROVE Placed(j)' /\ Accounted(j)'
    <3>1. ~(Undisturbed' /\ Live(j)') BY <1>0, <1>1, <2>2 DEF Live
    <3> QED BY <1>0, <2>1, <2>2, <3>1, ReturnedEarly
  <2>3. CASE river' = [river EXCEPT ![j] = "running"] /\ Goto(j, "mark")
    <3>1. worker'[j].pc = "mark" /\ Counts(j) BY <1>0, <2>3, GotoMoves DEF Steps
    <3>2. river'[j] = "running" BY <1>a, <2>3
    <3>3. Placed(j)' BY <1>0, <2>1, <3>1, <3>2 DEF Placed, Rows
    <3>4. \A type : Handed(type, j)' = Handed(type, j) BY <2>1 DEF Handed, Rows
    <3>5. Accounted(j)'
      <4> SUFFICES ASSUME Undisturbed', Live(j)' PROVE Accounted(j)'
        BY DEF Accounted
      <4>1. Undisturbed /\ Live(j) BY <1>0, <1>1 DEF Live
      <4>2. ASSUME NEW how \in SUBSET Settled PROVE Ended(j, how)' = {}
        <5>1. Ended(j, Settled) = {} BY <2>1, <4>1 DEF Accounted
        <5>2. Ended(j, how) = {} BY <5>1 DEF Ended
        <5> QED BY <1>2, <5>2
      <4>3. Tallied(j)'
        <5>1. /\ Done \in SUBSET Settled /\ {"failed"} \in SUBSET Settled
              /\ {"skipped"} \in SUBSET Settled /\ Added \in SUBSET Settled
          BY DEF Settled, Done, Brought
        <5>2. Cardinality({}) = 0 BY FS_EmptySet
        <5>3. /\ Ended(j, Done)' = {} /\ Ended(j, {"failed"})' = {}
              /\ Ended(j, {"skipped"})' = {} /\ Ended(j, Added)' = {}
          BY <4>2, <5>1
        <5> QED BY <2>1, <3>1, <5>2, <5>3 DEF Tallied, Counts, NoAttempt
      <4>4. imports'[j].status # "done"
        BY <1>0, <2>1, <4>1 DEF Accounted, NoAttempt
      <4>5. HandedOver(j)'
        BY <2>1, <3>1, <3>2, <3>4, <4>1 DEF Accounted, HandedOver, NoAttempt
      <4> QED BY <3>1, <3>2, <4>3, <4>4, <4>5 DEF Accounted
    <3> QED BY <3>3, <3>5
  <2> QED BY <1>3, <2>2, <2>3 DEF Load, Live
<1>4. ASSUME NEW type, NEW books \in SUBSET Rows(j), Spawn(type, j, books), ~Fault
      PROVE  /\ Handed(type, j)' = Handed(type, j) \cup books
             /\ \A t : t # type => Handed(t, j)' = Handed(t, j)
  <2>1. enriched' = enriched \cup ({type} \X {j} \X books) BY <1>4 DEF Spawn
  <2>2. \A t, r : <<t, j, r>> \in enriched' <=>
                    <<t, j, r>> \in enriched \/ (t = type /\ r \in books)
    BY <2>1
  <2> QED BY <2>2 DEF Handed, Rows
<1>5. CASE SpawnMetadata(j)
  <2> DEFINE books == IF Options[j].metadata THEN worker[j].fresh ELSE {}
  <2>1. /\ river[j] = "running" /\ worker[j].pc = "spawn" /\ river' = river
        /\ Spawn("metadata", j, books)
    BY <1>5 DEF SpawnMetadata, Placed
  <2>2. worker'[j].pc = "spawnCovers" /\ Counts(j)
    BY <1>0, <1>5, GotoMoves DEF SpawnMetadata, Steps
  <2>3. Placed(j)' BY <1>0, <2>1, <2>2 DEF Placed, Rows
  <2>4. Accounted(j)'
    <3> SUFFICES ASSUME Undisturbed', Live(j)' PROVE Accounted(j)'
      BY DEF Accounted
    <3>1. Undisturbed /\ Live(j) /\ ~Fault BY <1>0, <1>1 DEF Live
    <3>2. Tallied(j) /\ HandedOver(j) BY <2>1, <3>1 DEF Accounted
    <3>3. books \subseteq Rows(j) BY DEF Invariant, Import, AttemptFits
    <3>4. /\ Handed("metadata", j)' = Handed("metadata", j) \cup books
          /\ Handed("cover", j)' = Handed("cover", j)
      <4> HIDE DEF books
      <4> QED BY <1>4, <2>1, <3>1, <3>3
    <3>5. HandedOver(j)'
      BY <1>2, <2>1, <2>2, <3>2, <3>4 DEF HandedOver, Tallied
    <3>6. Tallied(j)' BY <1>2, <2>2, <3>2 DEF Tallied, Counts
    <3>7. imports'[j].status = "done" => Reported(j)'
      BY <1>0, <1>2, <3>1 DEF Reported, Accounted
    <3> QED BY <2>1, <2>2, <3>5, <3>6, <3>7 DEF Accounted
  <2> QED BY <2>3, <2>4
<1>6. CASE SpawnCovers(j)
  <2>1. river[j] = "running" /\ worker[j].pc = "spawnCovers" BY <1>6 DEF SpawnCovers, Placed
  <2>2. worker'[j] = NoAttempt /\ river'[j] = "completed"
    BY <1>a, <1>6, ReturnMoves DEF SpawnCovers, Return, Invariant
  <2>3. Placed(j)' BY <1>0, <2>1, <2>2 DEF Placed, NoAttempt, Rows
  <2>4. Accounted(j)'
    <3> SUFFICES ASSUME Undisturbed', Live(j)' PROVE Accounted(j)'
      BY DEF Accounted
    <3>1. Undisturbed /\ Live(j) /\ ~Fault BY <1>0, <1>1 DEF Live
    <3>2. Tallied(j) /\ HandedOver(j) BY <2>1, <3>1 DEF Accounted
    <3>3. PICK coverless \in SUBSET worker[j].fresh :
                Spawn("cover", j, IF Options[j].covers THEN coverless ELSE {})
      BY <1>6 DEF SpawnCovers
    <3> DEFINE books == IF Options[j].covers THEN coverless ELSE {}
    <3>4. books \subseteq Rows(j) BY DEF Invariant, Import, AttemptFits
    <3>5. /\ Handed("cover", j)' = Handed("cover", j) \cup books
          /\ Handed("metadata", j)' = Handed("metadata", j)
      BY <1>4, <3>1, <3>3, <3>4
    <3>6. HandedOver(j)'
      BY <1>2, <2>1, <2>2, <3>2, <3>5 DEF HandedOver, Tallied
    <3>7. imports'[j].status = "done" => Reported(j)'
      BY <1>0, <1>2, <3>1 DEF Reported, Accounted
    <3> QED BY <2>2, <3>6, <3>7 DEF Accounted, NoAttempt
  <2> QED BY <2>3, <2>4
<1> QED BY <1>3, <1>5, <1>6

\* every step of the attempt
LEMMA WorkAccounted ==
    ASSUME Invariant, NEW j \in Jobs, Placed(j), Accounted(j), Work(j)
    PROVE  Placed(j)' /\ Accounted(j)'
BY BetweenAccounted, DecidingAccounted, WrittenAccounted, EndsAccounted DEF Work

\* users and the machine
LEMMA OutsideAccounted ==
    ASSUME Invariant, NEW j \in Jobs, Placed(j), Accounted(j), OutsideWork(j)
    PROVE  Placed(j)' /\ Accounted(j)'
<1>0. /\ imports \in [Jobs -> ImportRow] /\ items = [k \in Jobs |-> items[k]]
      /\ river \in [Jobs -> RiverState]
      /\ items[j] \in [Rows(j) -> {"absent", "pending", "gone"} \cup Settled]
  BY DEF Invariant, Shared, Tables, Import
<1>1. Undisturbed' => Undisturbed /\ ~Fault /\ ~Stop(j) BY CalmBack
<1>2. CASE CreateJob(j)
  <2>1. /\ imports'[j].status = "pending" /\ river'[j] = "unsent" /\ worker'[j] = worker[j]
        /\ enriched' = enriched
    BY <1>0, <1>2, SetStatus DEF CreateJob, ImportStatus
  <2>2. \A r \in Rows(j) : items'[j][r] = "pending" BY <1>0, <1>2 DEF CreateJob
  <2>3. worker[j] = NoAttempt /\ river[j] = "none"
    BY <1>2 DEF CreateJob, Placed
  <2>4. Placed(j)' BY <2>1, <2>2, <2>3 DEF Placed, NoAttempt, Rows
  <2>5. Ended(j, Settled)' = {} /\ Ended(j, Added)' = {}
    BY <2>2 DEF Ended, Settled, Done, Brought, Added, Rows
  <2>6. \A type : Handed(type, j)' = Handed(type, j) BY <2>1 DEF Handed, Rows
  <2>7. Live(j) BY <1>2 DEF CreateJob, Live
  <2>8. HandedOver(j) => HandedOver(j)'
    BY <2>1, <2>3, <2>5, <2>6 DEF HandedOver, NoAttempt
  <2> QED BY <1>1, <2>1, <2>3, <2>4, <2>5, <2>7, <2>8 DEF Accounted, NoAttempt
<1>3. CASE Enqueue(j)
  <2>1. /\ UNCHANGED <<imports, items, worker, enriched>> /\ river[j] = "unsent"
        /\ river'[j] \in {"available", "none"}
    BY <1>0, <1>3 DEF Enqueue
  <2>2. Placed(j)' BY <2>1 DEF Placed, Rows
  <2>3. \A how : Ended(j, how)' = Ended(j, how) BY <2>1, EndedRests
  <2>4. \A type : Handed(type, j)' = Handed(type, j) BY <2>1 DEF Handed, Rows
  <2>5. Accounted(j)'
    <3> SUFFICES ASSUME Undisturbed', Live(j)' PROVE Accounted(j)'
      BY DEF Accounted
    <3>1. Undisturbed /\ Live(j) BY <1>1, <2>1 DEF Live
    <3>2. worker[j].pc = "idle" /\ imports[j].status # "done" BY <2>1, <3>1 DEF Accounted
    <3>3. HandedOver(j)' BY <2>1, <2>3, <2>4, <3>1, <3>2 DEF Accounted, HandedOver
    <3> QED BY <2>1, <2>3, <3>1, <3>2, <3>3 DEF Accounted
  <2> QED BY <2>2, <2>5
<1>4. CASE Cancel(j)
  <2>1. /\ imports'[j].status = "cancelled" /\ imports[j].status # "gone"
        /\ UNCHANGED <<items, worker, river>>
    BY <1>4, SetStatus DEF Cancel, ImportStatus
  <2>2. Placed(j)' BY <2>1 DEF Placed, Rows
  <2>3. ~Live(j)' BY <2>1 DEF Live
  <2> QED BY <2>2, <2>3 DEF Accounted
<1>5. CASE Delete(j) \/ DeleteUmbrella(j)
  <2>1. /\ imports'[j].status = "gone" /\ UNCHANGED <<worker, river>>
        /\ \A r \in Rows(j) : items'[j][r] = "gone"
    BY <1>0, <1>5, SetStatus DEF Delete, DeleteUmbrella, ImportStatus
  <2>2. worker[j].pc = "setItem" => worker[j].row \in Rows(j)
    BY DEF Invariant, Import, AttemptFits
  <2>3. Placed(j)' BY <2>1, <2>2 DEF Placed, Rows, Unsettled
  <2>4. ~Live(j)' BY <2>1 DEF Live
  <2> QED BY <2>3, <2>4 DEF Accounted
<1>6. CASE Stop(j)
  <2>1. PICK state \in {"available", "completed"} : Return(j, state) BY <1>6 DEF Stop
  <2>2. river[j] = "running" /\ UNCHANGED <<imports, items>> BY <1>6 DEF Stop, Placed
  <2>3. ~Undisturbed' BY <1>1, <1>6
  <2> QED BY <2>1, <2>2, <2>3, ReturnedEarly
<1> QED BY <1>2, <1>3, <1>4, <1>5, <1>6 DEF OutsideWork

------------------------------------------------------------------------------
(* What all imports bring *)

One(b) == IF b THEN 1 ELSE 0
\* rows about to add a copy to those that are there
Appending(i) == {p \in InHand(i) : worker[p[1]].pc = "adopt" /\ worker[p[1]].pick = 0}
\* the copies that say their edition, and all copies with those about to be added
Shown(i) == Cardinality(Printed(i)) + Further(i)
Present(i) == Len(copies[i]) + Further(i)
Stock(i) == Present(i) + Cardinality(Appending(i))
\* the rows that answer for the former, each lost attempt or statement for one,
\* and those that answer for all of them
Owing(i) == Cardinality(RowsDone(i)) + (stops + faults)
Due(i)   == Owing(i) + Cardinality(InHand(i))
Covered(i) == NoneGone => Shown(i) <= Owing(i) /\ Stock(i) <= Due(i)
\* a row adopts a copy that is there; only a linked book is looked for
Picked(j) ==
    /\ worker[j].pc \in {"look", "insert"} => worker[j].outcome = "linked"
    /\ worker[j].pc = "adopt" => worker[j].pick = 0 \/ worker[j].pick \in DOMAIN copies[Isbn(j)]
\* a done row of the ISBN is a copy, and the one copy without an edition has
\* somebody about to adopt it
Stocked(i) == (NoneGone /\ Undisturbed /\ i \notin crossed) =>
    /\ Cardinality(RowsDone(i)) <= Cardinality(Printed(i)) + Further(i)
    /\ Bare(i) \subseteq {1}
    /\ Bare(i) # {} => \E p \in InHand(i) :
                          /\ worker[p[1]].outcome = "linked"
                          /\ worker[p[1]].pc = "adopt" => worker[p[1]].pick = 1
\* a done row without an ISBN is a book of its own
Traced(j) == (NoneGone /\ Undisturbed) =>
    \A r \in Rows(j) : Csv[j][r].isbn = NoISBN =>
        untraced[j][r] = One(<<j, r>> \in RowsDone(NoISBN))
Placement == \A j \in Jobs : Placed(j) /\ Picked(j)

\* the rows of an ISBN are finitely many
LEMMA RowsOfIsbn ==
    ASSUME NEW i
    PROVE  /\ IsFiniteSet(RowsOf(i))
           /\ \A p \in RowsOf(i) : /\ p = <<p[1], p[2]>> /\ p[1] \in Jobs /\ p[2] \in Rows(p[1])
                                   /\ Csv[p[1]][p[2]].isbn = i
           /\ \A j \in Jobs : \A r \in Rows(j) : Csv[j][r].isbn = i => <<j, r>> \in RowsOf(i)
<1> DEFINE Lines(j) == {s \in Rows(j) : Csv[j][s].isbn = i}
           Of(j) == {<<j, r>> : r \in Lines(j)}
           all == {Of(j) : j \in Jobs}
<1>1. ASSUME NEW j \in Jobs PROVE IsFiniteSet(Of(j))
  <2>1. IsFiniteSet(Lines(j)) BY RowsFinite, FS_Subset
  <2> DEFINE f == [r \in Lines(j) |-> <<j, r>>]
  <2>2. f \in Surjection(Lines(j), Of(j)) BY DEF Surjection
  <2> QED BY <2>1, <2>2, FS_Surjection
<1>2. IsFiniteSet(all)
  <2> DEFINE f == [j \in Jobs |-> Of(j)]
  <2>1. f \in Surjection(Jobs, all)
    <3> HIDE DEF Of
    <3> QED BY DEF Surjection
  <2> QED BY <2>1, ImportAssumption, FS_Surjection
<1>3. IsFiniteSet(UNION all)
  <2>1. \A T \in all : IsFiniteSet(T) BY <1>1
  <2> QED BY <1>2, <2>1, FS_UNION
<1>4. RowsOf(i) = UNION all BY DEF RowsOf
<1> QED BY <1>3, <1>4 DEF RowsOf

\* so are those that are done, in hand or about to add a copy
LEMMA RowsCounted ==
    ASSUME NEW i
    PROVE  /\ IsFiniteSet(RowsDone(i)) /\ Cardinality(RowsDone(i)) \in Nat
           /\ IsFiniteSet(InHand(i)) /\ Cardinality(InHand(i)) \in Nat
           /\ IsFiniteSet(Appending(i)) /\ Cardinality(Appending(i)) \in Nat
<1>1. /\ RowsDone(i) \subseteq RowsOf(i) /\ InHand(i) \subseteq RowsOf(i)
      /\ Appending(i) \subseteq RowsOf(i)
  BY DEF RowsDone, InHand, Appending
<1> QED BY <1>1, RowsOfIsbn, FS_Subset, FS_CardinalityType

\* the primed sets of rows are as finite
LEMMA RowsCountedNext ==
    ASSUME NEW i
    PROVE  /\ IsFiniteSet(RowsDone(i)') /\ Cardinality(RowsDone(i)') \in Nat
           /\ IsFiniteSet(InHand(i)') /\ Cardinality(InHand(i)') \in Nat
           /\ IsFiniteSet(Appending(i)') /\ Cardinality(Appending(i)') \in Nat
<1>1. RowsOf(i)' = RowsOf(i) BY DEF RowsOf, Rows
<1>2. /\ RowsDone(i)' \subseteq RowsOf(i) /\ InHand(i)' \subseteq RowsOf(i)
      /\ Appending(i)' \subseteq RowsOf(i)
  BY <1>1 DEF RowsDone, InHand, Appending
<1> QED BY <1>2, RowsOfIsbn, FS_Subset, FS_CardinalityType

\* sets that differ in one element at most
LEMMA OneRow ==
    ASSUME NEW S, NEW T, NEW p, IsFiniteSet(S), IsFiniteSet(T), S \ {p} = T \ {p}
    PROVE  Cardinality(T) + One(p \in S) = Cardinality(S) + One(p \in T)
<1>1. /\ Cardinality(S) \in Nat /\ Cardinality(T) \in Nat BY FS_CardinalityType
<1>2. Cardinality(S \ {p}) = IF p \in S THEN Cardinality(S) - 1 ELSE Cardinality(S)
  BY FS_RemoveElement
<1>3. Cardinality(T \ {p}) = IF p \in T THEN Cardinality(T) - 1 ELSE Cardinality(T)
  BY FS_RemoveElement
<1>4. (IF p \in S THEN Cardinality(S) - 1 ELSE Cardinality(S))
        = IF p \in T THEN Cardinality(T) - 1 ELSE Cardinality(T)
  BY <1>2, <1>3
<1> QED BY <1>1, <1>4 DEF One

\* the copies of a list that say their edition, and those that say nothing
Says(held) == {c \in DOMAIN held : held[c]}
Silent(held) == {c \in DOMAIN held : ~held[c]}

\* the copies of an ISBN are such a list
LEMMA CopyList ==
    ASSUME NEW i
    PROVE  Printed(i) = Says(copies[i]) /\ Bare(i) = Silent(copies[i])
BY DEF Printed, Bare, Says, Silent

\* of a list of copies
LEMMA SaysFinite ==
    ASSUME NEW held \in Seq(BOOLEAN)
    PROVE  /\ DOMAIN held = 1..Len(held) /\ Len(held) \in Nat
           /\ IsFiniteSet(Says(held)) /\ Cardinality(Says(held)) \in Nat
           /\ Silent(held) = {} => Cardinality(Says(held)) = Len(held)
<1>1. DOMAIN held = 1..Len(held) /\ Len(held) \in Nat OBVIOUS
<1>2. IsFiniteSet(1..Len(held)) /\ Cardinality(1..Len(held)) = Len(held) BY <1>1, FS_Interval
<1>3. Says(held) \subseteq 1..Len(held) BY <1>1 DEF Says
<1>4. Silent(held) = {} => Says(held) = 1..Len(held) BY <1>1 DEF Says, Silent
<1> QED BY <1>1, <1>2, <1>3, <1>4, FS_Subset, FS_CardinalityType

\* a copy is added
LEMMA CopyAdded ==
    ASSUME NEW held \in Seq(BOOLEAN), NEW b \in BOOLEAN
    PROVE  /\ Append(held, b) \in Seq(BOOLEAN) /\ Len(Append(held, b)) = Len(held) + 1
           /\ DOMAIN held \subseteq DOMAIN Append(held, b)
           /\ b => Cardinality(Says(Append(held, b))) = Cardinality(Says(held)) + 1
           /\ ~b => Cardinality(Says(Append(held, b))) = Cardinality(Says(held))
           /\ b => Silent(Append(held, b)) = Silent(held)
           /\ held = <<>> => Silent(Append(held, b)) \subseteq {1}
<1> DEFINE now == Append(held, b)
           n == Len(held) + 1
<1>1. /\ DOMAIN held = 1..Len(held) /\ Len(held) \in Nat /\ now \in Seq(BOOLEAN)
      /\ Len(now) = n /\ DOMAIN now = 1..n /\ now[n] = b
      /\ \A c \in 1..Len(held) : now[c] = held[c]
  OBVIOUS
<1>2. DOMAIN now = DOMAIN held \cup {n} /\ n \notin DOMAIN held BY <1>1
<1> HIDE DEF now, n
<1>3. Says(now) = IF b THEN Says(held) \cup {n} ELSE Says(held)
  BY <1>1, <1>2 DEF Says
<1>4. n \notin Says(held) BY <1>2 DEF Says
<1>5. IsFiniteSet(Says(held)) BY SaysFinite
<1>6. /\ b => Cardinality(Says(now)) = Cardinality(Says(held)) + 1
      /\ ~b => Cardinality(Says(now)) = Cardinality(Says(held))
  BY <1>3, <1>4, <1>5, FS_AddElement
<1>7. b => Silent(now) = Silent(held) BY <1>1, <1>2 DEF Silent
<1>8. held = <<>> => Silent(now) \subseteq {1}
  <2>1. held = <<>> => DOMAIN now = {1} BY <1>1 DEF n
  <2> QED BY <2>1 DEF Silent
<1> QED BY <1>1, <1>2, <1>6, <1>7, <1>8 DEF now, n

\* a copy takes an edition
LEMMA CopyMarked ==
    ASSUME NEW held \in Seq(BOOLEAN), NEW c \in DOMAIN held, NEW now,
           now = [held EXCEPT ![c] = TRUE]
    PROVE  /\ now \in Seq(BOOLEAN) /\ Len(now) = Len(held) /\ DOMAIN now = DOMAIN held
           /\ Cardinality(Says(now)) = Cardinality(Says(held)) + One(~held[c])
           /\ Silent(now) = Silent(held) \ {c}
<1>1. /\ now \in Seq(BOOLEAN) /\ Len(now) = Len(held) /\ DOMAIN now = DOMAIN held
      /\ \A d \in DOMAIN held : now[d] = (held[d] \/ d = c)
  BY Marked
<1>2. Says(now) = Says(held) \cup {c} BY <1>1 DEF Says
<1>3. Silent(now) = Silent(held) \ {c} BY <1>1 DEF Silent
<1>4. c \in Says(held) <=> held[c] BY DEF Says
<1>5. IsFiniteSet(Says(held)) /\ Cardinality(Says(held)) \in Nat BY SaysFinite
<1>6. Cardinality(Says(now)) = IF c \in Says(held) THEN Cardinality(Says(held))
                               ELSE Cardinality(Says(held)) + 1
  BY <1>2, <1>5, FS_AddElement
<1>7. Cardinality(Says(now)) = Cardinality(Says(held)) + One(~held[c])
  BY <1>4, <1>5, <1>6 DEF One
<1> QED BY <1>1, <1>3, <1>7

------------------------------------------------------------------------------
(* What a step makes of the rows of an ISBN *)

\* points of a row that is being linked, created or written down
Held == Linking \cup {"create", "setItem"}
\* the steps of an attempt that have no row in hand, before or after
Aside(j) ==
    \/ Load(j) \/ MarkProcessing(j) \/ MirrorProcessing(j) \/ ListPendingItems(j)
    \/ CheckCancelled(j) \/ Report(j) \/ MirrorReport(j) \/ Finish(j) \/ MirrorDone(j)
    \/ SpawnMetadata(j) \/ SpawnCovers(j)
\* those that decide on a row
Deciding(j) ==
    \/ ReadRow(j) \/ LookForCopy(j) \/ InsertCopy(j) \/ ChooseCopy(j) \/ AdoptCopy(j)
    \/ FileCopy(j) \/ CreateBook(j)

\* the former write nothing of the store
LEMMA AsideRests ==
    ASSUME Invariant, NEW j \in Jobs, Aside(j)
    PROVE  /\ UNCHANGED <<store, items>> /\ stops' = stops
           /\ worker[j].pc \notin Held /\ worker'[j].pc \notin Held
<1>0. /\ Shared
      /\ Held = {"look", "insert", "choose", "adopt", "file", "create", "setItem"}
  BY DEF Invariant, Held, Linking
<1>1. UNCHANGED <<store, items>> /\ stops' = stops
  BY DEF Aside, Load, MarkProcessing, MirrorProcessing, ListPendingItems, CheckCancelled,
         Report, MirrorReport, Finish, MirrorDone, SpawnMetadata, SpawnCovers
<1>2. worker[j].pc \notin Held
  BY <1>0 DEF Aside, Load, MarkProcessing, MirrorProcessing, ListPendingItems, CheckCancelled,
              Report, MirrorReport, Finish, MirrorDone, SpawnMetadata, SpawnCovers
<1>3. worker'[j].pc \notin Held
  <2>1. ASSUME NEW pc \in Steps \ Held, Goto(j, pc) PROVE worker'[j].pc \notin Held
    BY <1>0, <2>1, GotoMoves
  <2>2. ASSUME NEW state, Return(j, state) PROVE worker'[j].pc \notin Held
    BY <1>0, <2>2, ReturnMoves DEF NoAttempt
  <2>3. /\ {"mark", "mirrorMark", "list", "check"} \subseteq Steps \ Held
        /\ {"mirrorReport", "mirrorDone", "spawn", "spawnCovers"} \subseteq Steps \ Held
    BY <1>0 DEF Steps
  <2>4. CASE Load(j) BY <2>1, <2>2, <2>3, <2>4 DEF Load
  <2>5. CASE MarkProcessing(j) BY <2>1, <2>2, <2>3, <2>5 DEF MarkProcessing
  <2>6. CASE MirrorProcessing(j) BY <2>1, <2>2, <2>3, <2>6 DEF MirrorProcessing
  <2>7. CASE ListPendingItems(j)
    <3> DEFINE open == {r \in Rows(j) : items[j][r] = "pending"}
    <3>1. ASSUME worker' = [worker EXCEPT ![j].pc = "check", ![j].todo = open]
          PROVE  worker'[j].pc \notin Held
      <4>1. open \in SUBSET Nat BY CsvRows
      <4>2. worker'[j].pc = "check"
        <5> HIDE DEF open
        <5> QED BY <1>0, <3>1, <4>1, ListMoves
      <4> QED BY <1>0, <4>2
    <3> QED BY <2>2, <2>7, <3>1 DEF ListPendingItems
  <2>8. CASE CheckCancelled(j)
    <3>1. ASSUME StartRow(j) PROVE worker'[j].pc \notin Held
      BY <1>0, <3>1, StartMoves DEF Invariant, Import
    <3> QED BY <2>2, <2>8, <3>1 DEF CheckCancelled
  <2>9. CASE Report(j) BY <2>1, <2>3, <2>9 DEF Report, NextRow
  <2>10. CASE MirrorReport(j) BY <2>1, <2>3, <2>10 DEF MirrorReport, NextRow
  <2>11. CASE Finish(j) BY <2>1, <2>2, <2>3, <2>11 DEF Finish
  <2>12. CASE MirrorDone(j) BY <2>1, <2>2, <2>3, <2>12 DEF MirrorDone
  <2>13. CASE SpawnMetadata(j) BY <2>1, <2>3, <2>13 DEF SpawnMetadata
  <2>14. CASE SpawnCovers(j) BY <2>2, <2>14 DEF SpawnCovers
  <2> QED BY <2>4, <2>5, <2>6, <2>7, <2>8, <2>9, <2>10, <2>11, <2>12, <2>13, <2>14 DEF Aside
<1> QED BY <1>1, <1>2, <1>3

\* the latter keep to their row
LEMMA DecidingKeeps ==
    ASSUME Invariant, NEW j \in Jobs, Deciding(j)
    PROVE  /\ worker[j].pc \in Undecided /\ worker'[j].pc \in Held
           /\ worker'[j].row = worker[j].row
           /\ items' = items /\ stops' = stops
<1> DEFINE Points == {"look", "insert", "choose", "adopt", "file", "create", "setItem"}
<1>0. /\ Shared /\ Held = Points /\ Points \subseteq Steps
      /\ {"linked", "counted", "refreshed", "imported", "skipped", "failed"} = Settled
  BY DEF Invariant, Held, Linking, Steps, Settled, Done, Brought, Added
<1>1. worker[j].pc \in Undecided /\ items' = items /\ stops' = stops
  BY DEF Deciding, ReadRow, LookForCopy, InsertCopy, ChooseCopy, AdoptCopy, FileCopy, CreateBook,
         Undecided, Linking
<1>2. ASSUME NEW pc \in Points, Goto(j, pc)
      PROVE  worker'[j].pc \in Points /\ worker'[j].row = worker[j].row
  BY <1>0, <1>2, GotoMoves DEF Keeps
<1>3. ASSUME NEW pc \in Points, NEW how \in Settled, Decide(j, pc, how)
      PROVE  worker'[j].pc \in Points /\ worker'[j].row = worker[j].row
  BY <1>0, <1>3, DecideMoves DEF Keeps
<1>4. ASSUME NEW how \in Settled, Outcome(j, how)
      PROVE  worker'[j].pc \in Points /\ worker'[j].row = worker[j].row
  BY <1>0, <1>3, <1>4 DEF Outcome
<1>5. ASSUME NEW pc \in Points, NEW n \in Nat,
             worker' = [worker EXCEPT ![j].pc = pc, ![j].pick = n]
      PROVE  worker'[j].pc \in Points /\ worker'[j].row = worker[j].row
  BY <1>0, <1>5, PickMoves DEF Keeps
<1>6. CASE ReadRow(j) BY <1>0, <1>1, <1>2, <1>3, <1>4, <1>6 DEF ReadRow
<1>7. CASE LookForCopy(j) BY <1>0, <1>1, <1>2, <1>4, <1>7 DEF LookForCopy
<1>8. CASE InsertCopy(j) BY <1>0, <1>1, <1>2, <1>8 DEF InsertCopy
<1>9. CASE ChooseCopy(j)
  <2>1. Isbn(j) \in ISBNs BY <1>9, RowIsbn DEF ChooseCopy, Linking, Undecided, Isbn
  <2>2. Bare(Isbn(j)) \cup {0} \subseteq Nat BY <2>1, BareCopies
  <2> QED BY <1>0, <1>1, <1>4, <1>5, <1>9, <2>2 DEF ChooseCopy
<1>10. CASE AdoptCopy(j) BY <1>0, <1>1, <1>5, <1>10 DEF AdoptCopy, Recorded
<1>11. CASE FileCopy(j) BY <1>0, <1>1, <1>2, <1>4, <1>11 DEF FileCopy
<1>12. CASE CreateBook(j) BY <1>0, <1>1, <1>4, <1>12 DEF CreateBook
<1> QED BY <1>1, <1>6, <1>7, <1>8, <1>9, <1>10, <1>11, <1>12 DEF Deciding

\* a row that is written down: its item says what was decided, unless the
\* statement was lost
LEMMA WrittenDown ==
    ASSUME Invariant, Placement, NEW j \in Jobs, UpdateItemStatus(j), NoneGone'
    PROVE  /\ worker[j].pc = "setItem" /\ worker[j].row \in Rows(j)
           /\ worker'[j].pc = "report" /\ worker'[j].row = worker[j].row
           /\ items[j][worker[j].row] \in Unsettled /\ stops' = stops
           /\ \A s \in Rows(j) \ {worker[j].row} : items'[j][s] = items[j][s]
           /\ \/ items'[j][worker[j].row] = worker[j].outcome /\ faults' = faults
              \/ items' = items /\ Fault
           /\ UNCHANGED store
<1> DEFINE r == worker[j].row
<1>1. /\ worker[j].pc = "setItem" /\ r \in Rows(j) /\ items[j][r] \in Unsettled
      /\ items = [k \in Jobs |-> items[k]]
      /\ items[j] \in [Rows(j) -> {"absent", "pending", "gone"} \cup Settled]
  BY DEF Invariant, Import, AttemptFits, Shared, Tables, UpdateItemStatus, Placement, Placed
<1>2. worker'[j].pc = "report" /\ worker'[j].row = r
  BY TallyMoves DEF Invariant, UpdateItemStatus
<1>3. imports[j].status # "gone" BY DEF UpdateItemStatus, NoneGone
<1>4. items[j][r] # "gone" BY <1>1, <1>3 DEF Placement, Placed
<1>5. \/ items' = [items EXCEPT ![j][r] = worker[j].outcome] /\ faults' = faults
      \/ items' = items /\ Fault
  BY <1>4 DEF UpdateItemStatus, Row
<1>6. UNCHANGED store /\ stops' = stops BY DEF UpdateItemStatus
<1> QED BY <1>1, <1>2, <1>5, <1>6

\* whatever a step does, it does to the row its attempt has in hand
Mine(j) == <<j, worker[j].row>>
LEMMA RowKept ==
    ASSUME Invariant, Placement, NEW j \in Jobs, Work(j) \/ OutsideWork(j), NoneGone'
    PROVE  /\ worker'[j].row = worker[j].row \/ worker'[j].pc \notin Held
           /\ \A s \in Rows(j) \ {worker[j].row} :
                \/ items'[j][s] = items[j][s]
                \/ items[j][s] = "absent" /\ items'[j][s] = "pending"
<1>0. Shared BY DEF Invariant
<1>1. CASE Aside(j) BY <1>1, AsideRests
<1>2. CASE Deciding(j) BY <1>2, DecidingKeeps
<1>3. CASE UpdateItemStatus(j) BY <1>3, WrittenDown
<1>4. CASE CreateJob(j)
  <2>1. \A s \in Rows(j) : items[j][s] = "absent" BY <1>4 DEF CreateJob, Placement, Placed
  <2>2. items = [k \in Jobs |-> items[k]] BY <1>0 DEF Shared, Tables
  <2>3. \A s \in Rows(j) : items'[j][s] = "pending" BY <1>4, <2>2 DEF CreateJob
  <2> QED BY <1>4, <2>1, <2>3 DEF CreateJob
<1>5. CASE Enqueue(j) \/ Cancel(j) BY <1>5 DEF Enqueue, Cancel
<1>6. CASE Stop(j)
  <2>1. worker'[j].pc = "idle" BY <1>0, <1>6, ReturnMoves DEF Stop, NoAttempt
  <2> QED BY <1>6, <2>1 DEF Stop, Held, Linking
<1>7. ~Delete(j) /\ ~DeleteUmbrella(j)
  BY SetStatus DEF Delete, DeleteUmbrella, ImportStatus, NoneGone
<1> QED BY <1>1, <1>2, <1>3, <1>4, <1>5, <1>6, <1>7 DEF Work, OutsideWork, Aside, Deciding

\* the other rows are done, or in hand, as they were
LEMMA OtherRows ==
    ASSUME Invariant, Placement, NEW j \in Jobs, Work(j) \/ OutsideWork(j), NoneGone', NEW i
    PROVE  /\ \A k \in Jobs : \A r \in Rows(k) :
                <<k, r>> # Mine(j) => (RowDone(k, r)' <=> RowDone(k, r))
           /\ RowsDone(i)' \ {Mine(j)} = RowsDone(i) \ {Mine(j)}
           /\ InHand(i)' \ {Mine(j)} = InHand(i) \ {Mine(j)}
           /\ Appending(i)' \ {Mine(j)} = Appending(i) \ {Mine(j)}
           /\ \A p \in InHand(i) : p # Mine(j) => worker'[p[1]] = worker[p[1]]
<1>0. Alone(j) BY WorkAlone, OutsideAlone
<1>1. /\ {"file", "setItem"} \subseteq Held /\ {"choose", "adopt"} \subseteq Held
      /\ "absent" \notin Brought /\ "pending" \notin Brought
  BY DEF Held, Linking, Brought, Added
<1>2. ASSUME NEW k \in Jobs, NEW r \in Rows(k), <<k, r>> # Mine(j), NEW pcs \in SUBSET Held
      PROVE  /\ At(k, r, pcs)' <=> At(k, r, pcs)
             /\ At(k, r, pcs) => worker'[k] = worker[k]
  <2>1. CASE k = j
    <3>1. r # worker[j].row BY <1>2, <2>1 DEF Mine
    <3> QED BY <2>1, <3>1, RowKept DEF At, Row
  <2>2. CASE k # j
    <3>1. worker'[k] = worker[k] BY <1>0, <2>2 DEF Alone
    <3> QED BY <3>1 DEF At, Row
  <2> QED BY <2>1, <2>2
<1>3. ASSUME NEW k \in Jobs, NEW r \in Rows(k), <<k, r>> # Mine(j)
      PROVE  RowDone(k, r)' <=> RowDone(k, r)
  <2>1. items'[k][r] \in Brought <=> items[k][r] \in Brought
    <3>1. CASE k = j
      <4>1. r # worker[j].row BY <1>3, <3>1 DEF Mine
      <4> QED BY <1>1, <3>1, <4>1, RowKept
    <3>2. CASE k # j BY <1>0, <3>2 DEF Alone
    <3> QED BY <3>1, <3>2
  <2>2. /\ At(k, r, {"file", "setItem"})' <=> At(k, r, {"file", "setItem"})
        /\ At(k, r, {"file", "setItem"}) => worker'[k] = worker[k]
    BY <1>1, <1>2, <1>3
  <2> QED BY <2>1, <2>2 DEF RowDone
<1>4. RowsOf(i)' = RowsOf(i) BY DEF RowsOf, Rows
<1>5. ASSUME NEW p \in RowsOf(i), p # Mine(j)
      PROVE  /\ RowDone(p[1], p[2])' <=> RowDone(p[1], p[2])
             /\ At(p[1], p[2], {"choose", "adopt"})' <=> At(p[1], p[2], {"choose", "adopt"})
             /\ At(p[1], p[2], {"choose", "adopt"}) => worker'[p[1]] = worker[p[1]]
  <2>1. p[1] \in Jobs /\ p[2] \in Rows(p[1]) /\ <<p[1], p[2]>> # Mine(j)
    BY <1>5, RowsOfIsbn
  <2> QED BY <1>1, <1>2, <1>3, <2>1
<1>6. /\ RowsDone(i)' \ {Mine(j)} = RowsDone(i) \ {Mine(j)}
      /\ InHand(i)' \ {Mine(j)} = InHand(i) \ {Mine(j)}
  BY <1>4, <1>5 DEF RowsDone, InHand
<1>7. \A p \in InHand(i) : p # Mine(j) => worker'[p[1]] = worker[p[1]]
  BY <1>5 DEF InHand
<1>8. Appending(i)' \ {Mine(j)} = Appending(i) \ {Mine(j)}
  BY <1>6, <1>7 DEF Appending
<1> QED BY <1>3, <1>6, <1>7, <1>8

\* so each count changes by what becomes of that row
LEMMA RowsRecounted ==
    ASSUME Invariant, Placement, NEW j \in Jobs, Work(j) \/ OutsideWork(j), NoneGone', NEW i
    PROVE  /\ Cardinality(RowsDone(i)') + One(Mine(j) \in RowsDone(i))
                = Cardinality(RowsDone(i)) + One(Mine(j) \in RowsDone(i)')
           /\ Cardinality(InHand(i)') + One(Mine(j) \in InHand(i))
                = Cardinality(InHand(i)) + One(Mine(j) \in InHand(i)')
           /\ Cardinality(Appending(i)') + One(Mine(j) \in Appending(i))
                = Cardinality(Appending(i)) + One(Mine(j) \in Appending(i)')
BY OtherRows, RowsCounted, RowsCountedNext, OneRow

\* where that row is
LEMMA MineIn ==
    ASSUME NEW j \in Jobs, NEW i
    PROVE  /\ Mine(j) \in RowsOf(i) <=> worker[j].row \in Rows(j)
                                        /\ Csv[j][worker[j].row].isbn = i
           /\ Mine(j) \in RowsDone(i) <=>
                /\ Mine(j) \in RowsOf(i)
                /\ \/ items[j][worker[j].row] \in Brought
                   \/ worker[j].pc \in {"file", "setItem"} /\ worker[j].outcome \in Brought
           /\ Mine(j) \in InHand(i) <=> Mine(j) \in RowsOf(i)
                                        /\ worker[j].pc \in {"choose", "adopt"}
           /\ Mine(j) \in Appending(i) <=> /\ Mine(j) \in RowsOf(i)
                                           /\ worker[j].pc = "adopt" /\ worker[j].pick = 0
<1>1. Mine(j)[1] = j /\ Mine(j)[2] = worker[j].row BY DEF Mine
<1>2. Mine(j) \in RowsOf(i) <=> worker[j].row \in Rows(j) /\ Csv[j][worker[j].row].isbn = i
  <2>1. ASSUME Mine(j) \in RowsOf(i)
        PROVE  worker[j].row \in Rows(j) /\ Csv[j][worker[j].row].isbn = i
    BY <1>1, <2>1, RowsOfIsbn
  <2> QED BY <2>1, RowsOfIsbn DEF Mine
<1> QED BY <1>1, <1>2 DEF RowsDone, InHand, Appending, RowDone, At, Row

\* where it is next, whether its attempt goes on with it or is through with it
LEMMA MineNext ==
    ASSUME NEW j \in Jobs, NEW i,
           worker'[j].row = worker[j].row \/ worker'[j].pc \notin Held
    PROVE  /\ Mine(j) \in RowsDone(i)' <=>
                /\ Mine(j) \in RowsOf(i)
                /\ \/ items'[j][worker[j].row] \in Brought
                   \/ worker'[j].pc \in {"file", "setItem"} /\ worker'[j].outcome \in Brought
           /\ Mine(j) \in InHand(i)' <=> Mine(j) \in RowsOf(i)
                                         /\ worker'[j].pc \in {"choose", "adopt"}
           /\ Mine(j) \in Appending(i)' <=> /\ Mine(j) \in RowsOf(i)
                                            /\ worker'[j].pc = "adopt" /\ worker'[j].pick = 0
<1> DEFINE m == Mine(j)
<1>1. m[1] = j /\ m[2] = worker[j].row BY DEF Mine
<1>2. RowsOf(i)' = RowsOf(i) BY DEF RowsOf, Rows
<1>3. worker'[j].pc \in {"file", "setItem", "choose", "adopt"} => worker'[j].row = worker[j].row
  BY DEF Held, Linking
<1> HIDE DEF m
<1>4. m \in RowsDone(i)' <=>
        /\ m \in RowsOf(i)
        /\ \/ items'[m[1]][m[2]] \in Brought
           \/ /\ worker'[m[1]].pc \in {"file", "setItem"} /\ worker'[m[1]].row = m[2]
              /\ worker'[m[1]].outcome \in Brought
  BY <1>2 DEF RowsDone, RowDone, At, Row
<1>5. m \in InHand(i)' <=> m \in RowsOf(i) /\ worker'[m[1]].pc \in {"choose", "adopt"}
                            /\ worker'[m[1]].row = m[2]
  BY <1>2 DEF InHand, At, Row
<1>6. m \in Appending(i)' <=> m \in InHand(i)' /\ worker'[m[1]].pc = "adopt"
                               /\ worker'[m[1]].pick = 0
  BY DEF Appending
<1> QED BY <1>1, <1>3, <1>4, <1>5, <1>6 DEF m

------------------------------------------------------------------------------
(* What a step makes of the copies of an ISBN *)

\* what holds before and after every step: neither a row decided on is done, nor
\* is a deleted import restored
LEMMA StepAhead ==
    ASSUME Invariant, Placement, NEW j \in Jobs, Work(j) \/ OutsideWork(j), NoneGone'
    PROVE  /\ NoneGone /\ Shared /\ stops \in Nat /\ faults \in Nat
           /\ worker[j].pc \in Undecided => items[j][worker[j].row] \notin Brought
           /\ worker'[j].row = worker[j].row \/ worker'[j].pc \notin Held
<1>1. NoneGone BY CalmBack DEF NoneGone
<1>2. stops \in Nat /\ faults \in Nat /\ Shared
  BY ImportAssumption DEF Invariant, Shared, Tables
<1>3. worker[j].pc \in Undecided => items[j][worker[j].row] \notin Brought
  BY RowOpen DEF Unsettled, Brought, Added
<1> QED BY <1>1, <1>2, <1>3, RowKept

\* these are numbers
LEMMA Stocktaking ==
    ASSUME Invariant, NEW i \in ISBNs
    PROVE  /\ copies[i] \in Seq(BOOLEAN) /\ Len(copies[i]) \in Nat /\ Further(i) \in Nat
           /\ Cardinality(Printed(i)) \in Nat
           /\ Bare(i) = {} => Cardinality(Printed(i)) = Len(copies[i])
           /\ Shown(i) \in Nat /\ Stock(i) \in Nat /\ Owing(i) \in Nat /\ Due(i) \in Nat
           /\ stops \in Nat /\ faults \in Nat
<1>1. /\ copies \in [ISBNs -> Seq(BOOLEAN)] /\ editions \in [ISBNs -> Nat]
      /\ stops \in Nat /\ faults \in Nat
  BY ImportAssumption DEF Invariant, Shared, Tables
<1>2. copies[i] \in Seq(BOOLEAN) /\ editions[i] \in Nat BY <1>1
<1>3. Further(i) \in Nat BY <1>2 DEF Further
<1>4. /\ Len(copies[i]) \in Nat /\ Cardinality(Printed(i)) \in Nat
      /\ Bare(i) = {} => Cardinality(Printed(i)) = Len(copies[i])
  BY <1>2, SaysFinite, CopyList
<1>5. /\ Cardinality(RowsDone(i)) \in Nat /\ Cardinality(InHand(i)) \in Nat
      /\ Cardinality(Appending(i)) \in Nat
  BY RowsCounted
<1>6. stops + faults \in Nat BY <1>1
<1>7. Owing(i) \in Nat BY <1>5, <1>6 DEF Owing
<1>8. Shown(i) \in Nat BY <1>3, <1>4 DEF Shown
<1>9. Present(i) \in Nat BY <1>3, <1>4 DEF Present
<1>10. Stock(i) \in Nat BY <1>5, <1>9 DEF Stock
<1>11. Due(i) \in Nat BY <1>5, <1>7 DEF Due
<1> QED BY <1>1, <1>2, <1>3, <1>4, <1>7, <1>8, <1>10, <1>11

\* and so are the rows counted
LEMMA Numbers ==
    ASSUME Invariant, NEW i \in ISBNs
    PROVE  /\ Shown(i) \in Nat /\ Stock(i) \in Nat /\ Owing(i) \in Nat /\ Due(i) \in Nat
           /\ Present(i) \in Nat /\ Further(i) \in Nat
           /\ Cardinality(Printed(i)) \in Nat
           /\ Cardinality(RowsDone(i)) \in Nat /\ Cardinality(RowsDone(i)') \in Nat
           /\ Cardinality(InHand(i)) \in Nat /\ Cardinality(InHand(i)') \in Nat
           /\ Cardinality(Appending(i)) \in Nat /\ Cardinality(Appending(i)') \in Nat
<1>1. Len(copies[i]) \in Nat /\ Further(i) \in Nat BY Stocktaking
<1>2. Present(i) \in Nat BY <1>1 DEF Present
<1> QED BY <1>2, Stocktaking, RowsCounted, RowsCountedNext

\* a step that leaves the copies alone, and the rows that answer for them
LEMMA StockRests ==
    ASSUME Invariant, Placement, NEW j \in Jobs, Work(j) \/ OutsideWork(j), NoneGone',
           NEW i \in ISBNs, Covered(i), Stocked(i), UNCHANGED <<stops, faults>>,
           copies'[i] = copies[i], editions'[i] = editions[i], i \in crossed => i \in crossed',
           Mine(j) \in RowsDone(i)' <=> Mine(j) \in RowsDone(i),
           Mine(j) \in InHand(i) => Mine(j) \in InHand(i)' /\ worker'[j] = worker[j],
           Mine(j) \in Appending(i)' => Mine(j) \in Appending(i)
    PROVE  Covered(i)' /\ Stocked(i)'
<1>0. /\ Shown(i) \in Nat /\ Stock(i) \in Nat /\ Owing(i) \in Nat /\ Due(i) \in Nat
       /\ Present(i) \in Nat /\ Further(i) \in Nat
       /\ Cardinality(Printed(i)) \in Nat
       /\ Cardinality(RowsDone(i)) \in Nat /\ Cardinality(RowsDone(i)') \in Nat
       /\ Cardinality(InHand(i)) \in Nat /\ Cardinality(InHand(i)') \in Nat
       /\ Cardinality(Appending(i)) \in Nat /\ Cardinality(Appending(i)') \in Nat
  BY Numbers
<1>1. NoneGone /\ stops \in Nat /\ faults \in Nat BY StepAhead
<1>2. RowsDone(i)' = RowsDone(i)
  <2>1. RowsDone(i)' \ {Mine(j)} = RowsDone(i) \ {Mine(j)} BY OtherRows
  <2> HIDE DEF Mine, RowsDone
  <2>2. \A p : p \in RowsDone(i)' <=> p \in RowsDone(i)
    <3> TAKE p
    <3>1. CASE p = Mine(j) BY <3>1
    <3>2. CASE p # Mine(j) BY <2>1, <3>2
    <3> QED BY <3>1, <3>2
  <2> QED BY <2>2
<1>3. InHand(i) \subseteq InHand(i)' BY OtherRows
<1>4. Appending(i)' \subseteq Appending(i) BY OtherRows
<1>5. /\ Cardinality(InHand(i)) <= Cardinality(InHand(i)')
      /\ Cardinality(Appending(i)') <= Cardinality(Appending(i))
  BY <1>3, <1>4, RowsCounted, RowsCountedNext, FS_Subset
<1>6. Printed(i)' = Printed(i) /\ Further(i)' = Further(i) /\ Bare(i)' = Bare(i)
  BY DEF Printed, Further, Bare
<1>8. Covered(i)'
  <2>1. Shown(i)' = Shown(i) /\ Owing(i)' = Owing(i) BY <1>2, <1>6 DEF Shown, Owing
  <2>2. Stock(i)' <= Stock(i) /\ Stock(i)' \in Nat
    <3>1. Present(i)' = Present(i) BY <1>6 DEF Present
    <3>2. Stock(i)' = Present(i) + Cardinality(Appending(i)') BY <3>1 DEF Stock
    <3> QED BY <1>5, <1>0, <3>2 DEF Stock
  <2>3. Due(i) <= Due(i)' /\ Due(i)' \in Nat
    BY <1>5, <2>1, <1>0 DEF Due
  <2>4. Shown(i) <= Owing(i) /\ Stock(i) <= Due(i) BY <1>1 DEF Covered
  <2>5. Stock(i)' <= Due(i)' BY <2>2, <2>3, <2>4, <1>0
  <2> QED BY <2>1, <2>4, <2>5 DEF Covered
<1>9. Stocked(i)'
  <2> SUFFICES ASSUME Undisturbed', i \notin crossed' PROVE Stocked(i)'
    BY DEF Stocked
  <2>1. /\ Cardinality(RowsDone(i)) <= Cardinality(Printed(i)) + Further(i)
        /\ Bare(i) \subseteq {1}
        /\ Bare(i) # {} => \E p \in InHand(i) :
                              /\ worker[p[1]].outcome = "linked"
                              /\ worker[p[1]].pc = "adopt" => worker[p[1]].pick = 1
    BY <1>1 DEF Stocked, Undisturbed
  <2>2. \A p \in InHand(i) : p \in InHand(i)' /\ worker'[p[1]] = worker[p[1]]
    BY <1>3, OtherRows DEF Mine
  <2> QED BY <1>2, <1>6, <2>1, <2>2 DEF Stocked
<1> QED BY <1>8, <1>9

\* a step that is none of the ISBN's
LEMMA OtherIsbn ==
    ASSUME Invariant, Placement, NEW j \in Jobs, Work(j) \/ OutsideWork(j), NoneGone',
           NEW i \in ISBNs, Covered(i), Stocked(i), UNCHANGED <<stops, faults>>,
           copies'[i] = copies[i], editions'[i] = editions[i], i \in crossed => i \in crossed',
           Csv[j][worker[j].row].isbn # i
    PROVE  Covered(i)' /\ Stocked(i)'
<1>1. worker'[j].row = worker[j].row \/ worker'[j].pc \notin Held BY StepAhead
<1>2. Mine(j) \notin RowsOf(i) BY MineIn
<1>3. /\ Mine(j) \notin RowsDone(i) /\ Mine(j) \notin RowsDone(i)'
      /\ Mine(j) \notin InHand(i) /\ Mine(j) \notin Appending(i)'
  BY <1>1, <1>2, MineIn, MineNext
<1> QED BY <1>3, StockRests

\* a statement or an attempt that is lost takes one row with it at most
LEMMA LostCovers ==
    ASSUME Invariant, Placement, NEW j \in Jobs, Work(j) \/ OutsideWork(j), NoneGone',
           NEW i \in ISBNs, Covered(i), copies'[i] = copies[i], editions'[i] = editions[i],
           (Fault /\ stops' = stops) \/ Stop(j),
           worker'[j].pc # "adopt" \/ worker' = worker
    PROVE  Covered(i)' /\ Stocked(i)'
<1>a. /\ Shown(i) \in Nat /\ Stock(i) \in Nat /\ Owing(i) \in Nat /\ Due(i) \in Nat
       /\ Present(i) \in Nat /\ Further(i) \in Nat
       /\ Cardinality(Printed(i)) \in Nat
       /\ Cardinality(RowsDone(i)) \in Nat /\ Cardinality(RowsDone(i)') \in Nat
       /\ Cardinality(InHand(i)) \in Nat /\ Cardinality(InHand(i)') \in Nat
       /\ Cardinality(Appending(i)) \in Nat /\ Cardinality(Appending(i)') \in Nat
  BY Numbers
<1>1. /\ NoneGone /\ stops \in Nat /\ faults \in Nat
      /\ worker'[j].row = worker[j].row \/ worker'[j].pc \notin Held
      /\ worker[j].pc \in Undecided => items[j][worker[j].row] \notin Brought
  BY StepAhead
<1>2. stops' + faults' = stops + faults + 1 /\ stops' \in Nat /\ faults' \in Nat
  BY <1>1 DEF Fault, Stop
<1>3. ~(Mine(j) \in RowsDone(i) /\ Mine(j) \in InHand(i))
  BY <1>1, MineIn DEF Undecided, Linking
<1>4. Mine(j) \in Appending(i)' => Mine(j) \in Appending(i)
  BY <1>1, MineIn, MineNext
<1> DEFINE d == Cardinality(RowsDone(i))
           h == Cardinality(InHand(i))
           a == Cardinality(Appending(i))
           dn == Cardinality(RowsDone(i)')
           hn == Cardinality(InHand(i)')
           an == Cardinality(Appending(i)')
           lost == stops + faults
           lostn == stops' + faults'
<1>5. d \in Nat /\ h \in Nat /\ a \in Nat /\ dn \in Nat /\ hn \in Nat /\ an \in Nat
  BY <1>a
<1>6. /\ dn + One(Mine(j) \in RowsDone(i)) = d + One(Mine(j) \in RowsDone(i)')
      /\ hn + One(Mine(j) \in InHand(i)) = h + One(Mine(j) \in InHand(i)')
      /\ an + One(Mine(j) \in Appending(i)) = a + One(Mine(j) \in Appending(i)')
  BY RowsRecounted
<1>7. Owing(i) = d + lost /\ Owing(i)' = dn + lostn BY DEF Owing
<1>0. lost \in Nat /\ lostn = lost + 1 BY <1>1, <1>2
<1> HIDE DEF d, h, a, dn, hn, an, lost, lostn
<1>8. d <= dn + 1 /\ d + h <= dn + hn + 1 /\ an <= a
  BY <1>3, <1>4, <1>5, <1>6 DEF One
<1>9. Owing(i) <= Owing(i)' /\ Owing(i) + h <= Owing(i)' + hn
  BY <1>0, <1>5, <1>7, <1>8
<1>10. /\ Due(i) = Owing(i) + h /\ Due(i)' = Owing(i)' + hn
  BY DEF Due, h, hn
<1>11. Shown(i)' = Shown(i) BY DEF Shown, Printed, Further
<1>12. Stock(i)' <= Stock(i) /\ Stock(i)' \in Nat
  <2>1. Present(i) \in Nat BY <1>a
  <2>2. Present(i)' = Present(i) BY DEF Present, Further
  <2>3. Stock(i)' = Present(i) + an /\ Stock(i) = Present(i) + a BY <2>2 DEF Stock, a, an
  <2> QED BY <1>5, <1>8, <2>1, <2>3
<1>13. Owing(i)' \in Nat BY <1>0, <1>5, <1>7
<1>14. Due(i)' \in Nat BY <1>5, <1>10, <1>13
<1>15. Shown(i) <= Owing(i) /\ Stock(i) <= Due(i) BY <1>1 DEF Covered
<1>16. Covered(i)'
  BY <1>9, <1>10, <1>11, <1>12, <1>13, <1>14, <1>15, <1>a DEF Covered
<1>17. ~Undisturbed' BY <1>1, <1>2 DEF Undisturbed
<1> QED BY <1>16, <1>17 DEF Stocked

\* AddBookToLibrary adds a copy that says nothing, for a row that will see to it
LEMMA InsertStocks ==
    ASSUME Invariant, Placement, NEW j \in Jobs, InsertCopy(j), NoneGone',
           NEW i \in ISBNs, Covered(i), Stocked(i)
    PROVE  Covered(i)' /\ Stocked(i)'
<1>0. /\ Shown(i) \in Nat /\ Stock(i) \in Nat /\ Owing(i) \in Nat /\ Due(i) \in Nat
       /\ Present(i) \in Nat /\ Further(i) \in Nat
       /\ Cardinality(Printed(i)) \in Nat
       /\ Cardinality(RowsDone(i)) \in Nat /\ Cardinality(RowsDone(i)') \in Nat
       /\ Cardinality(InHand(i)) \in Nat /\ Cardinality(InHand(i)') \in Nat
       /\ Cardinality(Appending(i)) \in Nat /\ Cardinality(Appending(i)') \in Nat
  BY Numbers
<1> DEFINE held == copies[i]
<1>1. /\ Work(j) /\ worker[j].pc = "insert" /\ UNCHANGED <<stops, faults, items>>
      /\ WriteCopies(Isbn(j), Append(copies[Isbn(j)], FALSE), copies[Isbn(j)] # <<>>)
      /\ Goto(j, "choose")
  BY DEF InsertCopy, Work
<1>2. /\ NoneGone /\ stops \in Nat /\ faults \in Nat /\ Shared
      /\ items[j][worker[j].row] \notin Brought
  BY <1>1, StepAhead DEF Undecided, Linking
<1>3. worker'[j].pc = "choose" /\ worker'[j].row = worker[j].row
      /\ worker'[j].outcome = "linked"
  BY <1>1, <1>2, GotoMoves DEF Steps, Keeps, Placement, Picked
<1>4. Isbn(j) = Csv[j][worker[j].row].isbn /\ Isbn(j) \in ISBNs /\ worker[j].row \in Rows(j)
  BY <1>1, RowIsbn DEF Undecided, Linking
<1>5. /\ copies \in [ISBNs -> Seq(BOOLEAN)] /\ crossed \subseteq ISBNs /\ editions' = editions
      /\ editions \in [ISBNs -> Nat]
  BY <1>1, <1>2 DEF Shared, Tables, WriteCopies
<1>6. CASE Isbn(j) # i
  BY <1>1, <1>4, <1>5, <1>6, OtherIsbn DEF WriteCopies
<1>7. CASE Isbn(j) = i
  <2>1. copies'[i] = Append(held, FALSE) /\ held \in Seq(BOOLEAN)
    BY <1>1, <1>5, <1>7 DEF WriteCopies
  <2>2. i \notin crossed' => held = <<>> /\ i \notin crossed
    BY <1>1, <1>7 DEF WriteCopies
  <2> HIDE DEF held
  <2>3. /\ Len(copies'[i]) = Len(held) + 1
        /\ Cardinality(Says(copies'[i])) = Cardinality(Says(held))
        /\ held = <<>> => Silent(copies'[i]) \subseteq {1}
        /\ Len(held) \in Nat /\ Cardinality(Says(held)) \in Nat
    <3>1. Len(held) \in Nat /\ Cardinality(Says(held)) \in Nat BY <2>1, SaysFinite
    <3> QED BY <2>1, <3>1, CopyAdded
  <2>4. /\ Printed(i)' = Says(copies'[i]) /\ Bare(i)' = Silent(copies'[i])
        /\ Printed(i) = Says(held) /\ Further(i)' = Further(i) /\ Further(i) \in Nat
    BY <1>5 DEF Printed, Bare, Says, Silent, Further, held
  <2>5. /\ Mine(j) \notin RowsDone(i) /\ Mine(j) \notin RowsDone(i)'
        /\ Mine(j) \notin InHand(i) /\ Mine(j) \in InHand(i)'
        /\ Mine(j) \notin Appending(i) /\ Mine(j) \notin Appending(i)'
    BY <1>1, <1>2, <1>3, <1>4, <1>7, MineIn, MineNext
  <2>6. /\ Cardinality(RowsDone(i)') = Cardinality(RowsDone(i))
        /\ Cardinality(InHand(i)') = Cardinality(InHand(i)) + 1
        /\ Cardinality(Appending(i)') = Cardinality(Appending(i))
    BY <1>1, <2>5, RowsRecounted, RowsCounted, RowsCountedNext DEF One
  <2>7. Covered(i)'
    <3>1. Shown(i)' = Shown(i) /\ Owing(i)' = Owing(i)
      BY <1>1, <2>4, <2>3, <2>6 DEF Shown, Owing
    <3>2. Present(i)' = Present(i) + 1
      BY <1>0, <2>3, <2>4 DEF Present, held
    <3>3. Stock(i)' = Stock(i) + 1
      BY <2>6, <3>2, <1>0 DEF Stock
    <3>4. Due(i)' = Due(i) + 1
      BY <2>6, <3>1, <1>0 DEF Due
    <3>5. Shown(i) <= Owing(i) /\ Stock(i) <= Due(i) BY <1>2 DEF Covered
    <3>6. Stock(i)' <= Due(i)' BY <3>3, <3>4, <3>5, <1>0
    <3> QED BY <3>1, <3>5, <3>6 DEF Covered
  <2>8. Stocked(i)'
    <3> SUFFICES ASSUME Undisturbed', i \notin crossed' PROVE Stocked(i)'
      BY DEF Stocked
    <3>1. Undisturbed /\ i \notin crossed BY <1>1, <2>2 DEF Undisturbed
    <3>2. Cardinality(RowsDone(i)') <= Cardinality(Printed(i)') + Further(i)'
      BY <1>2, <2>3, <2>4, <2>6, <3>1 DEF Stocked
    <3>3. Bare(i)' \subseteq {1} BY <2>2, <2>3, <2>4
    <3>4. Mine(j)[1] = j BY DEF Mine
    <3> QED BY <1>3, <2>5, <3>2, <3>3, <3>4 DEF Stocked
  <2> QED BY <2>7, <2>8
<1> QED BY <1>6, <1>7

\* a row chooses the copy that waits for it, or finds every copy spoken for
LEMMA ChooseStocks ==
    ASSUME Invariant, Placement, NEW j \in Jobs, ChooseCopy(j), NoneGone',
           UNCHANGED faults, NEW i \in ISBNs, Covered(i), Stocked(i)
    PROVE  Covered(i)' /\ Stocked(i)'
<1>0. /\ Shown(i) \in Nat /\ Stock(i) \in Nat /\ Owing(i) \in Nat /\ Due(i) \in Nat
       /\ Present(i) \in Nat /\ Further(i) \in Nat
       /\ Cardinality(Printed(i)) \in Nat
       /\ Cardinality(RowsDone(i)) \in Nat /\ Cardinality(RowsDone(i)') \in Nat
       /\ Cardinality(InHand(i)) \in Nat /\ Cardinality(InHand(i)') \in Nat
       /\ Cardinality(Appending(i)) \in Nat /\ Cardinality(Appending(i)') \in Nat
  BY Numbers
<1>1. /\ Work(j) /\ worker[j].pc = "choose" /\ UNCHANGED <<stops, faults, items, store>>
  BY DEF ChooseCopy, Work
<1>2. /\ NoneGone /\ stops \in Nat /\ faults \in Nat /\ Shared
      /\ items[j][worker[j].row] \notin Brought
  BY <1>1, StepAhead DEF Undecided, Linking
<1>3. PICK c \in Bare(Isbn(j)) \cup {0} :
        /\ c = 0 <=> Bare(Isbn(j)) = {}
        /\ worker' = [worker EXCEPT ![j].pc = "adopt", ![j].pick = c]
  BY <1>2 DEF ChooseCopy, Fault
<1>4. Isbn(j) = Csv[j][worker[j].row].isbn /\ Isbn(j) \in ISBNs /\ worker[j].row \in Rows(j)
  BY <1>1, RowIsbn DEF Undecided, Linking
<1>5. c \in Nat BY <1>4, BareCopies
<1>6. /\ worker'[j].pc = "adopt" /\ worker'[j].pick = c /\ worker'[j].row = worker[j].row
      /\ worker'[j].outcome = worker[j].outcome
  BY <1>2, <1>3, <1>5, PickMoves DEF Steps, Keeps
<1>7. CASE Isbn(j) # i BY <1>1, <1>4, <1>7, OtherIsbn DEF store
<1>8. CASE Isbn(j) = i
  <2>1. /\ Printed(i)' = Printed(i) /\ Bare(i)' = Bare(i) /\ Further(i)' = Further(i)
        /\ Len(copies'[i]) = Len(copies[i]) /\ crossed' = crossed
    BY <1>1 DEF store, Printed, Bare, Further
  <2>2. /\ Mine(j) \notin RowsDone(i) /\ Mine(j) \notin RowsDone(i)'
        /\ Mine(j) \in InHand(i) /\ Mine(j) \in InHand(i)'
        /\ Mine(j) \notin Appending(i) /\ (Mine(j) \in Appending(i)' <=> c = 0)
    BY <1>1, <1>2, <1>4, <1>6, <1>8, MineIn, MineNext
  <2>3. /\ Cardinality(RowsDone(i)') = Cardinality(RowsDone(i))
        /\ Cardinality(InHand(i)') = Cardinality(InHand(i))
        /\ c # 0 => Cardinality(Appending(i)') = Cardinality(Appending(i))
    BY <1>1, <2>2, RowsRecounted, RowsCounted, RowsCountedNext DEF One
  <2>4. Cardinality(Appending(i)') <= Cardinality(InHand(i)')
    <3>1. Appending(i)' \subseteq InHand(i)' BY DEF Appending
    <3> QED BY <3>1, RowsCountedNext, FS_Subset
  <2>5. Covered(i)'
    <3>1. Shown(i)' = Shown(i) /\ Owing(i)' = Owing(i) BY <1>1, <2>1, <2>3 DEF Shown, Owing
    <3>2. Due(i)' = Due(i) BY <2>3, <3>1 DEF Due
    <3>3. Shown(i) <= Owing(i) /\ Stock(i) <= Due(i) BY <1>2 DEF Covered
    <3>4. CASE c # 0
      <4>1. Stock(i)' = Stock(i) BY <2>1, <2>3, <3>4 DEF Stock, Present
      <4> QED BY <3>1, <3>2, <3>3, <4>1 DEF Covered
    <3>5. CASE c = 0
      <4>1. Cardinality(Printed(i)) = Len(copies[i]) BY <1>3, <1>8, <3>5, Stocktaking
      <4>2. Stock(i)' = Shown(i) + Cardinality(Appending(i)') BY <2>1, <4>1 DEF Stock, Present, Shown
      <4>3. Due(i)' = Owing(i) + Cardinality(InHand(i)') BY <3>1 DEF Due
      <4>4. Stock(i)' <= Due(i)'
        BY <2>4, <3>3, <4>2, <4>3, <1>0
      <4> QED BY <3>1, <3>3, <4>4 DEF Covered
    <3> QED BY <3>4, <3>5
  <2>6. Stocked(i)'
    <3> SUFFICES ASSUME Undisturbed', i \notin crossed' PROVE Stocked(i)'
      BY DEF Stocked
    <3>1. /\ Cardinality(RowsDone(i)) <= Cardinality(Printed(i)) + Further(i)
          /\ Bare(i) \subseteq {1}
          /\ Bare(i) # {} => \E p \in InHand(i) :
                                /\ worker[p[1]].outcome = "linked"
                                /\ worker[p[1]].pc = "adopt" => worker[p[1]].pick = 1
      BY <1>1, <1>2, <2>1 DEF Stocked, Undisturbed
    <3>2. ASSUME Bare(i) # {}
          PROVE  \E p \in InHand(i)' : /\ worker'[p[1]].outcome = "linked"
                                       /\ worker'[p[1]].pc = "adopt" => worker'[p[1]].pick = 1
      <4>1. PICK p \in InHand(i) : /\ worker[p[1]].outcome = "linked"
                                   /\ worker[p[1]].pc = "adopt" => worker[p[1]].pick = 1
        BY <3>1, <3>2
      <4>2. CASE p = Mine(j)
        <5>1. p[1] = j BY <4>2 DEF Mine
        <5>2. c = 1 BY <1>3, <1>8, <3>1, <3>2
        <5> QED BY <1>6, <2>2, <4>1, <4>2, <5>1, <5>2
      <4>3. CASE p # Mine(j)
        <5>1. p \in InHand(i)' /\ worker'[p[1]] = worker[p[1]] BY <1>1, <4>3, OtherRows
        <5> QED BY <4>1, <5>1
      <4> QED BY <4>2, <4>3
    <3> QED BY <2>1, <2>3, <3>1, <3>2 DEF Stocked
  <2> QED BY <2>5, <2>6
<1> QED BY <1>7, <1>8

\* the copy takes the edition, or one is added, and the row has brought it
LEMMA AdoptStocks ==
    ASSUME Invariant, Placement, NEW j \in Jobs, AdoptCopy(j), NoneGone',
           NEW i \in ISBNs, Covered(i), Stocked(i)
    PROVE  Covered(i)' /\ Stocked(i)'
<1>0. /\ Shown(i) \in Nat /\ Stock(i) \in Nat /\ Owing(i) \in Nat /\ Due(i) \in Nat
       /\ Present(i) \in Nat /\ Further(i) \in Nat
       /\ Cardinality(Printed(i)) \in Nat
       /\ Cardinality(RowsDone(i)) \in Nat /\ Cardinality(RowsDone(i)') \in Nat
       /\ Cardinality(InHand(i)) \in Nat /\ Cardinality(InHand(i)') \in Nat
       /\ Cardinality(Appending(i)) \in Nat /\ Cardinality(Appending(i)') \in Nat
  BY Numbers
<1> DEFINE held == copies[i]
           c == worker[j].pick
<1>1. /\ Work(j) /\ worker[j].pc = "adopt" /\ UNCHANGED <<stops, faults, items>> /\ Recorded(j)
  BY DEF AdoptCopy, Work
<1>2. /\ NoneGone /\ stops \in Nat /\ faults \in Nat /\ Shared
      /\ items[j][worker[j].row] \notin Brought
  BY <1>1, StepAhead DEF Undecided, Linking
<1>3. /\ worker'[j].pc \in {"file", "setItem"} /\ worker'[j].row = worker[j].row
      /\ worker'[j].outcome = worker[j].outcome /\ worker'[j].outcome \in Brought
  <2>1. worker[j].outcome \in Brought
    BY <1>1, RowIsbn DEF Undecided, Linking, Brought, Added
  <2> QED BY <1>1, <1>2, <2>1, PickMoves DEF Recorded, Steps, Keeps
<1>4. Isbn(j) = Csv[j][worker[j].row].isbn /\ Isbn(j) \in ISBNs /\ worker[j].row \in Rows(j)
  BY <1>1, RowIsbn DEF Undecided, Linking
<1>5. /\ copies \in [ISBNs -> Seq(BOOLEAN)] /\ crossed \subseteq ISBNs /\ editions' = editions
      /\ editions \in [ISBNs -> Nat]
  BY <1>2 DEF Shared, Tables, AdoptCopy, WriteCopies
<1>6. CASE Isbn(j) # i
  BY <1>1, <1>4, <1>5, <1>6, OtherIsbn DEF AdoptCopy, WriteCopies
<1>7. CASE Isbn(j) = i
  <2>1. /\ copies'[i] = IF c = 0 THEN Append(held, TRUE) ELSE [held EXCEPT ![c] = TRUE]
        /\ held \in Seq(BOOLEAN)
        /\ i \notin crossed' => i \notin crossed /\ (c = 0 \/ ~held[c])
    BY <1>5, <1>7 DEF AdoptCopy, WriteCopies
  <2>2. /\ Mine(j) \notin RowsDone(i) /\ Mine(j) \in RowsDone(i)'
        /\ Mine(j) \in InHand(i) /\ Mine(j) \notin InHand(i)'
        /\ (Mine(j) \in Appending(i) <=> c = 0) /\ Mine(j) \notin Appending(i)'
    BY <1>1, <1>2, <1>3, <1>4, <1>7, MineIn, MineNext
  <2>3. /\ Cardinality(RowsDone(i)') = Cardinality(RowsDone(i)) + 1
        /\ Cardinality(InHand(i)') = Cardinality(InHand(i)) - 1
        /\ c = 0 => Cardinality(Appending(i)') = Cardinality(Appending(i)) - 1
        /\ c # 0 => Cardinality(Appending(i)') = Cardinality(Appending(i))
    BY <1>1, <2>2, RowsRecounted, RowsCounted, RowsCountedNext DEF One
  <2>4. /\ Printed(i)' = Says(copies'[i]) /\ Bare(i)' = Silent(copies'[i])
        /\ Printed(i) = Says(held) /\ Bare(i) = Silent(held)
        /\ Further(i)' = Further(i) /\ Further(i) \in Nat
    BY <1>5 DEF Printed, Bare, Says, Silent, Further
  <2>5. Len(held) \in Nat /\ Cardinality(Says(held)) \in Nat BY <2>1, SaysFinite
  <2>6. ASSUME Undisturbed', i \notin crossed'
        PROVE  /\ Cardinality(RowsDone(i)) <= Cardinality(Printed(i)) + Further(i)
               /\ Bare(i) \subseteq {1}
               /\ Bare(i) # {} => \E p \in InHand(i) :
                                     /\ worker[p[1]].outcome = "linked"
                                     /\ worker[p[1]].pc = "adopt" => worker[p[1]].pick = 1
    BY <1>1, <1>2, <2>1, <2>6 DEF Stocked, Undisturbed
  <2>7. Owing(i)' = Owing(i) + 1 /\ Due(i)' = Due(i)
    <3>1. Owing(i)' = Owing(i) + 1 BY <1>1, <1>2, <2>3, <1>0 DEF Owing
    <3> QED BY <2>3, <3>1, <1>0 DEF Due
  <2> HIDE DEF held, c
  <2>8. CASE c = 0
    <3>1. /\ Len(copies'[i]) = Len(held) + 1
          /\ Cardinality(Says(copies'[i])) = Cardinality(Says(held)) + 1
          /\ Silent(copies'[i]) = Silent(held)
      BY <2>1, <2>8, CopyAdded
    <3>2. Covered(i)'
      <4>1. Shown(i)' = Shown(i) + 1
        <5>1. Cardinality(Printed(i)') = Cardinality(Printed(i)) + 1 BY <2>4, <3>1
        <5> QED BY <2>4, <5>1, <1>0 DEF Shown
      <4>2. Present(i)' = Present(i) + 1
        BY <1>0, <2>4, <2>5, <3>1 DEF Present, held
      <4>3. Stock(i)' = Stock(i)
        BY <2>3, <2>8, <4>2, <1>0 DEF Stock
      <4> QED BY <1>2, <2>7, <4>1, <4>3, <1>0 DEF Covered
    <3>3. Stocked(i)'
      <4> SUFFICES ASSUME Undisturbed', i \notin crossed' PROVE Stocked(i)'
        BY DEF Stocked
      <4>1. Cardinality(RowsDone(i)') <= Cardinality(Printed(i)') + Further(i)'
        BY <2>3, <2>4, <2>5, <2>6, <3>1, <1>0
      <4>2. ASSUME Bare(i)' # {}
            PROVE  \E p \in InHand(i)' :
                      /\ worker'[p[1]].outcome = "linked"
                      /\ worker'[p[1]].pc = "adopt" => worker'[p[1]].pick = 1
        <5>1. PICK p \in InHand(i) : /\ worker[p[1]].outcome = "linked"
                                     /\ worker[p[1]].pc = "adopt" => worker[p[1]].pick = 1
          BY <2>4, <2>6, <3>1, <4>2
        <5>2. p # Mine(j) BY <1>1, <2>8, <5>1 DEF Mine, c
        <5>3. p \in InHand(i)' /\ worker'[p[1]] = worker[p[1]] BY <1>1, <5>2, OtherRows
        <5> QED BY <5>1, <5>3
      <4> QED BY <2>4, <2>6, <3>1, <4>1, <4>2 DEF Stocked
    <3> QED BY <3>2, <3>3
  <2>9. CASE c # 0
    <3>1. c \in DOMAIN held BY <1>1, <1>7, <2>9 DEF Placement, Picked, c, held
    <3>2. copies'[i] = [held EXCEPT ![c] = TRUE] BY <2>1, <2>9
    <3>3. /\ Len(copies'[i]) = Len(held) /\ Silent(copies'[i]) = Silent(held) \ {c}
          /\ Cardinality(Says(copies'[i])) = Cardinality(Says(held)) + One(~held[c])
      BY <2>1, <3>1, <3>2, CopyMarked
    <3>4. /\ Cardinality(Says(copies'[i])) \in Nat
          /\ Cardinality(Says(copies'[i])) <= Cardinality(Says(held)) + 1
          /\ ~held[c] => Cardinality(Says(copies'[i])) = Cardinality(Says(held)) + 1
      BY <2>5, <3>3 DEF One
    <3>5. Covered(i)'
      <4>1. Shown(i)' \in Nat /\ Shown(i)' <= Shown(i) + 1
        <5>1. /\ Cardinality(Printed(i)') \in Nat
              /\ Cardinality(Printed(i)') <= Cardinality(Printed(i)) + 1
          BY <2>4, <3>4
        <5>2. Cardinality(Printed(i)) \in Nat /\ Further(i) \in Nat BY <1>0
        <5>3. Shown(i)' = Cardinality(Printed(i)') + Further(i) BY <2>4 DEF Shown
        <5> QED BY <5>1, <5>2, <5>3 DEF Shown
      <4>2. Stock(i)' = Stock(i) BY <2>3, <2>4, <2>9, <3>3 DEF Stock, Present, held
      <4> QED BY <1>2, <2>7, <4>1, <4>2, <1>0 DEF Covered
    <3>6. Stocked(i)'
      <4> SUFFICES ASSUME Undisturbed', i \notin crossed' PROVE Stocked(i)'
        BY DEF Stocked
      <4>1. ~held[c] BY <2>1, <2>9
      <4>2. Cardinality(RowsDone(i)') <= Cardinality(Printed(i)') + Further(i)'
        BY <2>3, <2>4, <2>5, <2>6, <3>4, <4>1, <1>0
      <4>3. c \in Silent(held) BY <3>1, <4>1 DEF Silent
      <4>4. Bare(i)' = {} BY <2>4, <2>6, <3>3, <4>3
      <4> QED BY <4>2, <4>4 DEF Stocked
    <3> QED BY <3>5, <3>6
  <2> QED BY <2>8, <2>9
<1> QED BY <1>6, <1>7

\* the book's transaction: the first edition comes with its copy, a further one
\* is a book of its own
LEMMA CreateStocks ==
    ASSUME Invariant, Placement, NEW j \in Jobs, CreateBook(j), NoneGone',
           NEW i \in ISBNs, Covered(i), Stocked(i)
    PROVE  Covered(i)' /\ Stocked(i)'
<1>0. /\ Shown(i) \in Nat /\ Stock(i) \in Nat /\ Owing(i) \in Nat /\ Due(i) \in Nat
       /\ Present(i) \in Nat /\ Further(i) \in Nat
       /\ Cardinality(Printed(i)) \in Nat
       /\ Cardinality(RowsDone(i)) \in Nat /\ Cardinality(RowsDone(i)') \in Nat
       /\ Cardinality(InHand(i)) \in Nat /\ Cardinality(InHand(i)') \in Nat
       /\ Cardinality(Appending(i)) \in Nat /\ Cardinality(Appending(i)') \in Nat
  BY Numbers
<1> DEFINE held == copies[i]
<1>1. /\ Work(j) /\ worker[j].pc = "create"
      /\ UNCHANGED <<stops, faults, items, crossed>>
  BY DEF CreateBook, Work
<1>2. /\ NoneGone /\ stops \in Nat /\ faults \in Nat /\ Shared
      /\ items[j][worker[j].row] \notin Brought
  BY <1>1, StepAhead DEF Undecided
<1>3. ASSUME NEW how \in Settled, Outcome(j, how)
      PROVE  /\ worker'[j].pc = "setItem" /\ worker'[j].row = worker[j].row
             /\ worker'[j].outcome = how
  BY <1>2, <1>3, DecideMoves DEF Outcome, Steps, Keeps
<1>4. Isbn(j) = Csv[j][worker[j].row].isbn /\ worker[j].row \in Rows(j)
  BY <1>1, RowIsbn, RowOpen DEF Undecided, Isbn, Row
<1>5. /\ copies \in [ISBNs -> Seq(BOOLEAN)] /\ editions \in [ISBNs -> Nat]
  BY <1>2 DEF Shared, Tables
<1>6. /\ {"failed", "imported"} \subseteq Settled /\ "imported" \in Brought
      /\ "failed" \notin Brought /\ NoISBN \notin ISBNs
  BY ImportAssumption DEF Settled, Done, Brought, Added
<1>7. CASE Outcome(j, "failed") /\ UNCHANGED <<editions, copies, untraced>>
  <2>1. /\ worker'[j].pc = "setItem" /\ worker'[j].row = worker[j].row
        /\ worker'[j].outcome = "failed"
    BY <1>3, <1>6, <1>7
  <2>2. /\ Mine(j) \notin RowsDone(i) /\ Mine(j) \notin RowsDone(i)'
        /\ Mine(j) \notin InHand(i) /\ Mine(j) \notin Appending(i)'
    BY <1>1, <1>2, <1>6, <2>1, MineIn, MineNext
  <2> QED BY <1>1, <1>7, <2>2, StockRests
<1>8. CASE Isbn(j) # i /\ copies'[i] = copies[i] /\ editions'[i] = editions[i]
  BY <1>1, <1>4, <1>8, OtherIsbn
<1>9. CASE /\ Outcome(j, "imported") /\ Isbn(j) = i
           /\ editions'[i] = editions[i] + 1
           /\ copies'[i] = IF editions[i] = 0 THEN Append(held, TRUE) ELSE held
  <2>1. /\ worker'[j].pc = "setItem" /\ worker'[j].row = worker[j].row
        /\ worker'[j].outcome = "imported"
    BY <1>3, <1>6, <1>9
  <2>2. /\ Mine(j) \notin RowsDone(i) /\ Mine(j) \in RowsDone(i)'
        /\ Mine(j) \notin InHand(i) /\ Mine(j) \notin InHand(i)'
        /\ Mine(j) \notin Appending(i) /\ Mine(j) \notin Appending(i)'
    <3>1. Mine(j) \in RowsOf(i) BY <1>4, <1>9, MineIn
    <3>2. Mine(j) \notin RowsDone(i) /\ Mine(j) \notin InHand(i) /\ Mine(j) \notin Appending(i)
      BY <1>1, <1>2, MineIn
    <3> QED BY <1>6, <2>1, <3>1, <3>2, MineNext
  <2>3. /\ Cardinality(RowsDone(i)') = Cardinality(RowsDone(i)) + 1
        /\ Cardinality(InHand(i)') = Cardinality(InHand(i))
        /\ Cardinality(Appending(i)') = Cardinality(Appending(i))
    BY <1>1, <2>2, RowsRecounted, RowsCounted, RowsCountedNext DEF One
  <2>4. /\ Printed(i)' = Says(copies'[i]) /\ Bare(i)' = Silent(copies'[i])
        /\ Printed(i) = Says(held) /\ Bare(i) = Silent(held) /\ held \in Seq(BOOLEAN)
        /\ editions[i] \in Nat
    BY <1>5 DEF Printed, Bare, Says, Silent
  <2> HIDE DEF held
  <2>5. Len(held) \in Nat /\ Cardinality(Says(held)) \in Nat BY <2>4, SaysFinite
  <2>6. /\ Silent(copies'[i]) = Silent(held)
        /\ Len(copies'[i]) + Further(i)' = Len(held) + Further(i) + 1
        /\ Cardinality(Says(copies'[i])) + Further(i)' = Cardinality(Says(held)) + Further(i) + 1
        /\ Further(i) \in Nat /\ Further(i)' \in Nat
        /\ Len(copies'[i]) \in Nat /\ Cardinality(Says(copies'[i])) \in Nat
    <3>1. CASE editions[i] = 0
      <4>1. copies'[i] = Append(held, TRUE) BY <1>9, <3>1 DEF held
      <4>2. Further(i) = 0 /\ Further(i)' = 0 BY <1>9, <3>1 DEF Further
      <4>3. /\ Len(copies'[i]) = Len(held) + 1 /\ Silent(copies'[i]) = Silent(held)
            /\ Cardinality(Says(copies'[i])) = Cardinality(Says(held)) + 1
        BY <2>4, <4>1, CopyAdded
      <4> QED BY <2>5, <4>2, <4>3
    <3>2. CASE editions[i] # 0
      <4>1. copies'[i] = held BY <1>9, <3>2 DEF held
      <4>2. Further(i)' = Further(i) + 1 /\ Further(i) \in Nat BY <1>9, <2>4, <3>2 DEF Further
      <4> QED BY <2>5, <4>1, <4>2
    <3> QED BY <3>1, <3>2
  <2>7. Covered(i)'
    <3>1. Shown(i)' = Shown(i) + 1 BY <2>4, <2>6 DEF Shown
    <3>2. Present(i)' = Present(i) + 1
      BY <2>6 DEF Present, held
    <3>3. Stock(i)' = Stock(i) + 1
      BY <2>3, <3>2, <1>0 DEF Stock
    <3>4. Owing(i)' = Owing(i) + 1 BY <1>1, <1>2, <2>3, <1>0 DEF Owing
    <3>5. Due(i)' = Due(i) + 1 BY <2>3, <3>4, <1>0 DEF Due
    <3>6. Shown(i) <= Owing(i) /\ Stock(i) <= Due(i) BY <1>2 DEF Covered
    <3>7. Shown(i)' <= Owing(i)' BY <3>1, <3>4, <3>6, <1>0
    <3>8. Stock(i)' <= Due(i)' BY <3>3, <3>5, <3>6, <1>0
    <3> QED BY <3>7, <3>8 DEF Covered
  <2>8. Stocked(i)'
    <3> SUFFICES ASSUME Undisturbed', i \notin crossed' PROVE Stocked(i)'
      BY DEF Stocked
    <3>1. /\ Cardinality(RowsDone(i)) <= Cardinality(Printed(i)) + Further(i)
          /\ Bare(i) \subseteq {1}
          /\ Bare(i) # {} => \E p \in InHand(i) :
                                /\ worker[p[1]].outcome = "linked"
                                /\ worker[p[1]].pc = "adopt" => worker[p[1]].pick = 1
      BY <1>1, <1>2 DEF Stocked, Undisturbed
    <3>2. \A p \in InHand(i) : p \in InHand(i)' /\ worker'[p[1]] = worker[p[1]]
      BY <1>1, <2>2, OtherRows
    <3>3. Cardinality(RowsDone(i)') <= Cardinality(Printed(i)') + Further(i)'
      BY <2>3, <2>4, <2>5, <2>6, <3>1, <1>0
    <3>4. Bare(i)' = Bare(i) BY <2>4, <2>6
    <3> QED BY <3>1, <3>2, <3>3, <3>4 DEF Stocked
  <2> QED BY <2>7, <2>8
<1>10. CASE Outcome(j, "imported") /\ Isbn(j) = NoISBN /\ UNCHANGED <<editions, copies>>
  BY <1>6, <1>8, <1>10
<1>11. CASE /\ Outcome(j, "imported") /\ Isbn(j) # NoISBN
            /\ editions' = [editions EXCEPT ![Isbn(j)] = @ + 1]
            /\ copies' = IF editions[Isbn(j)] = 0
                         THEN [copies EXCEPT ![Isbn(j)] = Append(@, TRUE)] ELSE copies
  <2>1. CASE Isbn(j) # i BY <1>5, <1>8, <1>11, <2>1
  <2>2. CASE Isbn(j) = i BY <1>5, <1>9, <1>11, <2>2
  <2> QED BY <2>1, <2>2
<1> QED BY <1>7, <1>10, <1>11 DEF CreateBook

------------------------------------------------------------------------------
(* What every step makes of them *)

\* the steps that leave the copies alone, and no row about to add one
LEMMA StoreRests ==
    ASSUME Invariant, Placement, NEW j \in Jobs, Work(j) \/ OutsideWork(j), NoneGone',
           ~InsertCopy(j), ~ChooseCopy(j), ~AdoptCopy(j), ~CreateBook(j)
    PROVE  /\ UNCHANGED store
           /\ Stop(j) \/ (stops' = stops /\ (Fault \/ UNCHANGED faults))
           /\ \/ worker' = worker
              \/ /\ worker'[j].pc # "adopt"
                 /\ Stop(j) \/ worker[j].pc \notin {"choose", "adopt"}
<1>0. Shared BY DEF Invariant
<1>1. ASSUME Aside(j)
      PROVE  /\ UNCHANGED store /\ stops' = stops /\ (Fault \/ UNCHANGED faults)
             /\ worker[j].pc \notin {"choose", "adopt"} /\ worker'[j].pc # "adopt"
  <2>1. Fault \/ UNCHANGED faults
    <3>1. CASE \/ Load(j) \/ MarkProcessing(j) \/ MirrorProcessing(j) \/ ListPendingItems(j)
               \/ CheckCancelled(j) \/ Report(j)
      BY <3>1 DEF Load, MarkProcessing, MirrorProcessing, ListPendingItems, CheckCancelled, Report
    <3>2. CASE MirrorReport(j) \/ Finish(j) \/ MirrorDone(j)
      BY <3>2 DEF MirrorReport, Finish, MirrorDone
    <3>3. CASE SpawnMetadata(j) \/ SpawnCovers(j)
      BY <3>3 DEF SpawnMetadata, SpawnCovers, Spawn
    <3> QED BY <1>1, <3>1, <3>2, <3>3 DEF Aside
  <2> QED BY <1>1, <2>1, AsideRests DEF Held, Linking
<1>2. CASE Aside(j) BY <1>1, <1>2
<1>3. CASE ReadRow(j) \/ LookForCopy(j) \/ FileCopy(j)
  <2>1. /\ UNCHANGED store /\ stops' = stops /\ (Fault \/ UNCHANGED faults)
        /\ worker[j].pc \notin {"choose", "adopt"}
    BY <1>3 DEF ReadRow, LookForCopy, FileCopy
  <2>2. /\ {"create", "look", "choose", "setItem", "insert"} \subseteq Steps
        /\ {"linked", "counted", "refreshed", "skipped", "failed"} \subseteq Settled
    BY DEF Steps, Settled, Done, Brought, Added
  <2>3. ASSUME NEW pc \in Steps \ {"adopt"}, Goto(j, pc) PROVE worker'[j].pc # "adopt"
    BY <1>0, <2>3, GotoMoves
  <2>4. ASSUME NEW pc \in Steps \ {"adopt"}, NEW how \in Settled, Decide(j, pc, how)
        PROVE  worker'[j].pc # "adopt"
    BY <1>0, <2>4, DecideMoves
  <2>5. CASE ReadRow(j) BY <2>1, <2>2, <2>3, <2>4, <2>5 DEF ReadRow, Outcome
  <2>6. CASE LookForCopy(j) BY <2>1, <2>2, <2>3, <2>4, <2>6 DEF LookForCopy, Outcome
  <2>7. CASE FileCopy(j) BY <2>1, <2>2, <2>3, <2>4, <2>7 DEF FileCopy, Outcome
  <2> QED BY <1>3, <2>5, <2>6, <2>7
<1>4. CASE UpdateItemStatus(j) BY <1>4, WrittenDown DEF store
<1>5. CASE CreateJob(j) \/ Enqueue(j) \/ Cancel(j)
  BY <1>5 DEF CreateJob, Enqueue, Cancel
<1>6. CASE Stop(j)
  <2>1. worker'[j].pc = "idle" BY <1>0, <1>6, ReturnMoves DEF Stop, NoAttempt
  <2> QED BY <1>6, <2>1 DEF Stop
<1>7. ~Delete(j) /\ ~DeleteUmbrella(j)
  BY SetStatus DEF Delete, DeleteUmbrella, ImportStatus, NoneGone
<1> QED BY <1>2, <1>3, <1>4, <1>5, <1>6, <1>7 DEF Work, OutsideWork, Aside

\* only adopting a copy and creating a book bring a row one, unless it is lost
LEMMA DoneRests ==
    ASSUME Invariant, Placement, NEW j \in Jobs, Work(j) \/ OutsideWork(j), NoneGone',
           UNCHANGED <<stops, faults>>, ~AdoptCopy(j), ~CreateBook(j), NEW i
    PROVE  Mine(j) \in RowsDone(i)' <=> Mine(j) \in RowsDone(i)
<1>0. /\ Shared /\ faults \in Nat /\ stops \in Nat
      /\ worker'[j].row = worker[j].row \/ worker'[j].pc \notin Held
      /\ worker[j].pc \in Undecided => items[j][worker[j].row] \notin Brought
  BY StepAhead
<1>1. ~Fault /\ ~Stop(j) BY <1>0 DEF Fault, Stop
<1>2. Linking = {"look", "insert", "choose", "adopt", "file"} BY DEF Linking
<1>3. CASE Aside(j)
  <2>1. items' = items /\ worker[j].pc \notin Held /\ worker'[j].pc \notin Held
    BY <1>3, AsideRests
  <2> QED BY <1>2, <2>1, MineIn, MineNext DEF Held
<1>4. ASSUME worker[j].pc \in Undecided \ {"file"}, items' = items,
             \/ worker'[j].pc \in Undecided \ {"file"}
             \/ worker'[j].pc = "setItem" /\ worker'[j].outcome \notin Brought
      PROVE  Mine(j) \in RowsDone(i)' <=> Mine(j) \in RowsDone(i)
  BY <1>0, <1>2, <1>4, MineIn, MineNext DEF Undecided
<1> DEFINE Vain == {"refreshed", "skipped", "failed"}
           Ahead == {"create", "look", "insert", "choose", "adopt"}
<1>5. /\ Vain \subseteq Settled /\ Vain \cap Brought = {}
      /\ {"linked", "counted"} \subseteq Settled
      /\ Ahead \subseteq Steps /\ "setItem" \in Steps
      /\ Ahead \subseteq Undecided \ {"file"} /\ "row" \in Undecided \ {"file"}
  BY DEF Settled, Done, Brought, Added, Steps, Undecided, Linking
<1>6. ASSUME NEW pc \in Ahead, Goto(j, pc) PROVE worker'[j].pc \in Undecided \ {"file"}
  BY <1>0, <1>5, <1>6, GotoMoves
<1>7. ASSUME NEW pc \in Ahead, NEW how \in Settled, Decide(j, pc, how)
      PROVE  worker'[j].pc \in Undecided \ {"file"}
  BY <1>0, <1>5, <1>7, DecideMoves
<1>8. ASSUME NEW how \in Vain, Outcome(j, how)
      PROVE  worker'[j].pc = "setItem" /\ worker'[j].outcome \notin Brought
  BY <1>0, <1>5, <1>8, DecideMoves DEF Outcome
<1>9. CASE ReadRow(j)
  <2>1. worker[j].pc = "row" /\ items' = items BY <1>9 DEF ReadRow
  <2>2. \/ worker'[j].pc \in Undecided \ {"file"}
        \/ worker'[j].pc = "setItem" /\ worker'[j].outcome \notin Brought
    BY <1>1, <1>5, <1>6, <1>7, <1>8, <1>9 DEF ReadRow
  <2> QED BY <1>4, <1>5, <2>1, <2>2
<1>10. CASE LookForCopy(j)
  <2>1. worker[j].pc = "look" /\ items' = items BY <1>10 DEF LookForCopy
  <2>2. worker'[j].pc \in Undecided \ {"file"} BY <1>1, <1>6, <1>10 DEF LookForCopy
  <2> QED BY <1>4, <1>5, <2>1, <2>2
<1>11. CASE InsertCopy(j)
  <2>1. worker[j].pc = "insert" /\ items' = items BY <1>11 DEF InsertCopy
  <2>2. worker'[j].pc \in Undecided \ {"file"} BY <1>6, <1>11 DEF InsertCopy
  <2> QED BY <1>4, <1>5, <2>1, <2>2
<1>12. CASE ChooseCopy(j)
  <2>1. worker[j].pc = "choose" /\ items' = items BY <1>12 DEF ChooseCopy
  <2>2. Isbn(j) \in ISBNs BY <1>2, <2>1, RowIsbn DEF Undecided, Isbn
  <2>3. Bare(Isbn(j)) \cup {0} \subseteq Nat BY <2>2, BareCopies
  <2>4. ASSUME NEW c \in Nat, worker' = [worker EXCEPT ![j].pc = "adopt", ![j].pick = c]
        PROVE  worker'[j].pc \in Undecided \ {"file"}
    BY <1>0, <1>5, <2>4, PickMoves
  <2>5. worker'[j].pc \in Undecided \ {"file"} BY <1>1, <1>12, <2>3, <2>4 DEF ChooseCopy
  <2> QED BY <1>4, <1>5, <2>1, <2>5
<1>13. CASE FileCopy(j)
  <2>1. worker[j].pc = "file" /\ items' = items /\ Goto(j, "setItem")
    BY <1>1, <1>13 DEF FileCopy
  <2>2. /\ worker'[j].pc = "setItem" /\ worker'[j].outcome = worker[j].outcome
        /\ worker'[j].row = worker[j].row
    BY <1>0, <1>5, <2>1, GotoMoves DEF Keeps
  <2> QED BY <2>1, <2>2, MineIn, MineNext
<1>14. CASE UpdateItemStatus(j)
  <2>1. /\ worker[j].pc = "setItem" /\ worker'[j].pc = "report"
        /\ items[j][worker[j].row] \in Unsettled
        /\ items'[j][worker[j].row] = worker[j].outcome
    BY <1>1, <1>14, WrittenDown
  <2>2. items[j][worker[j].row] \notin Brought BY <2>1 DEF Unsettled, Brought, Added
  <2> QED BY <1>0, <2>1, <2>2, MineIn, MineNext
<1>15. CASE CreateJob(j)
  <2>1. /\ worker' = worker
        /\ \A r \in Rows(j) : items[j][r] = "absent" /\ items'[j][r] = "pending"
    BY <1>0, <1>15 DEF CreateJob, Placement, Placed, Shared, Tables
  <2>2. "absent" \notin Brought /\ "pending" \notin Brought BY DEF Brought, Added
  <2>3. Mine(j) \in RowsOf(i) => worker[j].row \in Rows(j) BY MineIn
  <2> QED BY <2>1, <2>2, <2>3, MineIn, MineNext
<1>16. CASE Enqueue(j) \/ Cancel(j)
  <2>1. worker' = worker /\ items' = items BY <1>16 DEF Enqueue, Cancel
  <2> QED BY <2>1, MineIn, MineNext
<1>17. ~Delete(j) /\ ~DeleteUmbrella(j)
  BY SetStatus DEF Delete, DeleteUmbrella, ImportStatus, NoneGone
<1> QED BY <1>1, <1>3, <1>9, <1>10, <1>11, <1>12, <1>13, <1>14, <1>15, <1>16, <1>17
        DEF Work, OutsideWork, Aside

\* copies and rows go on answering to each other
LEMMA StockStays ==
    ASSUME Invariant, Placement, NEW j \in Jobs, Work(j) \/ OutsideWork(j),
           NEW i \in ISBNs, Covered(i), Stocked(i)
    PROVE  Covered(i)' /\ Stocked(i)'
<1>1. CASE ~NoneGone' BY <1>1 DEF Covered, Stocked
<1>2. CASE NoneGone'
  <2>0. Shared BY DEF Invariant
  <2>1. CASE InsertCopy(j) BY <1>2, <2>1, InsertStocks
  <2>2. CASE AdoptCopy(j) BY <1>2, <2>2, AdoptStocks
  <2>3. CASE CreateBook(j) BY <1>2, <2>3, CreateStocks
  <2>4. CASE ChooseCopy(j) /\ UNCHANGED faults BY <1>2, <2>4, ChooseStocks
  <2>5. CASE ChooseCopy(j) /\ ~UNCHANGED faults
    <3>1. /\ Fault /\ stops' = stops /\ UNCHANGED store /\ Outcome(j, "failed")
      BY <2>5 DEF ChooseCopy
    <3>2. worker'[j].pc = "setItem"
      BY <2>0, <3>1, DecideMoves DEF Outcome, Steps, Settled
    <3> QED BY <1>2, <3>1, <3>2, LostCovers DEF store
  <2>6. CASE ~InsertCopy(j) /\ ~AdoptCopy(j) /\ ~CreateBook(j) /\ ~ChooseCopy(j)
    <3>1. /\ UNCHANGED store
          /\ Stop(j) \/ (stops' = stops /\ (Fault \/ UNCHANGED faults))
          /\ \/ worker' = worker
             \/ /\ worker'[j].pc # "adopt"
                /\ Stop(j) \/ worker[j].pc \notin {"choose", "adopt"}
      BY <1>2, <2>6, StoreRests
    <3>2. copies' = copies /\ editions' = editions /\ crossed' = crossed
      BY <3>1 DEF store
    <3>3. CASE Stop(j) \/ (stops' = stops /\ Fault)
      BY <1>2, <3>1, <3>2, <3>3, LostCovers
    <3>4. CASE UNCHANGED <<stops, faults>> /\ ~Stop(j)
      <4>1. Mine(j) \in RowsDone(i)' <=> Mine(j) \in RowsDone(i)
        BY <1>2, <2>6, <3>4, DoneRests
      <4>2. worker'[j].row = worker[j].row \/ worker'[j].pc \notin Held
        BY <1>2, StepAhead
      <4>3. /\ Mine(j) \in InHand(i) => Mine(j) \in InHand(i)' /\ worker'[j] = worker[j]
            /\ Mine(j) \in Appending(i)' => Mine(j) \in Appending(i)
        <5>1. CASE worker' = worker BY <5>1, MineIn, MineNext
        <5>2. CASE worker'[j].pc # "adopt" /\ worker[j].pc \notin {"choose", "adopt"}
          BY <4>2, <5>2, MineIn, MineNext
        <5> QED BY <3>1, <3>4, <5>1, <5>2
      <4> QED BY <1>2, <3>2, <3>4, <4>1, <4>3, StockRests
    <3> QED BY <3>1, <3>3, <3>4
  <2> QED BY <2>1, <2>2, <2>3, <2>4, <2>5, <2>6
<1> QED BY <1>1, <1>2

\* a row without an ISBN brings its book in the step that makes it done
LEMMA TraceStays ==
    ASSUME Invariant, Placement, NEW j \in Jobs, Work(j) \/ OutsideWork(j),
           \A k \in Jobs : Traced(k), NEW k \in Jobs
    PROVE  Traced(k)'
<1> SUFFICES ASSUME NoneGone', Undisturbed', NEW r \in Rows(k), Csv[k][r].isbn = NoISBN
             PROVE  untraced'[k][r] = IF RowDone(k, r)' THEN 1 ELSE 0
  <2>1. ASSUME NEW r \in Rows(k), Csv[k][r].isbn = NoISBN
        PROVE  <<k, r>> \in RowsDone(NoISBN)' <=> RowDone(k, r)'
    <3>1. <<k, r>> \in RowsOf(NoISBN) /\ RowsOf(NoISBN)' = RowsOf(NoISBN)
      BY <2>1, RowsOfIsbn DEF RowsOf, Rows
    <3> QED BY <3>1 DEF RowsDone
  <2> QED BY <2>1 DEF Traced, One, Rows
<1>0. /\ Shared /\ NoneGone /\ Undisturbed /\ ~Fault /\ ~Stop(j)
      /\ worker'[j].row = worker[j].row \/ worker'[j].pc \notin Held
      /\ worker[j].pc \in Undecided => items[j][worker[j].row] \notin Brought
  BY CalmBack, StepAhead
<1>1. untraced[k][r] = IF RowDone(k, r) THEN 1 ELSE 0
  <2>1. <<k, r>> \in RowsOf(NoISBN) BY RowsOfIsbn
  <2>2. <<k, r>> \in RowsDone(NoISBN) <=> RowDone(k, r) BY <2>1 DEF RowsDone
  <2> QED BY <1>0, <2>2 DEF Traced, One
<1>2. /\ NoISBN \notin ISBNs /\ untraced = [n \in Jobs |-> untraced[n]]
      /\ untraced[j] \in [Rows(j) -> Nat] /\ UNCHANGED <<stops, faults>>
  BY <1>0, ImportAssumption DEF Invariant, Shared, Tables, Import, Undisturbed
<1>3. ASSUME untraced'[k] = untraced[k],
             <<k, r>> = Mine(j) => (Mine(j) \in RowsDone(NoISBN)'
                                     <=> Mine(j) \in RowsDone(NoISBN))
      PROVE  untraced'[k][r] = IF RowDone(k, r)' THEN 1 ELSE 0
  <2>1. CASE <<k, r>> # Mine(j) BY <1>1, <1>3, <2>1, OtherRows
  <2>2. CASE <<k, r>> = Mine(j)
    <3>1. <<k, r>> \in RowsOf(NoISBN) /\ RowsOf(NoISBN)' = RowsOf(NoISBN)
      BY RowsOfIsbn DEF RowsOf, Rows
    <3>2. /\ <<k, r>> \in RowsDone(NoISBN) <=> RowDone(k, r)
          /\ <<k, r>> \in RowsDone(NoISBN)' <=> RowDone(k, r)'
      BY <3>1 DEF RowsDone
    <3> QED BY <1>1, <1>3, <2>2, <3>2
  <2> QED BY <2>1, <2>2
<1>4. CASE AdoptCopy(j)
  <2>1. worker[j].pc = "adopt" /\ untraced' = untraced BY <1>4 DEF AdoptCopy, WriteCopies
  <2>2. Csv[j][worker[j].row].isbn \in ISBNs BY <2>1, RowIsbn DEF Undecided, Linking, Row
  <2>3. <<k, r>> # Mine(j) BY <1>2, <2>2 DEF Mine
  <2> QED BY <1>3, <2>1, <2>3
<1>5. CASE CreateBook(j)
  <2>1. worker[j].pc = "create" /\ items' = items /\ worker[j].row \in Rows(j)
    BY <1>5, RowOpen DEF CreateBook, Undecided
  <2>2. Mine(j) \notin RowsDone(NoISBN) BY <1>0, <2>1, MineIn DEF Undecided
  <2>3. {"failed", "imported"} \subseteq Settled /\ "setItem" \in Steps
        /\ "imported" \in Brought /\ "failed" \notin Brought
    BY DEF Settled, Done, Brought, Added, Steps
  <2>4. ASSUME NEW how \in Settled, Outcome(j, how)
        PROVE  /\ worker'[j].pc = "setItem" /\ worker'[j].outcome = how
               /\ worker'[j].row = worker[j].row
    BY <1>0, <2>3, <2>4, DecideMoves DEF Outcome, Keeps
  <2>5. CASE Outcome(j, "failed") /\ untraced' = untraced
    <3>1. worker'[j].outcome = "failed" /\ worker'[j].row = worker[j].row
      BY <2>3, <2>4, <2>5
    <3>2. Mine(j) \notin RowsDone(NoISBN)'
      BY <1>0, <2>1, <2>3, <3>1, MineNext DEF Undecided
    <3> QED BY <1>3, <2>2, <2>5, <3>2
  <2>6. CASE Outcome(j, "imported") /\ Isbn(j) # NoISBN /\ untraced' = untraced
    <3>1. <<k, r>> # Mine(j) BY <2>6 DEF Mine, Isbn, Row
    <3> QED BY <1>3, <2>6, <3>1
  <2>7. CASE /\ Outcome(j, "imported") /\ Isbn(j) = NoISBN
             /\ untraced' = [untraced EXCEPT ![j][Row(j)] = @ + 1]
    <3>1. /\ worker'[j].pc = "setItem" /\ worker'[j].outcome = "imported"
          /\ worker'[j].row = worker[j].row
      BY <2>3, <2>4, <2>7
    <3>2. CASE <<k, r>> = Mine(j)
      <4>1. k = j /\ r = worker[j].row BY <3>2 DEF Mine
      <4>2. untraced'[k][r] = untraced[k][r] + 1 BY <1>2, <2>7, <4>1 DEF Row
      <4>3. ~RowDone(k, r)
        BY <1>0, <2>1, <4>1 DEF RowDone, At, Row, Undecided
      <4>4. RowDone(k, r)' BY <2>3, <3>1, <4>1 DEF RowDone, At, Row
      <4> QED BY <1>1, <4>2, <4>3, <4>4
    <3>3. CASE <<k, r>> # Mine(j)
      <4>1. untraced'[k][r] = untraced[k][r]
        BY <1>2, <2>7, <3>3 DEF Mine, Row, Invariant, Import
      <4> QED BY <1>1, <3>3, <4>1, OtherRows
    <3> QED BY <3>2, <3>3
  <2> QED BY <1>5, <2>5, <2>6, <2>7 DEF CreateBook
<1>6. CASE ~AdoptCopy(j) /\ ~CreateBook(j)
  <2>1. Mine(j) \in RowsDone(NoISBN)' <=> Mine(j) \in RowsDone(NoISBN)
    BY <1>2, <1>6, DoneRests
  <2>2. untraced' = untraced
    <3>1. CASE InsertCopy(j) BY <3>1 DEF InsertCopy, WriteCopies
    <3>2. CASE ChooseCopy(j) BY <3>2 DEF ChooseCopy, store
    <3>3. CASE ~InsertCopy(j) /\ ~ChooseCopy(j) BY <1>6, <3>3, StoreRests DEF store
    <3> QED BY <3>1, <3>2, <3>3
  <2> QED BY <1>3, <2>1, <2>2
<1> QED BY <1>4, <1>5, <1>6

\* copies are never taken away, nor do they change places
LEMMA CopiesStay ==
    ASSUME Invariant, NEW j \in Jobs, Work(j) \/ OutsideWork(j), NEW i \in ISBNs
    PROVE  DOMAIN copies[i] \subseteq DOMAIN copies'[i]
<1>1. copies \in [ISBNs -> Seq(BOOLEAN)] BY DEF Invariant, Shared, Tables
<1>2. copies[i] \in Seq(BOOLEAN) BY <1>1
<1>3. ASSUME NEW b \in BOOLEAN PROVE DOMAIN copies[i] \subseteq DOMAIN Append(copies[i], b)
  BY <1>2, CopyAdded
<1>4. DOMAIN [copies[i] EXCEPT ![worker[j].pick] = TRUE] = DOMAIN copies[i]
  BY <1>2, Marked
<1>5. CASE InsertCopy(j)
  <2>1. copies' = [copies EXCEPT ![Isbn(j)] = Append(copies[Isbn(j)], FALSE)]
    BY <1>5 DEF InsertCopy, WriteCopies
  <2> QED BY <1>1, <1>3, <2>1
<1>6. CASE AdoptCopy(j)
  <2> DEFINE now == IF worker[j].pick = 0 THEN Append(copies[Isbn(j)], TRUE)
                    ELSE [copies[Isbn(j)] EXCEPT ![worker[j].pick] = TRUE]
  <2>1. copies' = [copies EXCEPT ![Isbn(j)] = now] BY <1>6 DEF AdoptCopy, WriteCopies
  <2>2. Isbn(j) = i => DOMAIN copies[i] \subseteq DOMAIN now BY <1>3, <1>4
  <2> HIDE DEF now
  <2> QED BY <1>1, <2>1, <2>2
<1>7. CASE CreateBook(j)
  <2>1. CASE UNCHANGED copies BY <2>1
  <2>2. CASE copies' = [copies EXCEPT ![Isbn(j)] = Append(@, TRUE)] BY <1>1, <1>3, <2>2
  <2> QED BY <1>7, <2>1, <2>2 DEF CreateBook
<1>8. CASE ~InsertCopy(j) /\ ~AdoptCopy(j) /\ ~CreateBook(j)
  <2>1. copies' = copies
    <3>1. CASE Aside(j) BY <3>1, AsideRests DEF store
    <3>2. CASE ReadRow(j) \/ LookForCopy(j) \/ ChooseCopy(j) \/ FileCopy(j) \/ UpdateItemStatus(j)
      BY <3>2 DEF ReadRow, LookForCopy, ChooseCopy, FileCopy, UpdateItemStatus, store
    <3>3. CASE OutsideWork(j)
      BY <3>3 DEF OutsideWork, CreateJob, Enqueue, Cancel, Delete, DeleteUmbrella, Stop, store
    <3> QED BY <1>8, <3>1, <3>2, <3>3 DEF Work, Aside
  <2> QED BY <2>1
<1> QED BY <1>5, <1>6, <1>7, <1>8

\* so a copy that was chosen is there when it is adopted
LEMMA PickedKept ==
    ASSUME Invariant, Placement, NEW j \in Jobs, Work(j) \/ OutsideWork(j), NEW k \in Jobs
    PROVE  Picked(k)'
<1>0. Shared /\ Picked(k) BY DEF Invariant, Placement
<1>1. ASSUME worker'[k] = worker[k] PROVE Picked(k)'
  <2>1. Isbn(k)' = Isbn(k) BY <1>1 DEF Isbn, Row
  <2>2. worker[k].pc = "adopt" => Isbn(k) \in ISBNs
    BY RowIsbn DEF Undecided, Linking, Isbn
  <2>3. worker[k].pc = "adopt" => DOMAIN copies[Isbn(k)] \subseteq DOMAIN copies'[Isbn(k)]
    BY <2>2, CopiesStay
  <2> QED BY <1>0, <1>1, <2>1, <2>3 DEF Picked
<1>2. CASE k # j
  <2>1. worker'[k] = worker[k] BY <1>2, WorkAlone, OutsideAlone DEF Alone
  <2> QED BY <1>1, <2>1
<1>3. ASSUME k = j, worker'[j].pc \notin {"look", "insert", "adopt"} PROVE Picked(k)'
  BY <1>3 DEF Picked
<1>4. CASE k = j
  <2>1. /\ {"create", "look", "choose", "setItem", "insert", "adopt", "file"} \subseteq Steps
        /\ {"linked", "counted", "refreshed", "skipped", "failed", "imported"} \subseteq Settled
    BY DEF Steps, Settled, Done, Brought, Added
  <2>2. ASSUME NEW pc \in Steps \ {"look", "insert", "adopt"}, NEW how \in Settled,
               Decide(j, pc, how)
        PROVE  Picked(k)'
    BY <1>0, <1>3, <1>4, <2>2, DecideMoves
  <2>3. ASSUME NEW pc \in Steps \ {"look", "insert", "adopt"}, Goto(j, pc) PROVE Picked(k)'
    BY <1>0, <1>3, <1>4, <2>3, GotoMoves
  <2>4. ASSUME NEW how \in Settled, Outcome(j, how) PROVE Picked(k)'
    BY <2>1, <2>2, <2>4 DEF Outcome
  <2>5. ASSUME Decide(j, "look", "linked") PROVE Picked(k)'
    BY <1>0, <1>4, <2>1, <2>5, DecideMoves DEF Picked
  <2>6. CASE Aside(j) BY <1>3, <1>4, <2>6, AsideRests DEF Held, Linking
  <2>7. CASE ReadRow(j)
    <3>1. CASE Decide(j, "look", "linked") BY <2>5, <3>1
    <3>2. CASE Decide(j, "choose", "counted") BY <2>1, <2>2, <3>2
    <3>3. CASE Goto(j, "create") BY <2>1, <2>3, <3>3
    <3>4. CASE \E how \in {"skipped", "refreshed", "failed"} : Outcome(j, how)
      BY <2>1, <2>4, <3>4
    <3> QED BY <2>7, <3>1, <3>2, <3>3, <3>4 DEF ReadRow
  <2>8. CASE LookForCopy(j)
    <3>1. CASE Goto(j, "insert")
      <4>1. worker'[j].pc = "insert" /\ worker'[j].outcome = "linked"
        BY <1>0, <1>4, <2>1, <2>8, <3>1, GotoMoves DEF LookForCopy, Picked
      <4> QED BY <1>4, <4>1 DEF Picked
    <3>2. CASE Goto(j, "choose") BY <2>1, <2>3, <3>2
    <3>3. CASE Outcome(j, "failed") BY <2>1, <2>4, <3>3
    <3> QED BY <2>8, <3>1, <3>2, <3>3 DEF LookForCopy
  <2>9. CASE InsertCopy(j) BY <2>1, <2>3, <2>9 DEF InsertCopy
  <2>10. CASE ChooseCopy(j)
    <3>1. CASE Outcome(j, "failed") BY <2>1, <2>4, <3>1
    <3>2. ASSUME NEW c \in Bare(Isbn(j)) \cup {0},
                 worker' = [worker EXCEPT ![j].pc = "adopt", ![j].pick = c]
          PROVE  Picked(k)'
      <4>1. Isbn(j) \in ISBNs BY <2>10, RowIsbn DEF ChooseCopy, Linking, Undecided, Isbn
      <4>2. c \in Nat BY <4>1, BareCopies
      <4>3. /\ worker'[j].pc = "adopt" /\ worker'[j].pick = c /\ worker'[j].row = worker[j].row
        <5>1. "adopt" \in Steps BY <2>1
        <5> QED BY <1>0, <3>2, <4>2, <5>1, PickMoves DEF Keeps
      <4>4. Isbn(j)' = Isbn(j) /\ copies' = copies
        BY <2>10, <4>3 DEF Isbn, Row, ChooseCopy, store
      <4>5. c = 0 \/ c \in DOMAIN copies[Isbn(j)] BY DEF Bare
      <4> QED BY <1>4, <4>3, <4>4, <4>5 DEF Picked
    <3> QED BY <2>10, <3>1, <3>2 DEF ChooseCopy
  <2>11. CASE AdoptCopy(j)
    <3>1. ASSUME NEW pc \in {"file", "setItem"},
                 worker' = [worker EXCEPT ![j].pc = pc, ![j].pick = 0]
          PROVE  Picked(k)'
      BY <1>0, <1>3, <1>4, <2>1, <3>1, PickMoves
    <3> QED BY <2>11, <3>1 DEF AdoptCopy, Recorded
  <2>12. CASE FileCopy(j) BY <2>1, <2>3, <2>4, <2>12 DEF FileCopy
  <2>13. CASE UpdateItemStatus(j)
    <3>1. worker'[j].pc = "report" BY <1>0, <2>13, TallyMoves DEF UpdateItemStatus
    <3> QED BY <1>3, <1>4, <3>1
  <2>14. CASE CreateBook(j) BY <2>1, <2>4, <2>14 DEF CreateBook
  <2>15. CASE Stop(j)
    <3>1. worker'[j].pc = "idle" BY <1>0, <2>15, ReturnMoves DEF Stop, NoAttempt
    <3> QED BY <1>3, <1>4, <3>1
  <2>16. CASE OutsideWork(j) /\ ~Stop(j)
    <3>1. worker' = worker
      BY <2>16 DEF OutsideWork, CreateJob, Enqueue, Cancel, Delete, DeleteUmbrella
    <3> QED BY <1>1, <3>1
  <2> QED BY <2>6, <2>7, <2>8, <2>9, <2>10, <2>11, <2>12, <2>13, <2>14, <2>15, <2>16
          DEF Work, Aside
<1> QED BY <1>2, <1>4
------------------------------------------------------------------------------
(* The invariant *)

\* nothing has happened yet
LEMMA Initially == Init => Invariant
<1> SUFFICES ASSUME Init PROVE Invariant
  OBVIOUS
<1>1. Tables
  BY ImportAssumption DEF Init, Tables, ImportRow, ImportStatus, UmbrellaState, RiverState
<1>2. NoAttempt \in Attempt BY DEF NoAttempt, Attempt, Steps
<1>3. Shared BY <1>1, <1>2 DEF Init, Shared
<1>4. ASSUME NEW j \in Jobs PROVE Import(j)
  <2>1. AttemptFits(j) BY DEF Init, AttemptFits, NoAttempt, Undecided, Linking
  <2>2. CancelledRests(j) BY DEF Init, CancelledRests
  <2> QED BY <2>1, <2>2 DEF Init, Import
<1>5. ASSUME NEW i \in ISBNs PROVE Editions(i)
  <2>1. Creating(i) = {} BY DEF Init, Creating, NoAttempt
  <2>2. Cardinality({}) = 0 BY FS_EmptySet
  <2>3. Cardinality(Mentioning(i)) \in Nat
    BY ImportAssumption, FS_Subset, FS_CardinalityType DEF Mentioning
  <2>4. editions[i] = (IF i \in Elsewhere THEN 1 ELSE 0) /\ faults = 0 BY DEF Init
  <2> QED BY <2>1, <2>2, <2>3, <2>4 DEF Editions
<1> QED BY <1>3, <1>4, <1>5 DEF Invariant

\* every step keeps the invariant
LEMMA Kept == Invariant /\ [Next]_vars => Invariant'
<1> SUFFICES ASSUME Invariant, [Next]_vars PROVE Invariant'
  OBVIOUS
<1>1. CASE UNCHANGED vars
  BY <1>1 DEF Invariant, Shared, Tables, Import, AttemptFits, CancelledRests, Editions,
              Creating, Mentioning, vars, store
<1>2. ASSUME NEW j \in Jobs, Work(j) \/ OutsideWork(j) PROVE Invariant'
  <2>1. Tables' BY <1>2, WorkTables, OutsideTables
  <2>2. Moves(j) /\ \A k \in Jobs : Import(k)' BY <1>2, WorkImports, OutsideImports DEF ImportsKept
  <2>3. Shared' BY <2>1, <2>2 DEF Shared, Moves
  <2>4. \A i \in ISBNs : Editions(i)' BY <1>2, EditionsKept
  <2> QED BY <2>2, <2>3, <2>4 DEF Invariant
<1> QED BY <1>1, <1>2 DEF Next, OutsideWork

\* The invariant holds in every state of every run.
THEOREM InvariantHolds == Spec => []Invariant
<1>1. Init => Invariant BY Initially
<1>2. Invariant /\ [Next]_vars => Invariant' BY Kept
<1> QED BY <1>1, <1>2, PTL DEF Spec

\* what is said of the imports' counters and of what they bring
Bookkeeping == /\ \A j \in Jobs : Placed(j) /\ Picked(j) /\ Accounted(j) /\ Traced(j)
               /\ \A i \in ISBNs : Covered(i) /\ Stocked(i)

\* nothing is counted and nothing is brought yet
LEMMA KeepsBooksInitially == Init => Bookkeeping
<1> SUFFICES ASSUME Init PROVE Bookkeeping
  OBVIOUS
<1>1. ASSUME NEW j \in Jobs PROVE Placed(j) /\ Picked(j)
  BY DEF Init, Placed, Picked, NoAttempt
<1>2. ASSUME NEW j \in Jobs PROVE Accounted(j)
  <2>1. worker[j].pc = "idle" /\ river[j] = "none" /\ imports[j].status = "absent"
    BY DEF Init, NoAttempt
  <2>2. Ended(j, Settled) = {} BY DEF Init, Ended, Settled, Done, Brought, Added
  <2>3. \A type : Handed(type, j) = {} BY DEF Init, Handed
  <2> QED BY <2>1, <2>2, <2>3 DEF Accounted, HandedOver
<1>3. ASSUME NEW i PROVE RowsDone(i) = {} /\ InHand(i) = {} /\ Appending(i) = {}
  <2>1. ASSUME NEW p \in RowsOf(i)
        PROVE  ~RowDone(p[1], p[2]) /\ ~At(p[1], p[2], {"choose", "adopt"})
    BY RowsOfIsbn DEF Init, RowDone, At, NoAttempt, Brought, Added
  <2> QED BY <2>1 DEF RowsDone, InHand, Appending
<1>4. ASSUME NEW j \in Jobs PROVE Traced(j)
  <2>1. \A r \in Rows(j) : untraced[j][r] = 0 BY DEF Init
  <2> QED BY <1>3, <2>1 DEF Traced, One
<1>5. ASSUME NEW i \in ISBNs PROVE Covered(i) /\ Stocked(i)
  <2>1. Printed(i) = {} /\ Bare(i) = {} /\ Further(i) = 0 /\ Len(copies[i]) = 0
    BY DEF Init, Printed, Bare, Further
  <2>2. /\ Cardinality(Printed(i)) = 0 /\ Cardinality(RowsDone(i)) = 0
        /\ Cardinality(InHand(i)) = 0 /\ Cardinality(Appending(i)) = 0
    <3>1. /\ Printed(i) = {} /\ RowsDone(i) = {} /\ InHand(i) = {} /\ Appending(i) = {}
      BY <1>3, <2>1
    <3> QED BY <3>1, FS_EmptySet
  <2>3. Shown(i) = 0 /\ Stock(i) = 0 BY <2>1, <2>2 DEF Shown, Stock, Present
  <2>a. stops = 0 /\ faults = 0 BY DEF Init
  <2>4. Owing(i) = 0 BY <2>2, <2>a DEF Owing
  <2>5. Due(i) = 0 BY <2>2, <2>4 DEF Due
  <2>6. Covered(i) BY <2>3, <2>4, <2>5 DEF Covered
  <2>7. Stocked(i)
    <3>1. Bare(i) = {} BY <2>1
    <3>2. Cardinality(RowsDone(i)) <= Cardinality(Printed(i)) + Further(i) BY <2>1, <2>2
    <3> QED BY <3>1, <3>2 DEF Stocked
  <2> QED BY <2>6, <2>7
<1> QED BY <1>1, <1>2, <1>4, <1>5 DEF Bookkeeping

\* every step keeps the books
LEMMA BooksKept == Invariant /\ Bookkeeping /\ [Next]_vars => Bookkeeping'
<1> SUFFICES ASSUME Invariant, Bookkeeping, [Next]_vars PROVE Bookkeeping'
  OBVIOUS
<1>1. CASE UNCHANGED vars
  <2> USE <1>1 DEF vars, store
  <2>1. ASSUME NEW j \in Jobs PROVE Placed(j)' /\ Picked(j)'
    BY DEF Bookkeeping, Placed, Picked, Rows, Isbn, Row
  <2>2. ASSUME NEW j \in Jobs PROVE Accounted(j)'
    <3>1. \A how : Ended(j, how)' = Ended(j, how) BY EndedRests
    <3>2. \A type : Handed(type, j)' = Handed(type, j) BY DEF Handed, Rows
    <3>3. Tallied(j) => Tallied(j)' BY <3>1 DEF Tallied
    <3>4. Reported(j) => Reported(j)' BY <3>1 DEF Reported
    <3>5. HandedOver(j) => HandedOver(j)' BY <3>1, <3>2 DEF HandedOver
    <3> QED BY <3>1, <3>3, <3>4, <3>5 DEF Bookkeeping, Accounted, Undisturbed, Live
  <2>3. ASSUME NEW i
        PROVE  /\ RowsDone(i)' = RowsDone(i) /\ InHand(i)' = InHand(i)
               /\ Appending(i)' = Appending(i)
    BY DEF RowsDone, InHand, Appending, RowsOf, RowDone, At, Row, Rows
  <2>4. (NoneGone' <=> NoneGone) /\ (Undisturbed' <=> Undisturbed) BY DEF NoneGone, Undisturbed
  <2>5. ASSUME NEW j \in Jobs PROVE Traced(j)'
    BY <2>3, <2>4 DEF Bookkeeping, Traced, Rows
  <2>6. ASSUME NEW i \in ISBNs PROVE Covered(i)' /\ Stocked(i)'
    <3>1. Printed(i)' = Printed(i) /\ Bare(i)' = Bare(i) /\ Further(i)' = Further(i)
      BY DEF Printed, Bare, Further
    <3>2. /\ Shown(i)' = Shown(i) /\ Stock(i)' = Stock(i) /\ Owing(i)' = Owing(i)
          /\ Due(i)' = Due(i)
      BY <2>3, <3>1 DEF Shown, Stock, Present, Owing, Due
    <3>3. Covered(i)' BY <2>4, <3>2 DEF Bookkeeping, Covered
    <3>4. Stocked(i)' BY <2>3, <2>4, <3>1 DEF Bookkeeping, Stocked
    <3> QED BY <3>3, <3>4
  <2> QED BY <2>1, <2>2, <2>5, <2>6 DEF Bookkeeping
<1>2. ASSUME NEW j \in Jobs, Work(j) \/ OutsideWork(j) PROVE Bookkeeping'
  <2>1. Placement BY DEF Bookkeeping, Placement
  <2>2. ASSUME NEW k \in Jobs PROVE Placed(k)' /\ Accounted(k)'
    BY <1>2, WorkAccounted, OutsideAccounted, OthersAccounted DEF Bookkeeping
  <2>3. ASSUME NEW k \in Jobs PROVE Picked(k)' /\ Traced(k)'
    BY <1>2, <2>1, PickedKept, TraceStays DEF Bookkeeping
  <2>4. ASSUME NEW i \in ISBNs PROVE Covered(i)' /\ Stocked(i)'
    BY <1>2, <2>1, StockStays DEF Bookkeeping
  <2> QED BY <2>2, <2>3, <2>4 DEF Bookkeeping
<1> QED BY <1>1, <1>2 DEF Next, OutsideWork

\* The counters and the copies answer to the rows in every state of every run.
THEOREM BooksHold == Spec => []Bookkeeping
<1>1. Init => Bookkeeping BY KeepsBooksInitially
<1>2. Invariant /\ Bookkeeping /\ [Next]_vars => Bookkeeping' BY BooksKept
<1> QED BY <1>1, <1>2, InvariantHolds, PTL DEF Spec

------------------------------------------------------------------------------
(* The properties *)

\* TypeOK: the columns keep to their vocabularies and an attempt to its program
\* points and to rows of its own import.
THEOREM TypesHold == Spec => []TypeOK
<1>1. Invariant => TypeOK
  <2> SUFFICES ASSUME Invariant PROVE TypeOK
    OBVIOUS
  <2>1. ASSUME NEW j \in Jobs
        PROVE  /\ items[j] \in [Rows(j) -> {"absent", "pending", "gone"} \cup Settled]
               /\ untraced[j] \in [Rows(j) -> Nat]
               /\ worker[j].todo \subseteq Rows(j) /\ worker[j].row \in Rows(j) \cup {0}
               /\ worker[j].fresh \subseteq Rows(j)
    BY DEF Invariant, Import, AttemptFits
  <2>2. ASSUME NEW j \in Jobs
        PROVE  /\ worker[j].outcome \in Settled \cup {"pending"}
               /\ worker[j].pick \in Nat /\ worker[j].pc \in Steps
    BY DEF Invariant, Shared, Attempt
  <2> QED BY <2>1, <2>2 DEF TypeOK, Invariant, Shared, Tables, ImportRow, UmbrellaState,
                            RiverState, Steps
<1> QED BY <1>1, InvariantHolds, PTL

\* SettledRowsRest: whatever attempts died before it and whatever statement of
\* theirs was lost, the attempt that runs decides only on rows without a result
\* (ListPendingItems, processItem), so no row is imported twice once its result
\* is written down.
THEOREM SettledRowsStay == Spec => []SettledRowsRest
<1>1. Invariant => SettledRowsRest
  BY DEF Invariant, Import, AttemptFits, SettledRowsRest, Undecided, Linking, Unsettled, Row
<1> QED BY <1>1, InvariantHolds, PTL

\* CancelStopsImport: an import no attempt of which loses a status read starts
\* no row after CancelJob, and each read that is lost lets one row through: the
\* counters' UPDATE never turns a cancelled row back into a processing one.
THEOREM CancelHolds == Spec => []CancelStopsImport
<1>1. Invariant => CancelStopsImport
  BY DEF Invariant, Import, CancelledRests, CancelStopsImport
<1> QED BY <1>1, InvariantHolds, PTL

\* CatalogueIsbnPerImport: however often attempts die between CreateBook and the
\* UPDATE of the row's item, an ISBN gets at most one edition per import that
\* mentions it, one more for each lookup that failed.
THEOREM EditionPerImport == Spec => []CatalogueIsbnPerImport
<1>1. Invariant => CatalogueIsbnPerImport
  <2> SUFFICES ASSUME Invariant, NEW i \in ISBNs
               PROVE  editions[i] <= (IF i \in Elsewhere THEN 1 ELSE 0) + faults
                                     + Cardinality({p[1] : p \in RowsOf(i)})
    BY DEF CatalogueIsbnPerImport
  <2>1. {p[1] : p \in RowsOf(i)} = Mentioning(i)
    <3>1. ASSUME NEW j \in Mentioning(i) PROVE j \in {p[1] : p \in RowsOf(i)}
      <4>1. PICK r \in Rows(j) : Csv[j][r].isbn = i BY <3>1 DEF Mentioning
      <4>2. <<j, r>> \in RowsOf(i) BY <3>1, <4>1 DEF RowsOf, Mentioning
      <4>3. <<j, r>>[1] = j OBVIOUS
      <4> QED BY <4>2, <4>3
    <3>2. ASSUME NEW p \in RowsOf(i) PROVE p[1] \in Mentioning(i)
      BY <3>2 DEF RowsOf, Mentioning
    <3> QED BY <3>1, <3>2
  <2>2. /\ editions[i] \in Nat /\ faults \in Nat /\ Cardinality(Creating(i)) \in Nat
        /\ Cardinality(Mentioning(i)) \in Nat /\ Editions(i)
    BY ImportAssumption, Creators DEF Invariant, Shared, Tables
  <2> QED BY <2>1, <2>2 DEF Editions
<1> QED BY <1>1, InvariantHolds, PTL

\* ReportMatchesRows: an import whose only attempt reached UpdateJobStatus(done)
\* has on its row the counts of what its items say, whatever its options make of
\* a duplicate; and once Work is through, the metadata batch has the books that
\* were created or linked for its rows if the options ask for one, and the cover
\* batch none but these.
THEOREM ReportsMatch == Spec => []ReportMatchesRows
<1>1. Bookkeeping => ReportMatchesRows
  <2> SUFFICES ASSUME Bookkeeping, NEW j \in Jobs, Undisturbed, imports[j].status = "done"
               PROVE  /\ Reported(j)
                      /\ river[j] = "completed"
                            => /\ Handed("metadata", j)
                                    = IF Options[j].metadata THEN Ended(j, Added) ELSE {}
                               /\ Handed("cover", j) \subseteq
                                      IF Options[j].covers THEN Ended(j, Added) ELSE {}
    BY DEF ReportMatchesRows, Reported
  <2>1. Live(j) BY DEF Live
  <2>2. Accounted(j) BY DEF Bookkeeping
  <2> QED BY <2>1, <2>2 DEF Accounted, HandedOver
<1> QED BY <1>1, BooksHold, PTL

\* CopiesMatchRows: however the imports' duplicate checks, AddBookToLibrary and
\* IncrementCopyCount, each a read and a write that others may come between, and
\* their book transactions interleave, and whatever dies or is lost, an ISBN has
\* no more copies than rows that brought one or are about to, but for one per
\* loss; while nothing was lost and no two of those statements overlapped on the
\* ISBN, its copies that say their edition are its done rows, one for one.
THEOREM CopiesMatch == Spec => []CopiesMatchRows
<1>1. Invariant /\ Bookkeeping => CopiesMatchRows
  <2> SUFFICES ASSUME Invariant, Bookkeeping, NoneGone PROVE CopiesMatchRows
    BY DEF CopiesMatchRows
  <2>1. ASSUME NEW i \in ISBNs
        PROVE  Len(copies[i]) + Further(i)
                 <= Cardinality(RowsDone(i)) + Cardinality(InHand(i)) + stops + faults
    <3>1. Stock(i) <= Due(i) BY DEF Bookkeeping, Covered
    <3>2. Present(i) <= Due(i) BY <3>1, Numbers DEF Stock
    <3> DEFINE d == Cardinality(RowsDone(i))
               h == Cardinality(InHand(i))
    <3>3. d \in Nat /\ h \in Nat /\ stops \in Nat /\ faults \in Nat
      BY RowsCounted, Stocktaking
    <3>4. Due(i) = (d + (stops + faults)) + h BY DEF Due, Owing
    <3> HIDE DEF d, h
    <3>5. Due(i) = d + h + stops + faults BY <3>3, <3>4
    <3> QED BY <3>2, <3>5 DEF Present, d, h
  <2>2. ASSUME NEW i \in ISBNs, Undisturbed, i \notin crossed
        PROVE  /\ Cardinality(Printed(i)) + Further(i) = Cardinality(RowsDone(i))
               /\ Bare(i) # {} => \E p \in InHand(i) : worker[p[1]].outcome = "linked"
    <3>1. Stocked(i) /\ Shown(i) <= Owing(i) BY DEF Bookkeeping, Covered
    <3>2. Owing(i) = Cardinality(RowsDone(i)) BY <2>2, Numbers DEF Owing, Undisturbed
    <3>3. Cardinality(RowsDone(i)) <= Shown(i) BY <2>2, <3>1 DEF Stocked, Shown
    <3>4. Shown(i) = Cardinality(RowsDone(i)) BY <3>1, <3>2, <3>3, Numbers
    <3>5. Bare(i) # {} => \E p \in InHand(i) : worker[p[1]].outcome = "linked"
      BY <2>2, <3>1 DEF Stocked
    <3> QED BY <3>4, <3>5 DEF Shown
  <2>3. ASSUME NEW p \in RowsOf(NoISBN), Undisturbed
        PROVE  untraced[p[1]][p[2]] = IF RowDone(p[1], p[2]) THEN 1 ELSE 0
    <3>1. /\ p = <<p[1], p[2]>> /\ p[1] \in Jobs /\ p[2] \in Rows(p[1])
          /\ Csv[p[1]][p[2]].isbn = NoISBN
      BY RowsOfIsbn
    <3>2. Traced(p[1]) BY <3>1 DEF Bookkeeping
    <3>3. p \in RowsDone(NoISBN) <=> RowDone(p[1], p[2]) BY DEF RowsDone
    <3> QED BY <2>3, <3>1, <3>2, <3>3 DEF Traced, One
  <2> QED BY <2>1, <2>2, <2>3 DEF CopiesMatchRows
<1> QED BY <1>1, InvariantHolds, BooksHold, PTL

------------------------------------------------------------------------------
(* Each import as a list of work *)

\* the points of an attempt that has listed its rows and has some of them ahead
Listed == Undecided \cup {"check", "setItem", "report", "mirrorReport"}
Ahead(j) == worker[j].todo \cup
            (IF worker[j].pc \in Undecided \cup {"setItem"} THEN {worker[j].row} ELSE {})
Waiting(j) == {r \in Rows(j) : items[j][r] = "pending"}
Behind(j) == Waiting(j) \ Ahead(j)

\* a row the attempt has left behind without a result is a statement that was
\* lost; StartImport stores all rows or none
LeftBehind(j) == worker[j].pc \in Listed => Cardinality(Behind(j)) <= faults
Stored(j) == imports[j].status # "absent" => \A r \in Rows(j) : items[j][r] # "absent"

\* lost statements are counted, one at a time
LEMMA FaultsCounted ==
    ASSUME Invariant, NEW j \in Jobs, Work(j) \/ OutsideWork(j)
    PROVE  faults \in Nat /\ FaultsGrow
<1>1. faults \in Nat BY ImportAssumption DEF Invariant, Shared, Tables
<1>2. CASE \/ Load(j) \/ MarkProcessing(j) \/ MirrorProcessing(j) \/ ListPendingItems(j)
           \/ CheckCancelled(j) \/ UpdateItemStatus(j)
  BY <1>1, <1>2, FaultsFit DEF Load, MarkProcessing, MirrorProcessing, ListPendingItems,
     CheckCancelled, UpdateItemStatus
<1>3. CASE \/ ReadRow(j) \/ LookForCopy(j) \/ InsertCopy(j) \/ ChooseCopy(j) \/ AdoptCopy(j)
           \/ FileCopy(j) \/ CreateBook(j)
  <2>1. Fault \/ UNCHANGED faults
    BY <1>3 DEF ReadRow, LookForCopy, InsertCopy, ChooseCopy, AdoptCopy, FileCopy, CreateBook
  <2> QED BY <1>1, <2>1, FaultsFit
<1>4. CASE Report(j) \/ MirrorReport(j) \/ Finish(j) \/ MirrorDone(j)
  BY <1>1, <1>4, FaultsFit DEF Report, MirrorReport, Finish, MirrorDone
<1>5. CASE SpawnMetadata(j) \/ SpawnCovers(j)
  <2>1. Fault \/ UNCHANGED faults BY <1>5 DEF SpawnMetadata, SpawnCovers, Spawn
  <2> QED BY <1>1, <2>1, FaultsFit
<1>6. CASE OutsideWork(j)
  <2>1. Fault \/ UNCHANGED faults
    BY <1>6 DEF OutsideWork, CreateJob, Enqueue, Cancel, Delete, DeleteUmbrella, Stop
  <2> QED BY <1>1, <2>1, FaultsFit
<1> QED BY <1>2, <1>3, <1>4, <1>5, <1>6 DEF Work

\* an attempt that leaves no further row behind
LEMMA NoneLeft ==
    ASSUME Invariant, NEW j \in Jobs, LeftBehind(j), worker[j].pc \in Listed, FaultsGrow,
           Behind(j)' \subseteq Behind(j)
    PROVE  LeftBehind(j)'
<1>1. IsFiniteSet(Behind(j))
  <2>1. Behind(j) \subseteq Rows(j) BY DEF Behind, Waiting
  <2> QED BY <2>1, RowsFinite, FS_Subset
<1>2. IsFiniteSet(Behind(j)') /\ Cardinality(Behind(j)') <= Cardinality(Behind(j))
  BY <1>1, FS_Subset
<1>3. Cardinality(Behind(j)') \in Nat /\ Cardinality(Behind(j)) \in Nat
  BY <1>1, <1>2, FS_CardinalityType
<1>4. Cardinality(Behind(j)') <= faults'
  <2>1. faults \in Nat BY ImportAssumption DEF Invariant, Shared, Tables
  <2> QED BY <1>2, <1>3, <2>1 DEF LeftBehind, FaultsGrow
<1> QED BY <1>4 DEF LeftBehind

\* an attempt that leaves one behind to a statement that was lost
LEMMA OneLeft ==
    ASSUME Invariant, NEW j \in Jobs, LeftBehind(j), worker[j].pc \in Listed,
           faults' = faults + 1, NEW r, Behind(j)' \subseteq Behind(j) \cup {r}
    PROVE  LeftBehind(j)'
<1>1. IsFiniteSet(Behind(j))
  <2>1. Behind(j) \subseteq Rows(j) BY DEF Behind, Waiting
  <2> QED BY <2>1, RowsFinite, FS_Subset
<1>2. /\ IsFiniteSet(Behind(j) \cup {r})
      /\ Cardinality(Behind(j) \cup {r}) =
            IF r \in Behind(j) THEN Cardinality(Behind(j)) ELSE Cardinality(Behind(j)) + 1
  BY <1>1, FS_AddElement
<1>3. IsFiniteSet(Behind(j)') /\ Cardinality(Behind(j)') <= Cardinality(Behind(j) \cup {r})
  BY <1>2, FS_Subset
<1>4. Cardinality(Behind(j)') \in Nat /\ Cardinality(Behind(j)) \in Nat
  BY <1>1, <1>3, FS_CardinalityType
<1>5. Cardinality(Behind(j)') <= faults'
  <2>1. faults \in Nat BY ImportAssumption DEF Invariant, Shared, Tables
  <2> QED BY <1>2, <1>3, <1>4, <2>1 DEF LeftBehind
<1> QED BY <1>5 DEF LeftBehind

\* the steps of an attempt
LEMMA WorkLeaves ==
    ASSUME Invariant, NEW j \in Jobs, LeftBehind(j), Work(j)
    PROVE  LeftBehind(j)'
<1>0. /\ Shared /\ FaultsGrow /\ AttemptFits(j) /\ items = [k \in Jobs |-> items[k]]
      /\ items[j] \in [Rows(j) -> {"absent", "pending", "gone"} \cup Settled]
  BY FaultsCounted DEF Invariant, Import, Shared, Tables
<1>1. ASSUME worker'[j].pc \notin Listed PROVE LeftBehind(j)'
  BY <1>1 DEF LeftBehind
<1>2. ASSUME NEW state, Return(j, state) PROVE LeftBehind(j)'
  <2>1. worker'[j] = NoAttempt BY <1>0, <1>2, ReturnMoves
  <2> QED BY <1>1, <2>1 DEF NoAttempt, Listed, Undecided, Linking
<1>3. ASSUME NEW pc \in Steps \ Listed, Goto(j, pc) PROVE LeftBehind(j)'
  BY <1>0, <1>1, <1>3, GotoMoves
<1>4. ASSUME items' = items, worker[j].pc \in Listed,
             Ahead(j) \subseteq Ahead(j)'
      PROVE  LeftBehind(j)'
  <2>1. Behind(j)' \subseteq Behind(j) BY <1>4 DEF Behind, Waiting, Rows
  <2> QED BY <1>0, <1>4, <2>1, NoneLeft
\* between two rows
<1>5. ASSUME NEW pc \in {"check", "mirrorReport"}, Goto(j, pc), items' = items,
             worker[j].pc \in {"report", "mirrorReport"}
      PROVE  LeftBehind(j)'
  <2>1. Keeps(j) /\ worker'[j].pc = pc BY <1>0, <1>5, GotoMoves DEF Steps
  <2>2. Ahead(j)' = Ahead(j) BY <1>5, <2>1 DEF Ahead, Keeps, Undecided, Linking
  <2> QED BY <1>4, <1>5, <2>2 DEF Listed
\* a row is decided on
<1>6. ASSUME Keeps(j), items' = items, worker[j].pc \in Undecided,
             worker'[j].pc \in Undecided \cup {"setItem"}
      PROVE  LeftBehind(j)'
  <2>1. Ahead(j)' = Ahead(j) BY <1>6 DEF Ahead, Keeps
  <2> QED BY <1>4, <1>6, <2>1 DEF Listed
<1>7. ASSUME NEW pc \in Undecided, Goto(j, pc), items' = items, worker[j].pc \in Undecided
      PROVE  LeftBehind(j)'
  <2>1. Keeps(j) /\ worker'[j].pc = pc BY <1>0, <1>7, GotoMoves DEF Steps, Undecided, Linking
  <2> QED BY <1>6, <1>7, <2>1
<1>8. ASSUME NEW pc \in Undecided \cup {"setItem"}, NEW how \in Settled, Decide(j, pc, how),
             items' = items, worker[j].pc \in Undecided
      PROVE  LeftBehind(j)'
  <2>1. pc \in Steps BY <1>8 DEF Steps, Undecided, Linking
  <2>2. Keeps(j) /\ worker'[j].pc = pc BY <1>0, <1>8, <2>1, DecideMoves
  <2> QED BY <1>6, <1>8, <2>2
<1>9. /\ {"mark", "mirrorMark", "list", "mirrorDone", "spawn", "spawnCovers"}
              \subseteq Steps \ Listed
      /\ {"imported", "linked", "counted", "refreshed", "failed", "skipped"} = Settled
      /\ {"row", "look", "insert", "choose", "adopt", "file", "create"} = Undecided
  BY DEF Steps, Listed, Undecided, Linking, Settled, Done, Brought, Added
<1>10. CASE Load(j) BY <1>2, <1>3, <1>9, <1>10 DEF Load
<1>11. CASE MarkProcessing(j) BY <1>2, <1>3, <1>9, <1>11 DEF MarkProcessing
<1>12. CASE MirrorProcessing(j) BY <1>2, <1>3, <1>9, <1>12 DEF MirrorProcessing
<1>13. CASE ListPendingItems(j)
  <2>1. CASE worker' = [worker EXCEPT ![j].pc = "check", ![j].todo = Waiting(j)]
    <3>1. Waiting(j) \in SUBSET Nat BY CsvRows DEF Waiting
    <3>2. worker'[j].todo = Waiting(j) BY <1>0, <2>1, <3>1, ListMoves
    <3>3. Waiting(j)' = Waiting(j) BY <1>13 DEF ListPendingItems, Waiting, Rows
    <3>4. Behind(j)' = {} BY <3>2, <3>3 DEF Behind, Ahead
    <3>5. Cardinality({}) = 0 BY FS_EmptySet
    <3>6. Cardinality(Behind(j)') <= faults'
      BY <3>4, <3>5, FaultsCounted DEF FaultsGrow
    <3> QED BY <3>6 DEF LeftBehind
  <2> QED BY <1>2, <1>13, <2>1 DEF ListPendingItems, Waiting
<1>14. CASE CheckCancelled(j)
  <2>1. CASE StartRow(j)
    <3>1. /\ worker'[j].pc = "row" /\ worker'[j].todo = worker[j].todo \ {worker'[j].row}
      BY <1>0, <2>1, StartMoves
    <3>2. worker[j].pc = "check" /\ items' = items BY <1>14 DEF CheckCancelled
    <3>3. Ahead(j) \subseteq Ahead(j)' BY <3>1, <3>2 DEF Ahead, Undecided, Linking
    <3> QED BY <1>4, <3>2, <3>3 DEF Listed
  <2> QED BY <1>2, <1>14, <2>1 DEF CheckCancelled
<1>15. CASE ReadRow(j) \/ LookForCopy(j) \/ InsertCopy(j) \/ FileCopy(j) \/ CreateBook(j)
  <2>1. worker[j].pc \in Undecided /\ items' = items
    BY <1>9, <1>15 DEF ReadRow, LookForCopy, InsertCopy, FileCopy, CreateBook
  <2>2. \/ \E pc \in {"create", "insert", "choose", "setItem"} : Goto(j, pc)
        \/ \E pc \in {"look", "choose", "setItem"} : \E how \in Settled : Decide(j, pc, how)
    BY <1>9, <1>15 DEF ReadRow, LookForCopy, InsertCopy, FileCopy, CreateBook, Outcome
  <2>3. ASSUME Goto(j, "setItem") PROVE LeftBehind(j)'
    <3>1. Keeps(j) /\ worker'[j].pc = "setItem" BY <1>0, <2>3, GotoMoves DEF Steps
    <3> QED BY <1>6, <2>1, <3>1
  <2> QED BY <1>7, <1>8, <1>9, <2>1, <2>2, <2>3
<1>16. CASE ChooseCopy(j) \/ AdoptCopy(j)
  <2>1. worker[j].pc \in Undecided \cap Linking /\ items' = items
    BY <1>9, <1>16 DEF ChooseCopy, AdoptCopy, Linking
  <2>2. ASSUME NEW pc \in {"adopt", "file", "setItem"}, NEW n \in Nat,
               worker' = [worker EXCEPT ![j].pc = pc, ![j].pick = n]
        PROVE  LeftBehind(j)'
    <3>1. pc \in Steps BY DEF Steps
    <3>2. Keeps(j) /\ worker'[j].pc = pc BY <1>0, <2>2, <3>1, PickMoves
    <3> QED BY <1>6, <1>9, <2>1, <3>2
  <2>3. CASE ChooseCopy(j)
    <3>1. Isbn(j) \in ISBNs BY <2>1, RowIsbn DEF Isbn
    <3>2. Bare(Isbn(j)) \cup {0} \subseteq Nat BY <3>1, BareCopies
    <3> QED BY <1>8, <1>9, <2>1, <2>2, <2>3, <3>2 DEF ChooseCopy, Outcome
  <2>4. CASE AdoptCopy(j) BY <2>2, <2>4 DEF AdoptCopy, Recorded
  <2> QED BY <1>16, <2>3, <2>4
\* the row's result is written, or lost
<1>17. CASE UpdateItemStatus(j)
  <2> DEFINE r == worker[j].row
  <2>1. worker[j].pc = "setItem" /\ r \in Rows(j) /\ worker[j].outcome \in Settled
    BY <1>0, <1>17 DEF UpdateItemStatus, AttemptFits
  <2>2. worker'[j].pc = "report" /\ worker'[j].todo = worker[j].todo
    BY <1>0, <1>17, TallyMoves DEF UpdateItemStatus
  <2>3. Ahead(j) = worker[j].todo \cup {r} /\ Ahead(j)' = worker[j].todo
    BY <2>1, <2>2 DEF Ahead, Undecided, Linking
  <2>4. CASE items' = items /\ Fault
    <3>1. Behind(j)' \subseteq Behind(j) \cup {r}
      BY <2>3, <2>4 DEF Behind, Waiting, Rows
    <3> QED BY <1>0, <2>1, <2>4, <3>1, OneLeft DEF Listed, Fault
  <2>5. CASE items' = IF items[j][Row(j)] = "gone" THEN items
                      ELSE [items EXCEPT ![j][Row(j)] = worker[j].outcome]
    <3>1. items'[j][r] # "pending" /\ \A s \in Rows(j) \ {r} : items'[j][s] = items[j][s]
      BY <1>0, <2>1, <2>5 DEF Row, Settled, Done, Brought, Added
    <3>2. Behind(j)' \subseteq Behind(j) BY <2>3, <3>1 DEF Behind, Waiting, Rows
    <3> QED BY <1>0, <2>1, <3>2, NoneLeft DEF Listed
  <2> QED BY <1>17, <2>4, <2>5 DEF UpdateItemStatus
<1>18. CASE Report(j) BY <1>5, <1>18 DEF Report, NextRow
<1>19. CASE MirrorReport(j) BY <1>5, <1>19 DEF MirrorReport, NextRow
<1>20. CASE Finish(j) BY <1>2, <1>3, <1>9, <1>20 DEF Finish
<1>21. CASE MirrorDone(j) BY <1>2, <1>3, <1>9, <1>21 DEF MirrorDone
<1>22. CASE SpawnMetadata(j) \/ SpawnCovers(j)
  BY <1>2, <1>3, <1>9, <1>22 DEF SpawnMetadata, SpawnCovers
<1> QED BY <1>10, <1>11, <1>12, <1>13, <1>14, <1>15, <1>16, <1>17, <1>18, <1>19, <1>20,
           <1>21, <1>22 DEF Work

\* users and the machine
LEMMA OutsideLeaves ==
    ASSUME Invariant, NEW j \in Jobs, Placed(j), LeftBehind(j), OutsideWork(j)
    PROVE  LeftBehind(j)'
<1>0. Shared /\ FaultsGrow /\ items = [k \in Jobs |-> items[k]]
  BY FaultsCounted DEF Invariant, Shared, Tables
<1>1. CASE CreateJob(j)
  <2>1. worker'[j].pc = "idle" BY <1>1 DEF CreateJob, Placed, NoAttempt
  <2> QED BY <2>1 DEF LeftBehind, Listed, Undecided, Linking
<1>2. CASE Enqueue(j) \/ Cancel(j)
  <2>1. UNCHANGED <<worker, items>> BY <1>2 DEF Enqueue, Cancel
  <2>2. Behind(j)' = Behind(j) BY <2>1 DEF Behind, Ahead, Waiting, Rows
  <2>3. CASE worker[j].pc \in Listed BY <1>0, <2>2, <2>3, NoneLeft
  <2>4. CASE worker[j].pc \notin Listed BY <2>1, <2>4 DEF LeftBehind
  <2> QED BY <2>3, <2>4
<1>3. CASE Delete(j) \/ DeleteUmbrella(j)
  <2>1. \A r \in Rows(j) : items'[j][r] = "gone" BY <1>0, <1>3 DEF Delete, DeleteUmbrella
  <2>2. Behind(j)' = {} BY <2>1 DEF Behind, Waiting, Rows
  <2>3. Cardinality({}) = 0 BY FS_EmptySet
  <2>4. Cardinality(Behind(j)') <= faults' BY <2>2, <2>3, FaultsCounted DEF FaultsGrow
  <2> QED BY <2>4 DEF LeftBehind
<1>4. CASE Stop(j)
  <2>1. worker'[j] = NoAttempt BY <1>0, <1>4, ReturnMoves DEF Stop
  <2> QED BY <2>1 DEF LeftBehind, NoAttempt, Listed, Undecided, Linking
<1> QED BY <1>1, <1>2, <1>3, <1>4 DEF OutsideWork

\* StartImport's transaction is the only one that lets an import begin
LEMMA StaysStored ==
    ASSUME Invariant, NEW j \in Jobs, Placed(j), Stored(j), Work(j) \/ OutsideWork(j)
    PROVE  Stored(j)'
<1>0. /\ imports \in [Jobs -> ImportRow] /\ items = [k \in Jobs |-> items[k]]
      /\ items[j] \in [Rows(j) -> {"absent", "pending", "gone"} \cup Settled]
      /\ AttemptFits(j)
  BY DEF Invariant, Import, Shared, Tables
<1>1. CASE CreateJob(j) \/ Delete(j) \/ DeleteUmbrella(j)
  <2>1. \A r \in Rows(j) : items'[j][r] \in {"pending", "gone"}
    BY <1>0, <1>1 DEF CreateJob, Delete, DeleteUmbrella
  <2> QED BY <2>1 DEF Stored, Rows
<1>2. CASE UpdateItemStatus(j)
  <2>1. /\ imports' = imports /\ worker[j].outcome \in Settled /\ worker[j].row \in Rows(j)
    BY <1>0, <1>2 DEF UpdateItemStatus, AttemptFits
  <2>2. \A r \in Rows(j) : items'[j][r] = items[j][r] \/ items'[j][r] \in Settled
    BY <1>0, <1>2, <2>1 DEF UpdateItemStatus, Row
  <2> QED BY <2>1, <2>2 DEF Stored, Rows, Settled, Done, Brought, Added
<1>3. ASSUME items' = items, imports[j].status = "absent" => imports' = imports
      PROVE  Stored(j)'
  BY <1>3 DEF Stored, Rows
<1>4. ASSUME worker[j].pc # "idle" PROVE imports[j].status # "absent"
  BY <1>4 DEF Placed
<1>5. CASE Load(j) \/ Enqueue(j) \/ Cancel(j) \/ Stop(j)
  BY <1>3, <1>5 DEF Load, Enqueue, Cancel, Stop
<1>6. CASE \/ MarkProcessing(j) \/ MirrorProcessing(j) \/ ListPendingItems(j)
           \/ CheckCancelled(j) \/ ReadRow(j) \/ LookForCopy(j) \/ InsertCopy(j)
           \/ ChooseCopy(j) \/ AdoptCopy(j) \/ FileCopy(j) \/ CreateBook(j) \/ Report(j)
           \/ MirrorReport(j) \/ Finish(j) \/ MirrorDone(j) \/ SpawnMetadata(j) \/ SpawnCovers(j)
  <2>1. worker[j].pc # "idle" /\ items' = items
    BY <1>6 DEF MarkProcessing, MirrorProcessing, ListPendingItems, CheckCancelled, ReadRow,
       LookForCopy, InsertCopy, ChooseCopy, AdoptCopy, FileCopy, CreateBook, Report,
       MirrorReport, Finish, MirrorDone, SpawnMetadata, SpawnCovers
  <2> QED BY <1>3, <1>4, <2>1
<1> QED BY <1>1, <1>2, <1>5, <1>6 DEF Work, OutsideWork

\* what is behind the attempts, and that the rows are there
Progress == \A j \in Jobs : LeftBehind(j) /\ Stored(j)

\* Rows left behind without a result are statements that were lost, in every
\* state of every run.
LEMMA ProgressHolds == Spec => []Progress
<1>1. Init => Progress
  BY DEF Init, Progress, LeftBehind, Stored, NoAttempt, Listed, Undecided, Linking
<1>2. Invariant /\ Bookkeeping /\ Progress /\ [Next]_vars => Progress'
  <2> SUFFICES ASSUME Invariant, Bookkeeping, Progress, [Next]_vars, NEW k \in Jobs
               PROVE  LeftBehind(k)' /\ Stored(k)'
    BY DEF Progress
  <2>0. LeftBehind(k) /\ Stored(k) /\ Placed(k) BY DEF Progress, Bookkeeping
  <2>1. ASSUME worker'[k] = worker[k], items'[k] = items[k], imports'[k] = imports[k],
               FaultsGrow
        PROVE  LeftBehind(k)' /\ Stored(k)'
    <3>1. Behind(k)' = Behind(k) BY <2>1 DEF Behind, Ahead, Waiting, Rows
    <3>2. CASE worker[k].pc \in Listed
      <4>1. LeftBehind(k)' BY <2>0, <2>1, <3>1, <3>2, NoneLeft
      <4> QED BY <2>0, <2>1, <4>1 DEF Stored, Rows
    <3>3. CASE worker[k].pc \notin Listed
      BY <2>0, <2>1, <3>3 DEF LeftBehind, Stored, Rows
    <3> QED BY <3>2, <3>3
  <2>2. CASE UNCHANGED vars BY <2>1, <2>2 DEF vars, FaultsGrow
  <2>3. ASSUME NEW j \in Jobs, Work(j) \/ OutsideWork(j) PROVE LeftBehind(k)' /\ Stored(k)'
    <3>1. CASE k = j
      BY <2>0, <2>3, <3>1, WorkLeaves, OutsideLeaves, StaysStored
    <3>2. CASE k # j
      <4>1. Alone(j) /\ FaultsGrow BY <2>3, WorkAlone, OutsideAlone, FaultsCounted
      <4> QED BY <2>1, <3>2, <4>1 DEF Alone
    <3> QED BY <3>1, <3>2
  <2> QED BY <2>2, <2>3 DEF Next, OutsideWork
<1> QED BY <1>1, <1>2, InvariantHolds, BooksHold, PTL DEF Spec
\* An import's rows that are open are those that wait, once they are stored.
LEMMA OpenRows ==
    ASSUME Invariant, NEW j \in Jobs, Stored(j), imports[j].status # "absent"
    PROVE  WL(j)!OpenEntries = Waiting(j)
<1>1. items[j] \in [Rows(j) -> {"absent", "pending", "gone"} \cup Settled]
  BY DEF Invariant, Import
<1>2. ASSUME NEW r \in Rows(j) PROVE Entry(items[j][r]) = "open" <=> items[j][r] = "pending"
  BY <1>1, <1>2 DEF Entry, Stored, Settled, Done, Brought, Added
<1> QED BY <1>2 DEF WL!OpenEntries, Waiting

\* A step that writes neither the import's status nor its rows is none of its
\* list, or an excuse.
LEMMA Unwritten ==
    ASSUME NEW j \in Jobs, faults \in Nat, FaultsGrow, items'[j] = items[j],
           imports'[j].status = imports[j].status
    PROVE  WL(j)!Next
<1>1. [r \in Rows(j) |-> Entry(items[j][r])]' = [r \in Rows(j) |-> Entry(items[j][r])]
  BY DEF Rows
<1>2. WL(j)!Excuse BY <1>1 DEF WL!Excuse, FaultsGrow
<1> QED BY <1>2 DEF WL!Next

\* What a worker writes of an import it has begun: its status alone.
LEMMA StatusWorks ==
    ASSUME Invariant, NEW j \in Jobs, Placed(j), worker[j].pc # "idle", Live(j),
           NEW status \in {"processing", "done"}, WriteStatus(j, status),
           UNCHANGED <<items, faults>>,
           status = "done" => WL(j)!Cardinality(WL(j)!OpenEntries) <= faults
    PROVE  WL(j)!Next
<1>1. imports'[j].status = status BY WrittenStatus DEF ImportStatus
<1>2. imports[j].status \in WL(j)!Running \cup WL(j)!Finished
  BY DEF Invariant, Shared, Tables, ImportRow, ImportStatus, Placed, Live, WL!Running, WL!Finished
<1>3. [r \in Rows(j) |-> Entry(items[j][r])]' = [r \in Rows(j) |-> Entry(items[j][r])]
  BY DEF Rows
<1>4. CASE status = "processing"
  <2>1. WL(j)!Work BY <1>1, <1>2, <1>3, <1>4 DEF WL!Work
  <2> QED BY <2>1 DEF WL!Next
<1>5. CASE status = "done"
  <2>1. WL(j)!Finish("done") BY <1>1, <1>2, <1>3, <1>5 DEF WL!Finish
  <2> QED BY <2>1 DEF WL!Next, WL!Finished
<1> QED BY <1>4, <1>5

\* An attempt past its last row has left no more rows open than statements were
\* lost.
LEMMA OpenAreLost ==
    ASSUME Invariant, NEW j \in Jobs, Placed(j), LeftBehind(j), Stored(j),
           worker[j].pc = "check", worker[j].todo = {}
    PROVE  WL(j)!Cardinality(WL(j)!OpenEntries) <= faults
<1>1. WL(j)!OpenEntries = Waiting(j) BY OpenRows DEF Placed
<1>2. Behind(j) = Waiting(j) BY DEF Behind, Ahead, Undecided, Linking
<1>3. Cardinality(Waiting(j)) <= faults BY <1>2 DEF LeftBehind, Listed
<1>4. WL(j)!Cardinality(Waiting(j)) = Cardinality(Waiting(j))
  BY DEF WL!Cardinality, Cardinality
<1> QED BY <1>1, <1>3, <1>4

\* Every step of an attempt is a step of its import's list.
LEMMA WorkWorks ==
    ASSUME Invariant, NEW j \in Jobs, Placed(j), LeftBehind(j), Stored(j), Work(j)
    PROVE  WL(j)!Next
<1>0. /\ faults \in Nat /\ FaultsGrow /\ AttemptFits(j) /\ items = [k \in Jobs |-> items[k]]
      /\ items[j] \in [Rows(j) -> {"absent", "pending", "gone"} \cup Settled]
  BY FaultsCounted DEF Invariant, Import, Shared, Tables
<1>1. ASSUME UNCHANGED <<items, imports>> PROVE WL(j)!Next
  BY <1>0, <1>1, Unwritten
<1>2. CASE MarkProcessing(j) BY <1>1, <1>2, StatusWorks DEF MarkProcessing
<1>3. CASE Report(j) BY <1>1, <1>3, StatusWorks DEF Report
<1>4. CASE Finish(j) BY <1>1, <1>4, StatusWorks, OpenAreLost DEF Finish
<1>5. CASE UpdateItemStatus(j)
  <2> DEFINE r == worker[j].row
             how == worker[j].outcome
  <2>1. /\ worker[j].pc = "setItem" /\ r \in Rows(j) /\ how \in Settled
        /\ imports' = imports /\ imports[j].status # "absent" /\ items[j][r] \in Unsettled
    BY <1>0, <1>5 DEF UpdateItemStatus, AttemptFits, Placed
  <2>2. CASE UNCHANGED items BY <1>1, <2>1, <2>2
  <2>3. CASE /\ items[j][r] = "pending" /\ UNCHANGED faults
             /\ items' = [items EXCEPT ![j][r] = how]
    <3>1. \A s \in Rows(j) :
             Entry(items'[j][s]) = IF s = r THEN Entry(how) ELSE Entry(items[j][s])
      BY <1>0, <2>1, <2>3
    <3>2. [s \in Rows(j) |-> Entry(items[j][s])]'
            = [[s \in Rows(j) |-> Entry(items[j][s])] EXCEPT ![r] = Entry(how)]
      BY <3>1 DEF Rows
    <3>3. [s \in Rows(j) |-> Entry(items[j][s])][r] = "open"
      BY <2>1, <2>3 DEF Entry, Done, Brought, Added
    <3>4. WL(j)!Settle(r, Entry(how)) BY <2>1, <2>3, <3>2, <3>3 DEF WL!Settle
    <3>5. Entry(how) \in {"done", "failed", "skipped"}
      BY <2>1 DEF Entry, Settled, Done, Brought, Added
    <3> QED BY <2>1, <3>4, <3>5 DEF WL!Next, WL!Results
  <2> QED BY <1>5, <2>1, <2>2, <2>3 DEF UpdateItemStatus, Row, Unsettled
<1>6. CASE \/ Load(j) \/ MirrorProcessing(j) \/ ListPendingItems(j) \/ CheckCancelled(j)
           \/ ReadRow(j) \/ LookForCopy(j) \/ InsertCopy(j) \/ ChooseCopy(j) \/ AdoptCopy(j)
           \/ FileCopy(j) \/ CreateBook(j) \/ MirrorReport(j) \/ MirrorDone(j)
           \/ SpawnMetadata(j) \/ SpawnCovers(j)
  BY <1>1, <1>6 DEF Load, MirrorProcessing, ListPendingItems, CheckCancelled, ReadRow,
     LookForCopy, InsertCopy, ChooseCopy, AdoptCopy, FileCopy, CreateBook, MirrorReport,
     MirrorDone, SpawnMetadata, SpawnCovers
<1> QED BY <1>2, <1>3, <1>4, <1>5, <1>6 DEF Work

\* So is what users and the machine do.
LEMMA OutsideWorks ==
    ASSUME Invariant, NEW j \in Jobs, Placed(j), OutsideWork(j)
    PROVE  WL(j)!Next
<1>0. faults \in Nat /\ FaultsGrow /\ items = [k \in Jobs |-> items[k]]
  BY FaultsCounted DEF Invariant, Shared, Tables
<1>1. CASE CreateJob(j)
  <2>1. imports[j].status = "absent" /\ imports'[j].status = "pending" /\ UNCHANGED faults
    BY <1>1, SetStatus DEF CreateJob, ImportStatus
  <2>2. \A r \in Rows(j) : items[j][r] = "absent" /\ items'[j][r] = "pending"
    BY <1>0, <1>1, <2>1 DEF CreateJob, Placed
  <2>3. [r \in Rows(j) |-> Entry(items[j][r])]' = [r \in Rows(j) |-> Entry(items[j][r])]
    BY <2>2 DEF Entry, Rows, Done, Brought, Added
  <2>4. WL(j)!Create BY <2>1, <2>3 DEF WL!Create
  <2> QED BY <2>4 DEF WL!Next
<1>2. CASE Cancel(j)
  <2>1. imports'[j].status = "cancelled" BY <1>2, SetStatus DEF Cancel, ImportStatus
  <2>2. [r \in Rows(j) |-> Entry(items[j][r])]' = [r \in Rows(j) |-> Entry(items[j][r])]
    BY <1>2 DEF Cancel, Rows
  <2>3. WL(j)!Cancel BY <1>2, <2>1, <2>2 DEF Cancel, WL!Cancel, WL!Running
  <2> QED BY <2>3 DEF WL!Next
<1>3. CASE Delete(j) \/ DeleteUmbrella(j)
  <2>1. imports[j].status # "absent" /\ imports'[j].status = "gone" /\ UNCHANGED faults
    BY <1>3, SetStatus DEF Delete, DeleteUmbrella, ImportStatus
  <2>2. \A r \in Rows(j) : items'[j][r] = "gone" BY <1>0, <1>3 DEF Delete, DeleteUmbrella
  <2>3. [r \in Rows(j) |-> Entry(items[j][r])]' = [r \in Rows(j) |-> "gone"]
    BY <2>2 DEF Entry, Rows, Done, Brought, Added
  <2>4. WL(j)!Delete BY <2>1, <2>3 DEF WL!Delete
  <2> QED BY <2>4 DEF WL!Next
<1>4. CASE Enqueue(j) \/ Stop(j) BY <1>0, <1>4, Unwritten DEF Enqueue, Stop
<1> QED BY <1>1, <1>2, <1>3, <1>4 DEF OutsideWork

\* WorkListsHold: imports that run side by side into one library are lists of
\* work that know nothing of each other; whatever dies, is retried or is lost,
\* a row gets one result and keeps it, and an import is called done with at most
\* one row open for each statement that was lost.
THEOREM WorkListsImplemented == Spec => WorkListsHold
<1>1. ASSUME Init, NEW j \in Jobs PROVE WL(j)!Init
  <2>1. imports[j].status = "absent" /\ faults \in Nat BY <1>1 DEF Init
  <2>2. [r \in Rows(j) |-> Entry(items[j][r])] = [r \in Rows(j) |-> "open"]
    BY <1>1 DEF Init, Entry, Done, Brought, Added
  <2> QED BY <2>1, <2>2 DEF WL!Init
<1>2. ASSUME Invariant, Bookkeeping, Progress, [Next]_vars, NEW k \in Jobs
      PROVE  [WL(k)!Next]_(WL(k)!vars)
  <2>0. LeftBehind(k) /\ Stored(k) /\ Placed(k) BY <1>2 DEF Progress, Bookkeeping
  <2>1. faults \in Nat BY <1>2, ImportAssumption DEF Invariant, Shared, Tables
  <2>2. CASE UNCHANGED vars
    <3>1. FaultsGrow /\ UNCHANGED <<items, imports>> BY <2>2 DEF vars, FaultsGrow
    <3> QED BY <2>1, <3>1, Unwritten
  <2>3. ASSUME NEW j \in Jobs, Work(j) \/ OutsideWork(j) PROVE WL(k)!Next
    <3>1. CASE k = j BY <1>2, <2>0, <2>3, <3>1, WorkWorks, OutsideWorks
    <3>2. CASE k # j
      <4>1. Alone(j) /\ FaultsGrow BY <1>2, <2>3, WorkAlone, OutsideAlone, FaultsCounted
      <4> QED BY <2>1, <3>2, <4>1, Unwritten DEF Alone
    <3> QED BY <3>1, <3>2
  <2> QED BY <1>2, <2>2, <2>3 DEF Next, OutsideWork
<1>3. Init => \A j \in Jobs : WL(j)!Init BY <1>1
<1>4. Invariant /\ Bookkeeping /\ Progress /\ [Next]_vars
        => [\A j \in Jobs : [WL(j)!Next]_(WL(j)!vars)]_vars
  BY <1>2
<1> QED BY <1>3, <1>4, InvariantHolds, BooksHold, ProgressHolds, PTL DEF Spec, WorkListsHold
=============================================================================
