----------------------- MODULE ContributorMergeProofs -----------------------
(***************************************************************************)
(* For every set of contributors, books, admins and editors and every      *)
(* bound: no reference dangles, and no merge takes a book its last credit. *)
(* Of at most eight merges, each leads on to somebody who stands, no       *)
(* further than ResolveContributor walks.                                  *)
(*                                                                         *)
(* Every statement writes into its own transaction only, so the invariant  *)
(* says of a transaction, taken alone, that it fits the tables (Fits), and *)
(* of two of them that they wait for each other's rows (Apart).  A         *)
(* statement then is shown to leave a transaction that fits; only Commit   *)
(* and DeletePerson change what the others have to fit.                    *)
(***************************************************************************)
EXTENDS ContributorMerge, FiniteSetTheorems, TLAPS

Shape(t) == t = [pc |-> t.pc, survivor |-> t.survivor, losers |-> t.losers, book |-> t.book,
                 snap |-> t.snap, add |-> t.add, del |-> t.del, holds |-> t.holds]

\* what it wrote refers to rows that are there; a lock on a contributor to
\* merge comes after the one on the survivor
WritesFit(t) ==
    /\ t.add \subseteq Books \X people /\ t.del \subseteq credits /\ t.holds \subseteq people
    /\ t.holds = {} \/ t.survivor \in t.holds
LocksFit(t) ==
    /\ t.pc \in {"chains", "repoint", "losers", "record"} =>
          (t.survivor \in people /\ t.losers \cap people # {} => t.survivor \in t.holds)
    /\ t.pc = "record" => t.snap \subseteq t.losers
\* a merge deletes credits of losers, and for each of them the survivor has one
\* of its own or is about to
Doomed(t) ==
    CASE t.pc = "find"   -> {c \in credits : c[2] \in t.losers}
      [] t.pc = "delete" -> t.snap
      [] OTHER           -> t.del
Copying(t) == {<<c[1], t.survivor>> : c \in {d \in credits : d[2] \in t.losers /\ d[1] \notin crossed}}
MergeFits(t) ==
    /\ t.pc \in {"idle", "read", "insert", "find", "delete", "details", "chains", "repoint",
                 "losers", "record", "commit"}
    /\ t.survivor \notin t.losers /\ t.losers \subseteq People
    /\ t.pc \in {"idle", "read", "insert", "find", "delete"} => t.del = {}
    /\ \A c \in Doomed(t) : /\ c[2] \in t.losers
                            /\ c[1] \in crossed \/ <<c[1], t.survivor>> \in t.add \cup credits
    /\ t.pc = "insert" => t.snap \subseteq Books \X {t.survivor} /\ Copying(t) \subseteq t.snap
\* an edit keeps to its book
EditFits(t) ==
    /\ t.pc \in {"idle", "clear", "clearing", "add", "commit"}
    /\ t.pc \in {"clear", "clearing", "add"} => t.book \in Books
    /\ \A c \in t.del : c[1] = t.book
    /\ t.pc = "clearing" => \A c \in t.snap : c[1] = t.book

Fits(a, t) ==
    /\ Shape(t) /\ WritesFit(t) /\ LocksFit(t)
    /\ a \in Admins => MergeFits(t)
    /\ a \in Editors => EditFits(t)
Apart(t, u) == t.del \cap u.del = {} /\ t.holds \cap u.holds = {}

TablesOK ==
    /\ people \subseteq People
    /\ \A p \in People : /\ merged[p] \in (people \ {p}) \cup {Nobody}
                         /\ p \notin people => merged[p] = Nobody
    /\ credits \subseteq Books \X people
TxInv ==
    /\ tx = [a \in Clients |-> tx[a]]
    /\ \A a \in Clients : Fits(a, tx[a])
    /\ \A a, o \in Clients : a # o => Apart(tx[a], tx[o])
Invariant == TablesOK /\ TxInv /\ CreditedStays

------------------------------------------------------------------------------
(* Records and sets *)

\* one field changes, the others stay
LEMMA Goes ==
    ASSUME NEW a, Shape(tx[a]), NEW pc
    PROVE  LET t == tx[a]  u == To(a, pc)
           IN  /\ Shape(u) /\ u.pc = pc /\ u.survivor = t.survivor
               /\ u.losers = t.losers /\ u.book = t.book /\ u.snap = t.snap
               /\ u.add = t.add /\ u.del = t.del /\ u.holds = t.holds
BY SMT DEF Shape, To

LEMMA Snaps ==
    ASSUME NEW t, Shape(t), NEW rows
    PROVE  LET u == [t EXCEPT !.snap = rows]
           IN  /\ Shape(u) /\ u.pc = t.pc /\ u.survivor = t.survivor
               /\ u.losers = t.losers /\ u.book = t.book /\ u.snap = rows
               /\ u.add = t.add /\ u.del = t.del /\ u.holds = t.holds
BY SMT DEF Shape

LEMMA Adds ==
    ASSUME NEW t, Shape(t), NEW new
    PROVE  LET u == [t EXCEPT !.add = new]
           IN  /\ Shape(u) /\ u.pc = t.pc /\ u.survivor = t.survivor
               /\ u.losers = t.losers /\ u.book = t.book /\ u.snap = t.snap
               /\ u.add = new /\ u.del = t.del /\ u.holds = t.holds
BY SMT DEF Shape

LEMMA Deletes ==
    ASSUME NEW t, Shape(t), NEW old
    PROVE  LET u == [t EXCEPT !.del = old]
           IN  /\ Shape(u) /\ u.pc = t.pc /\ u.survivor = t.survivor
               /\ u.losers = t.losers /\ u.book = t.book /\ u.snap = t.snap
               /\ u.add = t.add /\ u.del = old /\ u.holds = t.holds
BY SMT DEF Shape

LEMMA Locks ==
    ASSUME NEW t, Shape(t), NEW rows
    PROVE  LET u == [t EXCEPT !.holds = rows]
           IN  /\ Shape(u) /\ u.pc = t.pc /\ u.survivor = t.survivor
               /\ u.losers = t.losers /\ u.book = t.book /\ u.snap = t.snap
               /\ u.add = t.add /\ u.del = t.del /\ u.holds = rows
BY SMT DEF Shape

LEMMA IdleFits ==
    ASSUME NEW a \in Clients PROVE Fits(a, Idle) /\ \A u : Apart(Idle, u)
BY DEF Idle, Begun, Fits, Shape, WritesFit, LocksFit, MergeFits, Doomed, EditFits, Apart

\* A statement changes its own transaction: if that fits, the invariant stays.
LEMMA Statement ==
    ASSUME Invariant, NEW a \in Clients, NEW t, Set(a, t),
           UNCHANGED <<tables, named, crossed>>,
           Fits(a, t), \A o \in Clients \ {a} : Apart(t, tx[o])
    PROVE  Invariant'
<1>1. /\ tx' = [o \in Clients |-> tx'[o]]
      /\ \A o \in Clients : tx'[o] = IF o = a THEN t ELSE tx[o]
  BY DEF Set, Invariant, TxInv
<1>2. TablesOK' /\ CreditedStays'
  BY DEF Invariant, TablesOK, CreditedStays, tables, Credited
<1>3. ASSUME NEW o \in Clients PROVE Fits(o, tx[o])' 
  <2>1. Fits(o, tx'[o]) BY <1>1 DEF Invariant, TxInv
  <2> QED BY <2>1 DEF Fits, Shape, WritesFit, LocksFit, MergeFits, Doomed, Copying, EditFits, tables
<1>4. ASSUME NEW o \in Clients, NEW q \in Clients, o # q PROVE Apart(tx[o], tx[q])'
  BY <1>1, <1>4 DEF Invariant, TxInv, Apart
<1> QED BY <1>1, <1>2, <1>3, <1>4 DEF Invariant, TxInv

LEMMA NotWritten ==
    ASSUME NEW a, NEW o \in Clients \ {a}, NEW rows, rows \cap Written(a) = {}
    PROVE  rows \cap tx[o].del = {} /\ rows \cap tx[o].add = {}
BY DEF Written

LEMMA NotLocked ==
    ASSUME NEW a, NEW o \in Clients \ {a}, NEW rows, rows \cap Locked(a) = {}
    PROVE  rows \cap tx[o].holds = {}
BY DEF Locked

LEMMA OneSort == ASSUME NEW a \in Admins PROVE a \in Clients /\ a \notin Editors
BY MergeAssumption DEF Clients
LEMMA OtherSort == ASSUME NEW e \in Editors PROVE e \in Clients /\ e \notin Admins
BY MergeAssumption DEF Clients

------------------------------------------------------------------------------
(* Merge *)

LEMMA AskMergeStep ==
    ASSUME Invariant, NEW a \in Admins, AskMerge(a) PROVE Invariant'
<1>1. PICK s, ls : s \notin ls /\ ls \subseteq People /\ Set(a, Begun("read", s, ls, Nobody))
  BY DEF AskMerge
<1> DEFINE t == Begun("read", s, ls, Nobody)
<1>2. /\ Shape(t) /\ t.pc = "read" /\ t.survivor = s /\ t.losers = ls
      /\ t.add = {} /\ t.del = {} /\ t.holds = {}
  BY DEF Begun, Shape
<1>3. Fits(a, t)
  <2>1. WritesFit(t) /\ LocksFit(t) BY <1>2 DEF WritesFit, LocksFit
  <2>2. Doomed(t) = {} BY <1>2 DEF Doomed
  <2>3. MergeFits(t) BY <1>1, <1>2, <2>2 DEF MergeFits
  <2> HIDE DEF t
  <2> QED BY <1>2, <2>1, <2>3, OneSort DEF Fits
<1>4. \A o \in Clients \ {a} : Apart(t, tx[o]) BY <1>2 DEF Apart
<1> QED BY <1>1, <1>3, <1>4, OneSort, Statement DEF AskMerge, observers

LEMMA ReadCreditsStep ==
    ASSUME Invariant, NEW a \in Admins, ReadCredits(a) PROVE Invariant'
<1> DEFINE old  == tx[a]
           rows == {<<c[1], old.survivor>> : c \in {d \in credits : d[2] \in old.losers}}
           t    == [To(a, "insert") EXCEPT !.snap = rows]
<1>1. old.pc = "read" /\ Set(a, t) BY DEF ReadCredits, At, Select
<1>2. Fits(a, old) /\ credits \subseteq Books \X people
  BY OneSort DEF Invariant, TxInv, TablesOK
<1>3. Shape(To(a, "insert")) BY <1>2, Goes DEF Fits
<1>4. /\ Shape(t) /\ t.pc = "insert" /\ t.snap = rows /\ t.survivor = old.survivor
      /\ t.losers = old.losers /\ t.add = old.add /\ t.del = old.del /\ t.holds = old.holds
  BY <1>2, <1>3, Goes, Snaps DEF Fits
<1>5. WritesFit(t) /\ LocksFit(t) BY <1>2, <1>4 DEF Fits, WritesFit, LocksFit
<1>6. MergeFits(t)
  <2>1. old.del = {} /\ old.survivor \notin old.losers /\ old.losers \subseteq People
    BY <1>1, <1>2 DEF Fits, MergeFits
  <2>2. Doomed(t) = {} BY <1>4, <2>1 DEF Doomed
  <2>3. rows \subseteq Books \X {old.survivor} BY <1>2
  <2>4. Copying(t) \subseteq rows BY <1>4 DEF Copying
  <2> QED BY <1>4, <2>1, <2>2, <2>3, <2>4 DEF MergeFits
<1>7. Fits(a, t) BY <1>4, <1>5, <1>6, OneSort DEF Fits
<1>8. \A o \in Clients \ {a} : Apart(t, tx[o])
  BY <1>4, OneSort DEF Apart, Invariant, TxInv
<1> QED BY <1>1, <1>7, <1>8, OneSort, Statement DEF ReadCredits, observers

LEMMA InsertCreditsStep ==
    ASSUME Invariant, NEW a \in Admins, InsertCredits(a) PROVE Invariant'
<1> DEFINE old == tx[a]
           t   == [To(a, "find") EXCEPT !.add = old.snap \ credits]
<1>1. old.pc = "insert" /\ Set(a, t) /\ (old.snap # {} => old.survivor \in people)
  BY DEF InsertCredits, At
<1>2. Fits(a, old) /\ credits \subseteq Books \X people
  BY OneSort DEF Invariant, TxInv, TablesOK
<1>3. Shape(To(a, "find")) BY <1>2, Goes DEF Fits
<1>4. /\ Shape(t) /\ t.pc = "find" /\ t.snap = old.snap /\ t.survivor = old.survivor
      /\ t.losers = old.losers /\ t.add = old.snap \ credits /\ t.del = old.del
      /\ t.holds = old.holds
  BY <1>2, <1>3, Goes, Adds DEF Fits
<1>5. /\ old.snap \subseteq Books \X {old.survivor} /\ Copying(old) \subseteq old.snap
      /\ old.survivor \notin old.losers /\ old.losers \subseteq People /\ old.del = {}
  BY <1>1, <1>2, OneSort DEF Fits, MergeFits
<1>6. WritesFit(t) /\ LocksFit(t)
  BY <1>1, <1>2, <1>4, <1>5 DEF Fits, WritesFit, LocksFit
<1>7. MergeFits(t)
  <2>1. Doomed(t) = {c \in credits : c[2] \in old.losers} BY <1>4 DEF Doomed
  <2>2. ASSUME NEW c \in Doomed(t), c[1] \notin crossed
        PROVE  <<c[1], t.survivor>> \in t.add \cup credits
    <3>1. <<c[1], old.survivor>> \in Copying(old) BY <2>1, <2>2 DEF Copying
    <3> QED BY <3>1, <1>4, <1>5
  <2> QED BY <1>4, <1>5, <2>1, <2>2 DEF MergeFits
<1>8. Fits(a, t) BY <1>4, <1>6, <1>7, OneSort DEF Fits
<1>9. \A o \in Clients \ {a} : Apart(t, tx[o])
  BY <1>4, OneSort DEF Apart, Invariant, TxInv
<1> QED BY <1>1, <1>8, <1>9, OneSort, Statement DEF InsertCredits, observers

LEMMA FindCreditsStep ==
    ASSUME Invariant, NEW a \in Admins, FindCredits(a) PROVE Invariant'
<1> DEFINE old  == tx[a]
           rows == {c \in credits : c[2] \in old.losers}
           t    == [To(a, "delete") EXCEPT !.snap = rows]
<1>1. old.pc = "find" /\ Set(a, t) BY DEF FindCredits, At, Select
<1>2. Fits(a, old) BY OneSort DEF Invariant, TxInv
<1>3. Shape(To(a, "delete")) BY <1>2, Goes DEF Fits
<1>4. /\ Shape(t) /\ t.pc = "delete" /\ t.snap = rows /\ t.survivor = old.survivor
      /\ t.losers = old.losers /\ t.add = old.add /\ t.del = old.del /\ t.holds = old.holds
  BY <1>2, <1>3, Goes, Snaps DEF Fits
<1>5. WritesFit(t) /\ LocksFit(t) BY <1>2, <1>4 DEF Fits, WritesFit, LocksFit
<1>6. MergeFits(t)
  <2>1. Doomed(t) = Doomed(old) BY <1>1, <1>4 DEF Doomed
  <2> QED BY <1>1, <1>2, <1>4, <2>1, OneSort DEF Fits, MergeFits
<1>7. Fits(a, t) BY <1>4, <1>5, <1>6, OneSort DEF Fits
<1>8. \A o \in Clients \ {a} : Apart(t, tx[o])
  BY <1>4, OneSort DEF Apart, Invariant, TxInv
<1> QED BY <1>1, <1>7, <1>8, OneSort, Statement DEF FindCredits, observers

LEMMA DeleteCreditsStep ==
    ASSUME Invariant, NEW a \in Admins, DeleteCredits(a) PROVE Invariant'
<1> DEFINE old == tx[a]
           t   == [To(a, "details") EXCEPT !.del = old.snap \cap credits]
<1>1. old.pc = "delete" /\ Set(a, t) /\ old.snap \cap Written(a) = {}
  BY DEF DeleteCredits, At
<1>2. Fits(a, old) BY OneSort DEF Invariant, TxInv
<1>3. Shape(To(a, "details")) BY <1>2, Goes DEF Fits
<1>4. /\ Shape(t) /\ t.pc = "details" /\ t.survivor = old.survivor
      /\ t.losers = old.losers /\ t.add = old.add /\ t.del = old.snap \cap credits
      /\ t.holds = old.holds
  BY <1>2, <1>3, Goes, Deletes DEF Fits
<1>5. WritesFit(t) /\ LocksFit(t) BY <1>2, <1>4 DEF Fits, WritesFit, LocksFit
<1>6. MergeFits(t)
  <2>1. Doomed(old) = old.snap /\ Doomed(t) = old.snap \cap credits
    BY <1>1, <1>4 DEF Doomed
  <2> QED BY <1>2, <1>4, <2>1, OneSort DEF Fits, MergeFits
<1>7. Fits(a, t) BY <1>4, <1>5, <1>6, OneSort DEF Fits
<1>8. ASSUME NEW o \in Clients \ {a} PROVE Apart(t, tx[o])
  <2>1. old.snap \cap tx[o].del = {} BY <1>1, NotWritten
  <2>2. old.holds \cap tx[o].holds = {} BY OneSort DEF Apart, Invariant, TxInv
  <2> QED BY <1>4, <2>1, <2>2 DEF Apart
<1> QED BY <1>1, <1>7, <1>8, OneSort, Statement DEF DeleteCredits, observers

LEMMA FillDetailsStep ==
    ASSUME Invariant, NEW a \in Admins, FillDetails(a) PROVE Invariant'
<1> DEFINE old  == tx[a]
           rows == IF old.losers \cap people = {} THEN {} ELSE {old.survivor} \cap people
           t    == [To(a, "chains") EXCEPT !.holds = rows]
<1>1. old.pc = "details" /\ Set(a, t) /\ rows \cap Locked(a) = {}
  BY DEF FillDetails, At
<1>2. Fits(a, old) BY OneSort DEF Invariant, TxInv
<1>3. Shape(To(a, "chains")) BY <1>2, Goes DEF Fits
<1>4. /\ Shape(t) /\ t.pc = "chains" /\ t.survivor = old.survivor
      /\ t.losers = old.losers /\ t.add = old.add /\ t.del = old.del /\ t.holds = rows
  BY <1>2, <1>3, Goes, Locks DEF Fits
<1>5. WritesFit(t) /\ LocksFit(t) BY <1>2, <1>4 DEF Fits, WritesFit, LocksFit
<1>6. MergeFits(t)
  <2>1. Doomed(t) = Doomed(old) BY <1>1, <1>4 DEF Doomed
  <2> QED BY <1>1, <1>2, <1>4, <2>1, OneSort DEF Fits, MergeFits
<1>7. Fits(a, t) BY <1>4, <1>5, <1>6, OneSort DEF Fits
<1>8. ASSUME NEW o \in Clients \ {a} PROVE Apart(t, tx[o])
  <2>1. rows \cap tx[o].holds = {} BY <1>1, NotLocked
  <2>2. old.del \cap tx[o].del = {} BY OneSort DEF Apart, Invariant, TxInv
  <2> QED BY <1>4, <2>1, <2>2 DEF Apart
<1> QED BY <1>1, <1>7, <1>8, OneSort, Statement DEF FillDetails

\* a look for rows of contributors
LEMMA LookStep ==
    ASSUME Invariant, NEW a \in Admins, NEW pc, NEW rows, Select(a, pc, rows),
           \/ tx[a].pc = "chains" /\ pc = "repoint"
           \/ tx[a].pc = "losers" /\ pc = "record" /\ rows \subseteq tx[a].losers,
           UNCHANGED <<tables, observers>>
    PROVE  Invariant'
<1> DEFINE old == tx[a]
           t   == [To(a, pc) EXCEPT !.snap = rows]
<1>1. Set(a, t) BY DEF Select
<1>2. Fits(a, old) BY OneSort DEF Invariant, TxInv
<1>3. Shape(To(a, pc)) BY <1>2, Goes DEF Fits
<1>4. /\ Shape(t) /\ t.pc = pc /\ t.snap = rows /\ t.survivor = old.survivor
      /\ t.losers = old.losers /\ t.add = old.add /\ t.del = old.del /\ t.holds = old.holds
  BY <1>2, <1>3, Goes, Snaps DEF Fits
<1>5. WritesFit(t) /\ LocksFit(t) BY <1>2, <1>4 DEF Fits, WritesFit, LocksFit
<1>6. MergeFits(t)
  <2>1. Doomed(t) = Doomed(old) BY <1>4 DEF Doomed
  <2> QED BY <1>2, <1>4, <2>1, OneSort DEF Fits, MergeFits
<1>7. Fits(a, t) BY <1>4, <1>5, <1>6, OneSort DEF Fits
<1>8. \A o \in Clients \ {a} : Apart(t, tx[o])
  BY <1>4, OneSort DEF Apart, Invariant, TxInv
<1> QED BY <1>1, <1>7, <1>8, OneSort, Statement DEF observers

\* rows of contributors are locked and lead to the survivor, who is locked too
LEMMA TakeStep ==
    ASSUME Invariant, NEW a \in Admins, NEW pc, NEW rows, Take(a, pc, rows),
           \/ tx[a].pc = "repoint" /\ pc = "losers"
           \/ tx[a].pc = "record" /\ pc = "commit",
           rows \subseteq tx[a].snap \cap people,
           rows # {} => tx[a].losers \cap people # {},
           UNCHANGED <<tables, observers>>
    PROVE  Invariant'
<1> DEFINE old == tx[a]
           t   == [To(a, pc) EXCEPT !.holds = old.holds \cup rows]
<1>1. /\ old.snap \cap Locked(a) = {} /\ (rows # {} => old.survivor \in people)
      /\ Set(a, [To(a, pc) EXCEPT !.holds = @ \cup rows])
  BY DEF Take
<1>2. Fits(a, old) BY OneSort DEF Invariant, TxInv
<1>3. Shape(To(a, pc)) /\ To(a, pc).holds = old.holds BY <1>2, Goes DEF Fits
<1>4. Set(a, t) BY <1>1, <1>3
<1>5. /\ Shape(t) /\ t.pc = pc /\ t.survivor = old.survivor
      /\ t.losers = old.losers /\ t.add = old.add /\ t.del = old.del
      /\ t.holds = old.holds \cup rows
  BY <1>2, <1>3, Goes, Locks DEF Fits
<1>6. WritesFit(t) /\ LocksFit(t)
  BY <1>1, <1>2, <1>5 DEF Fits, WritesFit, LocksFit
<1>7. MergeFits(t)
  <2>1. Doomed(t) = Doomed(old) BY <1>5 DEF Doomed
  <2> QED BY <1>2, <1>5, <2>1, OneSort DEF Fits, MergeFits
<1>8. Fits(a, t) BY <1>5, <1>6, <1>7, OneSort DEF Fits
<1>9. ASSUME NEW o \in Clients \ {a} PROVE Apart(t, tx[o])
  <2>1. old.snap \cap tx[o].holds = {} BY <1>1, NotLocked
  <2>2. old.del \cap tx[o].del = {} /\ old.holds \cap tx[o].holds = {}
    BY OneSort DEF Apart, Invariant, TxInv
  <2> QED BY <1>5, <2>1, <2>2 DEF Apart
<1> QED BY <1>4, <1>8, <1>9, OneSort, Statement DEF observers

LEMMA FindChainsStep ==
    ASSUME Invariant, NEW a \in Admins, FindChains(a) PROVE Invariant'
BY LookStep DEF FindChains, At

LEMMA FindLosersStep ==
    ASSUME Invariant, NEW a \in Admins, FindLosers(a) PROVE Invariant'
BY LookStep DEF FindLosers, At, Standing

LEMMA RepointStep ==
    ASSUME Invariant, NEW a \in Admins, Repoint(a) PROVE Invariant'
<1> DEFINE rows == {p \in tx[a].snap \cap people : merged[p] \in tx[a].losers}
<1>1. /\ tx[a].pc = "repoint" /\ Take(a, "losers", rows) /\ UNCHANGED <<tables, observers>>
  BY DEF Repoint, At
<1>2. rows # {} => tx[a].losers \cap people # {}
  <2>1. SUFFICES ASSUME NEW p \in rows PROVE merged[p] \in people OBVIOUS
  <2>2. p \in People /\ merged[p] \in people \cup {Nobody} BY DEF Invariant, TablesOK
  <2>3. merged[p] # Nobody
    BY <1>1, OneSort, MergeAssumption DEF Invariant, TxInv, Fits, MergeFits
  <2> QED BY <2>2, <2>3
<1> QED BY <1>1, <1>2, TakeStep

LEMMA RecordStep ==
    ASSUME Invariant, NEW a \in Admins, Record(a) PROVE Invariant'
<1>1. tx[a].snap \subseteq tx[a].losers
  BY OneSort DEF Record, At, Invariant, TxInv, Fits, LocksFit
<1> QED BY <1>1, TakeStep DEF Record, At, Standing

------------------------------------------------------------------------------
(* Edits of books *)

LEMMA AskEditStep ==
    ASSUME Invariant, NEW e \in Editors, AskEdit(e) PROVE Invariant'
<1>1. PICK b \in Books, p \in People \cup {Nobody}, pc \in {"clear", "add"} :
          Set(e, Begun(pc, p, {}, b))
  BY DEF AskEdit
<1> DEFINE t == Begun(pc, p, {}, b)
<1>2. /\ Shape(t) /\ t.pc = pc /\ t.book = b /\ t.add = {} /\ t.del = {} /\ t.holds = {}
  BY DEF Begun, Shape
<1>3. WritesFit(t) /\ LocksFit(t) /\ EditFits(t) BY <1>2 DEF WritesFit, LocksFit, EditFits
<1>4. \A o \in Clients \ {e} : Apart(t, tx[o]) BY <1>2 DEF Apart
<1> HIDE DEF t
<1>5. Fits(e, t) BY <1>2, <1>3, OtherSort DEF Fits
<1> QED BY <1>1, <1>4, <1>5, OtherSort, Statement DEF AskEdit, observers, t

LEMMA FindOldStep ==
    ASSUME Invariant, NEW e \in Editors, FindOld(e) PROVE Invariant'
<1> DEFINE old  == tx[e]
           rows == {c \in credits : c[1] = old.book}
           t    == [To(e, "clearing") EXCEPT !.snap = rows]
<1>1. old.pc = "clear" /\ Set(e, t) BY DEF FindOld, At, Select
<1>2. Fits(e, old) BY OtherSort DEF Invariant, TxInv
<1>3. Shape(To(e, "clearing")) BY <1>2, Goes DEF Fits
<1>4. /\ Shape(t) /\ t.pc = "clearing" /\ t.snap = rows /\ t.survivor = old.survivor
      /\ t.book = old.book /\ t.add = old.add /\ t.del = old.del /\ t.holds = old.holds
  BY <1>2, <1>3, Goes, Snaps DEF Fits
<1>5. WritesFit(t) /\ LocksFit(t) BY <1>2, <1>4 DEF Fits, WritesFit, LocksFit
<1>6. EditFits(t) BY <1>1, <1>2, <1>4 DEF Fits, EditFits
<1>7. Fits(e, t) BY <1>4, <1>5, <1>6, OtherSort DEF Fits
<1>8. \A o \in Clients \ {e} : Apart(t, tx[o])
  BY <1>4, OtherSort DEF Apart, Invariant, TxInv
<1> QED BY <1>1, <1>7, <1>8, OtherSort, Statement DEF FindOld, observers

LEMMA ClearOldStep ==
    ASSUME Invariant, NEW e \in Editors, ClearOld(e) PROVE Invariant'
<1> DEFINE old == tx[e]
           pc  == IF old.survivor = Nobody THEN "commit" ELSE "add"
           t   == [To(e, pc) EXCEPT !.del = old.snap \cap credits]
<1>1. old.pc = "clearing" /\ Set(e, t) /\ old.snap \cap Written(e) = {}
  BY DEF ClearOld, At
<1>2. Fits(e, old) BY OtherSort DEF Invariant, TxInv
<1>3. Shape(To(e, pc)) BY <1>2, Goes DEF Fits
<1>4. /\ Shape(t) /\ t.pc = pc /\ t.survivor = old.survivor
      /\ t.book = old.book /\ t.add = old.add /\ t.del = old.snap \cap credits
      /\ t.holds = old.holds
  BY <1>2, <1>3, Goes, Deletes DEF Fits
<1>5. WritesFit(t) /\ LocksFit(t) BY <1>2, <1>4 DEF Fits, WritesFit, LocksFit
<1>6. EditFits(t) BY <1>1, <1>2, <1>4 DEF Fits, EditFits
<1>7. Fits(e, t) BY <1>4, <1>5, <1>6, OtherSort DEF Fits
<1>8. ASSUME NEW o \in Clients \ {e} PROVE Apart(t, tx[o])
  <2>1. old.snap \cap tx[o].del = {} BY <1>1, NotWritten
  <2>2. old.holds \cap tx[o].holds = {} BY OtherSort DEF Apart, Invariant, TxInv
  <2> QED BY <1>4, <2>1, <2>2 DEF Apart
<1> QED BY <1>1, <1>7, <1>8, OtherSort, Statement DEF ClearOld, observers

LEMMA AddCreditStep ==
    ASSUME Invariant, NEW e \in Editors, AddCredit(e) PROVE Invariant'
<1> DEFINE old == tx[e]
           new == {<<old.book, old.survivor>>}
           t   == [To(e, "commit") EXCEPT !.add = new \ (credits \ old.del)]
<1>1. old.pc = "add" /\ Set(e, t) /\ old.survivor \in people
  BY DEF AddCredit, At
<1>2. Fits(e, old) BY OtherSort DEF Invariant, TxInv
<1>3. Shape(To(e, "commit")) BY <1>2, Goes DEF Fits
<1>4. /\ Shape(t) /\ t.pc = "commit" /\ t.survivor = old.survivor
      /\ t.book = old.book /\ t.add = new \ (credits \ old.del) /\ t.del = old.del
      /\ t.holds = old.holds
  BY <1>2, <1>3, Goes, Adds DEF Fits
<1>5. old.book \in Books BY <1>1, <1>2, OtherSort DEF Fits, EditFits
<1>6. WritesFit(t) /\ LocksFit(t) BY <1>1, <1>2, <1>4, <1>5 DEF Fits, WritesFit, LocksFit
<1>7. EditFits(t) BY <1>2, <1>4, OtherSort DEF Fits, EditFits
<1>8. Fits(e, t) BY <1>4, <1>6, <1>7, OtherSort DEF Fits
<1>9. \A o \in Clients \ {e} : Apart(t, tx[o])
  BY <1>4, OtherSort DEF Apart, Invariant, TxInv
<1> QED BY <1>1, <1>8, <1>9, OtherSort, Statement DEF AddCredit, observers

------------------------------------------------------------------------------
(* The ends of a transaction *)

LEMMA RollbackStep ==
    ASSUME Invariant, NEW a \in Clients, Rollback(a) PROVE Invariant'
BY IdleFits, Statement DEF Rollback, observers

\* what o relies on when a commits: its survivor's credit stays, or the book is
\* one whose credits changed behind its back
LEMMA Relied ==
    ASSUME Invariant, NEW a \in Clients, Commit(a), NEW o \in Admins \ {a},
           tx[o].pc \notin {"idle", "read"}, NEW b,
           <<b, tx[o].survivor>> \in tx[o].add \cup credits
    PROVE  b \in crossed' \/ <<b, tx[o].survivor>> \in tx[o].add \cup credits'
<1> DEFINE d == <<b, tx[o].survivor>>
<1>1. credits' = (credits \ tx[a].del) \cup tx[a].add
      /\ crossed' = crossed \cup UNION {Credited(Behind(q, a)) : q \in Clients \ {a}}
  BY DEF Commit
<1>2. CASE d \notin tx[a].del BY <1>1, <1>2
<1>3. CASE d \in tx[a].del
  <2>1. d \in Behind(o, a) /\ d[1] = b BY <1>3 DEF Behind
  <2>2. b \in Credited(Behind(o, a)) BY <2>1 DEF Credited
  <2> QED BY <1>1, <2>2, OneSort
<1> QED BY <1>2, <1>3

\* a credit a loser gets between the two statements is known to be behind
LEMMA LateCredit ==
    ASSUME Invariant, NEW a \in Clients, Commit(a), NEW o \in Admins \ {a},
           tx[o].pc \in {"insert", "find"}, NEW c \in credits', c[2] \in tx[o].losers
    PROVE  c[1] \in crossed' \/ c \in credits
<1>1. credits' = (credits \ tx[a].del) \cup tx[a].add
      /\ crossed' = crossed \cup UNION {Credited(Behind(q, a)) : q \in Clients \ {a}}
  BY DEF Commit
<1>2. CASE c \in tx[a].add
  <2>1. c[1] \in Credited(Behind(o, a)) BY <1>2 DEF Behind, Credited
  <2> QED BY <1>1, <2>1, OneSort
<1> QED BY <1>1, <1>2

LEMMA CommitMerges ==
    ASSUME Invariant, NEW a \in Clients, Commit(a), NEW o \in Admins \ {a}
    PROVE  MergeFits(tx[o])'
<1> DEFINE old == tx[o]
           new == [old EXCEPT !.snap = @ \ Lost(o, a)]
<1>1. Fits(o, old) /\ MergeFits(old) BY OneSort DEF Invariant, TxInv, Fits
<1>2. tx'[o] = new /\ crossed \subseteq crossed' BY OneSort DEF Commit
<1>3. /\ new.pc = old.pc /\ new.survivor = old.survivor /\ new.losers = old.losers
      /\ new.add = old.add /\ new.del = old.del
      /\ new.snap = IF old.pc = "delete" THEN old.snap \ tx[a].del
                    ELSE IF old.pc = "clearing" THEN old.snap \ tx[a].del ELSE old.snap
  <2>1. new = [old EXCEPT !.snap = old.snap \ Lost(o, a)] OBVIOUS
  <2> QED BY <1>1, <2>1, Snaps DEF Fits, Lost
<1> HIDE DEF new
<1>4. Doomed(tx[o])' = CASE old.pc = "find"   -> {c \in credits' : c[2] \in old.losers}
                         [] old.pc = "delete" -> old.snap \ tx[a].del
                         [] OTHER             -> old.del
  BY <1>2, <1>3 DEF Doomed
<1>5. Copying(tx[o])' = {<<c[1], old.survivor>> : c \in {d \in credits' :
                              d[2] \in old.losers /\ d[1] \notin crossed'}}
  BY <1>2, <1>3 DEF Copying
<1>6. ASSUME NEW c \in Doomed(tx[o])'
      PROVE  /\ c[2] \in old.losers
             /\ c[1] \in crossed' \/ <<c[1], old.survivor>> \in old.add \cup credits'
  <2>1. c[2] \in old.losers BY <1>1, <1>4 DEF MergeFits, Doomed
  <2>2. CASE c \in Doomed(old)
    <3>1. old.pc \notin {"idle", "read"} BY <1>1, <2>2 DEF MergeFits, Doomed
    <3>2. c[1] \in crossed \/ <<c[1], old.survivor>> \in old.add \cup credits
      BY <1>1, <2>2 DEF MergeFits
    <3> QED BY <1>2, <2>1, <3>1, <3>2, Relied
  <2>3. CASE c \notin Doomed(old)
    <3>1. old.pc = "find" /\ c \in credits' /\ c \notin credits
      BY <1>4, <2>1, <2>3 DEF Doomed
    <3> QED BY <2>1, <3>1, LateCredit
  <2> QED BY <2>2, <2>3
<1>7. ASSUME old.pc = "insert" PROVE Copying(tx[o])' \subseteq old.snap
  <2>1. SUFFICES ASSUME NEW c \in credits', c[2] \in old.losers, c[1] \notin crossed'
                 PROVE  <<c[1], old.survivor>> \in old.snap
    BY <1>5
  <2>2. c \in credits /\ c[1] \notin crossed BY <1>2, <1>7, <2>1, LateCredit
  <2>3. <<c[1], old.survivor>> \in Copying(old) BY <2>1, <2>2 DEF Copying
  <2> QED BY <1>1, <1>7, <2>3 DEF MergeFits
<1>8. /\ old.pc \in {"idle", "read", "insert", "find", "delete", "details", "chains", "repoint",
                      "losers", "record", "commit"}
      /\ old.survivor \notin old.losers /\ old.losers \subseteq People
      /\ old.pc \in {"idle", "read", "insert", "find", "delete"} => old.del = {}
      /\ old.pc = "insert" => old.snap \subseteq Books \X {old.survivor}
  BY <1>1 DEF MergeFits
<1> QED BY <1>2, <1>3, <1>6, <1>7, <1>8 DEF MergeFits

LEMMA CommitOthers ==
    ASSUME Invariant, NEW a \in Clients, Commit(a), NEW o \in Clients \ {a}
    PROVE  /\ Fits(o, tx[o])'
           /\ tx'[o].del = tx[o].del /\ tx'[o].holds = tx[o].holds
<1> DEFINE old  == tx[o]
           rows == old.snap \ Lost(o, a)
           new  == [old EXCEPT !.snap = rows]
<1>1. Fits(o, old) /\ Apart(old, tx[a]) BY DEF Invariant, TxInv
<1>2. tx'[o] = new BY DEF Commit
<1>3. /\ Shape(new) /\ new.pc = old.pc /\ new.survivor = old.survivor /\ new.losers = old.losers
      /\ new.book = old.book /\ new.add = old.add /\ new.del = old.del
      /\ new.holds = old.holds /\ new.snap = rows
  BY <1>1, Snaps DEF Fits
<1> HIDE DEF new
<1>4. people' = people /\ credits' = (credits \ tx[a].del) \cup tx[a].add BY DEF Commit
<1>5. WritesFit(tx[o])' /\ LocksFit(tx[o])'
  BY <1>1, <1>2, <1>3, <1>4 DEF Fits, Apart, WritesFit, LocksFit
<1>6. o \in Editors => EditFits(tx[o])'
  BY <1>1, <1>2, <1>3 DEF Fits, EditFits
<1>7. o \in Admins => MergeFits(tx[o])' BY CommitMerges
<1> QED BY <1>2, <1>3, <1>5, <1>6, <1>7 DEF Fits, Shape

LEMMA CommitKeepsCredits ==
    ASSUME Invariant, NEW a \in Clients, Commit(a) PROVE CreditedStays'
<1> DEFINE old == tx[a]
<1>1. /\ credits' = (credits \ old.del) \cup old.add /\ crossed \subseteq crossed'
      /\ named' = IF a \in Editors
                  THEN (named \ {old.book}) \cup (Credited(credits') \cap {old.book})
                  ELSE named
  BY DEF Commit
<1>2. SUFFICES ASSUME NEW b \in named', b \notin crossed' PROVE b \in Credited(credits')
  BY DEF CreditedStays, Credited
<1>3. CASE a \in Editors /\ b = old.book BY <1>1, <1>2, <1>3
<1>4. CASE ~(a \in Editors /\ b = old.book)
  <2>1. b \in named /\ b \notin crossed BY <1>1, <1>2, <1>4
  <2>2. PICK c \in credits : c[1] = b BY <2>1 DEF Invariant, CreditedStays, Credited
  <2>3. CASE c \notin old.del BY <1>1, <2>2, <2>3 DEF Credited
  <2>4. CASE c \in old.del
    <3>1. a \in Admins BY <1>4, <2>2, <2>4 DEF Clients, Invariant, TxInv, Fits, EditFits
    <3>2. MergeFits(old) /\ old.pc = "commit"
      BY <3>1 DEF Commit, At, Invariant, TxInv, Fits
    <3>3. c \in Doomed(old) BY <2>4, <3>2 DEF Doomed
    <3>4. <<b, old.survivor>> \in old.add \cup credits BY <2>1, <2>2, <3>2, <3>3 DEF MergeFits
    <3>5. <<b, old.survivor>> \notin old.del
      <4>1. \A d \in old.del : d[2] \in old.losers BY <3>2 DEF MergeFits, Doomed
      <4> QED BY <3>2, <4>1 DEF MergeFits
    <3>6. <<b, old.survivor>> \in credits' BY <1>1, <3>4, <3>5
    <3> QED BY <3>6 DEF Credited
  <2> QED BY <2>3, <2>4
<1> QED BY <1>3, <1>4

LEMMA CommitStep ==
    ASSUME Invariant, NEW a \in Clients, Commit(a) PROVE Invariant'
<1> DEFINE old == tx[a]
<1>1. /\ tx' = [o \in Clients |-> tx'[o]] /\ tx'[a] = Idle /\ people' = people
      /\ credits' = (credits \ old.del) \cup old.add
      /\ merged' = [p \in People |-> IF p \in Moved(a) THEN old.survivor ELSE merged[p]]
  BY DEF Commit
<1>2. Fits(a, old) BY DEF Invariant, TxInv
<1>3. TablesOK'
  <2>1. Moved(a) \subseteq people \ {old.survivor} /\ (Moved(a) # {} => old.survivor \in people)
    BY <1>2 DEF Fits, WritesFit, Moved
  <2>2. credits' \subseteq Books \X people
    BY <1>1, <1>2 DEF Fits, WritesFit, Invariant, TablesOK
  <2>3. ASSUME NEW p \in People
        PROVE  /\ merged'[p] \in (people \ {p}) \cup {Nobody}
               /\ p \notin people => merged'[p] = Nobody
    BY <1>1, <2>1 DEF Invariant, TablesOK
  <2> QED BY <1>1, <2>2, <2>3 DEF Invariant, TablesOK
<1>4. Fits(a, tx[a])'
  BY <1>1 DEF Idle, Begun, Fits, Shape, WritesFit, LocksFit, MergeFits, Doomed, EditFits
<1>5. \A o \in Clients : Fits(o, tx[o])' BY <1>4, CommitOthers
<1>6. ASSUME NEW o \in Clients, NEW q \in Clients, o # q PROVE Apart(tx[o], tx[q])'
  <2>1. \A p \in Clients : \/ tx'[p].del = {} /\ tx'[p].holds = {}
                           \/ p # a /\ tx'[p].del = tx[p].del /\ tx'[p].holds = tx[p].holds
    BY <1>1, CommitOthers DEF Idle, Begun
  <2> QED BY <1>6, <2>1 DEF Apart, Invariant, TxInv
<1> QED BY <1>1, <1>3, <1>5, <1>6, CommitKeepsCredits DEF Invariant, TxInv

LEMMA DeletePersonStep ==
    ASSUME Invariant, NEW p \in People, DeletePerson(p) PROVE Invariant'
<1> DEFINE rows == {p} \cup {q \in people : merged[q] = p}
<1>1. /\ people' = people \ {p} /\ UNCHANGED <<credits, tx, named, crossed>>
      /\ merged' = [q \in People |-> IF q = p \/ merged[q] = p THEN Nobody ELSE merged[q]]
      /\ \A c \in credits : c[2] # p
      /\ \A o \in Clients : p \notin tx[o].holds /\ \A c \in tx[o].add : c[2] # p
  BY DEF DeletePerson, observers
<1>2. TablesOK' BY <1>1 DEF Invariant, TablesOK
<1>3. ASSUME NEW o \in Clients PROVE Fits(o, tx[o])'
  <2>1. Fits(o, tx[o]) BY DEF Invariant, TxInv
  <2>2. WritesFit(tx[o])' /\ LocksFit(tx[o])'
    BY <1>1, <2>1 DEF Fits, WritesFit, LocksFit
  <2>3. MergeFits(tx[o])' <=> MergeFits(tx[o]) BY <1>1 DEF MergeFits, Doomed, Copying
  <2>4. EditFits(tx[o])' <=> EditFits(tx[o]) BY <1>1 DEF EditFits
  <2>5. Shape(tx[o])' <=> Shape(tx[o]) BY <1>1 DEF Shape
  <2> QED BY <2>1, <2>2, <2>3, <2>4, <2>5 DEF Fits
<1>4. CreditedStays' BY <1>1 DEF Invariant, CreditedStays, Credited
<1> QED BY <1>1, <1>2, <1>3, <1>4 DEF Invariant, TxInv, Apart

------------------------------------------------------------------------------
LEMMA InitInv == Init => Invariant
<1> SUFFICES ASSUME Init PROVE Invariant OBVIOUS
<1>1. TablesOK /\ CreditedStays BY DEF Init, TablesOK, CreditedStays
<1>2. \A a \in Clients : tx[a] = Idle BY DEF Init
<1>3. \A a \in Clients : Fits(a, tx[a]) BY <1>2, IdleFits
<1>4. \A a, o \in Clients : Apart(tx[a], tx[o]) BY <1>2, IdleFits
<1>5. tx = [a \in Clients |-> tx[a]] BY DEF Init
<1> QED BY <1>1, <1>3, <1>4, <1>5 DEF Invariant, TxInv

LEMMA StepInv == Invariant /\ [Next]_vars => Invariant'
<1> SUFFICES ASSUME Invariant, [Next]_vars PROVE Invariant' OBVIOUS
<1>1. CASE UNCHANGED vars
  BY <1>1 DEF vars, Invariant, TablesOK, TxInv, CreditedStays, Credited, Fits, Shape,
              WritesFit, LocksFit, MergeFits, Doomed, Copying, EditFits, Apart
<1>2. ASSUME NEW a \in Admins, Merge(a) PROVE Invariant'
  BY <1>2, AskMergeStep, ReadCreditsStep, InsertCreditsStep, FindCreditsStep,
     DeleteCreditsStep, FillDetailsStep, FindChainsStep, RepointStep, FindLosersStep,
     RecordStep DEF Merge
<1>3. ASSUME NEW e \in Editors, EditBook(e) PROVE Invariant'
  BY <1>3, AskEditStep, FindOldStep, ClearOldStep, AddCreditStep DEF EditBook
<1>4. ASSUME NEW a \in Clients, Commit(a) \/ Rollback(a) PROVE Invariant'
  BY <1>4, CommitStep, RollbackStep
<1>5. ASSUME NEW p \in People, DeletePerson(p) PROVE Invariant'
  BY <1>5, DeletePersonStep
<1> QED BY <1>1, <1>2, <1>3, <1>4, <1>5 DEF Next

LEMMA Inductive == Spec => []Invariant
BY InitInv, StepInv, PTL DEF Spec

\* No reference dangles: credits, tombstones, locks and what transactions under
\* way have written refer to contributors that are there, though Delete counts
\* credits first and deletes later.
THEOREM ReferencesHold == Spec => []TypeOK
<1>1. ASSUME Invariant PROVE TypeOK
  <2>1. ASSUME NEW a \in Clients
        PROVE  /\ tx[a].add \cup tx[a].del \subseteq Books \X people
               /\ tx[a].holds \subseteq people
    BY <1>1 DEF Invariant, TablesOK, TxInv, Fits, WritesFit
  <2>2. ASSUME NEW a \in Clients PROVE tx[a].holds \cap Locked(a) = {}
    BY <1>1 DEF Locked, Invariant, TxInv, Apart
  <2> QED BY <1>1, <2>1, <2>2 DEF TypeOK, Invariant, TablesOK
<1> QED BY <1>1, Inductive, PTL

\* No merge takes a book its last credit, however many merges and edits meet,
\* unless the book's credits changed behind the back of one.
THEOREM CreditsSurvive == Spec => []CreditedStays
BY Inductive, PTL DEF Invariant
------------------------------------------------------------------------------
(* Chains of merges *)

\* A merge that holds rows holds its survivor's, which then stays standing.  A
\* row it holds besides leads to one of its losers or is one.
Seated(t) == t.holds # {} => merged[t.survivor] = Nobody
HeldFit(t) == \A p \in t.holds \ {t.survivor} :
                 merged[p] \in t.losers \/ (p \in t.losers /\ merged[p] = Nobody)
\* the rows that lead to a loser are the ones it selected, and then the ones it
\* holds
FoundFit(t) ==
    \A p \in people : merged[p] \in t.losers =>
        /\ t.pc = "repoint" => p \in t.snap
        /\ t.pc \in {"losers", "record", "commit"} => p \in t.holds
ChainFits(t) == Seated(t) /\ HeldFit(t) /\ (overtaken \/ FoundFit(t))

OneStep == \A p \in people : merged[p] # Nobody => merged[merged[p]] = Nobody

EditorsHoldNothing == \A e \in Editors : tx[e].holds = {}
ChainInv ==
    /\ EditorsHoldNothing
    /\ misled \/ /\ \A a \in Admins : ChainFits(tx[a])
                 /\ overtaken \/ OneStep

\* The merges under way, and a number that falls along merged_into: no chain is
\* longer than the merges that are through.
Busy == {a \in Admins : ~At(a, "idle")}
Ranked(n) == \E f \in [People -> 0..n] :
                \A p \in People : merged[p] # Nobody => f[merged[p]] < f[p]
RankInv ==
    /\ IsFiniteSet(Busy) /\ merges \in Nat /\ merges <= MaxMerges
    /\ misled \/ \E n \in Nat : n + Cardinality(Busy) <= merges /\ Ranked(n)

\* A merge's statement leaves the chains as they are: it is enough that its own
\* transaction still fits them.
LEMMA ChainStatement ==
    ASSUME Invariant, ChainInv, NEW a \in Admins, NEW t, Set(a, t), UNCHANGED tables,
           overtaken' = overtaken, misled => misled',
           ~misled /\ ~misled' /\ ChainFits(tx[a]) => ChainFits(t)
    PROVE  ChainInv'
<1>1. \A o \in Clients : tx'[o] = IF o = a THEN t ELSE tx[o]
  BY DEF Set, Invariant, TxInv
<1>2. EditorsHoldNothing' BY <1>1, OneSort, OtherSort DEF ChainInv, EditorsHoldNothing
<1>3. ASSUME ~misled' PROVE /\ \A o \in Admins : ChainFits(tx[o])'
                            /\ (overtaken \/ OneStep)'
  <2>1. ~misled /\ (\A o \in Admins : ChainFits(tx[o])) /\ (overtaken \/ OneStep)
    BY <1>3 DEF ChainInv
  <2>2. ASSUME NEW o \in Admins PROVE ChainFits(tx[o])'
    <3>1. ChainFits(tx'[o]) BY <1>1, <1>3, <2>1, OneSort
    <3> QED BY <3>1 DEF ChainFits, Seated, HeldFit, FoundFit, tables
  <2> QED BY <2>1, <2>2 DEF OneStep, tables
<1> QED BY <1>2, <1>3 DEF ChainInv

\* Before it seeks what leads to its losers, a merge has only its locks to fit.
LEMMA NotFoundYet ==
    ASSUME NEW t, NEW u, ChainFits(t),
           u.survivor = t.survivor, u.losers = t.losers, u.holds = t.holds,
           u.pc \notin {"repoint", "losers", "record", "commit"}
    PROVE  ChainFits(u)
BY DEF ChainFits, Seated, HeldFit, FoundFit

\* An idle client fits every chain.
LEMMA IdleChain == ChainFits(Idle)
BY DEF Idle, Begun, ChainFits, Seated, HeldFit, FoundFit

\* A merge that was asked for has locked nothing yet.
LEMMA AskMergeChain ==
    ASSUME Invariant, ChainInv, NEW a \in Admins, AskMerge(a) PROVE ChainInv'
<1>1. PICK s, ls : Set(a, Begun("read", s, ls, Nobody)) BY DEF AskMerge
<1>2. ChainFits(Begun("read", s, ls, Nobody))
  BY DEF Begun, ChainFits, Seated, HeldFit, FoundFit
<1> QED BY <1>1, <1>2, ChainStatement DEF AskMerge, observers

\* A statement that goes on and writes what it selected, credits it adds or
\* credits it deletes keeps its survivor, losers and locks.
Wrote(a, pc, rows) ==
    \/ Set(a, [To(a, pc) EXCEPT !.snap = rows])
    \/ Set(a, [To(a, pc) EXCEPT !.add = rows])
    \/ Set(a, [To(a, pc) EXCEPT !.del = rows])
LEMMA Writes ==
    ASSUME NEW a, Shape(tx[a]), NEW pc, NEW rows, Wrote(a, pc, rows)
    PROVE  \E t : /\ Set(a, t) /\ t.pc = pc /\ t.survivor = tx[a].survivor
                  /\ t.losers = tx[a].losers /\ t.holds = tx[a].holds
<1> DEFINE u == To(a, pc)
<1>1. /\ Shape(u) /\ u.pc = pc /\ u.survivor = tx[a].survivor
      /\ u.losers = tx[a].losers /\ u.holds = tx[a].holds
  BY Goes
<1> HIDE DEF u
<1>2. CASE Set(a, [u EXCEPT !.snap = rows])
  <2> DEFINE t == [u EXCEPT !.snap = rows]
  <2>1. Set(a, t) BY <1>2
  <2>2. /\ t.pc = u.pc /\ t.survivor = u.survivor /\ t.losers = u.losers
        /\ t.holds = u.holds
    BY <1>1, Snaps
  <2> HIDE DEF t
  <2> QED BY <1>1, <2>1, <2>2
<1>3. CASE Set(a, [u EXCEPT !.add = rows])
  <2> DEFINE t == [u EXCEPT !.add = rows]
  <2>1. Set(a, t) BY <1>3
  <2>2. /\ t.pc = u.pc /\ t.survivor = u.survivor /\ t.losers = u.losers
        /\ t.holds = u.holds
    BY <1>1, Adds
  <2> HIDE DEF t
  <2> QED BY <1>1, <2>1, <2>2
<1>4. CASE Set(a, [u EXCEPT !.del = rows])
  <2> DEFINE t == [u EXCEPT !.del = rows]
  <2>1. Set(a, t) BY <1>4
  <2>2. /\ t.pc = u.pc /\ t.survivor = u.survivor /\ t.losers = u.losers
        /\ t.holds = u.holds
    BY <1>1, Deletes
  <2> HIDE DEF t
  <2> QED BY <1>1, <2>1, <2>2
<1> QED BY <1>2, <1>3, <1>4 DEF u, Wrote

\* Credits are copied and deleted before chains are sought.
LEMMA CopyChain ==
    ASSUME Invariant, ChainInv, NEW a \in Admins,
           ReadCredits(a) \/ InsertCredits(a) \/ FindCredits(a) \/ DeleteCredits(a)
    PROVE  ChainInv'
<1> DEFINE old == tx[a]
<1>1. Shape(old) BY OneSort DEF Invariant, TxInv, Fits
<1>2. PICK t : /\ Set(a, t) /\ t.pc \in {"insert", "find", "delete", "details"}
               /\ t.survivor = old.survivor /\ t.losers = old.losers /\ t.holds = old.holds
  <2>1. CASE ReadCredits(a)
    <3> DEFINE rs == {<<c[1], old.survivor>> : c \in {d \in credits : d[2] \in old.losers}}
    <3>1. Wrote(a, "insert", rs) BY <2>1 DEF ReadCredits, Select, Wrote
    <3> HIDE DEF rs
    <3> QED BY <1>1, <3>1, Writes
  <2>2. CASE InsertCredits(a)
    <3> DEFINE rs == old.snap \ credits
    <3>1. Wrote(a, "find", rs) BY <2>2 DEF InsertCredits, Wrote
    <3> HIDE DEF rs
    <3> QED BY <1>1, <3>1, Writes
  <2>3. CASE FindCredits(a)
    <3> DEFINE rs == {c \in credits : c[2] \in old.losers}
    <3>1. Wrote(a, "delete", rs) BY <2>3 DEF FindCredits, Select, Wrote
    <3> HIDE DEF rs
    <3> QED BY <1>1, <3>1, Writes
  <2>4. CASE DeleteCredits(a)
    <3> DEFINE rs == old.snap \cap credits
    <3>1. Wrote(a, "details", rs) BY <2>4 DEF DeleteCredits, Wrote
    <3> HIDE DEF rs
    <3> QED BY <1>1, <3>1, Writes
  <2> QED BY <2>1, <2>2, <2>3, <2>4
<1>3. t.pc \notin {"repoint", "losers", "record", "commit"} BY <1>2
<1>4. UNCHANGED <<tables, observers>>
  BY DEF ReadCredits, InsertCredits, FindCredits, DeleteCredits
<1> QED BY <1>2, <1>3, <1>4, NotFoundYet, ChainStatement DEF observers

\* A merge that locks a survivor that is a tombstone is misled.
LEMMA FillDetailsChain ==
    ASSUME Invariant, ChainInv, NEW a \in Admins, FillDetails(a) PROVE ChainInv'
<1> DEFINE old == tx[a]
           rows == IF old.losers \cap people = {} THEN {} ELSE {old.survivor} \cap people
           t    == [To(a, "chains") EXCEPT !.holds = rows]
<1>1. /\ Set(a, t) /\ misled' = (misled \/ \E p \in rows : merged[p] # Nobody)
      /\ UNCHANGED <<tables, overtaken>>
  BY DEF FillDetails
<1>2. Shape(old) BY OneSort DEF Invariant, TxInv, Fits
<1>3. Shape(To(a, "chains")) BY <1>2, Goes
<1>4. t.pc = "chains" /\ t.survivor = old.survivor /\ t.losers = old.losers /\ t.holds = rows
  BY <1>2, <1>3, Goes, Locks
<1> HIDE DEF t
<1>5. rows \subseteq {t.survivor} BY <1>4
<1>6. ~misled' => ChainFits(t)
  BY <1>1, <1>4, <1>5 DEF ChainFits, Seated, HeldFit, FoundFit
<1> QED BY <1>1, <1>6, ChainStatement

\* FindChains selects every row that leads to a loser.
LEMMA FindChainsChain ==
    ASSUME Invariant, ChainInv, NEW a \in Admins, FindChains(a) PROVE ChainInv'
<1> DEFINE old == tx[a]
           rows == {p \in people : merged[p] \in old.losers}
           t    == [To(a, "repoint") EXCEPT !.snap = rows]
<1>1. Set(a, t) /\ UNCHANGED <<tables, observers>> BY DEF FindChains, Select
<1>2. Shape(old) BY OneSort DEF Invariant, TxInv, Fits
<1>3. Shape(To(a, "repoint")) BY <1>2, Goes
<1>4. /\ t.pc = "repoint" /\ t.survivor = old.survivor /\ t.losers = old.losers
      /\ t.holds = old.holds /\ t.snap = rows
  BY <1>2, <1>3, Goes, Snaps
<1> HIDE DEF t
<1>5. ChainFits(old) => ChainFits(t) BY <1>4 DEF ChainFits, Seated, HeldFit, FoundFit
<1> QED BY <1>1, <1>5, ChainStatement DEF observers

\* Rows a merge takes lead to its losers, or are ones that stand; if it takes
\* any, it holds its survivor.
LEMMA TakeChain ==
    ASSUME Invariant, ChainInv, NEW a \in Admins, NEW pc, NEW rows, Take(a, pc, rows),
           tx[a].pc \in {"repoint", "record"}, pc \in {"losers", "commit"},
           rows \subseteq people,
           \A p \in rows : \/ merged[p] \in tx[a].losers
                           \/ p \in tx[a].losers /\ merged[p] = Nobody,
           rows # {} => tx[a].losers \cap people # {},
           tx[a].pc = "repoint" =>
               \A p \in tx[a].snap \cap people : merged[p] \in tx[a].losers => p \in rows,
           UNCHANGED <<tables, observers>>
    PROVE  ChainInv'
<1> DEFINE old == tx[a]
           t   == [To(a, pc) EXCEPT !.holds = old.holds \cup rows]
<1>1. Fits(a, old) BY OneSort DEF Invariant, TxInv
<1>2. Shape(To(a, pc)) /\ To(a, pc).holds = old.holds BY <1>1, Goes DEF Fits
<1>3. Set(a, t) /\ (rows # {} => old.survivor \in people) BY <1>2 DEF Take
<1>4. /\ t.pc = pc /\ t.survivor = old.survivor /\ t.losers = old.losers
      /\ t.holds = old.holds \cup rows
  BY <1>1, <1>2, Goes, Locks DEF Fits
<1> HIDE DEF t
<1>5. rows # {} => old.survivor \in old.holds BY <1>1, <1>3 DEF Fits, LocksFit
<1>6. ASSUME ChainFits(old) PROVE ChainFits(t)
  <2>1. Seated(t) BY <1>4, <1>5, <1>6 DEF ChainFits, Seated
  <2>2. HeldFit(t) BY <1>4, <1>6 DEF ChainFits, HeldFit
  <2>3. FoundFit(old) => FoundFit(t) BY <1>4 DEF FoundFit
  <2> QED BY <1>6, <2>1, <2>2, <2>3 DEF ChainFits
<1> QED BY <1>3, <1>6, ChainStatement DEF observers

\* Repoint takes every row it selected that still leads to a loser.
LEMMA RepointChain ==
    ASSUME Invariant, ChainInv, NEW a \in Admins, Repoint(a) PROVE ChainInv'
<1> DEFINE rows == {p \in tx[a].snap \cap people : merged[p] \in tx[a].losers}
<1>1. /\ tx[a].pc = "repoint" /\ Take(a, "losers", rows) /\ UNCHANGED <<tables, observers>>
  BY DEF Repoint, At
<1>2. rows # {} => tx[a].losers \cap people # {}
  <2>1. SUFFICES ASSUME NEW p \in rows PROVE merged[p] \in people OBVIOUS
  <2>2. p \in People /\ merged[p] \in people \cup {Nobody} BY DEF Invariant, TablesOK
  <2>3. merged[p] # Nobody
    BY <1>1, OneSort, MergeAssumption DEF Invariant, TxInv, Fits, MergeFits
  <2> QED BY <2>2, <2>3
<1> QED BY <1>1, <1>2, TakeChain

\* FindLosers selects rows and takes none yet.
LEMMA FindLosersChain ==
    ASSUME Invariant, ChainInv, NEW a \in Admins, FindLosers(a) PROVE ChainInv'
<1> DEFINE old == tx[a]
           t   == [To(a, "record") EXCEPT !.snap = Standing(a, old.losers)]
<1>1. old.pc = "losers" /\ Set(a, t) /\ UNCHANGED <<tables, observers>>
  BY DEF FindLosers, Select, At
<1>2. Shape(old) BY OneSort DEF Invariant, TxInv, Fits
<1>3. Shape(To(a, "record")) BY <1>2, Goes
<1>4. /\ t.pc = "record" /\ t.survivor = old.survivor /\ t.losers = old.losers
      /\ t.holds = old.holds
  BY <1>2, <1>3, Goes, Snaps
<1> HIDE DEF t
<1>5. ChainFits(old) => ChainFits(t)
  BY <1>1, <1>4 DEF ChainFits, Seated, HeldFit, FoundFit
<1> QED BY <1>1, <1>5, ChainStatement DEF observers

\* Record takes losers that stand.
LEMMA RecordChain ==
    ASSUME Invariant, ChainInv, NEW a \in Admins, Record(a) PROVE ChainInv'
<1> DEFINE rows == Standing(a, tx[a].snap)
<1>1. /\ tx[a].pc = "record" /\ Take(a, "commit", rows) /\ UNCHANGED <<tables, observers>>
  BY DEF Record, At
<1>2. tx[a].snap \subseteq tx[a].losers
  BY <1>1, OneSort DEF Invariant, TxInv, Fits, LocksFit
<1>3. rows \subseteq people /\ \A p \in rows : p \in tx[a].losers /\ merged[p] = Nobody
  BY <1>2 DEF Standing
<1> HIDE DEF rows
<1> QED BY <1>1, <1>3, TakeChain

\* Editors lock no contributor and leave the chains alone.
LEMMA EditChain ==
    ASSUME Invariant, ChainInv, NEW e \in Editors, EditBook(e) PROVE ChainInv'
<1> DEFINE old == tx[e]
<1>1. Shape(old) BY OtherSort DEF Invariant, TxInv, Fits
<1>2. UNCHANGED <<tables, observers>>
  BY DEF EditBook, AskEdit, FindOld, ClearOld, AddCredit
<1>3. PICK t : Set(e, t) /\ t.holds = {}
  <2>1. old.holds = {} BY DEF ChainInv, EditorsHoldNothing
  <2>2. CASE AskEdit(e) BY <2>2 DEF AskEdit, Begun
  <2>3. CASE FindOld(e) \/ ClearOld(e) \/ AddCredit(e)
    <3>1. PICK pc, rows : Wrote(e, pc, rows)
      BY <2>3 DEF FindOld, ClearOld, AddCredit, Select, Wrote
    <3> QED BY <1>1, <2>1, <3>1, Writes
  <2> QED BY <2>2, <2>3 DEF EditBook
<1>4. \A o \in Clients : tx'[o] = IF o = e THEN t ELSE tx[o]
  BY <1>3 DEF Set, Invariant, TxInv
<1>5. EditorsHoldNothing' BY <1>3, <1>4, OtherSort DEF ChainInv, EditorsHoldNothing
<1>6. \A a \in Admins : tx'[a] = tx[a] BY <1>4, OneSort, OtherSort
<1> QED BY <1>2, <1>5, <1>6
        DEF ChainInv, ChainFits, Seated, HeldFit, FoundFit, OneStep, tables, observers

\* A transaction that is rolled back lets its rows go.
LEMMA RollbackChain ==
    ASSUME Invariant, ChainInv, NEW a \in Clients, Rollback(a) PROVE ChainInv'
<1>1. Set(a, Idle) /\ UNCHANGED <<tables, observers>> BY DEF Rollback
<1>2. CASE a \in Admins BY <1>1, <1>2, IdleChain, ChainStatement DEF observers
<1>3. CASE a \in Editors
  <2>1. \A o \in Clients : tx'[o] = IF o = a THEN Idle ELSE tx[o]
    BY <1>1 DEF Set, Invariant, TxInv
  <2>2. EditorsHoldNothing'
    BY <2>1, OtherSort DEF ChainInv, EditorsHoldNothing, Idle, Begun
  <2>3. \A o \in Admins : tx'[o] = tx[o] BY <1>3, <2>1, OneSort
  <2> QED BY <1>1, <2>2, <2>3
          DEF ChainInv, ChainFits, Seated, HeldFit, FoundFit, OneStep, tables, observers
<1> QED BY <1>2, <1>3 DEF Clients
\* What a commit does to the others, and to merged_into.
LEMMA CommitMoves ==
    ASSUME Invariant, ChainInv, NEW a \in Clients, Commit(a)
    PROVE  /\ people' = people /\ misled' = misled /\ tx'[a] = Idle
           /\ Moved(a) \subseteq people /\ tx[a].pc = "commit"
           /\ Moved(a) # {} => /\ a \in Admins /\ tx[a].survivor \in tx[a].holds
                               /\ tx[a].survivor \in people
           /\ \A p \in People : merged'[p] = IF p \in Moved(a) THEN tx[a].survivor
                                             ELSE merged[p]
           /\ overtaken => overtaken'
           /\ \A o \in Clients : Moved(a) # {} /\ Sought(o, tx[a].survivor) => overtaken'
           /\ \A o \in Admins : o # a =>
                 /\ tx'[o].survivor = tx[o].survivor /\ tx'[o].losers = tx[o].losers
                 /\ tx'[o].holds = tx[o].holds /\ tx'[o].pc = tx[o].pc
                 /\ tx[o].pc = "repoint" => tx'[o].snap = tx[o].snap
                 /\ tx[o].holds \cap tx[a].holds = {}
<1>1. /\ people' = people /\ misled' = misled /\ tx'[a] = Idle /\ tx[a].pc = "commit"
      /\ merged' = [p \in People |-> IF p \in Moved(a) THEN tx[a].survivor ELSE merged[p]]
      /\ overtaken' = \/ overtaken
                      \/ Moved(a) # {} /\ \E o \in Clients : Sought(o, tx[a].survivor)
  BY DEF Commit, At
<1>2. WritesFit(tx[a]) BY DEF Invariant, TxInv, Fits
<1>3. Moved(a) \subseteq people
      /\ (Moved(a) # {} => tx[a].survivor \in tx[a].holds /\ tx[a].survivor \in people)
  BY <1>2 DEF WritesFit, Moved
<1>4. Moved(a) # {} => a \in Admins
  BY DEF Moved, Clients, ChainInv, EditorsHoldNothing
<1>5. ASSUME NEW o \in Admins, o # a
      PROVE  /\ tx'[o].survivor = tx[o].survivor /\ tx'[o].losers = tx[o].losers
             /\ tx'[o].holds = tx[o].holds /\ tx'[o].pc = tx[o].pc
             /\ tx[o].pc = "repoint" => tx'[o].snap = tx[o].snap
             /\ tx[o].holds \cap tx[a].holds = {}
  <2> DEFINE rows == tx[o].snap \ Lost(o, a)
             new  == [tx[o] EXCEPT !.snap = rows]
  <2>1. o \in Clients /\ tx'[o] = new BY <1>5, OneSort DEF Commit
  <2>2. Shape(tx[o]) BY <2>1 DEF Invariant, TxInv, Fits
  <2>3. /\ new.pc = tx[o].pc /\ new.survivor = tx[o].survivor /\ new.losers = tx[o].losers
        /\ new.holds = tx[o].holds /\ new.snap = rows
    BY <2>2, Snaps
  <2>4. tx[o].holds \cap tx[a].holds = {} BY <1>5, <2>1 DEF Invariant, TxInv, Apart
  <2>5. tx[o].pc = "repoint" => rows = tx[o].snap BY DEF Lost
  <2> HIDE DEF new, rows
  <2> QED BY <2>1, <2>3, <2>4, <2>5
<1> QED BY <1>1, <1>3, <1>4, <1>5

\* A merge that commits leads rows to a survivor that stands.
LEMMA SurvivorStands ==
    ASSUME Invariant, ChainInv, NEW a \in Clients, Commit(a), ~misled, Moved(a) # {}
    PROVE  /\ merged[tx[a].survivor] = Nobody /\ tx[a].survivor \notin Moved(a)
           /\ tx[a].survivor \in People /\ merged'[tx[a].survivor] = Nobody
<1>1. a \in Admins /\ tx[a].survivor \in tx[a].holds /\ tx[a].survivor \in People
  BY CommitMoves DEF Invariant, TablesOK
<1>2. merged[tx[a].survivor] = Nobody BY <1>1 DEF ChainInv, ChainFits, Seated
<1>3. tx[a].survivor \notin Moved(a) BY DEF Moved
<1> QED BY <1>1, <1>2, <1>3, CommitMoves

\* The others' rows are not moved, and a chain they have not seen counts as
\* overtaking them.
LEMMA CommitFits ==
    ASSUME Invariant, ChainInv, NEW a \in Clients, Commit(a), ~misled,
           NEW o \in Admins, o # a
    PROVE  ChainFits(tx[o])'
<1> DEFINE t == tx[o]
<1>1. ChainFits(t) BY DEF ChainInv
<1>2. WritesFit(t) /\ t.losers \subseteq People
  BY OneSort DEF Invariant, TxInv, Fits, MergeFits
<1>3. \A p \in t.holds : p \in People /\ merged'[p] = merged[p]
  BY <1>2, CommitMoves DEF Moved, WritesFit, Invariant, TablesOK
<1>4. Seated(tx[o])'
  <2>1. t.holds # {} => t.survivor \in t.holds BY <1>2 DEF WritesFit
  <2> QED BY <1>1, <1>3, <2>1, CommitMoves DEF ChainFits, Seated
<1>5. HeldFit(tx[o])'
  BY <1>1, <1>3, CommitMoves DEF ChainFits, HeldFit
<1>6. ASSUME ~overtaken' PROVE FoundFit(tx[o])'
  <2>1. FoundFit(t) BY <1>1, <1>6, CommitMoves DEF ChainFits
  <2>2. ASSUME NEW p \in people, merged'[p] \in t.losers,
               t.pc \in {"repoint", "losers", "record", "commit"}
        PROVE  merged[p] \in t.losers
    <3>1. CASE p \notin Moved(a)
      BY <2>2, <3>1, CommitMoves DEF Invariant, TablesOK
    <3>2. CASE p \in Moved(a)
      <4>1. merged'[p] = tx[a].survivor BY <3>2, CommitMoves DEF Invariant, TablesOK
      <4>2. Sought(o, tx[a].survivor) BY <2>2, <4>1 DEF Sought
      <4> QED BY <1>6, <3>2, <4>2, OneSort, CommitMoves
    <3> QED BY <3>1, <3>2
  <2> QED BY <2>1, <2>2, CommitMoves DEF FoundFit
<1> QED BY <1>4, <1>5, <1>6 DEF ChainFits

\* A commit leads rows to a survivor that stands, and with a loser all that led to it.
LEMMA CommitOneStep ==
    ASSUME Invariant, ChainInv, NEW a \in Clients, Commit(a), ~misled, ~overtaken'
    PROVE  OneStep'
<1> DEFINE t == tx[a]
           s == t.survivor
<1>1. OneStep BY CommitMoves DEF ChainInv
<1>2. SUFFICES ASSUME NEW p \in people, merged'[p] # Nobody
               PROVE  merged'[merged'[p]] = Nobody
  BY CommitMoves DEF OneStep
<1>3. p \in People BY DEF Invariant, TablesOK
<1>4. CASE p \in Moved(a) BY <1>3, <1>4, SurvivorStands, CommitMoves
<1>5. CASE p \notin Moved(a)
  <2> DEFINE q == merged[p]
  <2>1. merged'[p] = q /\ q # Nobody /\ q \in people BY <1>2, <1>3, <1>5, CommitMoves
        DEF Invariant, TablesOK
  <2>2. merged[q] = Nobody BY <1>1, <2>1 DEF OneStep
  <2>3. CASE q \notin Moved(a) BY <2>1, <2>2, <2>3, CommitMoves DEF Invariant, TablesOK
  <2>4. CASE q \in Moved(a)
    <3>1. a \in Admins /\ t.pc = "commit" BY <2>4, CommitMoves
    <3>2. HeldFit(t) /\ FoundFit(t) /\ Nobody \notin t.losers
      BY <3>1, OneSort, CommitMoves, MergeAssumption
         DEF ChainInv, ChainFits, Invariant, TxInv, Fits, MergeFits
    <3>3. q \in t.losers BY <2>2, <2>4, <3>2 DEF HeldFit, Moved
    <3>4. p \in t.holds BY <2>1, <3>1, <3>2, <3>3 DEF FoundFit
    <3>5. p = s BY <1>5, <3>4 DEF Moved
    <3>6. merged[p] = Nobody BY <2>4, <3>5, SurvivorStands
    <3> QED BY <2>1, <3>6
  <2> QED BY <2>3, <2>4
<1> QED BY <1>4, <1>5

\* A commit keeps every other merge's rows and every chain as they should be.
LEMMA CommitChain ==
    ASSUME Invariant, ChainInv, NEW a \in Clients, Commit(a) PROVE ChainInv'
<1>1. EditorsHoldNothing'
  <2>1. \A e \in Editors : tx'[e].holds = {} \/ (e # a /\ tx'[e].holds = tx[e].holds)
    BY OtherSort, CommitOthers, CommitMoves DEF Idle, Begun
  <2> QED BY <2>1 DEF ChainInv, EditorsHoldNothing
<1>2. ASSUME ~misled' PROVE \A o \in Admins : ChainFits(tx[o])'
  <2>1. ~misled BY <1>2, CommitMoves
  <2>2. ASSUME NEW o \in Admins PROVE ChainFits(tx[o])'
    <3>1. CASE o = a
      BY <3>1, CommitMoves DEF Idle, Begun, ChainFits, Seated, HeldFit, FoundFit
    <3>2. CASE o # a BY <2>1, <3>2, CommitFits
    <3> QED BY <3>1, <3>2
  <2> QED BY <2>2
<1>3. ASSUME ~misled', ~overtaken' PROVE OneStep'
  BY <1>3, CommitMoves, CommitOneStep
<1> QED BY <1>1, <1>2, <1>3 DEF ChainInv

\* Who is deleted is held by nobody, nor is anyone merged into them.
LEMMA DeleteChain ==
    ASSUME Invariant, ChainInv, NEW p \in People, DeletePerson(p) PROVE ChainInv'
<1>1. /\ people' = people \ {p} /\ UNCHANGED <<tx, misled, overtaken>>
      /\ \A q \in People : merged'[q] = IF q = p \/ merged[q] = p THEN Nobody ELSE merged[q]
      /\ \A o \in Clients : \A q \in tx[o].holds : q # p /\ (q \in people => merged[q] # p)
  BY DEF DeletePerson, observers
<1>2. EditorsHoldNothing' BY <1>1 DEF ChainInv, EditorsHoldNothing
<1>3. ASSUME ~misled, NEW o \in Admins PROVE ChainFits(tx[o])'
  <2> DEFINE t == tx[o]
  <2>1. ChainFits(t) BY <1>3 DEF ChainInv
  <2>2. WritesFit(t) /\ t.losers \subseteq People
    BY OneSort DEF Invariant, TxInv, Fits, MergeFits
  <2>3. \A q \in t.holds : q \in People /\ merged'[q] = merged[q]
    BY <1>1, <2>2, OneSort DEF WritesFit, Invariant, TablesOK
  <2>4. Seated(tx[o])' BY <1>1, <2>1, <2>2, <2>3 DEF WritesFit, ChainFits, Seated
  <2>5. HeldFit(tx[o])' BY <1>1, <2>1, <2>3 DEF ChainFits, HeldFit
  <2>6. FoundFit(t) => FoundFit(tx[o])'
    BY <1>1, <2>2, MergeAssumption DEF FoundFit, Invariant, TablesOK
  <2> QED BY <1>1, <2>1, <2>4, <2>5, <2>6 DEF ChainFits
<1>4. OneStep => OneStep'
  <2> SUFFICES ASSUME OneStep, NEW q \in people', merged'[q] # Nobody
               PROVE  merged'[merged'[q]] = Nobody
    BY DEF OneStep
  <2>1. q \in people /\ q \in People /\ merged'[q] = merged[q] /\ merged[q] # Nobody
    BY <1>1 DEF Invariant, TablesOK
  <2>2. merged[q] \in People /\ merged[merged[q]] = Nobody
    BY <2>1 DEF OneStep, Invariant, TablesOK
  <2> QED BY <1>1, <2>1, <2>2
<1> QED BY <1>1, <1>2, <1>3, <1>4 DEF ChainInv

\* At first nobody is merged and nothing is held.
LEMMA InitChain == Init => ChainInv
<1> SUFFICES ASSUME Init PROVE ChainInv OBVIOUS
<1>1. \A a \in Clients : tx[a] = Idle BY DEF Init
<1>2. EditorsHoldNothing BY <1>1, OtherSort DEF EditorsHoldNothing, Idle, Begun
<1>3. \A a \in Admins : ChainFits(tx[a]) BY <1>1, IdleChain, OneSort
<1>4. OneStep BY DEF Init, OneStep
<1> QED BY <1>2, <1>3, <1>4 DEF ChainInv

\* Every step keeps the chains as they should be.
LEMMA StepChain == Invariant /\ ChainInv /\ [Next]_vars => ChainInv'
<1> SUFFICES ASSUME Invariant, ChainInv, [Next]_vars PROVE ChainInv' OBVIOUS
<1>1. CASE UNCHANGED vars
  BY <1>1 DEF vars, ChainInv, EditorsHoldNothing, ChainFits, Seated, HeldFit, FoundFit, OneStep
<1>2. ASSUME NEW a \in Admins, Merge(a) PROVE ChainInv'
  BY <1>2, AskMergeChain, CopyChain, FillDetailsChain, FindChainsChain, RepointChain,
     FindLosersChain, RecordChain DEF Merge
<1>3. ASSUME NEW e \in Editors, EditBook(e) PROVE ChainInv' BY <1>3, EditChain
<1>4. ASSUME NEW a \in Clients, Commit(a) \/ Rollback(a) PROVE ChainInv'
  BY <1>4, CommitChain, RollbackChain
<1>5. ASSUME NEW p \in People, DeletePerson(p) PROVE ChainInv' BY <1>5, DeleteChain
<1> QED BY <1>1, <1>2, <1>3, <1>4, <1>5 DEF Next
------------------------------------------------------------------------------
(* How long a chain of merges is *)

\* A number that falls along merged_into still does when rows stand again.
LEMMA RankStays ==
    ASSUME NEW n \in Nat, Ranked(n),
           \A p \in People : merged'[p] # Nobody => merged'[p] = merged[p]
    PROVE  Ranked(n)'
BY DEF Ranked

\* A commit makes every chain one step longer, at most.
LEMMA RankGrows ==
    ASSUME Invariant, ChainInv, NEW a \in Clients, Commit(a), ~misled, Moved(a) # {},
           NEW n \in Nat, Ranked(n)
    PROVE  Ranked(n + 1)'
<1>0. PICK s : s = tx[a].survivor OBVIOUS
<1>1. PICK f \in [People -> 0..n] : \A p \in People : merged[p] # Nobody => f[merged[p]] < f[p]
  BY DEF Ranked
<1>2. /\ merged[s] = Nobody /\ s \notin Moved(a) /\ s \in People
      /\ \A p \in People : merged'[p] = IF p \in Moved(a) THEN s ELSE merged[p]
  BY <1>0, SurvivorStands, CommitMoves
<1>3. PICK g : g = [p \in People |-> IF p = s THEN 0 ELSE f[p] + 1] OBVIOUS
<1>4. g \in [People -> 0..(n + 1)] BY <1>1, <1>3
<1>5. ASSUME NEW p \in People, merged'[p] # Nobody PROVE g[merged'[p]] < g[p]
  <2>1. p # s /\ g[p] = f[p] + 1 /\ f[p] \in 0..n BY <1>1, <1>2, <1>3, <1>5
  <2>2. CASE merged'[p] = s BY <1>2, <1>3, <2>1, <2>2
  <2>3. CASE merged'[p] # s
    <3>1. merged'[p] = merged[p] /\ merged[p] \in People
      BY <1>2, <1>5, <2>3 DEF Invariant, TablesOK
    <3>2. g[merged'[p]] = f[merged[p]] + 1 /\ f[merged[p]] \in 0..n
      BY <1>1, <1>3, <2>3, <3>1
    <3>3. f[merged[p]] < f[p] BY <1>1, <1>5, <3>1
    <3> QED BY <2>1, <3>2, <3>3
  <2> QED BY <2>2, <2>3
<1>6. \A p \in People : merged'[p] # Nobody => g[merged'[p]] < g[p] BY <1>5
<1> QED BY <1>4, <1>6 DEF Ranked

\* A merge is asked for once and is through once.
LEMMA BusyStep ==
    ASSUME Invariant, ChainInv, [Next]_vars
    PROVE  \/ Busy' \subseteq Busy /\ merges' = merges
           \/ /\ UNCHANGED <<merged, misled>> /\ merges' = merges + 1 /\ merges < MaxMerges
              /\ \E a \in Admins : Busy' \subseteq Busy \cup {a}
<1>1. CASE UNCHANGED vars BY <1>1 DEF vars, Busy, At
<1>2. ASSUME NEW a \in Admins, AskMerge(a)
      PROVE  /\ UNCHANGED <<merged, misled>> /\ merges' = merges + 1 /\ merges < MaxMerges
             /\ Busy' \subseteq Busy \cup {a}
  <2>1. \A o \in Admins : o # a => tx'[o] = tx[o]
    BY <1>2, OneSort DEF AskMerge, Set, Invariant, TxInv
  <2> QED BY <1>2, <2>1 DEF AskMerge, tables, observers, Busy, At
<1>3. ASSUME NEW a \in Admins, Merge(a), ~AskMerge(a)
      PROVE  Busy' \subseteq Busy /\ merges' = merges
  <2>1. ~At(a, "idle") /\ merges' = merges /\ \E t : Set(a, t)
    BY <1>3 DEF Merge, ReadCredits, InsertCredits, FindCredits, DeleteCredits, FillDetails,
                FindChains, Repoint, FindLosers, Record, Take, Select, At
  <2>2. \A o \in Admins : o # a => tx'[o] = tx[o]
    BY <2>1, OneSort DEF Set, Invariant, TxInv
  <2> QED BY <2>1, <2>2 DEF Busy, At
<1>4. ASSUME NEW e \in Editors, EditBook(e) PROVE Busy' \subseteq Busy /\ merges' = merges
  <2>1. merges' = merges /\ \E t : Set(e, t)
    BY <1>4 DEF EditBook, AskEdit, FindOld, ClearOld, AddCredit, Select
  <2>2. \A o \in Admins : tx'[o] = tx[o]
    BY <2>1, OneSort, OtherSort DEF Set, Invariant, TxInv
  <2> QED BY <2>1, <2>2 DEF Busy, At
<1>5. ASSUME NEW a \in Clients, Rollback(a) PROVE Busy' \subseteq Busy /\ merges' = merges
  <2>1. \A o \in Admins : tx'[o] = tx[o] \/ tx'[o] = Idle
    BY <1>5, OneSort DEF Rollback, Set, Invariant, TxInv
  <2> QED BY <1>5, <2>1 DEF Rollback, Busy, At, Idle, Begun
<1>6. ASSUME NEW a \in Clients, Commit(a) PROVE Busy' \subseteq Busy /\ merges' = merges
  BY <1>6, CommitMoves DEF Commit, Busy, At, Idle, Begun
<1>7. ASSUME NEW p \in People, DeletePerson(p) PROVE Busy' \subseteq Busy /\ merges' = merges
  BY <1>7 DEF DeletePerson, Busy, At
<1> QED BY <1>1, <1>2, <1>3, <1>4, <1>5, <1>6, <1>7 DEF Next

\* Only a commit leads a row on.
LEMMA MergedStays ==
    ASSUME Invariant, [Next]_vars, \A a \in Clients : ~Commit(a)
    PROVE  \A p \in People : merged'[p] # Nobody => merged'[p] = merged[p]
BY DEF Next, vars, Merge, AskMerge, ReadCredits, InsertCredits, FindCredits, DeleteCredits,
       FillDetails, FindChains, Repoint, FindLosers, Record, EditBook, AskEdit, FindOld,
       ClearOld, AddCredit, Rollback, DeletePerson, tables

\* A merge that was misled stays on record.
LEMMA MisledStays == ASSUME [Next]_vars, misled PROVE misled'
BY DEF Next, vars, Merge, AskMerge, ReadCredits, InsertCredits, FindCredits, DeleteCredits,
       FillDetails, FindChains, Repoint, FindLosers, Record, EditBook, AskEdit, FindOld,
       ClearOld, AddCredit, Rollback, DeletePerson, Commit, observers

\* Every step keeps a number that falls along merged_into and counts merges.
LEMMA StepRank == Invariant /\ ChainInv /\ RankInv /\ [Next]_vars => RankInv'
<1> SUFFICES ASSUME Invariant, ChainInv, RankInv, [Next]_vars PROVE RankInv' OBVIOUS
<1>1. /\ IsFiniteSet(Busy) /\ Cardinality(Busy) \in Nat /\ merges \in Nat
      /\ merges <= MaxMerges
  BY FS_CardinalityType DEF RankInv
<1>2. /\ IsFiniteSet(Busy') /\ Cardinality(Busy') \in Nat /\ merges' \in Nat
      /\ merges' <= MaxMerges
      /\ Cardinality(Busy') - Cardinality(Busy) <= merges' - merges
  <2>1. CASE Busy' \subseteq Busy /\ merges' = merges
    <3>1. IsFiniteSet(Busy') /\ Cardinality(Busy') <= Cardinality(Busy)
      BY <1>1, <2>1, FS_Subset
    <3>2. Cardinality(Busy') \in Nat BY <3>1, FS_CardinalityType
    <3> QED BY <1>1, <2>1, <3>1, <3>2
  <2>2. CASE merges' = merges + 1 /\ merges < MaxMerges
             /\ \E a \in Admins : Busy' \subseteq Busy \cup {a}
    <3>1. PICK a \in Admins : Busy' \subseteq Busy \cup {a} BY <2>2
    <3> DEFINE more == Busy \cup {a}
    <3>2. IsFiniteSet(more) /\ Cardinality(more) <= Cardinality(Busy) + 1
      <4>1. /\ IsFiniteSet(more)
            /\ Cardinality(more) = IF a \in Busy THEN Cardinality(Busy)
                                   ELSE Cardinality(Busy) + 1
        BY <1>1, FS_AddElement
      <4> HIDE DEF more
      <4> QED BY <1>1, <4>1
    <3>3. Cardinality(more) \in Nat BY <3>2, FS_CardinalityType
    <3>4. Busy' \subseteq more BY <3>1
    <3> HIDE DEF more
    <3>5. IsFiniteSet(Busy') /\ Cardinality(Busy') <= Cardinality(more)
      BY <3>2, <3>4, FS_Subset
    <3>6. Cardinality(Busy') \in Nat BY <3>5, FS_CardinalityType
    <3> QED BY <1>1, <2>2, <3>2, <3>3, <3>5, <3>6, MergeAssumption
  <2> QED BY <2>1, <2>2, BusyStep
<1>3. ASSUME ~misled'
      PROVE  \E n \in Nat : n + Cardinality(Busy') <= merges' /\ Ranked(n)'
  <2>1. ~misled BY <1>3, MisledStays
  <2>2. PICK n \in Nat : n + Cardinality(Busy) <= merges /\ Ranked(n)
    BY <2>1 DEF RankInv
  <2>3. CASE \A p \in People : merged'[p] # Nobody => merged'[p] = merged[p]
    BY <1>1, <1>2, <2>2, <2>3, RankStays
  <2>4. ASSUME NEW a \in Clients, Commit(a), Moved(a) # {}
        PROVE  n + 1 + Cardinality(Busy') <= merges' /\ Ranked(n + 1)'
    <3>1. Ranked(n + 1)' BY <2>1, <2>2, <2>4, RankGrows
    <3>2. a \in Busy /\ Busy' \subseteq Busy \ {a} /\ merges' = merges
      BY <2>4, CommitMoves DEF Commit, Busy, At, Idle, Begun
    <3> DEFINE rest == Busy \ {a}
    <3>3. IsFiniteSet(rest) /\ Cardinality(rest) = Cardinality(Busy) - 1
      BY <1>1, <3>2, FS_RemoveElement
    <3> HIDE DEF rest
    <3>4. Cardinality(Busy') <= Cardinality(rest) BY <3>2, <3>3, FS_Subset DEF rest
    <3> QED BY <1>1, <1>2, <2>2, <3>1, <3>2, <3>3, <3>4
  <2>5. ASSUME NEW a \in Clients, Commit(a), Moved(a) = {}
        PROVE  \A p \in People : merged'[p] = merged[p]
    BY <2>5, CommitMoves
  <2> QED BY <2>3, <2>4, <2>5, MergedStays
<1> QED BY <1>2, <1>3 DEF RankInv

\* At first nobody is merged, and no merge is under way.
LEMMA InitRank == Init => RankInv
<1> SUFFICES ASSUME Init PROVE RankInv OBVIOUS
<1>1. Busy = {} BY OneSort DEF Init, Busy, At, Idle, Begun
<1>2. IsFiniteSet(Busy) /\ Cardinality(Busy) = 0 BY <1>1, FS_EmptySet
<1>3. Ranked(0)
  <2> DEFINE f == [p \in People |-> 0]
  <2>1. f \in [People -> 0..0] OBVIOUS
  <2>2. \A p \in People : merged[p] = Nobody BY DEF Init
  <2> QED BY <2>1, <2>2 DEF Ranked
<1> QED BY <1>2, <1>3, MergeAssumption DEF Init, RankInv

------------------------------------------------------------------------------
(* ResolveContributor *)

\* one step along merged_into
Onward(p) == IF merged[p] = Nobody THEN p ELSE merged[p]
After8(p) == Onward(Onward(Onward(Onward(Onward(Onward(Onward(Onward(p))))))))

\* ResolveContributor takes eight steps.
LEMMA EightSteps == ASSUME NEW p PROVE ResolveContributor(p) = After8(p)
<1>1. PICK s1, s2, s3, s4 : s1 = Onward(p) /\ s2 = Onward(s1) /\ s3 = Onward(s2) /\ s4 = Onward(s3)
  OBVIOUS
<1>2. PICK s5, s6, s7, s8 : s5 = Onward(s4) /\ s6 = Onward(s5) /\ s7 = Onward(s6) /\ s8 = Onward(s7)
  OBVIOUS
<1> DEFINE Walks(at) == at = [n \in 0..8 |-> IF n = 0 THEN p
                                             ELSE IF merged[at[n - 1]] = Nobody THEN at[n - 1]
                                             ELSE merged[at[n - 1]]]
           at == CHOOSE at : Walks(at)
<1>3. PICK walk : walk = [n \in 0..8 |-> CASE n = 0 -> p [] n = 1 -> s1 [] n = 2 -> s2
                                           [] n = 3 -> s3 [] n = 4 -> s4 [] n = 5 -> s5
                                           [] n = 6 -> s6 [] n = 7 -> s7 [] OTHER -> s8]
  OBVIOUS
<1>4. /\ walk[0] = p /\ walk[1] = s1 /\ walk[2] = s2 /\ walk[3] = s3 /\ walk[4] = s4
      /\ walk[5] = s5 /\ walk[6] = s6 /\ walk[7] = s7 /\ walk[8] = s8
  BY <1>3
<1>5. \A n \in 1..8 : walk[n] = Onward(walk[n - 1])
  <2> TAKE n \in 1..8
  <2>1. n = 1 \/ n = 2 \/ n = 3 \/ n = 4 \/ n = 5 \/ n = 6 \/ n = 7 \/ n = 8 OBVIOUS
  <2>2. n - 1 \in 0..7 OBVIOUS
  <2> QED BY <1>1, <1>2, <1>4, <2>1
<1>6. Walks(walk) BY <1>3, <1>4, <1>5 DEF Onward
<1>7. Walks(at) BY <1>6
<1>8. at[0] = p /\ \A n \in 1..8 : at[n] = Onward(at[n - 1])
  <2>1. PICK w : w = at /\ Walks(w) BY <1>7
  <2> HIDE DEF at
  <2>2. \A n \in 0..8 : w[n] = IF n = 0 THEN p
                               ELSE IF merged[w[n - 1]] = Nobody THEN w[n - 1]
                               ELSE merged[w[n - 1]]
    BY <2>1
  <2>3. \A n \in 1..8 : n \in 0..8 /\ n # 0 OBVIOUS
  <2> QED BY <2>1, <2>2, <2>3 DEF Onward
<1>9. ResolveContributor(p) = at[8] BY DEF ResolveContributor
<1> HIDE DEF at
<1>10. /\ at[1] = Onward(at[0]) /\ at[2] = Onward(at[1]) /\ at[3] = Onward(at[2])
       /\ at[4] = Onward(at[3]) /\ at[5] = Onward(at[4]) /\ at[6] = Onward(at[5])
       /\ at[7] = Onward(at[6]) /\ at[8] = Onward(at[7])
  BY <1>8
<1> QED BY <1>8, <1>9, <1>10 DEF After8

\* A walk from a number no greater than eight ends with somebody who stands.
LEMMA WalkEnds ==
    ASSUME Invariant, NEW n \in Nat, n <= 8, Ranked(n), NEW p \in People
    PROVE  merged[ResolveContributor(p)] = Nobody
<1>1. PICK f \in [People -> 0..n] : \A q \in People : merged[q] # Nobody => f[merged[q]] < f[q]
  BY DEF Ranked
<1> DEFINE Near(k, x) == x \in People /\ (merged[x] = Nobody \/ f[x] <= k)
<1>2. ASSUME NEW k \in 1..8, NEW x, Near(k, x) PROVE Near(k - 1, Onward(x))
  <2>1. CASE merged[x] = Nobody BY <1>2, <2>1 DEF Onward
  <2>2. CASE merged[x] # Nobody
    <3>1. Onward(x) = merged[x] /\ merged[x] \in People
      BY <1>2, <2>2 DEF Onward, Invariant, TablesOK
    <3>2. f[merged[x]] < f[x] /\ f[x] <= k /\ f[x] \in 0..n /\ f[merged[x]] \in 0..n
      BY <1>1, <1>2, <2>2, <3>1
    <3> QED BY <3>1, <3>2
  <2> QED BY <2>1, <2>2
<1>3. ASSUME NEW x, Near(0, x) PROVE merged[x] = Nobody
  <2>1. SUFFICES ASSUME merged[x] # Nobody PROVE FALSE OBVIOUS
  <2>2. merged[x] \in People BY <1>3, <2>1 DEF Invariant, TablesOK
  <2> QED BY <1>1, <1>3, <2>1, <2>2
<1>4. Near(8, p) BY <1>1
<1> HIDE DEF Near
<1>5. \A x : /\ (Near(8, x) => Near(7, Onward(x))) /\ (Near(7, x) => Near(6, Onward(x)))
             /\ (Near(6, x) => Near(5, Onward(x))) /\ (Near(5, x) => Near(4, Onward(x)))
             /\ (Near(4, x) => Near(3, Onward(x))) /\ (Near(3, x) => Near(2, Onward(x)))
             /\ (Near(2, x) => Near(1, Onward(x))) /\ (Near(1, x) => Near(0, Onward(x)))
  <2> TAKE x
  <2>1. \A k \in 1..8 : Near(k, x) => Near(k - 1, Onward(x)) BY <1>2
  <2>2. /\ 8 - 1 = 7 /\ 7 - 1 = 6 /\ 6 - 1 = 5 /\ 5 - 1 = 4
        /\ 4 - 1 = 3 /\ 3 - 1 = 2 /\ 2 - 1 = 1 /\ 1 - 1 = 0
    OBVIOUS
  <2> QED BY <2>1, <2>2
<1>6. Near(0, After8(p)) BY <1>4, <1>5, Zenon DEF After8
<1> QED BY <1>3, <1>6, EightSteps

\* Tables, transactions, chains and their length are as they should be at all times.
LEMMA ChainsHold == Spec => [](Invariant /\ ChainInv /\ RankInv)
BY InitInv, StepInv, InitChain, StepChain, InitRank, StepRank, PTL DEF Spec

\* However many merges are asked for and however they meet, none leads in a
\* circle: a number of at most the merges so far falls along merged_into.
THEOREM NoCircle == Spec => [](misled \/ \E n \in 0..merges : Ranked(n))
<1>1. ASSUME RankInv PROVE misled \/ \E n \in 0..merges : Ranked(n)
  <2>1. SUFFICES ASSUME ~misled PROVE \E n \in 0..merges : Ranked(n) OBVIOUS
  <2>2. PICK n \in Nat : n + Cardinality(Busy) <= merges /\ Ranked(n)
    BY <1>1, <2>1 DEF RankInv
  <2>3. Cardinality(Busy) \in Nat /\ merges \in Nat BY <1>1, FS_CardinalityType DEF RankInv
  <2>4. n \in 0..merges BY <2>2, <2>3
  <2> QED BY <2>2, <2>4
<1> QED BY <1>1, ChainsHold, PTL

\* However many merges are asked for, ResolveContributor ends with somebody who
\* stands as long as no merge into a loser overtook one that was seeking chains.
THEOREM ResolvesUnlessOvertaken ==
    Spec => [](misled \/ overtaken \/ \A p \in people : merged[ResolveContributor(p)] = Nobody)
<1>1. ASSUME Invariant, ChainInv
      PROVE  misled \/ overtaken \/ \A p \in people : merged[ResolveContributor(p)] = Nobody
  <2>1. SUFFICES ASSUME ~misled, ~overtaken, NEW p \in people
                 PROVE  merged[ResolveContributor(p)] = Nobody
    OBVIOUS
  <2>2. OneStep BY <1>1, <2>1 DEF ChainInv
  <2>3. Ranked(1)
    <3> DEFINE f == [q \in People |-> IF merged[q] = Nobody THEN 0 ELSE 1]
    <3>1. f \in [People -> 0..1] OBVIOUS
    <3>2. ASSUME NEW q \in People, merged[q] # Nobody PROVE f[merged[q]] < f[q]
      <4>1. q \in people /\ merged[q] \in People /\ merged[merged[q]] = Nobody
        BY <1>1, <2>2, <3>2 DEF Invariant, TablesOK, OneStep
      <4>2. f[merged[q]] = 0 /\ f[q] = 1 BY <3>2, <4>1
      <4> QED BY <4>2
    <3> QED BY <3>1, <3>2 DEF Ranked
  <2> QED BY <1>1, <2>1, <2>3, WalkEnds DEF Invariant, TablesOK
<1> QED BY <1>1, ChainsHold, PTL

\* However merges meet, each leads on to somebody who stands, in one step unless
\* a merge into a loser overtook one that was seeking chains, and no walk along
\* them is longer than the eight steps ResolveContributor takes, as long as no
\* more than eight merges are asked for.  Each of them can make a chain one step
\* longer, so beyond eight the walk may stop short.
THEOREM MergesFollow == ASSUME MaxMerges <= 8 PROVE Spec => []EarlierMergesFollow
<1>1. ASSUME Invariant, ChainInv, RankInv PROVE EarlierMergesFollow
  <2>1. SUFFICES ASSUME ~misled, NEW p \in people
                 PROVE  /\ merged[ResolveContributor(p)] = Nobody
                        /\ merged[p] # Nobody => overtaken \/ merged[merged[p]] = Nobody
    BY DEF EarlierMergesFollow
  <2>2. merged[p] # Nobody => overtaken \/ merged[merged[p]] = Nobody
    BY <1>1, <2>1 DEF ChainInv, OneStep
  <2>3. PICK n \in Nat : n + Cardinality(Busy) <= merges /\ Ranked(n)
    BY <1>1, <2>1 DEF RankInv
  <2>4. Cardinality(Busy) \in Nat /\ merges \in Nat /\ merges <= MaxMerges
    BY <1>1, FS_CardinalityType DEF RankInv
  <2>5. n <= 8 BY <2>3, <2>4, MergeAssumption
  <2> QED BY <1>1, <2>1, <2>2, <2>3, <2>5, WalkEnds DEF Invariant, TablesOK
<1> QED BY <1>1, ChainsHold, PTL
==============================================================================
