-------------------------- MODULE ContributorMerge --------------------------
(***************************************************************************)
(* Contributors of the catalogue, who is credited on which book, and the   *)
(* merge that folds duplicates into one of them.  Merges are transactions  *)
(* of several statements at READ COMMITTED and run beside each other and   *)
(* beside edits of books, all of them asked for from pages that may have   *)
(* been loaded long before.                                                *)
(*                                                                         *)
(* An action is one SQL statement, in two halves where it first selects    *)
(* rows and then writes them: the selection is the statement's snapshot,   *)
(* the write waits for the rows' locks and looks at them again.  What a    *)
(* transaction wrote is its own until it commits.  A statement that fails, *)
(* a deadlock Postgres breaks and a client that leaves are a Rollback.     *)
(* One role stands for all, and a merge's other details are left out.      *)
(***************************************************************************)
EXTENDS Integers, FiniteSets

CONSTANTS
    People, Books,
    Nobody,      \* NULL
    Admins,      \* each has one merge under way at a time
    Editors,     \* each edits one book's credits at a time
    MaxMerges,   \* bound: merges asked for
    MaxEdits     \* bound: edits asked for

ASSUME MergeAssumption ==
    /\ Nobody \notin People /\ Admins \cap Editors = {}
    /\ MaxMerges \in Nat /\ MaxEdits \in Nat

VARIABLES
    people,     \* rows of contributors
    merged,     \* merged_into of each; a row that has one is a tombstone
    credits,    \* book_contributors: <<book, contributor>>
    tx,         \* the transaction of each admin and editor
    merges, edits,
    named,      \* observer: books that are to have a credit
    crossed,    \* observer: books whose credits changed behind a merge's back
    misled,     \* observer: a merge took a tombstone for its survivor
    overtaken   \* observer: a merge into a loser, after its earlier merges were sought

vars == <<people, merged, credits, tx, merges, edits, named, crossed, misled, overtaken>>
observers == <<named, crossed, misled, overtaken>>
tables == <<people, merged, credits>>

Clients == Admins \cup Editors
\* snap: the rows the statement under way selected; add and del: credits
\* inserted and deleted; holds: rows of contributors that are locked
Begun(pc, survivor, losers, book) ==
    [pc |-> pc, survivor |-> survivor, losers |-> losers, book |-> book,
     snap |-> {}, add |-> {}, del |-> {}, holds |-> {}]
Idle == Begun("idle", Nobody, {}, Nobody)

Credited(cs) == {c[1] : c \in cs}

Init ==
    /\ people = People /\ merged = [p \in People |-> Nobody]
    /\ credits \in SUBSET (Books \X People)
    /\ tx = [a \in Clients |-> Idle]
    /\ merges = 0 /\ edits = 0
    /\ named = Credited(credits) /\ crossed = {} /\ misled = FALSE /\ overtaken = FALSE

At(a, pc) == tx[a].pc = pc
Set(a, fields) == tx' = [tx EXCEPT ![a] = fields]
To(a, pc) == [tx[a] EXCEPT !.pc = pc]
Select(a, pc, rows) == Set(a, [To(a, pc) EXCEPT !.snap = rows])

\* credits, and rows of contributors, that another transaction has written
Written(a) == UNION {tx[o].add \cup tx[o].del : o \in Clients \ {a}}
Locked(a)  == UNION {tx[o].holds : o \in Clients \ {a}}

------------------------------------------------------------------------------
(* Merge *)

\* survivor and losers are taken as sent
AskMerge(a) ==
    /\ At(a, "idle") /\ merges < MaxMerges /\ merges' = merges + 1
    /\ \E s \in People : \E ls \in SUBSET (People \ {s}) \ {{}} :
          Set(a, Begun("read", s, ls, Nobody))
    /\ UNCHANGED <<tables, edits, observers>>

\* mutant: the credits of tombstones are not repointed
ReadLiveCredits(a) ==
    /\ At(a, "read")
    /\ Select(a, "insert", {<<c[1], tx[a].survivor>> : c \in
           {d \in credits : d[2] \in tx[a].losers /\ merged[d[2]] = Nobody}})
    /\ UNCHANGED <<tables, merges, edits, observers>>
\* INSERT ... SELECT: the losers' credits, for the survivor
ReadCredits(a) ==
    /\ At(a, "read")
    /\ Select(a, "insert",
              {<<c[1], tx[a].survivor>> : c \in {d \in credits : d[2] \in tx[a].losers}})
    /\ UNCHANGED <<tables, merges, edits, observers>>

\* ... ON CONFLICT DO NOTHING
InsertCredits(a) ==
    /\ At(a, "insert")
    /\ tx[a].snap \cap Written(a) = {}
    /\ tx[a].snap # {} => tx[a].survivor \in people
    /\ Set(a, [To(a, "find") EXCEPT !.add = tx[a].snap \ credits])
    /\ UNCHANGED <<tables, merges, edits, observers>>

\* DELETE: the losers' credits
FindCredits(a) ==
    /\ At(a, "find")
    /\ Select(a, "delete", {c \in credits : c[2] \in tx[a].losers})
    /\ UNCHANGED <<tables, merges, edits, observers>>
DeleteCredits(a) ==
    /\ At(a, "delete")
    /\ tx[a].snap \cap Written(a) = {}
    /\ Set(a, [To(a, "details") EXCEPT !.del = tx[a].snap \cap credits])
    /\ UNCHANGED <<tables, merges, edits, observers>>

\* the survivor's blanks are filled: its row is locked, tombstone or not
FillDetails(a) ==
    /\ At(a, "details")
    /\ LET rows == IF tx[a].losers \cap people = {} THEN {} ELSE {tx[a].survivor} \cap people
       IN  /\ rows \cap Locked(a) = {}
           /\ Set(a, [To(a, "chains") EXCEPT !.holds = rows])
           /\ misled' = (misled \/ \E p \in rows : merged[p] # Nobody)
    /\ UNCHANGED <<tables, merges, edits, named, crossed, overtaken>>

\* mutant: earlier merges stay as they are
FindNoChains(a) ==
    /\ At(a, "chains") /\ Select(a, "repoint", {})
    /\ UNCHANGED <<tables, merges, edits, observers>>
\* UPDATE: earlier merges into a loser
FindChains(a) ==
    /\ At(a, "chains")
    /\ Select(a, "repoint", {p \in people : merged[p] \in tx[a].losers})
    /\ UNCHANGED <<tables, merges, edits, observers>>

\* rows the UPDATE still finds once it has their locks
Take(a, pc, rows) ==
    /\ tx[a].snap \cap Locked(a) = {}
    /\ rows # {} => tx[a].survivor \in people
    /\ Set(a, [To(a, pc) EXCEPT !.holds = @ \cup rows])

\* ... lead to the survivor (contributors_not_merged_into_self)
Repoint(a) ==
    /\ At(a, "repoint")
    /\ LET rows == {p \in tx[a].snap \cap people : merged[p] \in tx[a].losers}
       IN  tx[a].survivor \notin rows /\ Take(a, "losers", rows)
    /\ UNCHANGED <<tables, merges, edits, observers>>

\* UPDATE: the losers that are not tombstones yet
Standing(a, rows) == {p \in rows \cap people : merged[p] = Nobody /\ p \notin tx[a].holds}
FindLosers(a) ==
    /\ At(a, "losers") /\ Select(a, "record", Standing(a, tx[a].losers))
    /\ UNCHANGED <<tables, merges, edits, observers>>
Record(a) ==
    /\ At(a, "record") /\ Take(a, "commit", Standing(a, tx[a].snap))
    /\ UNCHANGED <<tables, merges, edits, observers>>

------------------------------------------------------------------------------
(* Edits of books *)

\* SetContributors in UpdateBook replaces a book's credits (by one here, or by
\* none), EnsureBookContributor adds one; the form may name a tombstone
AskEdit(e) ==
    /\ At(e, "idle") /\ edits < MaxEdits /\ edits' = edits + 1
    /\ \E b \in Books, p \in People \cup {Nobody}, pc \in {"clear", "add"} :
        /\ pc = "add" => p # Nobody
        /\ Set(e, Begun(pc, p, {}, b))
    /\ UNCHANGED <<tables, merges, observers>>

FindOld(e) ==
    /\ At(e, "clear") /\ Select(e, "clearing", {c \in credits : c[1] = tx[e].book})
    /\ UNCHANGED <<tables, merges, edits, observers>>
ClearOld(e) ==
    /\ At(e, "clearing")
    /\ tx[e].snap \cap Written(e) = {}
    /\ Set(e, [To(e, IF tx[e].survivor = Nobody THEN "commit" ELSE "add")
               EXCEPT !.del = tx[e].snap \cap credits])
    /\ UNCHANGED <<tables, merges, edits, observers>>

AddCredit(e) ==
    /\ At(e, "add") /\ tx[e].survivor \in people
    /\ LET new == {<<tx[e].book, tx[e].survivor>>}
       IN  /\ new \cap Written(e) = {}
           /\ Set(e, [To(e, "commit") EXCEPT !.add = new \ (credits \ tx[e].del)])
    /\ UNCHANGED <<tables, merges, edits, observers>>

------------------------------------------------------------------------------
(* The ends of a transaction *)

Moved(a) == tx[a].holds \ {tx[a].survivor}
\* a loser is credited when a merge has read the losers' credits and not come to
\* delete them; the survivor's own credit goes after a merge relied on it
Behind(o, a) ==
    {c \in tx[a].add : tx[o].pc \in {"insert", "find"} /\ c[2] \in tx[o].losers} \cup
    {c \in tx[a].del : o \in Admins /\ tx[o].pc \notin {"idle", "read"} /\ c[2] = tx[o].survivor}
\* a merge has sought what points at its losers
Sought(o, p) == tx[o].pc \in {"repoint", "losers", "record", "commit"} /\ p \in tx[o].losers

\* a row that is deleted, and put back, is not the one a DELETE under way selected
Lost(o, a) == IF tx[o].pc \in {"delete", "clearing"} THEN tx[a].del ELSE {}

Commit(a) ==
    /\ At(a, "commit")
    /\ tx' = [o \in Clients |-> IF o = a THEN Idle ELSE [tx[o] EXCEPT !.snap = @ \ Lost(o, a)]]
    /\ credits' = (credits \ tx[a].del) \cup tx[a].add
    /\ merged' = [p \in People |-> IF p \in Moved(a) THEN tx[a].survivor ELSE merged[p]]
    /\ named' = IF a \in Editors
                THEN (named \ {tx[a].book}) \cup (Credited(credits') \cap {tx[a].book})
                ELSE named
    /\ crossed' = crossed \cup UNION {Credited(Behind(o, a)) : o \in Clients \ {a}}
    /\ overtaken' = \/ overtaken
                    \/ Moved(a) # {} /\ \E o \in Clients : Sought(o, tx[a].survivor)
    /\ UNCHANGED <<people, merges, edits, misled>>

Rollback(a) ==
    /\ ~At(a, "idle") /\ Set(a, Idle)
    /\ UNCHANGED <<tables, merges, edits, observers>>

\* mutant: what points at a deleted contributor stays
DeleteLoose(p) ==
    /\ p \in people /\ \A c \in credits : c[2] # p
    /\ \A a \in Clients : p \notin tx[a].holds /\ \A c \in tx[a].add : c[2] # p
    /\ people' = people \ {p} /\ UNCHANGED merged
    /\ UNCHANGED <<credits, tx, merges, edits, observers>>
\* ContributorRepo.Delete: nobody who is credited, whatever the count before
\* said (ON DELETE RESTRICT); who was merged into the row stands again
DeletePerson(p) ==
    /\ p \in people /\ \A c \in credits : c[2] # p
    /\ LET rows == {p} \cup {q \in people : merged[q] = p}
       IN  \A a \in Clients : rows \cap tx[a].holds = {} /\ \A c \in tx[a].add : c[2] # p
    /\ people' = people \ {p}
    /\ merged' = [q \in People |-> IF q = p \/ merged[q] = p THEN Nobody ELSE merged[q]]
    /\ UNCHANGED <<credits, tx, merges, edits, observers>>

------------------------------------------------------------------------------
Merge(a) ==
    \/ AskMerge(a) \/ ReadCredits(a) \/ InsertCredits(a) \/ FindCredits(a) \/ DeleteCredits(a)
    \/ FillDetails(a) \/ FindChains(a) \/ Repoint(a) \/ FindLosers(a) \/ Record(a)
EditBook(e) == AskEdit(e) \/ FindOld(e) \/ ClearOld(e) \/ AddCredit(e)

Next ==
    \/ \E a \in Admins : Merge(a)
    \/ \E e \in Editors : EditBook(e)
    \/ \E a \in Clients : Commit(a) \/ Rollback(a)
    \/ \E p \in People : DeletePerson(p)

Spec == Init /\ [][Next]_vars
------------------------------------------------------------------------------
(* Properties *)

\* ResolveContributor: eight steps along merged_into
ResolveContributor(p) ==
    LET at[n \in 0..8] == IF n = 0 THEN p
                          ELSE IF merged[at[n - 1]] = Nobody THEN at[n - 1]
                          ELSE merged[at[n - 1]]
    IN  at[8]

\* Every variable keeps its type, and rows refer to rows that are there.
TypeOK ==
    /\ people \subseteq People
    /\ \A p \in People : /\ merged[p] \in (people \ {p}) \cup {Nobody}
                         /\ p \notin people => merged[p] = Nobody
    /\ credits \subseteq Books \X people
    /\ \A a \in Clients :
        /\ tx[a].add \cup tx[a].del \subseteq Books \X people
        /\ tx[a].holds \subseteq people /\ tx[a].holds \cap Locked(a) = {}

\* A merge takes no book its last credit: what a loser was credited with, the
\* survivor is, however merges and edits meet ("their credits repoint at the
\* survivor").  It takes a credit that reaches a loser between the two statements
\* that copy and delete, or a survivor's own that another transaction takes away
\* after the copy found it there, to lose one.
CreditedStays == named \ crossed \subseteq Credited(credits)

\* Merges lead on to somebody who still stands: never in a circle, which
\* ResolveContributor would run in, and in one step ("Chains resolve to the
\* same place") unless a merge into a loser came while the chains were being
\* repointed.  A survivor that is a tombstone itself voids both.
EarlierMergesFollow ==
    misled \/ \A p \in people :
        /\ merged[ResolveContributor(p)] = Nobody
        /\ merged[p] # Nobody => overtaken \/ merged[merged[p]] = Nobody
=============================================================================
