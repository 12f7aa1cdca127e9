----------------------------- MODULE SyncProofs -----------------------------
(***************************************************************************)
(* Proofs about Sync, for every set of devices and books and any number of *)
(* edits and lost answers: its rows implement LastWriterWins, a rating     *)
(* that is pushed again changes nothing, and stamps, requests and cursors  *)
(* keep to what the server's clock and the outboxes hold.                  *)
(***************************************************************************)
EXTENDS Sync, SequenceTheorems, WellFoundedInduction, TLAPS

Values  == Ratings \cup {NoRating}
Fields  == {"rating", "progress", "row"}
Columns == [rating : [ts : Nat, val : Values], updated : Nat, deleted : Nat]

\* the write a rating op stands for
WriteOf(op) == [book |-> op.book, ts |-> op.ts, val |-> op.val]

\* every op waits in one outbox, and a request works on one that waits there
RowsOK    == rows \in [Books -> Columns]
OutboxOK  == /\ outbox \in [Devices -> SUBSET Ops]
             /\ handled = [d \in Devices |-> handled[d]]
TimesOK   == /\ clock \in Nat
             /\ \A d \in Devices : \A op \in outbox[d] : op.ts <= clock
ArrivedOK == arrived \subseteq RatingWrites /\ \A w \in arrived : w.ts <= clock
OneRequest(r) == /\ r = [pc |-> r.pc, op |-> r.op, open |-> r.open]
                 /\ r.pc = "idle" \/ r.op.field = "progress"
RequestOK == /\ request = [d \in Devices |-> request[d]]
             /\ \A d \in Devices : OneRequest(request[d])
TypeInv   == RowsOK /\ OutboxOK /\ TimesOK /\ ArrivedOK /\ RequestOK

\* a moment belongs to one write, in an outbox or arrived
OutboxesAgree ==
    \A d, e \in Devices : \A op \in outbox[d], oq \in outbox[e] : op.ts = oq.ts => op = oq
ArrivedAgree == \A v, w \in arrived : v.ts = w.ts => v = w
OutboxAgrees ==
    \A d \in Devices : \A op \in outbox[d], w \in arrived : op.ts = w.ts => w = WriteOf(op)
MomentsInv == OutboxesAgree /\ ArrivedAgree /\ OutboxAgrees

\* w is the newest of the writes ws of its book
Newest(ws, w) == w \in ws /\ \A v \in ws : v.book = w.book => v.ts <= w.ts
Field(w)      == [ts |-> w.ts, val |-> w.val]

\* a rating is the newest write that arrived, or was never written
Unwritten(b) == /\ \A w \in arrived : w.book # b
                /\ rows[b].rating = [ts |-> 0, val |-> NoRating]
RatingOK(b)  == \/ Unwritten(b)
                \/ \E w \in arrived : /\ w.book = b /\ Newest(arrived, w)
                                      /\ rows[b].rating = Field(w)
RatingInv == \A b \in Books : RatingOK(b)

\* what was applied is no newer than the field
AppliedInv ==
    \A op \in applied : op.field = "rating"
        => /\ op.book \in Books /\ op.ts \in Nat
           /\ op.ts <= rows[op.book].rating.ts

Invariant == TypeInv /\ MomentsInv /\ RatingInv /\ AppliedInv

------------------------------------------------------------------------------
(* The newest write *)

\* Latest is the field the newest write makes, as moments are not shared.
LEMMA LatestIsNewest ==
  ASSUME NEW ws, NEW w \in ws, Newest(ws, w),
         \A u, v \in ws : u.ts = v.ts => u = v,
         \A v \in ws : v.ts \in Nat
  PROVE  LWW!Latest(ws, w.book) = Field(w)
<1> DEFINE P(v) == v.book = w.book /\ \A u \in ws : u.book = w.book => u.ts <= v.ts
           c == CHOOSE v \in ws : P(v)
<1>1. P(w) BY DEF Newest
<1>2. c \in ws /\ P(c) BY <1>1
<1>3. c.ts <= w.ts /\ w.ts <= c.ts BY <1>1, <1>2
<1>4. c.ts = w.ts BY <1>2, <1>3
<1>5. c = w BY <1>2, <1>4
<1>6. LWW!Latest(ws, w.book) = [ts |-> c.ts, val |-> c.val] BY DEF LWW!Latest
<1> QED BY <1>5, <1>6 DEF Field

\* A field nobody wrote has no latest write.
LEMMA LatestOfNone ==
  ASSUME NEW ws, NEW b, \A w \in ws : w.book # b
  PROVE  LWW!Latest(ws, b) = [ts |-> 0, val |-> NoRating]
  BY DEF LWW!Latest

\* Every rating is the latest write of its book.
RatingsLatest == \A b \in Books : rows[b].rating = LWW!Latest(arrived, b)
LEMMA RatingIsLatest == Invariant => RatingsLatest
<1> SUFFICES ASSUME Invariant, NEW b \in Books
             PROVE  rows[b].rating = LWW!Latest(arrived, b)
  BY DEF RatingsLatest
<1>1. CASE Unwritten(b) BY <1>1, LatestOfNone DEF Unwritten
<1>2. CASE \E w \in arrived : /\ w.book = b /\ Newest(arrived, w)
                              /\ rows[b].rating = Field(w)
  <2>1. PICK w \in arrived : /\ w.book = b /\ Newest(arrived, w)
                             /\ rows[b].rating = Field(w)
    BY <1>2
  <2>2. \A u, v \in arrived : u.ts = v.ts => u = v
    BY DEF Invariant, MomentsInv, ArrivedAgree
  <2>3. \A v \in arrived : v.ts \in Nat
    BY DEF Invariant, TypeInv, ArrivedOK, RatingWrites, Times
  <2> QED BY <2>1, <2>2, <2>3, LatestIsNewest
<1> QED BY <1>1, <1>2 DEF Invariant, RatingInv, RatingOK

\* No rating is newer than now.
LEMMA RatingIsPast ==
  ASSUME Invariant, NEW b \in Books
  PROVE  rows[b].rating.ts \in Nat /\ rows[b].rating.ts <= clock
<1>1. clock \in Nat BY DEF Invariant, TypeInv, TimesOK
<1>2. CASE Unwritten(b) BY <1>1, <1>2 DEF Unwritten
<1>3. CASE \E w \in arrived : rows[b].rating = Field(w)
  BY <1>3 DEF Field, Invariant, TypeInv, ArrivedOK, RatingWrites, Times
<1> QED BY <1>2, <1>3 DEF Invariant, RatingInv, RatingOK

------------------------------------------------------------------------------
(* Steps *)

LEMMA InitInv == Init => Invariant
<1> SUFFICES ASSUME Init PROVE Invariant OBVIOUS
<1>1. RowsOK BY DEF Init, RowsOK, Columns, Values
<1>2. OutboxOK /\ TimesOK /\ ArrivedOK
  BY DEF Init, OutboxOK, TimesOK, ArrivedOK
<1>3. RequestOK BY DEF Init, RequestOK, OneRequest, Resting
<1>4. MomentsInv
  BY DEF Init, MomentsInv, OutboxesAgree, ArrivedAgree, OutboxAgrees
<1>5. RatingInv BY DEF Init, RatingInv, RatingOK, Unwritten
<1>6. AppliedInv BY DEF Init, AppliedInv
<1> QED BY <1>1, <1>2, <1>3, <1>4, <1>5, <1>6 DEF Invariant, TypeInv

\* no rating is written, and nothing is added to an outbox
SameRatings == \A b \in Books : rows'[b].rating = rows[b].rating
NothingNew  == \A d \in Devices : outbox'[d] \subseteq outbox[d]
Quiet       == arrived' = arrived /\ SameRatings

\* one write arrives, and only its book's rating may change
Arrives == \E w \in RatingWrites :
             /\ arrived' = arrived \cup {w}
             /\ \A b \in Books : b # w.book => rows'[b].rating = rows[b].rating

\* what every step does
Step == Invariant' /\ (Quiet \/ Arrives)

\* A step that writes no rating keeps the invariant.
LEMMA QuietStep ==
  ASSUME Invariant, RowsOK', OutboxOK', RequestOK', SameRatings, NothingNew,
         arrived' = arrived, clock' \in Nat, clock <= clock',
         \A op \in applied' : op \in applied \/ op.field # "rating"
  PROVE  Step
<1>1. TimesOK'
  <2>1. \A d \in Devices : \A op \in outbox'[d] : op \in Ops /\ op.ts <= clock
    BY DEF Invariant, TypeInv, TimesOK, NothingNew, OutboxOK
  <2>2. \A op \in Ops : op.ts \in Nat BY DEF Ops, Times
  <2> QED BY <2>1, <2>2 DEF TimesOK, Invariant, TypeInv
<1>2. ArrivedOK'
  <2>1. \A w \in arrived : w.ts \in Nat /\ w.ts <= clock
    BY DEF Invariant, TypeInv, ArrivedOK, RatingWrites, Times
  <2> QED BY <2>1 DEF ArrivedOK, Invariant, TypeInv, TimesOK, RatingWrites
<1>3. MomentsInv'
  <2>1. OutboxesAgree' BY DEF Invariant, MomentsInv, OutboxesAgree, NothingNew
  <2>2. ArrivedAgree' BY DEF Invariant, MomentsInv, ArrivedAgree
  <2>3. OutboxAgrees'
    BY DEF Invariant, MomentsInv, OutboxAgrees, NothingNew, WriteOf
  <2> QED BY <2>1, <2>2, <2>3 DEF MomentsInv
<1>4. RatingInv'
  BY DEF Invariant, RatingInv, RatingOK, Unwritten, Newest, Field, SameRatings
<1>5. AppliedInv'
  BY DEF Invariant, AppliedInv, SameRatings
<1> QED BY <1>1, <1>2, <1>3, <1>4, <1>5 DEF Invariant, TypeInv, Step, Quiet

\* An edit on a device has a moment of its own.
LEMMA DeviceEditsStep ==
  ASSUME Invariant, NEW d \in Devices, DeviceEdits(d)
  PROVE  Step
<1>1. PICK op : /\ op \in Ops /\ op.ts = clock + 1
                /\ outbox' = [outbox EXCEPT ![d] = @ \cup {op}]
  <2>1. PICK b \in Books, f \in Fields, v \in Values :
           outbox' = [outbox EXCEPT ![d] = @ \cup
                        {[book |-> b, field |-> f, ts |-> Now, val |-> v]}]
    BY DEF DeviceEdits, Fields, Values
  <2>2. Now \in Times /\ Now = clock + 1
    BY SyncAssumption DEF DeviceEdits, Edit, Tick, Now, Times, Invariant, TypeInv, TimesOK
  <2>3. [book |-> b, field |-> f, ts |-> Now, val |-> v] \in Ops
    BY <2>2 DEF Ops, Fields, Values
  <2> QED BY <2>1, <2>2, <2>3
<1>2. /\ UNCHANGED <<rows, arrived, applied, handled, request>>
      /\ clock' = clock + 1 /\ clock' \in Nat
  BY DEF DeviceEdits, Edit, Tick, Now, server, Invariant, TypeInv, TimesOK
<1>3. \A e \in Devices : outbox'[e] = IF e = d THEN outbox[d] \cup {op} ELSE outbox[e]
  BY <1>1 DEF Invariant, TypeInv, OutboxOK
<1>4. \A e \in Devices : \A oq \in outbox[e] : oq \in Ops /\ oq.ts \in Nat /\ oq.ts < op.ts
  BY <1>1 DEF Invariant, TypeInv, OutboxOK, TimesOK, Ops, Times
<1>5. \A w \in arrived : w.ts \in Nat /\ w.ts < op.ts
  BY <1>1 DEF Invariant, TypeInv, ArrivedOK, RatingWrites, Times, TimesOK
<1>6. TypeInv'
  <2>1. OutboxOK' BY <1>1, <1>2 DEF OutboxOK, Invariant, TypeInv
  <2>2. TimesOK' BY <1>1, <1>2, <1>3, <1>4 DEF TimesOK
  <2>3. ArrivedOK' BY <1>1, <1>2, <1>5 DEF ArrivedOK, Invariant, TypeInv, TimesOK, RatingWrites
  <2> QED BY <1>2, <2>1, <2>2, <2>3 DEF TypeInv, Invariant, RowsOK, RequestOK, OneRequest
<1>7. MomentsInv'
  <2>1. OutboxesAgree'
    BY <1>1, <1>3, <1>4 DEF OutboxesAgree, Invariant, MomentsInv
  <2>2. ArrivedAgree' BY <1>2 DEF ArrivedAgree, Invariant, MomentsInv
  <2>3. OutboxAgrees'
    BY <1>1, <1>2, <1>3, <1>5 DEF OutboxAgrees, Invariant, MomentsInv, WriteOf
  <2> QED BY <2>1, <2>2, <2>3 DEF MomentsInv
<1>8. RatingInv' /\ AppliedInv'
  BY <1>2 DEF Invariant, RatingInv, RatingOK, Unwritten, Newest, Field, AppliedInv
<1> QED BY <1>2, <1>6, <1>7, <1>8 DEF Invariant, Step, Quiet, SameRatings

\* A write that arrives is kept if it is newer than the rating, and only then.
LEMMA ArrivingStep ==
  ASSUME Invariant, RowsOK', OutboxOK', RequestOK', NothingNew,
         clock' \in Nat, clock <= clock',
         NEW w \in RatingWrites, arrived' = arrived \cup {w}, w.ts <= clock',
         \A v \in arrived : v.ts = w.ts => v = w,
         \A d \in Devices : \A op \in outbox[d] : op.ts = w.ts => w = WriteOf(op),
         \A b \in Books : b # w.book => rows'[b].rating = rows[b].rating,
         rows'[w.book].rating = IF rows[w.book].rating.ts < w.ts THEN Field(w)
                                ELSE rows[w.book].rating,
         \A op \in applied' : op \in applied \/ (op.field = "rating"
             => op.book = w.book /\ op.ts = w.ts /\ w.ts <= rows'[w.book].rating.ts)
  PROVE  Step
<1> DEFINE old == rows[w.book].rating
<1>1. w.book \in Books /\ w.ts \in Nat /\ w.ts > 0 BY DEF RatingWrites, Times
<1>2. old.ts \in Nat /\ old.ts <= clock BY <1>1, RatingIsPast
<1>3. TimesOK'
  <2>1. \A d \in Devices : \A op \in outbox'[d] : op \in Ops /\ op.ts <= clock
    BY DEF Invariant, TypeInv, TimesOK, NothingNew, OutboxOK
  <2>2. \A op \in Ops : op.ts \in Nat BY DEF Ops, Times
  <2> QED BY <2>1, <2>2 DEF TimesOK, Invariant, TypeInv
<1>4. ArrivedOK'
  <2>1. \A v \in arrived : v \in RatingWrites /\ v.ts \in Nat /\ v.ts <= clock
    BY DEF Invariant, TypeInv, ArrivedOK, RatingWrites, Times
  <2>2. RatingWrites' = RatingWrites BY DEF RatingWrites, Times
  <2> QED BY <2>1, <2>2 DEF ArrivedOK, Invariant, TypeInv, TimesOK
<1>5. MomentsInv'
  <2>1. OutboxesAgree' BY DEF Invariant, MomentsInv, OutboxesAgree, NothingNew
  <2>2. ArrivedAgree' BY DEF Invariant, MomentsInv, ArrivedAgree
  <2>3. OutboxAgrees'
    BY DEF Invariant, MomentsInv, OutboxAgrees, NothingNew, WriteOf
  <2> QED BY <2>1, <2>2, <2>3 DEF MomentsInv
<1>6. ASSUME NEW b \in Books PROVE RatingOK(b)'
  <2>1. CASE b # w.book
    <3>1. CASE Unwritten(b) BY <2>1, <3>1 DEF Unwritten, RatingOK
    <3>2. CASE \E u \in arrived : /\ u.book = b /\ Newest(arrived, u)
                                  /\ rows[b].rating = Field(u)
      <4>1. PICK u \in arrived : /\ u.book = b /\ Newest(arrived, u)
                                 /\ rows[b].rating = Field(u)
        BY <3>2
      <4>2. Newest(arrived', u) BY <2>1, <4>1 DEF Newest
      <4> QED BY <2>1, <4>1, <4>2 DEF RatingOK, Field
    <3> QED BY <3>1, <3>2 DEF Invariant, RatingInv, RatingOK
  <2>2. CASE b = w.book /\ old.ts < w.ts
    <3>1. \A v \in arrived : v.book = b => v.ts \in Nat /\ v.ts <= old.ts
      <4>1. \A v \in arrived : v.ts \in Nat
        BY DEF Invariant, TypeInv, ArrivedOK, RatingWrites, Times
      <4>2. CASE Unwritten(b) BY <4>2 DEF Unwritten
      <4>3. CASE \E u \in arrived : /\ u.book = b /\ Newest(arrived, u)
                                    /\ rows[b].rating = Field(u)
        <5>1. PICK u \in arrived : /\ u.book = b /\ Newest(arrived, u)
                                   /\ rows[b].rating = Field(u)
          BY <4>3
        <5>2. old.ts = u.ts BY <2>2, <5>1 DEF Field
        <5> QED BY <4>1, <5>1, <5>2 DEF Newest
      <4> QED BY <4>2, <4>3 DEF Invariant, RatingInv, RatingOK
    <3>2. Newest(arrived', w) BY <1>1, <1>2, <2>2, <3>1 DEF Newest
    <3>3. rows'[b].rating = Field(w) BY <2>2
    <3> QED BY <2>2, <3>2, <3>3 DEF RatingOK, Field
  <2>3. CASE b = w.book /\ ~(old.ts < w.ts)
    <3>1. ~Unwritten(b) BY <1>1, <2>3 DEF Unwritten
    <3>2. PICK u \in arrived : /\ u.book = b /\ Newest(arrived, u)
                               /\ rows[b].rating = Field(u)
      BY <3>1 DEF Invariant, RatingInv, RatingOK
    <3>3. old.ts = u.ts /\ w.ts <= u.ts BY <1>1, <1>2, <2>3, <3>2 DEF Field
    <3>4. Newest(arrived', u) BY <3>2, <3>3 DEF Newest
    <3>5. rows'[b].rating = Field(u) BY <2>3, <3>2
    <3> QED BY <3>2, <3>4, <3>5 DEF RatingOK, Field
  <2> QED BY <2>1, <2>2, <2>3
<1>7. AppliedInv'
  <2>1. rows'[w.book].rating.ts \in Nat /\ old.ts <= rows'[w.book].rating.ts
    BY <1>1, <1>2 DEF Field
  <2>2. ASSUME NEW op \in applied', op.field = "rating"
        PROVE  /\ op.book \in Books /\ op.ts \in Nat
               /\ op.ts <= rows'[op.book].rating.ts
    <3>1. CASE op \notin applied BY <1>1, <2>2, <3>1
    <3>2. CASE op \in applied
      <4>1. /\ op.book \in Books /\ op.ts \in Nat
            /\ op.ts <= rows[op.book].rating.ts
        BY <2>2, <3>2 DEF Invariant, AppliedInv
      <4>2. CASE op.book # w.book BY <4>1, <4>2
      <4>3. CASE op.book = w.book
        BY <1>2, <2>1, <4>1, <4>3 DEF Field
      <4> QED BY <4>2, <4>3
    <3> QED BY <3>1, <3>2
  <2> QED BY <2>2 DEF AppliedInv
<1> QED BY <1>3, <1>4, <1>5, <1>6, <1>7 DEF Invariant, TypeInv, RatingInv, Step, Arrives


\* The web client's edit of a rating arrives at once; of another column, quietly.
LEMMA UpsertStep == ASSUME Invariant, Upsert PROVE Step
<1>1. /\ UNCHANGED <<applied, outbox, handled, request>>
      /\ clock' = clock + 1 /\ clock \in Nat /\ clock < MaxTime
  BY DEF Upsert, Edit, Tick, Now, client, Invariant, TypeInv, TimesOK
<1>2. Now = clock + 1 /\ Now \in Times BY <1>1, SyncAssumption DEF Now, Times
<1>3. PICK b \in Books, v \in Values :
        LET changes == v # rows[b].rating.val
            write   == [book |-> b, ts |-> Now, val |-> v]
        IN  /\ rows' = [rows EXCEPT ![b] =
                 [rating |-> IF changes THEN [ts |-> Now, val |-> v] ELSE @.rating,
                  updated |-> Now, deleted |-> 0]]
            /\ arrived' = IF changes THEN arrived \cup {write} ELSE arrived
  BY DEF Upsert, Values
<1>4. rows \in [Books -> Columns] /\ rows[b] \in Columns /\ Now \in Nat
  BY <1>1, <1>2 DEF Invariant, TypeInv, RowsOK
<1>5. OutboxOK' /\ RequestOK' /\ NothingNew
  BY <1>1 DEF Invariant, TypeInv, OutboxOK, RequestOK, OneRequest, NothingNew
<1>6. \A e \in Books : e # b => rows'[e].rating = rows[e].rating BY <1>3, <1>4
<1>7. CASE v # rows[b].rating.val
  <2> DEFINE w == [book |-> b, ts |-> Now, val |-> v]
             r == [rating |-> Field(w), updated |-> Now, deleted |-> 0]
  <2>1. rows' = [rows EXCEPT ![b] = r] /\ arrived' = arrived \cup {w}
    BY <1>3, <1>7 DEF Field
  <2>2. r \in Columns BY <1>4 DEF Columns, Field
  <2>3. RowsOK' BY <1>4, <2>1, <2>2 DEF RowsOK
  <2>4. w \in RatingWrites /\ w.ts = Now /\ w.book = b BY <1>2 DEF RatingWrites, Values
  <2>5. \A u \in arrived : u.ts # w.ts
    BY <1>1, <1>2 DEF Invariant, TypeInv, ArrivedOK, RatingWrites, Times
  <2>6. \A d \in Devices : \A op \in outbox[d] : op.ts # w.ts
    BY <1>1, <1>2 DEF Invariant, TypeInv, TimesOK, OutboxOK, Ops, Times
  <2>7. rows[b].rating.ts < w.ts BY <1>1, <1>2, RatingIsPast
  <2>8. rows'[b].rating = Field(w) BY <1>4, <2>1
  <2> HIDE DEF w, r
  <2> QED BY <1>1, <1>2, <1>5, <1>6, <2>1, <2>3, <2>4, <2>5, <2>6, <2>7, <2>8, ArrivingStep
<1>8. CASE v = rows[b].rating.val
  <2> DEFINE r == [rating |-> rows[b].rating, updated |-> Now, deleted |-> 0]
  <2>1. rows' = [rows EXCEPT ![b] = r] /\ arrived' = arrived
    BY <1>3, <1>8
  <2>2. r \in Columns BY <1>4 DEF Columns
  <2>3. RowsOK' BY <1>4, <2>1, <2>2 DEF RowsOK
  <2>4. SameRatings BY <1>4, <1>6, <2>1 DEF SameRatings
  <2> QED BY <1>1, <1>5, <2>1, <2>3, <2>4, QuietStep
<1> QED BY <1>7, <1>8

\* A deletion leaves the rating as it is.
LEMMA DeleteRowStep == ASSUME Invariant, DeleteRow PROVE Step
<1>1. /\ UNCHANGED <<applied, arrived, outbox, handled, request>>
      /\ clock' = clock + 1 /\ clock \in Nat
  BY DEF DeleteRow, Edit, Tick, Now, client, Invariant, TypeInv, TimesOK
<1>2. PICK b \in Books :
        rows' = [rows EXCEPT ![b].deleted = Now, ![b].updated = Now]
  BY DEF DeleteRow
<1>3. rows \in [Books -> Columns] /\ rows[b] \in Columns /\ Now \in Nat
  BY <1>1 DEF Invariant, TypeInv, RowsOK, Now
<1>4. RowsOK' /\ SameRatings BY <1>2, <1>3 DEF RowsOK, Columns, SameRatings
<1>5. OutboxOK' /\ RequestOK' /\ NothingNew
  BY <1>1 DEF Invariant, TypeInv, OutboxOK, RequestOK, OneRequest, NothingNew
<1> QED BY <1>1, <1>4, <1>5, QuietStep

\* A rating of a row that is there arrives; every other op is quiet.
LEMMA ApplyVerdictStep == ASSUME Invariant, NEW d \in Devices, ApplyVerdict(d) PROVE Step
<1>1. PICK op \in Pending(d) :
        /\ op.field \in {"rating", "row"}
        /\ arrived' = IF op.field = "rating" /\ Live(op.book)
                      THEN arrived \cup {[book |-> op.book, ts |-> op.ts, val |-> op.val]}
                      ELSE arrived
        /\ \/ Accepted(op) /\ Write(op) /\ Applied(d, op) /\ Tick
           \/ ~Accepted(op) /\ Refused(d, op) /\ UNCHANGED <<rows, clock>>
  BY DEF ApplyVerdict
<1>2. /\ op \in outbox[d] /\ op \in Ops /\ op.ts \in Nat /\ op.ts \in Times
      /\ op.ts <= clock /\ op.book \in Books /\ op.val \in Values
  BY <1>1 DEF Pending, Invariant, TypeInv, OutboxOK, TimesOK, Ops, Times, Values
<1>3. clock \in Nat /\ clock' \in Nat /\ clock <= clock' /\ Now \in Nat
  BY <1>1 DEF Tick, Now, Invariant, TypeInv, TimesOK
<1>4. outbox' = outbox BY DEF ApplyVerdict
<1>5. handled' = [handled EXCEPT ![d] = @ \cup {op}]
      /\ request' = [request EXCEPT ![d] = Resting]
  BY <1>1 DEF Applied, Refused, Handled
<1>6. OutboxOK' /\ RequestOK' /\ NothingNew
  BY <1>4, <1>5 DEF Invariant, TypeInv, OutboxOK, RequestOK, OneRequest, NothingNew, Resting
<1>7. rows \in [Books -> Columns] /\ rows[op.book] \in Columns
  BY <1>2 DEF Invariant, TypeInv, RowsOK
<1>8. RowsOK'
  <2>1. CASE rows' = rows BY <1>7, <2>1 DEF RowsOK
  <2>2. CASE Write(op) /\ op.field = "rating"
    <3> DEFINE r == [rows[op.book] EXCEPT !.rating = [ts |-> op.ts, val |-> op.val],
                                          !.updated = Now]
    <3>1. r \in Columns BY <1>2, <1>3, <1>7 DEF Columns
    <3>2. rows' = [rows EXCEPT ![op.book] = r] BY <2>2 DEF Write
    <3> HIDE DEF r
    <3> QED BY <1>7, <3>1, <3>2 DEF RowsOK
  <2>3. CASE Write(op) /\ op.field # "rating"
    <3> DEFINE r == [rows[op.book] EXCEPT !.deleted = op.ts, !.updated = Now]
    <3>1. r \in Columns BY <1>2, <1>3, <1>7 DEF Columns
    <3>2. rows' = [rows EXCEPT ![op.book] = r] BY <2>3 DEF Write
    <3> HIDE DEF r
    <3> QED BY <1>7, <3>1, <3>2 DEF RowsOK
  <2> QED BY <1>1, <2>1, <2>2, <2>3
<1>9. CASE op.field = "rating" /\ Live(op.book)
  <2> DEFINE w == WriteOf(op)
  <2>1. arrived' = arrived \cup {w} BY <1>1, <1>9 DEF WriteOf
  <2>2. w \in RatingWrites /\ w.book = op.book /\ w.ts = op.ts
    BY <1>2 DEF WriteOf, RatingWrites, Values
  <2>3. \A v \in arrived : v.ts = w.ts => v = w
    BY <1>2, <2>2 DEF Invariant, MomentsInv, OutboxAgrees
  <2>4. \A e \in Devices : \A oq \in outbox[e] : oq.ts = w.ts => w = WriteOf(oq)
    BY <1>2, <2>2 DEF Invariant, MomentsInv, OutboxesAgree
  <2>5. Accepted(op) <=> rows[op.book].rating.ts < op.ts
    BY <1>9 DEF Accepted, Newer
  <2>6. Accepted(op) => rows' = [rows EXCEPT ![op.book] =
               [@ EXCEPT !.rating = [ts |-> op.ts, val |-> op.val], !.updated = Now]]
    BY <1>1, <1>9 DEF Write
  <2>7. ~Accepted(op) => rows' = rows BY <1>1
  <2>8. \A b \in Books : b # op.book => rows'[b].rating = rows[b].rating
    BY <1>7, <2>6, <2>7
  <2>9. rows'[op.book].rating = IF rows[op.book].rating.ts < op.ts THEN Field(w)
                                ELSE rows[op.book].rating
    <3>1. CASE Accepted(op)
      BY <1>2, <1>7, <2>5, <2>6, <3>1 DEF Field, WriteOf, Columns
    <3>2. CASE ~Accepted(op) BY <2>5, <2>7, <3>2
    <3> QED BY <3>1, <3>2
  <2>10. \A oq \in applied' : oq \in applied \/ (Accepted(op) /\ oq = op)
    BY <1>1 DEF Applied, Refused
  <2>11. Accepted(op) => op.ts <= rows'[op.book].rating.ts
    BY <1>2, <2>2, <2>5, <2>9 DEF Field
  <2> HIDE DEF w
  <2> QED BY <1>2, <1>3, <1>6, <1>8, <2>1, <2>2, <2>3, <2>4, <2>8, <2>9, <2>10, <2>11,
             ArrivingStep
<1>10. CASE ~(op.field = "rating" /\ Live(op.book))
  <2>1. arrived' = arrived BY <1>1, <1>10
  <2>2. Accepted(op) => op.field # "rating" BY <1>10 DEF Accepted
  <2>3. Accepted(op) => rows' = [rows EXCEPT ![op.book] =
               [@ EXCEPT !.deleted = op.ts, !.updated = Now]]
    BY <1>1, <2>2 DEF Write
  <2>4. ~Accepted(op) => rows' = rows BY <1>1
  <2>5. SameRatings BY <1>7, <2>3, <2>4 DEF SameRatings, Columns
  <2>6. \A oq \in applied' : oq \in applied \/ oq.field # "rating"
    BY <1>1, <2>2 DEF Applied, Refused
  <2> QED BY <1>3, <1>6, <1>8, <2>1, <2>5, <2>6, QuietStep
<1> QED BY <1>9, <1>10


\* a request works on a progress op, or is through with one
Works(d) == /\ UNCHANGED <<handled, applied>>
            /\ \E pc, op, i : /\ op.field = "progress"
                              /\ request' = [request EXCEPT ![d] =
                                     [pc |-> pc, op |-> op, open |-> i]]
Ends(d)  == \E op : op.field = "progress" /\ (Applied(d, op) \/ Refused(d, op))

\* applyProgress writes no rating.
LEMMA ProgressStep ==
  ASSUME Invariant, NEW d \in Devices, UNCHANGED <<clock, rows, arrived, outbox>>,
         Works(d) \/ Ends(d)
  PROVE  Step
<1>1. RowsOK' /\ SameRatings /\ NothingNew /\ clock' \in Nat /\ clock <= clock'
  BY DEF Invariant, TypeInv, RowsOK, TimesOK, SameRatings, NothingNew
<1>2. \A op \in applied' : op \in applied \/ op.field # "rating"
  BY DEF Works, Ends, Applied, Refused
<1>3. OutboxOK'
  BY DEF Works, Ends, Applied, Refused, Handled, Invariant, TypeInv, OutboxOK
<1>4. RequestOK'
  <2>1. CASE Works(d)
    BY <2>1 DEF Works, Invariant, TypeInv, RequestOK, OneRequest
  <2>2. CASE Ends(d)
    BY <2>2 DEF Ends, Applied, Refused, Handled, Resting, Invariant, TypeInv, RequestOK,
                OneRequest
  <2> QED BY <2>1, <2>2
<1> QED BY <1>1, <1>2, <1>3, <1>4, QuietStep

\* A request that is not idle has a progress op, and can go to another point.
LEMMA RequestMoves ==
  ASSUME Invariant, NEW d \in Devices, request[d].pc # "idle"
  PROVE  /\ Progress(d).field = "progress"
         /\ \A pc : At(d, pc) /\ UNCHANGED <<handled, applied>> => Works(d)
<1>1. OneRequest(request[d]) /\ Progress(d).field = "progress"
  BY DEF Invariant, TypeInv, RequestOK, OneRequest, Progress
<1>2. ASSUME NEW pc, At(d, pc), UNCHANGED <<handled, applied>> PROVE Works(d)
  <2> DEFINE r == request[d]
  <2>1. PICK a, b, c : r = [pc |-> a, op |-> b, open |-> c] BY <1>1 DEF OneRequest
  <2>2. request' = [request EXCEPT ![d] = [r EXCEPT !.pc = pc]] BY <1>2 DEF At
  <2>3. [r EXCEPT !.pc = pc] = [pc |-> pc, op |-> b, open |-> c] BY <2>1
  <2>4. request' = [request EXCEPT ![d] = [pc |-> pc, op |-> b, open |-> c]] BY <2>2, <2>3
  <2>5. b.field = "progress" BY <1>1, <2>1 DEF Progress
  <2> QED BY <1>2, <2>4, <2>5 DEF Works
<1> QED BY <1>1, <1>2

LEMMA FindBookStep == ASSUME Invariant, NEW d \in Devices, FindBook(d) PROVE Step
<1>1. UNCHANGED <<clock, rows, arrived, outbox>> BY DEF FindBook
<1>2. Works(d) \/ Ends(d) BY DEF FindBook, Works, Ends
<1> QED BY <1>1, <1>2, ProgressStep

LEMMA TrySessionStep == ASSUME Invariant, NEW d \in Devices, TrySession(d) PROVE Step
<1>1. UNCHANGED <<clock, rows, arrived, outbox>> BY DEF TrySession
<1>2. request[d].pc # "idle" BY DEF TrySession
<1>3. Works(d) \/ Ends(d) BY <1>2, RequestMoves DEF TrySession, UpdateSession, Ends
<1> QED BY <1>1, <1>3, ProgressStep

LEMMA LookAtSessionStep == ASSUME Invariant, NEW d \in Devices, LookAtSession(d) PROVE Step
<1>1. UNCHANGED <<clock, rows, arrived, outbox>> BY DEF LookAtSession
<1>2. request[d].pc # "idle" BY DEF LookAtSession
<1>3. CASE \E i : /\ request' = [request EXCEPT ![d] =
                        [pc |-> "attach", op |-> Progress(d), open |-> i]]
                  /\ UNCHANGED <<handled, applied>>
  <2>1. Works(d) BY <1>2, <1>3, RequestMoves DEF Works
  <2> QED BY <1>1, <2>1, ProgressStep
<1>4. CASE At(d, "open") /\ UNCHANGED <<handled, applied>>
  BY <1>1, <1>2, <1>4, RequestMoves, ProgressStep
<1>5. CASE Ends(d) BY <1>1, <1>5, ProgressStep
<1>6. \/ \E i : /\ request' = [request EXCEPT ![d] =
                      [pc |-> "attach", op |-> Progress(d), open |-> i]]
                /\ UNCHANGED <<handled, applied>>
      \/ At(d, "open") /\ UNCHANGED <<handled, applied>>
      \/ Applied(d, Progress(d)) \/ Refused(d, Progress(d))
  BY DEF LookAtSession
<1> QED BY <1>2, <1>3, <1>4, <1>5, <1>6, RequestMoves DEF Ends

LEMMA AttachEditionStep == ASSUME Invariant, NEW d \in Devices, AttachEdition(d) PROVE Step
<1>1. UNCHANGED <<clock, rows, arrived, outbox>> BY DEF AttachEdition
<1>2. At(d, "again") /\ UNCHANGED <<handled, applied>> /\ request[d].pc # "idle"
  BY DEF AttachEdition
<1> QED BY <1>1, <1>2, RequestMoves, ProgressStep

LEMMA RetrySessionStep == ASSUME Invariant, NEW d \in Devices, RetrySession(d) PROVE Step
<1>1. UNCHANGED <<clock, rows, arrived, outbox>> BY DEF RetrySession
<1>2. request[d].pc # "idle" BY DEF RetrySession
<1>3. Ends(d) BY <1>2, RequestMoves DEF RetrySession, UpdateSession, Ends
<1> QED BY <1>1, <1>3, ProgressStep

LEMMA OpenSessionStep == ASSUME Invariant, NEW d \in Devices, OpenSession(d) PROVE Step
<1>1. UNCHANGED <<clock, rows, arrived, outbox>> BY DEF OpenSession
<1>2. request[d].pc # "idle" BY DEF OpenSession
<1>3. Ends(d) BY <1>2, RequestMoves DEF OpenSession, Ends
<1> QED BY <1>1, <1>3, ProgressStep

\* Answers, lost answers, pages and sessions touch no rating.
LEMMA OtherStep ==
  ASSUME Invariant,
         \/ CreateSession \/ FinishSession
         \/ \E d \in Devices : Answer(d) \/ FailOp(d) \/ LoseAnswer(d) \/ Pull(d)
  PROVE  Step
<1>1. /\ UNCHANGED <<rows, arrived, applied>>
      /\ clock' = clock \/ clock' = clock + 1
  BY DEF CreateSession, FinishSession, Answer, FailOp, LoseAnswer, Pull, Edit, Tick, Now, server
<1>2. RowsOK' /\ SameRatings /\ clock' \in Nat /\ clock <= clock'
  BY <1>1 DEF Invariant, TypeInv, RowsOK, TimesOK, SameRatings
<1>3. OutboxOK' /\ NothingNew
  <2>1. CASE UNCHANGED <<outbox, handled>>
    BY <2>1 DEF Invariant, TypeInv, OutboxOK, NothingNew
  <2>2. CASE \E d \in Devices : Answer(d) \/ LoseAnswer(d)
    BY <2>2 DEF Answer, LoseAnswer, Invariant, TypeInv, OutboxOK, NothingNew
  <2> QED BY <2>1, <2>2 DEF CreateSession, FinishSession, FailOp, Pull, client
<1>4. RequestOK'
  <2>1. CASE UNCHANGED request
    BY <2>1 DEF Invariant, TypeInv, RequestOK, OneRequest
  <2>2. CASE \E d \in Devices : request' = [request EXCEPT ![d] = Resting]
    BY <2>2 DEF Resting, Invariant, TypeInv, RequestOK, OneRequest
  <2> QED BY <2>1, <2>2 DEF CreateSession, FinishSession, Answer, FailOp, LoseAnswer, Pull,
                            client
<1> QED BY <1>1, <1>2, <1>3, <1>4, QuietStep

LEMMA NextStep == ASSUME Invariant, [Next]_vars PROVE Step
<1>1. CASE UNCHANGED vars
  BY <1>1, QuietStep
     DEF vars, Invariant, TypeInv, RowsOK, OutboxOK, TimesOK, RequestOK, OneRequest,
         SameRatings, NothingNew
<1>2. CASE Next
  BY <1>2, DeviceEditsStep, UpsertStep, DeleteRowStep, ApplyVerdictStep, FindBookStep,
     TrySessionStep, LookAtSessionStep, AttachEditionStep, RetrySessionStep,
     OpenSessionStep, OtherStep
  DEF Next, Push
<1> QED BY <1>1, <1>2

\* Every device's ops, the rows and the writes that arrived agree at all times:
\* a rating is the newest write that reached its row.
THEOREM RatingsAreNewest == Spec => []Invariant
<1>1. Invariant /\ [Next]_vars => Invariant' BY NextStep DEF Step
<1> QED BY <1>1, InitInv, PTL DEF Spec

------------------------------------------------------------------------------
(* Sync implements LastWriterWins *)

LEMMA InitImplements == Init => LWW!Init
  BY DEF Init, LWW!Init

\* A step lets one write arrive, as LastWriterWins does, or changes nothing it sees.
LEMMA StepImplements ==
  ASSUME Invariant, [Next]_vars
  PROVE  [LWW!Next]_(<<[b \in Books |-> rows[b].rating], arrived>>)
<1>1. Step /\ Invariant' BY NextStep DEF Step
<1>2. CASE Quiet BY <1>2 DEF Quiet, SameRatings
<1>3. CASE Arrives
  <2>1. PICK w \in RatingWrites :
           /\ arrived' = arrived \cup {w}
           /\ \A b \in Books : b # w.book => rows'[b].rating = rows[b].rating
    BY <1>3 DEF Arrives
  <2>2. w.book \in Books BY DEF RatingWrites
  <2>3. rows'[w.book].rating = LWW!Latest(arrived', w.book)
    <3>1. RatingsLatest' BY <1>1, RatingIsLatest, PTL
    <3> QED BY <2>2, <3>1 DEF RatingsLatest
  <2>4. [b \in Books |-> rows'[b].rating] =
           [[b \in Books |-> rows[b].rating] EXCEPT ![w.book] = LWW!Latest(arrived', w.book)]
    BY <2>1, <2>2, <2>3
  <2>5. LWW!Arrive(w) BY <2>1, <2>4 DEF LWW!Arrive
  <2> QED BY <2>5 DEF LWW!Next
<1> QED BY <1>1, <1>2, <1>3 DEF Step

\* Per-field last-writer-wins, for every set of devices and books: Sync
\* implements LastWriterWins.
THEOREM SyncImplementsLastWriterWins == Spec => LastWriterWinsHolds
<1>1. Invariant /\ [Next]_vars
        => [LWW!Next]_(<<[b \in Books |-> rows[b].rating], arrived>>)
  BY StepImplements
<1> QED BY <1>1, InitImplements, RatingsAreNewest, PTL DEF Spec, LastWriterWinsHolds, LWW!Spec

------------------------------------------------------------------------------
(* Pushing again *)

\* A rating that was applied is no newer than the field, so that an op handled
\* again leaves the rows as they are.
LEMMA StepRests ==
  ASSUME Invariant, [Next]_vars, NEW d \in Devices, NEW op \in applied,
         op \in handled'[d] \ handled[d], op.field = "rating"
  PROVE  UNCHANGED rows
<1>1. UNCHANGED rows \/ UNCHANGED handled \/ \E e \in Devices : ApplyVerdict(e)
  BY DEF Next, vars, Push, DeviceEdits, Upsert, DeleteRow, CreateSession, FinishSession,
         FindBook, TrySession, LookAtSession, AttachEdition, RetrySession, OpenSession,
         Answer, FailOp, LoseAnswer, Pull, client, server
<1>2. ASSUME NEW e \in Devices, ApplyVerdict(e) PROVE UNCHANGED rows
  <2>1. PICK oq \in Pending(e) :
          /\ handled' = [handled EXCEPT ![e] = @ \cup {oq}]
          /\ Accepted(oq) \/ UNCHANGED rows
    BY <1>2 DEF ApplyVerdict, Applied, Refused, Handled
  <2>2. oq = op BY <2>1 DEF Invariant, TypeInv, OutboxOK
  <2>3. op.ts \in Nat /\ op.ts <= rows[op.book].rating.ts /\ op.book \in Books
    BY DEF Invariant, AppliedInv
  <2>4. ~Accepted(op) BY <2>3, RatingIsPast DEF Accepted, Newer
  <2> QED BY <2>1, <2>2, <2>4
<1> QED BY <1>1, <1>2

\* A rating pushed again, its answer lost, changes nothing, for every set of
\* devices and books and any number of losses.
THEOREM ReplayRests == Spec => ReplayedRatingRests
<1>1. Invariant /\ [Next]_vars
        => [\A d \in Devices : \A op \in applied :
              Again(d, op) /\ op.field = "rating" => UNCHANGED rows]_vars
  BY StepRests DEF Again
<1> QED BY <1>1, RatingsAreNewest, PTL DEF Spec, ReplayedRatingRests

------------------------------------------------------------------------------
(* Types *)

\* A set of numbers that has a bound and a member has a greatest one, which is
\* Max's: the bound's distance to them has a least one.
LEMMA MaxExists ==
  ASSUME NEW S \in SUBSET Nat, NEW n \in Nat, S # {}, \A s \in S : s <= n
  PROVE  Max(S) \in S /\ \A s \in S : s <= Max(S)
<1> DEFINE T == {n - s : s \in S}
           R == OpToRel(<, Nat)
<1>1. T \subseteq Nat /\ T # {}
  <2>1. \A s \in S : n - s \in Nat OBVIOUS
  <2>2. T \subseteq Nat BY <2>1
  <2>3. T # {} OBVIOUS
  <2> QED BY <2>2, <2>3
<1>2. IsWellFoundedOn(R, Nat) BY NatLessThanWellFounded
<1>3. \A y, x \in Nat : y < x => <<y, x>> \in R BY DEF OpToRel
<1> HIDE DEF R
<1>4. PICK x \in T : \A y \in T : ~(<<y, x>> \in R) BY <1>1, <1>2, WFMin
<1>5. PICK m \in S : x = n - m BY <1>4
<1>6. \A s \in S : s <= m
  <2> TAKE s \in S
  <2>1. n - s \in T /\ n - s \in Nat /\ x \in Nat BY <1>1
  <2>2. ~(n - s < x) BY <1>3, <1>4, <2>1
  <2> QED BY <1>5, <2>1, <2>2
<1>7. \E y \in S : \A s \in S : y >= s BY <1>6
<1> QED BY <1>7 DEF Max

SessionRow == [open : BOOLEAN, printing : BOOLEAN, ts : Nat]
Points     == {"idle", "update", "look", "attach", "again", "open"}

\* a session of the book b: no newer than now, and no page without an edition
SessionOK(b, s) == s.ts <= clock /\ (s.printing => b \in printed)
SessionsOK(b, ss) == /\ ss \in Seq(SessionRow) /\ Len(ss) <= MaxSessions
                     /\ \A i \in DOMAIN ss : SessionOK(b, ss[i])

BoundsInv   == clock <= MaxTime /\ printed \subseteq Books /\ applied \subseteq Ops
RowsInv     == \A b \in Books : rows[b].updated <= clock /\ rows[b].deleted <= clock
SessionsInv == /\ sessions = [b \in Books |-> sessions[b]]
               /\ \A b \in Books : SessionsOK(b, sessions[b])
RequestInv(d) == /\ handled[d] \subseteq outbox[d]
                 /\ request[d].pc \in Points
                 /\ request[d].pc # "idle" => request[d].op \in outbox[d]
RequestsInv == \A d \in Devices : RequestInv(d)
ReadersInv  == /\ cursor \in [Devices -> Nat] /\ known \in [Devices -> [Books -> Nat]]
               /\ \A d \in Devices : /\ cursor[d] <= clock
                                     /\ \A b \in Books : known[d][b] <= clock

Typing == BoundsInv /\ RowsInv /\ SessionsInv /\ RequestsInv /\ ReadersInv

\* What the parts say is TypeOK.
LEMMA TypingIsTypeOK == Invariant /\ Typing => TypeOK
<1> SUFFICES ASSUME Invariant, Typing PROVE TypeOK OBVIOUS
<1>1. clock \in 0..MaxTime /\ clock \in Times \cup {0} /\ printed \subseteq Books
  BY SyncAssumption DEF Typing, BoundsInv, Invariant, TypeInv, TimesOK, Times
<1>2. ASSUME NEW b \in Books
      PROVE  /\ rows[b].rating.ts \in 0..clock /\ rows[b].rating.val \in Ratings \cup {NoRating}
             /\ rows[b].updated \in 0..clock /\ rows[b].deleted \in 0..clock
  <2>1. rows[b] \in Columns /\ rows[b].updated <= clock /\ rows[b].deleted <= clock
    BY DEF Typing, RowsInv, Invariant, TypeInv, RowsOK
  <2> QED BY <1>1, <2>1, RatingIsPast DEF Columns, Values
<1>3. ASSUME NEW b \in Books
      PROVE  /\ Len(sessions[b]) <= MaxSessions
             /\ \A i \in DOMAIN sessions[b] :
                  /\ sessions[b][i].ts \in 0..clock
                  /\ sessions[b][i].printing => b \in printed
  <2>1. SessionsOK(b, sessions[b]) BY DEF Typing, SessionsInv
  <2>2. \A i \in DOMAIN sessions[b] : sessions[b][i] \in SessionRow BY <2>1 DEF SessionsOK
  <2>3. \A i \in DOMAIN sessions[b] : sessions[b][i].ts \in Nat BY <2>2 DEF SessionRow
  <2> QED BY <1>1, <2>1, <2>3 DEF SessionsOK, SessionOK
<1>4. ASSUME NEW d \in Devices
      PROVE  /\ outbox[d] \subseteq Ops /\ handled[d] \subseteq outbox[d]
             /\ request[d].pc \in {"idle", "update", "look", "attach", "again", "open"}
             /\ request[d].pc # "idle" => request[d].op \in outbox[d]
             /\ cursor[d] \in 0..clock /\ known[d] \in [Books -> 0..clock]
  <2>1. RequestInv(d) /\ outbox[d] \subseteq Ops
    BY DEF Typing, RequestsInv, Invariant, TypeInv, OutboxOK
  <2>2. /\ cursor[d] \in Nat /\ cursor[d] <= clock /\ known[d] \in [Books -> Nat]
        /\ \A b \in Books : known[d][b] <= clock
    BY DEF Typing, ReadersInv
  <2> QED BY <1>1, <2>1, <2>2 DEF RequestInv, Points
<1> QED BY <1>1, <1>2, <1>3, <1>4 DEF TypeOK, Typing, BoundsInv, Invariant, TypeInv, ArrivedOK

\* Nothing is out of type at first.
LEMMA InitTyping == Init => Typing
<1> SUFFICES ASSUME Init PROVE Typing OBVIOUS
<1>1. BoundsInv /\ RowsInv BY SyncAssumption DEF Init, BoundsInv, RowsInv
<1>2. SessionsInv
  <2>1. \A b \in Books : SessionsOK(b, <<>>) BY SyncAssumption DEF SessionsOK
  <2> QED BY <2>1 DEF Init, SessionsInv
<1>3. RequestsInv BY DEF Init, RequestsInv, RequestInv, Resting, Points
<1>4. ReadersInv BY DEF Init, ReadersInv
<1> QED BY <1>1, <1>2, <1>3, <1>4 DEF Typing

\* The clock moves one moment at a time and stops at its bound.
LEMMA ClockStep ==
  ASSUME Invariant, Typing, [Next]_vars
  PROVE  /\ clock \in Nat /\ clock' \in Nat /\ clock <= clock' /\ clock' <= MaxTime
         /\ clock' = clock \/ (clock' = clock + 1 /\ clock < MaxTime)
         /\ printed' = printed
<1>1. clock \in Nat /\ clock <= MaxTime
  BY DEF Invariant, TypeInv, TimesOK, Typing, BoundsInv
<1>2. clock' = clock \/ (clock' = clock + 1 /\ clock < MaxTime)
  BY DEF Next, vars, Push, DeviceEdits, Upsert, DeleteRow, CreateSession, FinishSession,
         ApplyVerdict, FindBook, TrySession, LookAtSession, AttachEdition, RetrySession,
         OpenSession, Answer, FailOp, LoseAnswer, Pull, Edit, Tick, Now
<1>3. printed' = printed
  BY DEF Next, vars, Push, DeviceEdits, Upsert, DeleteRow, CreateSession, FinishSession,
         ApplyVerdict, FindBook, TrySession, LookAtSession, AttachEdition, RetrySession,
         OpenSession, Answer, FailOp, LoseAnswer, Pull, server
<1> QED BY <1>1, <1>2, <1>3, SyncAssumption

\* What is applied is an op.
LEMMA BoundsStep == ASSUME Invariant, Typing, [Next]_vars PROVE BoundsInv'
<1>1. \A d \in Devices : outbox[d] \subseteq Ops /\ Pending(d) \subseteq Ops
  BY DEF Invariant, TypeInv, OutboxOK, Pending
<1>2. \A d \in Devices : request[d].pc # "idle" => Progress(d) \in Ops
  BY <1>1 DEF Typing, RequestsInv, RequestInv, Progress
<1>3. applied' = applied \/ \E op \in Ops : applied' = applied \cup {op}
  <2>1. CASE UNCHANGED applied BY <2>1
  <2>2. ASSUME NEW d \in Devices, Push(d) PROVE <1>3!1 \/ <1>3!2
    <3>1. CASE ApplyVerdict(d) BY <1>1, <3>1 DEF ApplyVerdict, Applied, Refused
    <3>2. CASE FindBook(d) BY <3>2 DEF FindBook, Refused
    <3>3. CASE TrySession(d) BY <1>2, <3>3 DEF TrySession, UpdateSession, Applied
    <3>4. CASE LookAtSession(d) BY <1>2, <3>4 DEF LookAtSession, Applied, Refused
    <3>5. CASE AttachEdition(d) BY <3>5 DEF AttachEdition
    <3>6. CASE RetrySession(d) BY <1>2, <3>6 DEF RetrySession, UpdateSession, Applied, Refused
    <3>7. CASE OpenSession(d) BY <1>2, <3>7 DEF OpenSession, Applied, Refused
    <3>8. CASE Answer(d) BY <3>8 DEF Answer, server
    <3> QED BY <2>2, <3>1, <3>2, <3>3, <3>4, <3>5, <3>6, <3>7, <3>8 DEF Push
  <2> QED BY <2>1, <2>2 DEF Next, vars, DeviceEdits, Upsert, DeleteRow, CreateSession,
             FinishSession, FailOp, LoseAnswer, Pull, server
<1> QED BY <1>3, ClockStep DEF Typing, BoundsInv, Ops, Times

\* No row is changed or deleted later than now.
LEMMA RowsStep == ASSUME Invariant, Typing, [Next]_vars PROVE RowsInv'
<1>1. rows \in [Books -> Columns] BY DEF Invariant, TypeInv, RowsOK
<1>2. \A b \in Books : /\ rows[b].updated \in Nat /\ rows[b].updated <= clock
                       /\ rows[b].deleted \in Nat /\ rows[b].deleted <= clock
  BY <1>1 DEF Typing, RowsInv, Columns
<1>3. CASE UNCHANGED rows BY <1>2, <1>3, ClockStep DEF RowsInv
<1>4. CASE Upsert
  <2>1. /\ clock' = clock + 1
        /\ \A b \in Books : \/ rows'[b] = rows[b]
                            \/ rows'[b].updated = clock + 1 /\ rows'[b].deleted = 0
    BY <1>1, <1>4 DEF Upsert, Edit, Tick, Now
  <2> QED BY <1>2, <2>1, ClockStep DEF RowsInv
<1>5. CASE DeleteRow
  <2>1. /\ clock' = clock + 1
        /\ \A b \in Books : \/ rows'[b] = rows[b]
                            \/ rows'[b].updated = clock + 1 /\ rows'[b].deleted = clock + 1
    BY <1>1, <1>5 DEF DeleteRow, Edit, Tick, Now, Columns
  <2> QED BY <1>2, <2>1, ClockStep DEF RowsInv
<1>6. ASSUME NEW d \in Devices, ApplyVerdict(d) PROVE RowsInv'
  <2>1. PICK op \in Pending(d) : \/ Write(op) /\ Tick
                                 \/ UNCHANGED rows
    BY <1>6 DEF ApplyVerdict
  <2>2. CASE UNCHANGED rows BY <1>3, <2>2
  <2>3. CASE Write(op) /\ Tick
    <3>1. op.ts \in Nat /\ op.ts <= clock
      BY DEF Pending, Invariant, TypeInv, TimesOK, OutboxOK, Ops, Times
    <3>2. clock' = clock + 1 BY <2>3 DEF Tick, Now
    <3>3. \A b \in Books : \/ rows'[b] = rows[b]
                           \/ /\ rows'[b].updated = clock + 1
                              /\ rows'[b].deleted = rows[b].deleted \/ rows'[b].deleted = op.ts
      BY <1>1, <2>3 DEF Write, Now, Columns
    <3> QED BY <1>2, <3>1, <3>2, <3>3, ClockStep DEF RowsInv
  <2> QED BY <2>1, <2>2, <2>3
<1> QED BY <1>3, <1>4, <1>5, <1>6
        DEF Next, vars, Push, DeviceEdits, CreateSession, FinishSession, FindBook, TrySession,
            LookAtSession, AttachEdition, RetrySession, OpenSession, Answer, FailOp,
            LoseAnswer, Pull, server

\* One book's sessions change, to what they may be.
LEMMA SessionsMove ==
  ASSUME Invariant, Typing, [Next]_vars, NEW b \in Books, NEW ss,
         sessions' = [sessions EXCEPT ![b] = ss], SessionsOK(b, ss)'
  PROVE  SessionsInv'
<1>1. \A c \in Books : SessionsOK(c, sessions[c]) BY DEF Typing, SessionsInv
<1>2. \A c \in Books : SessionsOK(c, sessions[c])'
      \/ sessions'[c] # sessions[c]
  <2> SUFFICES ASSUME NEW c \in Books, sessions'[c] = sessions[c]
               PROVE  SessionsOK(c, sessions[c])'
    OBVIOUS
  <2>1. \A i \in DOMAIN sessions[c] : sessions[c][i] \in SessionRow
    BY <1>1 DEF SessionsOK
  <2>2. \A i \in DOMAIN sessions[c] : sessions[c][i].ts <= clock'
    BY <1>1, <2>1, ClockStep DEF SessionsOK, SessionOK, SessionRow
  <2> QED BY <1>1, <2>2, ClockStep DEF SessionsOK, SessionOK, SessionRow
<1> QED BY <1>2 DEF Typing, SessionsInv

\* A session that is left alone stays what it may be.
LEMMA SessionStays ==
  ASSUME Invariant, Typing, [Next]_vars, NEW b, NEW s \in SessionRow, SessionOK(b, s)
  PROVE  SessionOK(b, s)'
<1>1. s.ts \in Nat BY DEF SessionRow
<1> QED BY <1>1, ClockStep DEF SessionOK

\* A session of its own for a device or the web client.
LEMMA SessionOpens ==
  ASSUME Invariant, Typing, [Next]_vars, NEW b \in Books, NEW s \in SessionRow,
         Len(sessions[b]) < MaxSessions, SessionOK(b, s)',
         sessions' = [sessions EXCEPT ![b] = Append(@, s)]
  PROVE  SessionsInv'
<1> DEFINE old == sessions[b]
<1>0. PICK ss : ss = Append(old, s) OBVIOUS
<1>1. SessionsOK(b, old) BY DEF Typing, SessionsInv
<1>2. /\ ss \in Seq(SessionRow) /\ Len(ss) = Len(old) + 1 /\ DOMAIN ss = 1..(Len(old) + 1)
      /\ Len(old) \in Nat /\ ss[Len(old) + 1] = s /\ \A i \in 1..Len(old) : ss[i] = old[i]
  BY <1>0, <1>1 DEF SessionsOK
<1>3. \A i \in 1..Len(old) : ss[i] \in SessionRow /\ SessionOK(b, ss[i])
  BY <1>1, <1>2 DEF SessionsOK
<1>4. \A i \in 1..Len(old) : SessionOK(b, ss[i])' BY <1>3, SessionStays
<1>5. sessions' = [sessions EXCEPT ![b] = ss] BY <1>0
<1>6. Len(ss) <= MaxSessions BY <1>2, SyncAssumption
<1>7. \A i \in DOMAIN ss : i \in 1..Len(old) \/ i = Len(old) + 1 BY <1>2
<1>8. \A i \in DOMAIN ss : SessionOK(b, ss[i])' BY <1>2, <1>4, <1>7
<1>9. SessionsOK(b, ss)' BY <1>2, <1>6, <1>8 DEF SessionsOK
<1> QED BY <1>5, <1>9, SessionsMove

\* One session changes.
LEMMA SessionChanges ==
  ASSUME Invariant, Typing, [Next]_vars, NEW b \in Books, NEW i \in DOMAIN sessions[b],
         NEW s \in SessionRow,
         SessionOK(b, s)', sessions' = [sessions EXCEPT ![b] = [@ EXCEPT ![i] = s]]
  PROVE  SessionsInv'
<1> DEFINE old == sessions[b]
<1>0. PICK ss : ss = [old EXCEPT ![i] = s] OBVIOUS
<1>1. SessionsOK(b, old) BY DEF Typing, SessionsInv
<1>2. /\ ss \in Seq(SessionRow) /\ Len(ss) = Len(old) /\ DOMAIN ss = DOMAIN old
      /\ \A j \in DOMAIN old : ss[j] = old[j] \/ ss[j] = s
  <2>1. old \in Seq(SessionRow) /\ i \in 1..Len(old) BY <1>1 DEF SessionsOK
  <2>2. DOMAIN ss = DOMAIN old /\ \A j \in DOMAIN old : ss[j] = IF j = i THEN s ELSE old[j]
    BY <1>0, <2>1
  <2>3. ss \in Seq(SessionRow) /\ Len(ss) = Len(old)
    BY <1>0, <2>1, ExceptSeq
  <2> QED BY <2>2, <2>3
<1>3. \A j \in DOMAIN ss : ss[j] = s \/ (ss[j] \in SessionRow /\ SessionOK(b, ss[j]))
  BY <1>1, <1>2 DEF SessionsOK
<1>4. \A j \in DOMAIN ss : SessionOK(b, ss[j])' BY <1>3, SessionStays
<1>5. sessions' = [sessions EXCEPT ![b] = ss] BY <1>0
<1>6. SessionsOK(b, ss)' BY <1>1, <1>2, <1>4 DEF SessionsOK
<1> QED BY <1>5, <1>6, SessionsMove

\* An op that finds the newest open session leaves its own time there.
LEMMA SessionUpdated ==
  ASSUME Invariant, Typing, [Next]_vars, NEW op \in Ops, op.ts <= clock, Takes(op) # {},
         sessions' = [sessions EXCEPT ![op.book][Max(Open(op.book))].ts = op.ts]
  PROVE  SessionsInv'
<1> DEFINE b == op.book
           i == Max(Open(b))
<1>0. PICK s : s = [sessions[b][i] EXCEPT !.ts = op.ts] OBVIOUS
<1>1. b \in Books /\ op.ts \in Nat BY DEF Ops, Times
<1>2. i \in DOMAIN sessions[b] BY DEF Takes, Open
<1>3. sessions[b][i] \in SessionRow /\ SessionOK(b, sessions[b][i])
  BY <1>1, <1>2 DEF Typing, SessionsInv, SessionsOK
<1>4. s \in SessionRow /\ s.ts = op.ts /\ s.printing = sessions[b][i].printing
  BY <1>0, <1>1, <1>3 DEF SessionRow
<1>5. sessions' = [sessions EXCEPT ![b] = [@ EXCEPT ![i] = s]]
  BY <1>0, <1>1 DEF Typing, SessionsInv
<1> HIDE DEF i
<1>6. SessionOK(b, s)' BY <1>1, <1>3, <1>4, ClockStep DEF SessionOK
<1> QED BY <1>1, <1>2, <1>4, <1>5, <1>6, SessionChanges

\* A request's op waits in the outbox, and is not of the future.
LEMMA ProgressIsOp ==
  ASSUME Invariant, Typing, NEW d \in Devices, request[d].pc # "idle"
  PROVE  Progress(d) \in Ops /\ Progress(d).ts <= clock
  BY DEF Typing, RequestsInv, RequestInv, Progress, Invariant, TypeInv, OutboxOK, TimesOK

\* Sessions are written at the web client's call and in applyProgress.
LEMMA SessionsStep == ASSUME Invariant, Typing, [Next]_vars PROVE SessionsInv'
<1>1. CASE UNCHANGED sessions
  <2>1. CASE Books = {} BY <1>1, <2>1 DEF Typing, SessionsInv
  <2>2. ASSUME NEW b \in Books PROVE SessionsInv'
    <3> DEFINE ss == sessions[b]
    <3>1. SessionsOK(b, ss) BY DEF Typing, SessionsInv
    <3>2. \A i \in DOMAIN ss : ss[i] \in SessionRow /\ SessionOK(b, ss[i])
      BY <3>1 DEF SessionsOK
    <3>3. \A i \in DOMAIN ss : SessionOK(b, ss[i])'
      BY <1>1, <3>2, ClockStep DEF SessionOK, SessionRow
    <3>4. SessionsOK(b, ss)' BY <1>1, <3>1, <3>3 DEF SessionsOK
    <3>5. sessions' = [sessions EXCEPT ![b] = ss] BY <1>1 DEF Typing, SessionsInv
    <3>6. PICK s : s = ss OBVIOUS
    <3>7. SessionsOK(b, s)' /\ sessions' = [sessions EXCEPT ![b] = s]
      BY <1>1, <3>4, <3>5, <3>6
    <3> HIDE DEF ss
    <3> QED BY <3>7, SessionsMove
  <2> QED BY <2>1, <2>2
<1>2. CASE CreateSession
  <2>1. PICK b \in Books, printing \in BOOLEAN :
          /\ printing => b \in printed
          /\ Len(sessions[b]) < MaxSessions
          /\ sessions' = [sessions EXCEPT ![b] = Append(@, Session(printing, 0))]
    BY <1>2 DEF CreateSession
  <2> DEFINE s == Session(printing, 0)
  <2>2. s \in SessionRow /\ SessionOK(b, s)'
    BY <2>1, ClockStep DEF Session, SessionRow, SessionOK
  <2> HIDE DEF s
  <2> QED BY <2>1, <2>2, SessionOpens DEF s
<1>3. CASE FinishSession
  <2>1. PICK b \in Books : \E i \in DOMAIN sessions[b] :
          sessions' = [sessions EXCEPT ![b][i].open = FALSE]
    BY <1>3 DEF FinishSession
  <2>2. PICK i \in DOMAIN sessions[b] : sessions' = [sessions EXCEPT ![b][i].open = FALSE]
    BY <2>1
  <2>0. PICK s : s = [sessions[b][i] EXCEPT !.open = FALSE] OBVIOUS
  <2>3. sessions[b][i] \in SessionRow /\ SessionOK(b, sessions[b][i])
    BY DEF Typing, SessionsInv, SessionsOK
  <2>4. s \in SessionRow /\ s.ts = sessions[b][i].ts /\ s.printing = sessions[b][i].printing
        /\ sessions[b][i].ts \in Nat
    BY <2>0, <2>3 DEF SessionRow
  <2>5. sessions' = [sessions EXCEPT ![b] = [@ EXCEPT ![i] = s]] BY <2>0, <2>2
  <2>6. SessionOK(b, s)' BY <2>3, <2>4, ClockStep DEF SessionOK
  <2> QED BY <2>4, <2>5, <2>6, SessionChanges
<1>4. ASSUME NEW d \in Devices, TrySession(d) \/ RetrySession(d) PROVE SessionsInv'
  <2>1. Progress(d) \in Ops /\ Progress(d).ts <= clock
    BY <1>4, ProgressIsOp DEF TrySession, RetrySession
  <2>2. \/ UNCHANGED sessions
        \/ /\ Takes(Progress(d)) # {}
           /\ sessions' = [sessions EXCEPT
                 ![Progress(d).book][Max(Open(Progress(d).book))].ts = Progress(d).ts]
    BY <1>4 DEF TrySession, RetrySession, UpdateSession
  <2> QED BY <1>1, <2>1, <2>2, SessionUpdated
<1>5. ASSUME NEW d \in Devices, AttachEdition(d) PROVE SessionsInv'
  <2>b. PICK b, i : b = Progress(d).book /\ i = request[d].open OBVIOUS
  <2>0. PICK s : s = [sessions[b][i] EXCEPT !.printing = @ \/ b \in printed] OBVIOUS
  <2>1. Progress(d) \in Ops /\ b \in Books
    BY <1>5, <2>b, ProgressIsOp DEF AttachEdition, Ops
  <2>2. sessions' = [sessions EXCEPT ![b][i].printing = @ \/ b \in printed]
    BY <1>5, <2>b DEF AttachEdition
  <2>3. sessions' = [sessions EXCEPT ![b] = [@ EXCEPT ![i] = s]] BY <2>0, <2>2
  <2>4. CASE i \in DOMAIN sessions[b]
    <3>1. sessions[b][i] \in SessionRow /\ SessionOK(b, sessions[b][i])
      BY <2>1, <2>4 DEF Typing, SessionsInv, SessionsOK
    <3>2. s \in SessionRow /\ s.ts = sessions[b][i].ts /\ sessions[b][i].ts \in Nat
          /\ (s.printing => b \in printed)
      BY <2>0, <3>1 DEF SessionRow, SessionOK
    <3>3. SessionOK(b, s)' BY <3>1, <3>2, ClockStep DEF SessionOK
    <3> QED BY <2>1, <2>3, <2>4, <3>2, <3>3, SessionChanges
  <2>5. CASE i \notin DOMAIN sessions[b]
    <3>1. sessions[b] \in Seq(SessionRow) BY <2>1 DEF Typing, SessionsInv, SessionsOK
    <3>2. [sessions[b] EXCEPT ![i] = s] = sessions[b] BY <2>5, <3>1
    <3>3. sessions' = sessions BY <2>3, <3>2 DEF Typing, SessionsInv
    <3> QED BY <1>1, <3>3
  <2> QED BY <2>4, <2>5
<1>6. ASSUME NEW d \in Devices, OpenSession(d) PROVE SessionsInv'
  <2>0. PICK op, s : op = Progress(d) /\ s = Session(TRUE, op.ts) OBVIOUS
  <2>1. op \in Ops /\ op.ts <= clock /\ op.book \in Books /\ op.ts \in Nat
    BY <1>6, <2>0, ProgressIsOp DEF OpenSession, Ops, Times
  <2>2. \/ UNCHANGED sessions
        \/ /\ op.book \in printed /\ Len(sessions[op.book]) < MaxSessions
           /\ sessions' = [sessions EXCEPT ![op.book] = Append(@, s)]
    BY <1>6, <2>0 DEF OpenSession
  <2>3. op.book \in printed => s \in SessionRow /\ SessionOK(op.book, s)'
    BY <2>0, <2>1, ClockStep DEF Session, SessionRow, SessionOK
  <2> QED BY <1>1, <2>1, <2>2, <2>3, SessionOpens
<1> QED BY <1>1, <1>2, <1>3, <1>4, <1>5, <1>6
        DEF Next, vars, Push, DeviceEdits, Upsert, DeleteRow, ApplyVerdict, FindBook,
            LookAtSession, Answer, FailOp, LoseAnswer, Pull, server

\* One device's request goes on, its op and those it is through with still in
\* the outbox.
LEMMA RequestGoesOn ==
  ASSUME Invariant, Typing, NEW d \in Devices, NEW q, NEW hs,
         request' = [request EXCEPT ![d] = q], handled' = [handled EXCEPT ![d] = hs],
         \A e \in Devices : e # d => outbox'[e] = outbox[e],
         hs \subseteq outbox'[d], q.pc \in Points,
         q.pc # "idle" => q.op \in outbox'[d]
  PROVE  RequestsInv'
<1>1. request = [e \in Devices |-> request[e]] /\ handled = [e \in Devices |-> handled[e]]
  BY DEF Invariant, TypeInv, RequestOK, OutboxOK
<1>2. \A e \in Devices : /\ request'[e] = IF e = d THEN q ELSE request[e]
                         /\ handled'[e] = IF e = d THEN hs ELSE handled[e]
  BY <1>1
<1>3. \A e \in Devices : RequestInv(e) BY DEF Typing, RequestsInv
<1> QED BY <1>2, <1>3 DEF RequestsInv, RequestInv

\* An op that is through was in the outbox.
LEMMA OpIsThrough ==
  ASSUME Invariant, Typing, NEW d \in Devices, NEW op \in outbox[d], Handled(d, op),
         UNCHANGED outbox
  PROVE  RequestsInv'
<1> DEFINE hs == handled[d] \cup {op}
<1>1. hs \subseteq outbox'[d] BY DEF Typing, RequestsInv, RequestInv
<1>2. handled' = [handled EXCEPT ![d] = hs] /\ request' = [request EXCEPT ![d] = Resting]
  BY DEF Handled
<1>3. Resting.pc = "idle" /\ "idle" \in Points BY DEF Resting, Points
<1> HIDE DEF hs
<1>4. PICK q, h : q = Resting /\ h = hs OBVIOUS
<1> QED BY <1>1, <1>2, <1>3, <1>4, RequestGoesOn

\* applyProgress goes to another of its points.
LEMMA OpGoesOn ==
  ASSUME Invariant, Typing, NEW d \in Devices, NEW op \in outbox[d], NEW pc \in Points, NEW i,
         \/ request' = [request EXCEPT ![d] = [pc |-> pc, op |-> op, open |-> i]]
         \/ At(d, pc) /\ op = Progress(d),
         UNCHANGED <<outbox, handled>>
  PROVE  RequestsInv'
<1>1. PICK q : q.pc = pc /\ q.op = op /\ request' = [request EXCEPT ![d] = q]
  <2>1. CASE request' = [request EXCEPT ![d] = [pc |-> pc, op |-> op, open |-> i]]
    BY <2>1
  <2>2. CASE At(d, pc) /\ op = Progress(d)
    <3>1. OneRequest(request[d]) BY DEF Invariant, TypeInv, RequestOK
    <3>2. PICK a, b, c : request[d] = [pc |-> a, op |-> b, open |-> c]
      BY <3>1 DEF OneRequest
    <3>3. request' = [request EXCEPT ![d] = [request[d] EXCEPT !.pc = pc]] /\ b = op
      BY <2>2, <3>2 DEF At, Progress
    <3>4. [request[d] EXCEPT !.pc = pc] = [pc |-> pc, op |-> b, open |-> c] BY <3>2
    <3> QED BY <3>3, <3>4
  <2> QED BY <2>1, <2>2
<1>2. PICK hs : hs = handled[d] OBVIOUS
<1>3. handled' = [handled EXCEPT ![d] = hs] BY <1>2 DEF Invariant, TypeInv, OutboxOK
<1>4. hs \subseteq outbox'[d] BY <1>2 DEF Typing, RequestsInv, RequestInv
<1> QED BY <1>1, <1>3, <1>4, RequestGoesOn

\* A request rests, and what it is through with is kept, forgotten or answered.
LEMMA RequestRests ==
  ASSUME Invariant, Typing, NEW d \in Devices, Answer(d) \/ FailOp(d) \/ LoseAnswer(d)
  PROVE  RequestsInv'
<1>1. \A e \in Devices : RequestInv(e) BY DEF Typing, RequestsInv
<1>2. /\ request = [e \in Devices |-> request[e]] /\ handled = [e \in Devices |-> handled[e]]
      /\ outbox \in [Devices -> SUBSET Ops]
  BY DEF Invariant, TypeInv, RequestOK, OutboxOK
<1>3. \A e \in Devices : /\ handled'[e] = handled[e] \/ handled'[e] = {}
                         /\ request'[e] = request[e] \/ request'[e] = Resting
                         /\ e # d => outbox'[e] = outbox[e]
  BY <1>2 DEF Answer, FailOp, LoseAnswer
<1>4. \/ outbox' = outbox
      \/ handled'[d] = {} /\ request'[d] = request[d] /\ request[d].pc = "idle"
  BY <1>2 DEF Answer, FailOp, LoseAnswer
<1>5. Resting.pc = "idle" /\ "idle" \in Points BY DEF Resting, Points
<1>6. ASSUME NEW e \in Devices PROVE RequestInv(e)'
  <2>1. CASE outbox' = outbox BY <1>1, <1>3, <1>5, <2>1 DEF RequestInv
  <2>2. CASE e # d BY <1>1, <1>3, <1>5, <2>2 DEF RequestInv
  <2>3. CASE e = d /\ outbox' # outbox BY <1>1, <1>4, <1>5, <2>3 DEF RequestInv
  <2> QED BY <2>1, <2>2, <2>3
<1> QED BY <1>6 DEF RequestsInv

\* An op leaves the outbox only when the request that took it is answered.
LEMMA RequestsStep == ASSUME Invariant, Typing, [Next]_vars PROVE RequestsInv'
<1>1. \A d \in Devices : /\ Pending(d) \subseteq outbox[d]
                         /\ request[d].pc # "idle" => Progress(d) \in outbox[d]
  BY DEF Pending, Typing, RequestsInv, RequestInv, Progress
<1>2. CASE UNCHANGED <<outbox, handled, request>>
  BY <1>2 DEF Typing, RequestsInv, RequestInv
<1>3. ASSUME NEW d \in Devices, DeviceEdits(d) PROVE RequestsInv'
  <2>1. /\ \A e \in Devices : outbox[e] \subseteq outbox'[e]
        /\ UNCHANGED <<handled, request>>
    BY <1>3 DEF DeviceEdits, Invariant, TypeInv, OutboxOK
  <2> QED BY <2>1 DEF Typing, RequestsInv, RequestInv
<1>4. ASSUME NEW d \in Devices, ApplyVerdict(d) PROVE RequestsInv'
  <2>1. UNCHANGED outbox /\ \E op \in Pending(d) : Handled(d, op)
    BY <1>4 DEF ApplyVerdict, Applied, Refused
  <2> QED BY <1>1, <2>1, OpIsThrough
<1>5. ASSUME NEW d \in Devices, FindBook(d) PROVE RequestsInv'
  <2>1. PICK op \in Pending(d) :
          \/ /\ request' = [request EXCEPT ![d] = [pc |-> "update", op |-> op, open |-> 0]]
             /\ UNCHANGED handled
          \/ Handled(d, op)
    BY <1>5 DEF FindBook, Refused
  <2>2. UNCHANGED outbox /\ "update" \in Points BY <1>5 DEF FindBook, Points
  <2> QED BY <1>1, <2>1, <2>2, OpIsThrough, OpGoesOn
<1>6. ASSUME NEW d \in Devices,
             \/ TrySession(d) \/ LookAtSession(d) \/ AttachEdition(d)
             \/ RetrySession(d) \/ OpenSession(d)
      PROVE  RequestsInv'
  <2>1. UNCHANGED outbox /\ Progress(d) \in outbox[d]
    BY <1>1, <1>6 DEF TrySession, LookAtSession, AttachEdition, RetrySession, OpenSession
  <2>2. \/ Handled(d, Progress(d))
        \/ /\ UNCHANGED handled
           /\ \E pc \in Points : \/ At(d, pc)
                                 \/ \E i : request' = [request EXCEPT ![d] =
                                              [pc |-> pc, op |-> Progress(d), open |-> i]]
    <3>1. CASE TrySession(d)
      BY <3>1 DEF TrySession, UpdateSession, Applied, Points
    <3>2. CASE LookAtSession(d) BY <3>2 DEF LookAtSession, Applied, Refused, Points
    <3>3. CASE AttachEdition(d) BY <3>3 DEF AttachEdition, Points
    <3>4. CASE RetrySession(d) BY <3>4 DEF RetrySession, UpdateSession, Applied, Refused
    <3>5. CASE OpenSession(d) BY <3>5 DEF OpenSession, Applied, Refused
    <3> QED BY <1>6, <3>1, <3>2, <3>3, <3>4, <3>5
  <2>3. PICK op : op = Progress(d) OBVIOUS
  <2> QED BY <2>1, <2>2, <2>3, OpIsThrough, OpGoesOn
<1>7. ASSUME NEW d \in Devices, Answer(d) \/ FailOp(d) \/ LoseAnswer(d) PROVE RequestsInv'
  BY <1>7, RequestRests
<1> QED BY <1>2, <1>3, <1>4, <1>5, <1>6, <1>7
        DEF Next, vars, Push, Upsert, DeleteRow, CreateSession, FinishSession, Pull, client

\* The times a page yields are past.
LEMMA TimesArePast ==
  ASSUME Invariant, Typing, NEW b \in Books, NEW since
  PROVE  OpTimes(b, since) \subseteq 0..clock
<1>1. /\ rows[b].rating.ts \in 0..clock /\ rows[b].deleted \in 0..clock
      /\ \A i \in DOMAIN sessions[b] : sessions[b][i].ts \in 0..clock
  BY TypingIsTypeOK DEF TypeOK
<1>2. \A j \in Open(b) : j \in DOMAIN sessions[b] BY DEF Open
<1> QED BY <1>1, <1>2 DEF OpTimes

\* A device's since and what it knows come from rows and sessions, which are past.
LEMMA ReadersStep == ASSUME Invariant, Typing, [Next]_vars PROVE ReadersInv'
<1>1. /\ cursor \in [Devices -> Nat] /\ known \in [Devices -> [Books -> Nat]]
      /\ \A d \in Devices : /\ cursor[d] <= clock
                            /\ \A b \in Books : known[d][b] <= clock
  BY DEF Typing, ReadersInv
<1>2. CASE UNCHANGED <<cursor, known>> BY <1>1, <1>2, ClockStep DEF ReadersInv
<1>3. ASSUME NEW d \in Devices, DeviceEdits(d) PROVE ReadersInv'
  <2>1. PICK b \in Books : known' = known \/ known' = [known EXCEPT ![d][b] = Now]
    BY <1>3 DEF DeviceEdits
  <2>2. cursor' = cursor /\ clock' = Now /\ Now \in Nat
    BY <1>3, ClockStep DEF DeviceEdits, Edit, Tick
  <2>3. /\ known' \in [Devices -> [Books -> Nat]]
        /\ \A e \in Devices : \A c \in Books : known'[e][c] = known[e][c] \/ known'[e][c] = Now
    <3>1. CASE known' = known BY <1>1, <3>1
    <3>2. CASE known' = [known EXCEPT ![d][b] = Now]
      <4>1. [known[d] EXCEPT ![b] = Now] \in [Books -> Nat] BY <1>1, <2>2
      <4>2. known' = [known EXCEPT ![d] = [known[d] EXCEPT ![b] = Now]] BY <3>2
      <4> QED BY <1>1, <4>1, <4>2
    <3> QED BY <2>1, <3>1, <3>2
  <2> QED BY <1>1, <2>2, <2>3, ClockStep DEF ReadersInv
<1>4. ASSUME NEW d \in Devices, Pull(d) PROVE ReadersInv'
  <2> DEFINE since == cursor[d]
             Read(page) == (UNION {OpTimes(b, since) : b \in page}) \cup {since}
             Told(page) == {b \in page : ~Tombstoned(b, since) /\ rows[b].rating.ts > since}
             Heard(page) == [b \in Books |-> IF b \in Told(page)
                                             THEN Max({known[d][b], rows[b].rating.ts})
                                             ELSE known[d][b]]
  <2>1. PICK page \in Pages(since) :
          /\ cursor' = [cursor EXCEPT ![d] = Max(Read(page))]
          /\ known' = [known EXCEPT ![d] = Heard(page)]
    BY <1>4 DEF Pull
  <2>2. page \subseteq Books BY DEF Pages
  <2>3. clock \in Nat /\ clock' = clock BY <1>4, ClockStep DEF Pull
  <2>4. Read(page) \subseteq 0..clock
    <3>1. \A b \in page : OpTimes(b, since) \subseteq 0..clock BY <2>2, TimesArePast
    <3>2. since \in 0..clock BY <1>1, <2>3
    <3>3. \A t \in Read(page) : t = since \/ \E b \in page : t \in OpTimes(b, since) OBVIOUS
    <3> QED BY <3>1, <3>2, <3>3
  <2>5. Max(Read(page)) \in 0..clock
    <3> DEFINE S == Read(page)
    <3>0. since \in S OBVIOUS
    <3> HIDE DEF Read
    <3>1. S # {} /\ S \in SUBSET Nat /\ \A s \in S : s <= clock BY <2>3, <2>4, <3>0
    <3> HIDE DEF S
    <3>2. Max(S) \in S BY <2>3, <3>1, MaxExists
    <3> QED BY <2>4, <3>2 DEF S
  <2>6. \A b \in Books : Max({known[d][b], rows[b].rating.ts}) \in 0..clock
    <3> TAKE b \in Books
    <3> DEFINE S == {known[d][b], rows[b].rating.ts}
    <3>1. rows[b].rating.ts \in 0..clock BY TypingIsTypeOK DEF TypeOK
    <3>2. S # {} /\ S \in SUBSET Nat /\ \A s \in S : s \in 0..clock /\ s <= clock
      BY <1>1, <2>3, <3>1
    <3> HIDE DEF S
    <3>3. Max(S) \in S BY <2>3, <3>2, MaxExists
    <3> QED BY <3>2, <3>3 DEF S
  <2> HIDE DEF Read
  <2>7. cursor' \in [Devices -> Nat] /\ \A e \in Devices : cursor'[e] <= clock
    BY <1>1, <2>1, <2>3, <2>5
  <2>8. Heard(page) \in [Books -> 0..clock]
    <3>1. \A b \in Books : known[d][b] \in 0..clock BY <1>1, <2>3
    <3> HIDE DEF Told
    <3> QED BY <2>6, <3>1
  <2> HIDE DEF Told, Heard
  <2>9. known' \in [Devices -> [Books -> Nat]] /\ \A e \in Devices : \A b \in Books :
            known'[e][b] <= clock
    BY <1>1, <2>1, <2>3, <2>8
  <2> QED BY <2>3, <2>7, <2>9 DEF ReadersInv
<1> QED BY <1>2, <1>3, <1>4
        DEF Next, vars, Push, Upsert, DeleteRow, CreateSession, FinishSession, ApplyVerdict,
            FindBook, TrySession, LookAtSession, AttachEdition, RetrySession, OpenSession,
            Answer, FailOp, LoseAnswer, client

\* Columns, ops and program points are what they should be, a page number has an
\* edition to be counted in, and nobody's clock is ahead, for every set of
\* devices and books.
THEOREM Typed == Spec => []TypeOK
<1>1. Init => Invariant /\ Typing BY InitInv, InitTyping
<1>2. Invariant /\ Typing /\ [Next]_vars => (Invariant /\ Typing)'
  <2> SUFFICES ASSUME Invariant, Typing, [Next]_vars PROVE (Invariant /\ Typing)' OBVIOUS
  <2>1. Invariant' BY NextStep DEF Step
  <2>2. BoundsInv' /\ RowsInv' /\ SessionsInv' /\ RequestsInv' /\ ReadersInv'
    BY BoundsStep, RowsStep, SessionsStep, RequestsStep, ReadersStep
  <2> QED BY <2>1, <2>2 DEF Typing
<1> QED BY <1>1, <1>2, TypingIsTypeOK, PTL DEF Spec
==============================================================================
