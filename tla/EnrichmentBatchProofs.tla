------------------------ MODULE EnrichmentBatchProofs ------------------------
(***************************************************************************)
(* Proofs about EnrichmentBatch, for every list of books and every number  *)
(* of crashes, shutdowns, lost statements and deleted books.               *)
(***************************************************************************)
EXTENDS EnrichmentBatch, FiniteSetTheorems, TLAPS

USE DEF Mirrored

\* program points inside a round of the loop
InRound == {"find", "process", "setItem", "tick", "finish", "mirrorFinish"}

\* the attempt is well formed and the index of a round stays on the list
WorkerOK == worker \in Attempts /\ (worker.pc \in InRound => worker.i <= Total)

\* types, with what keeps the loop index in range
TypeInv == TypeOK /\ WorkerOK

\* The list of books is a non-empty list.
LEMMA TotalPositive == Total \in Nat /\ Total >= 1 /\ Positions = 1..Total
  BY BatchAssumption DEF Total, Positions

\* The items with a result, and those that failed, are finitely many.
LEMMA CountsAreNat ==
    /\ IsFiniteSet(AttemptedItems) /\ Cardinality(AttemptedItems) \in Nat
    /\ IsFiniteSet(FailedItems) /\ Cardinality(FailedItems) \in Nat
    /\ IsFiniteSet(Orphans) /\ Cardinality(Orphans) \in Nat
<1>1. IsFiniteSet(Positions)
  BY TotalPositive, FS_Interval
<1>2. AttemptedItems \subseteq Positions /\ FailedItems \subseteq Positions
      /\ Orphans \subseteq Positions
  BY DEF AttemptedItems, FailedItems, Orphans
<1> QED BY <1>1, <1>2, FS_Subset, FS_CardinalityType

------------------------------------------------------------------------------
(* How the worker moves *)

\* No attempt is a well-formed attempt.
LEMMA NoAttemptOK == NoAttempt \in Attempts /\ NoAttempt.pc = "idle"
                     /\ NoAttempt.i = 1
  BY TotalPositive DEF NoAttempt, Attempts, ProgramPoints

\* Moving to a program point changes nothing else of the attempt.
LEMMA GotoMoves ==
  ASSUME worker \in Attempts, NEW p \in ProgramPoints, Goto(p)
  PROVE  /\ worker' \in Attempts /\ worker'.pc = p /\ worker'.i = worker.i
         /\ worker'.item = worker.item /\ worker'.outcome = worker.outcome
         /\ worker'.verdict = worker.verdict
  BY DEF Attempts, Goto

\* The next round starts one book further.
LEMMA NextBookMoves ==
  ASSUME worker \in Attempts, worker.i <= Total, NextBook
  PROVE  worker' \in Attempts /\ worker'.pc = "check" /\ worker'.i = worker.i + 1
<1> DEFINE n == worker.i + 1
<1>1. n \in 1..(Total + 1) BY TotalPositive DEF Attempts
<1>2. "check" \in ProgramPoints BY DEF ProgramPoints
<1>3. worker' = [worker EXCEPT !.pc = "check", !.i = n] BY DEF NextBook
<1> HIDE DEF n
<1>4. worker' \in Attempts /\ worker'.pc = "check" /\ worker'.i = n
  BY <1>1, <1>2, <1>3 DEF Attempts
<1> QED BY <1>4 DEF n

\* Turning to a book keeps the index.
LEMMA StartBookMoves ==
  ASSUME worker \in Attempts, NEW k \in 0..Total, StartBook(k)
  PROVE  /\ worker' \in Attempts /\ worker'.pc = "process"
         /\ worker'.i = worker.i /\ worker'.item = k
<1>1. "process" \in ProgramPoints BY DEF ProgramPoints
<1> QED BY <1>1 DEF Attempts, StartBook

\* The rows of the current book are positions of the list.
LEMMA ItemRowsOnList == ItemRows \subseteq 1..Total
  BY TotalPositive DEF ItemRows

------------------------------------------------------------------------------
(* Type correctness *)

\* Every variable starts with its type.
LEMMA TypeInit == Init => TypeInv
<1> SUFFICES ASSUME Init PROVE TypeInv
  OBVIOUS
<1>1. WorkerOK BY NoAttemptOK DEF Init, WorkerOK, InRound
<1>2. batch \in BatchRows BY DEF Init, BatchRows, BatchStatus
<1>3. items \in [Positions -> ItemStatus] BY DEF Init, ItemStatus
<1> QED BY <1>1, <1>2, <1>3, BatchAssumption DEF Init, TypeInv, TypeOK, WorkerOK, JobStatus

\* The attempt stays well formed and on the list.
LEMMA WorkerStaysOK == TypeInv /\ [Next]_vars => WorkerOK'
<1> SUFFICES ASSUME TypeInv, [Next]_vars PROVE WorkerOK'
  OBVIOUS
<1> USE TotalPositive DEF TypeInv, WorkerOK, InRound, ReturnNil, ReturnErr
<1>0. ProgramPoints = {"idle", "mark", "mirrorMark", "resync", "check", "find",
                  "process", "setItem", "tick", "finish", "mirrorFinish"}
  BY DEF ProgramPoints
<1>1. CASE worker' = worker BY <1>1
<1>2. CASE worker' = NoAttempt BY <1>2, NoAttemptOK
<1>3. CASE NextBook /\ worker.i <= Total BY <1>3, NextBookMoves
<1>4. ASSUME NEW p \in ProgramPoints, Goto(p), p \in InRound => worker.i <= Total
      PROVE  WorkerOK'
  BY <1>4, GotoMoves
<1>5. CASE Load
  <2>1. CASE worker' = [NoAttempt EXCEPT !.pc = "mark"]
    BY <2>1 DEF NoAttempt, Attempts, ProgramPoints
  <2> QED BY <1>5, <1>2, <2>1 DEF Load
<1>6. CASE MarkProcessing BY <1>6, <1>2, <1>4, <1>0 DEF MarkProcessing
<1>7. CASE MirrorProcessing BY <1>7, <1>2, <1>4, <1>0 DEF MirrorProcessing
<1>8. CASE ResyncCounters BY <1>8, <1>4, <1>0 DEF ResyncCounters
<1>9. CASE CheckCancelled BY <1>9, <1>2, <1>4, <1>0 DEF CheckCancelled
<1>10. CASE FindItem
  <2>1. worker.i <= Total BY <1>10 DEF FindItem
  <2>2. ASSUME NEW k \in 0..Total, StartBook(k) PROVE WorkerOK'
    BY <2>1, <2>2, StartBookMoves
  <2>3. ASSUME NEW k \in ItemRows, StartBook(k) PROVE WorkerOK'
    BY <2>2, <2>3, ItemRowsOnList
  <2>4. 0 \in 0..Total OBVIOUS
  <2> QED BY <1>10, <1>3, <2>1, <2>2, <2>3, <2>4 DEF FindItem
<1>11. CASE ProcessBook
  <2>1. PICK outcome \in Attempted :
            worker' = [worker EXCEPT !.pc = "setItem", !.outcome = outcome]
    BY <1>11 DEF ProcessBook
  <2> QED BY <1>11, <1>0, <2>1 DEF Attempts, ProcessBook
<1>12. CASE UpdateItemStatus BY <1>12, <1>4, <1>0 DEF UpdateItemStatus
<1>13. CASE IncrementProcessed
  <2>1. worker.i <= Total BY <1>13 DEF IncrementProcessed
  <2>2. ASSUME NEW v \in {"failed", "done"},
               worker' = [worker EXCEPT !.pc = "finish", !.verdict = v]
        PROVE  WorkerOK'
    BY <1>0, <2>1, <2>2 DEF Attempts
  <2> QED BY <1>13, <1>3, <2>1, <2>2 DEF IncrementProcessed
<1>14. CASE MarkFinished BY <1>14, <1>3, <1>4, <1>0 DEF MarkFinished
<1>15. CASE MirrorFinished BY <1>15, <1>3 DEF MirrorFinished
<1>16. CASE LoopEnds BY <1>16, <1>2 DEF LoopEnds
<1>17. CASE Crash \/ Shutdown BY <1>17, <1>2 DEF Crash, Shutdown
<1>18. CASE \/ Create \/ CreateItem \/ Enqueue \/ CreatorFails \/ Discard
            \/ Cancel \/ MirrorCancel \/ Delete \/ DeleteUmbrella \/ DeleteBook
  BY <1>18, <1>1 DEF Create, CreateItem, Enqueue, CreatorFails, Discard,
     Cancel, MirrorCancel, Delete, DeleteUmbrella, DeleteBook
<1>19. CASE UNCHANGED vars BY <1>19, <1>1 DEF vars
<1> QED
  BY <1>5, <1>6, <1>7, <1>8, <1>9, <1>10, <1>11, <1>12, <1>13, <1>14, <1>15,
     <1>16, <1>17, <1>18, <1>19 DEF Next, WorkerStep

\* The batch row stays a batch row.
LEMMA BatchStaysOK == TypeInv /\ [Next]_vars => batch' \in BatchRows
<1> SUFFICES ASSUME TypeInv, [Next]_vars PROVE batch' \in BatchRows
  OBVIOUS
<1>0. batch \in BatchRows /\ worker \in Attempts BY DEF TypeInv, TypeOK
<1>1. CASE UNCHANGED batch BY <1>0, <1>1
<1>2. ASSUME NEW s \in BatchStatus, batch' = [batch EXCEPT !.status = s]
      PROVE  batch' \in BatchRows
  BY <1>0, <1>2 DEF BatchRows
<1>3. CASE ResyncCounters
  BY <1>0, <1>3, CountsAreNat DEF ResyncCounters, BatchRows
<1>4. CASE IncrementProcessed
  <2>1. ASSUME NEW m \in Nat, NEW n \in Nat,
               batch' = [batch EXCEPT !.processed = m, !.failed = n]
        PROVE  batch' \in BatchRows
    BY <1>0, <2>1 DEF BatchRows
  <2>2. batch.processed + 1 \in Nat /\ batch.failed \in Nat /\ batch.failed + 1 \in Nat
    BY <1>0 DEF BatchRows
  <2>3. CASE batch' = Ticked
    BY <2>1, <2>2, <2>3 DEF Ticked
  <2> QED BY <1>4, <1>1, <2>3 DEF IncrementProcessed
<1>5. CASE MarkFinished
  <2>1. worker.verdict \in BatchStatus BY <1>0 DEF Attempts, BatchStatus
  <2> QED BY <1>5, <1>1, <1>2, <2>1 DEF MarkFinished
<1>6. CASE Create \/ MarkProcessing \/ Cancel \/ Delete \/ DeleteUmbrella
  <2>1. {"pending", "processing", "cancelled", "gone"} \subseteq BatchStatus
    BY DEF BatchStatus
  <2> QED BY <1>6, <1>1, <1>2, <2>1
        DEF Create, MarkProcessing, Cancel, Delete, DeleteUmbrella
<1>7. CASE \/ CreateItem \/ Enqueue \/ CreatorFails \/ Load \/ Discard
           \/ MirrorProcessing \/ CheckCancelled \/ LoopEnds \/ FindItem
           \/ ProcessBook \/ UpdateItemStatus \/ MirrorFinished
           \/ MirrorCancel \/ DeleteBook \/ Crash \/ Shutdown
  BY <1>7, <1>1 DEF CreateItem, Enqueue, CreatorFails, Load, Discard,
     MirrorProcessing, CheckCancelled, LoopEnds, FindItem, ProcessBook,
     UpdateItemStatus, MirrorFinished, MirrorCancel, DeleteBook, Crash, Shutdown
<1>8. CASE UNCHANGED vars BY <1>8, <1>1 DEF vars
<1> QED BY <1>3, <1>4, <1>5, <1>6, <1>7, <1>8 DEF Next, WorkerStep

\* The items and the umbrella row keep their vocabularies.
LEMMA RowsStayOK ==
  TypeInv /\ [Next]_vars => items' \in [Positions -> ItemStatus] /\ job' \in JobStatus
<1> SUFFICES ASSUME TypeInv, [Next]_vars
             PROVE  items' \in [Positions -> ItemStatus] /\ job' \in JobStatus
  OBVIOUS
<1>0. /\ items \in [Positions -> ItemStatus] /\ job \in JobStatus
      /\ worker.outcome \in Attempted \cup {"pending"}
      /\ worker.verdict \in {"processing", "done", "failed"}
  BY DEF TypeInv, TypeOK, Attempts
<1>1. CASE UNCHANGED <<items, job>> BY <1>0, <1>1
<1>2. CASE Create \/ MirrorProcessing \/ MirrorFinished \/ MirrorCancel
  BY <1>0, <1>2 DEF Create, MirrorProcessing, MirrorFinished, MirrorCancel,
     Umbrella, JobStatus
<1>3. CASE CreateItem \/ UpdateItemStatus \/ Delete \/ DeleteUmbrella
  <2>1. job' \in JobStatus
    BY <1>0, <1>3 DEF CreateItem, UpdateItemStatus, Delete, DeleteUmbrella,
       JobStatus
  <2>2. items' \in [Positions -> ItemStatus]
    BY <1>0, <1>3 DEF CreateItem, UpdateItemStatus, Delete, DeleteUmbrella,
       ItemStatus, Attempted
  <2> QED BY <2>1, <2>2
<1>4. CASE \/ Enqueue \/ CreatorFails \/ Load \/ Discard \/ MarkProcessing
           \/ ResyncCounters \/ CheckCancelled \/ LoopEnds \/ FindItem
           \/ ProcessBook \/ IncrementProcessed \/ MarkFinished \/ Cancel
           \/ DeleteBook \/ Crash \/ Shutdown
  BY <1>4, <1>1 DEF Enqueue, CreatorFails, Load, Discard, MarkProcessing,
     ResyncCounters, CheckCancelled, LoopEnds, FindItem, ProcessBook,
     IncrementProcessed, MarkFinished, Cancel, DeleteBook, Crash, Shutdown
<1>5. CASE UNCHANGED vars BY <1>5, <1>1 DEF vars
<1> QED BY <1>2, <1>3, <1>4, <1>5 DEF Next, WorkerStep

\* Every step keeps the types.
LEMMA TypeStep == TypeInv /\ [Next]_vars => TypeInv'
<1> SUFFICES ASSUME TypeInv, [Next]_vars PROVE TypeInv'
  OBVIOUS
<1>1. WorkerOK' BY WorkerStaysOK
<1>2. batch' \in BatchRows BY BatchStaysOK
<1>3. items' \in [Positions -> ItemStatus] /\ job' \in JobStatus BY RowsStayOK
<1>4. /\ river' \in {"none", "available", "running", "completed", "discarded"}
      /\ creator' \in {"create", "items", "enqueue", "end"}
      /\ canceller' \in {"idle", "mirror"}
      /\ deleted' \subseteq Books
      /\ crashes' \in 0..MaxCrashes /\ shutdowns' \in 0..MaxShutdowns
      /\ faults' \in 0..MaxFaults /\ late' \in Nat \cup {-1}
  <2> USE BatchAssumption DEF TypeInv, TypeOK, Fault, stops, ReturnNil, ReturnErr
  <2>1. CASE Create \/ CreateItem \/ Enqueue \/ CreatorFails
    BY <2>1 DEF Create, CreateItem, Enqueue, CreatorFails
  <2>2. CASE Load \/ Discard \/ MarkProcessing \/ MirrorProcessing
    BY <2>2 DEF Load, Discard, MarkProcessing, MirrorProcessing
  <2>3. CASE ResyncCounters \/ CheckCancelled \/ LoopEnds
    BY <2>3 DEF ResyncCounters, CheckCancelled, LoopEnds
  <2>4. CASE FindItem
    <3>1. UNCHANGED <<river, creator, canceller, deleted, crashes, shutdowns>>
      BY <2>4 DEF FindItem
    <3>2. late' = late \/ late' = late + 1 BY <2>4 DEF FindItem, StartBook
    <3>3. late >= 0 \/ late' = late BY <2>4 DEF FindItem, StartBook
    <3>4. faults' \in 0..MaxFaults BY <2>4 DEF FindItem
    <3> QED BY <3>1, <3>2, <3>3, <3>4
  <2>5. CASE ProcessBook \/ UpdateItemStatus \/ IncrementProcessed
    <3>1. UNCHANGED <<river, creator, canceller, deleted, stops, late>>
      BY <2>5 DEF ProcessBook, UpdateItemStatus, IncrementProcessed
    <3>2. faults' = faults \/ Fault
      BY <2>5 DEF ProcessBook, UpdateItemStatus, IncrementProcessed
    <3> QED BY <3>1, <3>2
  <2>6. CASE MarkFinished \/ MirrorFinished \/ Cancel \/ MirrorCancel
    BY <2>6 DEF MarkFinished, MirrorFinished, Cancel, MirrorCancel
  <2>7. CASE Delete \/ DeleteUmbrella \/ DeleteBook \/ Crash \/ Shutdown
    BY <2>7 DEF Delete, DeleteUmbrella, DeleteBook, Crash, Shutdown
  <2>8. CASE UNCHANGED vars BY <2>8 DEF vars
  <2> QED BY <2>1, <2>2, <2>3, <2>4, <2>5, <2>6, <2>7, <2>8 DEF Next, WorkerStep
<1> QED BY <1>1, <1>2, <1>3, <1>4 DEF TypeInv, TypeOK, WorkerOK

\* The types hold throughout.
LEMMA TypeInvariant == Spec => []TypeInv
  BY TypeInit, TypeStep, PTL DEF Spec

\* TypeOK: no interleaving, crash or lost statement takes a column or a handler
\* out of its vocabulary.
THEOREM TypeCorrect == Spec => []TypeOK
<1>1. TypeInv => TypeOK BY DEF TypeInv
<1> QED BY <1>1, TypeInvariant, PTL

------------------------------------------------------------------------------
(* Cancellation *)

\* Cancelled or deleted: no status the worker writes replaces these two.
Closed == {"cancelled", "gone"}

\* What CancelSticks and the two cancellation invariants rest on: only the row
\* that does not exist yet is created; the Cancel handler's second statement
\* follows its first; and of a cancelled batch, a round already past its status
\* check (program point "find") is the one book still allowed for.
CancelInv ==
    /\ creator = "create" => batch.status = "absent"
    /\ canceller = "mirror" => batch.status \in Closed
    /\ job = "cancelled" => batch.status \in Closed
    /\ late # -1 => batch.status \in Closed
    /\ batch.status = "cancelled" =>
          (IF worker.pc = "find" THEN late + 1 ELSE late) <= 1 + faults

\* A closed batch stays closed, and a deleted one deleted.
LEMMA ClosedStaysClosed ==
  ASSUME TypeInv, CancelInv, [Next]_vars
  PROVE  /\ batch.status = "cancelled" => batch'.status \in Closed
         /\ batch.status = "gone" => batch'.status = "gone"
<1>0. batch \in BatchRows BY DEF TypeInv, TypeOK
<1>1. CASE UNCHANGED batch BY <1>1 DEF Closed
<1>2. CASE Create \/ Cancel \/ Delete \/ DeleteUmbrella
  BY <1>0, <1>2 DEF Create, Cancel, Delete, DeleteUmbrella, CancelInv, Closed, BatchRows
<1>3. CASE MarkProcessing \/ MarkFinished
  BY <1>1, <1>3 DEF MarkProcessing, MarkFinished, Live
<1>4. CASE ResyncCounters \/ IncrementProcessed
  <2>1. CASE ~Live
    BY <1>1, <1>4, <2>1 DEF ResyncCounters, IncrementProcessed
  <2> QED BY <2>1 DEF Live
<1>5. CASE \/ CreateItem \/ Enqueue \/ CreatorFails \/ Load \/ Discard
           \/ MirrorProcessing \/ CheckCancelled \/ LoopEnds \/ FindItem
           \/ ProcessBook \/ UpdateItemStatus \/ MirrorFinished
           \/ MirrorCancel \/ DeleteBook \/ Crash \/ Shutdown
  BY <1>5, <1>1 DEF CreateItem, Enqueue, CreatorFails, Load, Discard,
     MirrorProcessing, CheckCancelled, LoopEnds, FindItem, ProcessBook,
     UpdateItemStatus, MirrorFinished, MirrorCancel, DeleteBook, Crash, Shutdown
<1>6. CASE UNCHANGED vars BY <1>6, <1>1 DEF vars
<1> QED BY <1>2, <1>3, <1>4, <1>5, <1>6 DEF Next, WorkerStep

\* Initially nothing is cancelled.
LEMMA CancelInit == Init => CancelInv
  BY DEF Init, CancelInv

\* The creating request leaves "create" by creating the row.
LEMMA CreatorStep ==
  ASSUME TypeInv, CancelInv, [Next]_vars
  PROVE  creator' = "create" => batch'.status = "absent"
<1> SUFFICES ASSUME creator' = "create" PROVE batch'.status = "absent"
  OBVIOUS
<1>0. batch \in BatchRows BY DEF TypeInv, TypeOK
<1>1. CASE creator = "create" /\ UNCHANGED batch BY <1>1 DEF CancelInv
<1>2. CASE WorkerStep
  <2>1. creator = "create"
    BY <1>2 DEF WorkerStep, Load, Discard, MarkProcessing, MirrorProcessing,
       ResyncCounters, CheckCancelled, LoopEnds, FindItem, ProcessBook,
       UpdateItemStatus, IncrementProcessed, MarkFinished, MirrorFinished
  <2>2. ~Live BY <2>1 DEF CancelInv, Live
  <2>3. UNCHANGED batch
    BY <1>2, <2>2 DEF WorkerStep, Load, Discard, MarkProcessing, MirrorProcessing,
       ResyncCounters, CheckCancelled, LoopEnds, FindItem, ProcessBook,
       UpdateItemStatus, IncrementProcessed, MarkFinished, MirrorFinished
  <2> QED BY <1>1, <2>1, <2>3
<1>3. CASE \/ Create \/ CreateItem \/ Enqueue \/ CreatorFails \/ Cancel
           \/ MirrorCancel \/ Delete \/ DeleteUmbrella \/ DeleteBook \/ Crash \/ Shutdown
  BY <1>0, <1>1, <1>3 DEF CancelInv, Create, CreateItem, Enqueue, CreatorFails,
     Cancel, MirrorCancel, Delete, DeleteUmbrella, DeleteBook, Crash, Shutdown
<1>4. CASE UNCHANGED vars BY <1>4, <1>1 DEF vars
<1> QED BY <1>2, <1>3, <1>4 DEF Next

\* The umbrella row is set to cancelled only by the Cancel handler, after it
\* cancelled the batch.
LEMMA UmbrellaStep ==
  ASSUME TypeInv, CancelInv, [Next]_vars
  PROVE  /\ canceller' = "mirror" => batch'.status \in Closed
         /\ job' = "cancelled" => batch'.status \in Closed
<1>0. /\ batch \in BatchRows /\ batch' \in BatchRows
      /\ worker.verdict \in {"processing", "done", "failed"}
  BY BatchStaysOK DEF TypeInv, TypeOK, Attempts
<1>1. /\ batch.status = "cancelled" => batch'.status \in Closed
      /\ batch.status = "gone" => batch'.status = "gone"
  BY ClosedStaysClosed
<1>2. CASE canceller' \in {canceller, "idle"} /\ (job' = "cancelled" => job = "cancelled")
  BY <1>1, <1>2 DEF CancelInv, Closed, TypeInv, TypeOK
<1>3. CASE Create \/ MirrorProcessing \/ MirrorFinished
  BY <1>0, <1>2, <1>3 DEF Create, MirrorProcessing, MirrorFinished, Umbrella
<1>4. CASE Cancel BY <1>0, <1>4 DEF Cancel, Closed, CancelInv, BatchRows
<1>5. CASE MirrorCancel BY <1>5 DEF MirrorCancel, CancelInv, TypeInv, TypeOK
<1>6. CASE \/ CreateItem \/ Enqueue \/ CreatorFails \/ Load \/ Discard
           \/ MarkProcessing \/ ResyncCounters \/ CheckCancelled \/ LoopEnds
           \/ FindItem \/ ProcessBook \/ UpdateItemStatus
           \/ IncrementProcessed \/ MarkFinished
           \/ Delete \/ DeleteUmbrella \/ DeleteBook \/ Crash \/ Shutdown
  BY <1>6, <1>2 DEF CreateItem, Enqueue, CreatorFails, Load, Discard,
     MarkProcessing, ResyncCounters, CheckCancelled, LoopEnds, FindItem,
     ProcessBook, UpdateItemStatus, IncrementProcessed, MarkFinished, Delete,
     DeleteUmbrella, DeleteBook, Crash, Shutdown
<1>7. CASE UNCHANGED vars BY <1>7, <1>2 DEF vars
<1> QED BY <1>3, <1>4, <1>5, <1>6, <1>7 DEF Next, WorkerStep

\* Only the Cancel handler cancels.
LEMMA OnlyCancelCancels ==
  ASSUME TypeInv, CancelInv, [Next]_vars, batch'.status = "cancelled", ~Cancel
  PROVE  batch.status = "cancelled"
<1>0. /\ batch \in BatchRows
      /\ worker.verdict \in {"processing", "done", "failed"}
  BY DEF TypeInv, TypeOK, Attempts
<1>1. CASE UNCHANGED batch BY <1>1
<1>2. CASE Create \/ Delete \/ DeleteUmbrella
  BY <1>0, <1>2 DEF Create, Delete, DeleteUmbrella, BatchRows
<1>3. CASE MarkProcessing \/ MarkFinished
  BY <1>0, <1>1, <1>3 DEF MarkProcessing, MarkFinished, BatchRows
<1>4. CASE ResyncCounters \/ IncrementProcessed
  BY <1>0, <1>4 DEF ResyncCounters, IncrementProcessed, Ticked, BatchRows
<1>5. CASE \/ CreateItem \/ Enqueue \/ CreatorFails \/ Load \/ Discard
           \/ MirrorProcessing \/ CheckCancelled \/ LoopEnds \/ FindItem
           \/ ProcessBook \/ UpdateItemStatus \/ MirrorFinished
           \/ MirrorCancel \/ DeleteBook \/ Crash \/ Shutdown
  BY <1>5, <1>1 DEF CreateItem, Enqueue, CreatorFails, Load, Discard,
     MirrorProcessing, CheckCancelled, LoopEnds, FindItem, ProcessBook,
     UpdateItemStatus, MirrorFinished, MirrorCancel, DeleteBook, Crash, Shutdown
<1>6. CASE UNCHANGED vars BY <1>6, <1>1 DEF vars
<1> QED BY <1>2, <1>3, <1>4, <1>5, <1>6 DEF Next, WorkerStep

\* Statements are lost one at a time.
LEMMA FaultsStep ==
  ASSUME [Next]_vars PROVE faults' = faults \/ faults' = faults + 1
  BY DEF Next, WorkerStep, Create, CreateItem, Enqueue, CreatorFails, Load,
     Discard, MarkProcessing, MirrorProcessing, ResyncCounters, CheckCancelled,
     LoopEnds, FindItem, ProcessBook, UpdateItemStatus, IncrementProcessed,
     MarkFinished, MirrorFinished, Cancel, MirrorCancel, Delete,
     DeleteUmbrella, DeleteBook,
     Crash, Shutdown, Fault, vars

\* Books are counted as late only of a cancelled batch, and each of them is
\* either the one past its check or paid for by a lost status read.
LEMMA LateStep ==
  ASSUME TypeInv, CancelInv, [Next]_vars
  PROVE  /\ late' # -1 => batch'.status \in Closed
         /\ batch'.status = "cancelled" =>
               (IF worker'.pc = "find" THEN late' + 1 ELSE late') <= 1 + faults'
<1>0. /\ worker \in Attempts /\ worker.pc \in ProgramPoints
      /\ late \in Nat \cup {-1} /\ faults \in Nat /\ batch \in BatchRows
  BY BatchAssumption DEF TypeInv, TypeOK, Attempts
<1>1. /\ batch.status = "cancelled" => batch'.status \in Closed
      /\ batch.status = "gone" => batch'.status = "gone"
      /\ batch'.status = "cancelled" /\ ~Cancel => batch.status = "cancelled"
  BY ClosedStaysClosed, OnlyCancelCancels
<1>2. faults' = faults \/ faults' = faults + 1
  BY FaultsStep
<1>3. ASSUME late' = late, ~Cancel, worker'.pc = "find" => worker.pc = "find"
      PROVE  /\ late' # -1 => batch'.status \in Closed
             /\ batch'.status = "cancelled" =>
                 (IF worker'.pc = "find" THEN late' + 1 ELSE late') <= 1 + faults'
  BY <1>0, <1>1, <1>2, <1>3 DEF CancelInv, Closed
<1>4. CASE Cancel
  BY <1>0, <1>4 DEF Cancel, BatchRows, Closed
<1>5. CASE CheckCancelled /\ ~Cancel
  <2>1. CASE worker' = NoAttempt
    BY <1>3, <1>5, <2>1, NoAttemptOK DEF CheckCancelled
  <2>2. CASE batch.status # "cancelled"
    BY <1>0, <1>1, <1>5, <2>2 DEF CheckCancelled, CancelInv, Closed
  <2>3. CASE batch.status = "cancelled" /\ Fault /\ Goto("find")
    BY <1>0, <1>1, <1>5, <2>3 DEF CheckCancelled, CancelInv, Closed, Fault
  <2> QED BY <1>5, <2>1, <2>2, <2>3 DEF CheckCancelled, ReturnNil
<1>6. CASE FindItem /\ ~Cancel
  <2>1. worker.pc = "find" BY <1>6 DEF FindItem
  <2>2. CASE NextBook /\ UNCHANGED late BY <1>3, <1>6, <2>1, <2>2
  <2>3. ASSUME NEW k \in 0..Total, StartBook(k)
        PROVE  /\ late' # -1 => batch'.status \in Closed
               /\ batch'.status = "cancelled" =>
                   (IF worker'.pc = "find" THEN late' + 1 ELSE late') <= 1 + faults'
    <3>1. worker'.pc = "process" BY <1>0, <2>3, StartBookMoves
    <3>2. late' = IF late >= 0 THEN late + 1 ELSE late BY <2>3 DEF StartBook
    <3> QED BY <1>0, <1>1, <1>2, <1>6, <2>1, <3>1, <3>2 DEF CancelInv, Closed
  <2>4. ItemRows \subseteq 0..Total /\ 0 \in 0..Total
    BY ItemRowsOnList, TotalPositive
  <2> QED BY <1>6, <2>2, <2>3, <2>4 DEF FindItem
<1>7. CASE ~Cancel /\ ~CheckCancelled /\ ~FindItem
  <2>1. late' = late
    BY <1>7 DEF Next, WorkerStep, Create, CreateItem, Enqueue, CreatorFails, Load,
       Discard, MarkProcessing, MirrorProcessing, ResyncCounters, LoopEnds,
       ProcessBook, UpdateItemStatus, IncrementProcessed, MarkFinished,
       MirrorFinished, MirrorCancel, Delete, DeleteUmbrella, DeleteBook,
       Crash, Shutdown, vars
  <2>2. worker'.pc = "find" => worker.pc = "find"
    <3>1. CASE worker' = worker BY <3>1
    <3>2. CASE worker' = NoAttempt BY <3>2, NoAttemptOK
    <3>3. ASSUME NEW p \in ProgramPoints \ {"find"}, Goto(p)
          PROVE  worker'.pc # "find"
      BY <1>0, <3>3 DEF Goto, Attempts
    <3>4. CASE NextBook BY <1>0, <3>4 DEF NextBook, Attempts
    <3>5. {"mirrorMark", "resync", "check", "tick", "mirrorFinish"} \subseteq ProgramPoints \ {"find"}
      BY DEF ProgramPoints
    <3>6. CASE Load BY <1>0, <3>2, <3>6 DEF Load, ReturnNil, ReturnErr, NoAttempt
    <3>7. CASE ProcessBook \/ IncrementProcessed
      BY <1>0, <3>4, <3>7 DEF ProcessBook, IncrementProcessed, Attempts
    <3>8. CASE \/ MarkProcessing \/ MirrorProcessing \/ ResyncCounters
               \/ LoopEnds \/ UpdateItemStatus \/ MarkFinished \/ MirrorFinished
      BY <3>2, <3>3, <3>4, <3>5, <3>8 DEF MarkProcessing, MirrorProcessing,
         ResyncCounters, LoopEnds, UpdateItemStatus, MarkFinished,
         MirrorFinished, ReturnNil, ReturnErr
    <3> QED
      BY <1>7, <3>1, <3>2, <3>6, <3>7, <3>8 DEF Next, WorkerStep, Create,
         CreateItem, Enqueue, CreatorFails, Discard, MirrorCancel, Delete, DeleteUmbrella,
         DeleteBook, Crash, Shutdown, vars
  <2> QED BY <1>3, <1>7, <2>1, <2>2
<1> QED BY <1>4, <1>5, <1>6, <1>7

\* Types and cancellation together are inductive.
LEMMA CancelInvariant == Spec => [](TypeInv /\ CancelInv)
<1>1. Init => TypeInv /\ CancelInv BY TypeInit, CancelInit
<1>2. TypeInv /\ CancelInv /\ [Next]_vars => (TypeInv /\ CancelInv)'
  BY TypeStep, CreatorStep, UmbrellaStep, LateStep DEF CancelInv
<1> QED BY <1>1, <1>2, PTL DEF Spec

\* CancelSticks: nothing the worker writes, in whatever order its statements
\* meet the Cancel handler's, revives a cancelled batch.
THEOREM CancelIsFinal == Spec => CancelSticks
<1>1. TypeInv /\ CancelInv /\ [Next]_vars =>
        [batch.status = "cancelled" => batch'.status \in {"cancelled", "gone"}]_vars
  BY ClosedStaysClosed DEF Closed
<1> QED BY <1>1, CancelInvariant, PTL DEF Spec, CancelSticks

\* UmbrellaCancelHonest: the unified history never calls a batch cancelled that
\* is not.
THEOREM UmbrellaIsHonest == Spec => []UmbrellaCancelHonest
<1>1. CancelInv => UmbrellaCancelHonest
  BY DEF CancelInv, UmbrellaCancelHonest, Closed
<1> QED BY <1>1, CancelInvariant, PTL

\* CancelStopsWorker: a cancelled batch costs at most one more book, and one for
\* every status read that is lost.
THEOREM CancelStops == Spec => []CancelStopsWorker
<1>1. TypeInv /\ CancelInv => CancelStopsWorker
  BY BatchAssumption DEF TypeInv, TypeOK, CancelInv, CancelStopsWorker, Closed
<1> QED BY <1>1, CancelInvariant, PTL

------------------------------------------------------------------------------
(* What has been attempted *)

\* who may touch the items: they are created before River knows the batch, an
\* attempt owns a running River job, and the item it works on has no result yet
ItemsInv ==
    /\ \A k \in Positions : items[k] = "gone" => batch.status = "gone"
    /\ river # "none" \/ creator = "enqueue" =>
          \A k \in Positions : items[k] # "absent"
    /\ creator # "end" => river = "none"
    /\ worker.pc # "idle" => river = "running"
    /\ worker.pc = "setItem" => worker.outcome \in Attempted
    /\ worker.pc \in {"process", "setItem"} /\ worker.item # 0 =>
          items[worker.item] \notin Attempted

\* Initially there are no items and no attempt.
LEMMA ItemsInit == Init => ItemsInv
  BY DEF Init, ItemsInv, NoAttempt

\* Every step keeps ItemsInv.
LEMMA ItemsStep ==
  ASSUME TypeInv, CancelInv, ItemsInv, [Next]_vars
  PROVE  ItemsInv'
<1>0. /\ worker \in Attempts /\ items \in [Positions -> ItemStatus]
      /\ batch \in BatchRows /\ worker.item \in 0..Total /\ Total \in Nat
      /\ Positions = 1..Total /\ worker.pc \in ProgramPoints
      /\ worker.outcome \in Attempted \cup {"pending"}
  BY TotalPositive DEF TypeInv, TypeOK, Attempts
<1>1. batch.status = "gone" => batch'.status = "gone"
  BY ClosedStaysClosed
<1>2. ASSUME UNCHANGED <<items, creator>>, worker' = NoAttempt,
             river # "none", river' # "none"
      PROVE  ItemsInv'
  BY <1>1, <1>2 DEF ItemsInv, NoAttempt, Positions, Total
<1>3. ASSUME UNCHANGED <<items, creator, river>>, worker.pc # "idle",
             worker' \in Attempts, worker'.pc \notin {"process", "setItem"}
      PROVE  ItemsInv'
  BY <1>1, <1>3 DEF ItemsInv, Positions, Total
<1>4. ASSUME UNCHANGED <<items, creator, river, worker>>
      PROVE  ItemsInv'
  BY <1>1, <1>4 DEF ItemsInv, Positions, Total
<1>5. CASE Create \/ Enqueue \/ CreatorFails \/ CreateItem
  <2>1. worker.pc = "idle" /\ worker' = worker /\ river = "none"
    BY <1>5 DEF Create, Enqueue, CreatorFails, CreateItem, ItemsInv
  <2>2. CASE Create
    BY <1>0, <2>1, <2>2 DEF Create, ItemsInv, CancelInv, Positions, Total
  <2>3. CASE Enqueue BY <2>1, <2>3 DEF Enqueue, ItemsInv, Positions, Total
  <2>4. CASE CreatorFails BY <2>1, <2>4 DEF CreatorFails, ItemsInv, Positions, Total
  <2>5. CASE CreateItem
    <3>1. PICK k \in Positions :
            /\ \A l \in 1..(k-1) : items[l] # "absent"
            /\ items' = [items EXCEPT ![k] = "pending"]
            /\ creator' = IF k = Total THEN "enqueue" ELSE "items"
      BY <2>5 DEF CreateItem
    <3>2. creator' = "enqueue" => \A l \in Positions : items'[l] # "absent"
      <4>1. SUFFICES ASSUME k = Total, NEW l \in Positions PROVE items'[l] # "absent"
        BY <3>1
      <4>2. l = k \/ l \in 1..(k-1) BY <1>0, <4>1
      <4> QED BY <1>0, <3>1, <4>2
    <3>3. UNCHANGED <<batch, river, worker>> BY <2>5 DEF CreateItem
    <3> QED BY <1>0, <2>1, <3>1, <3>2, <3>3 DEF ItemsInv, Positions, Total
  <2> QED BY <1>5, <2>2, <2>3, <2>4, <2>5
<1>6. CASE Load
  <2>1. CASE river' = "running" /\ worker' = [NoAttempt EXCEPT !.pc = "mark"]
    BY <1>1, <1>6, <2>1 DEF Load, ItemsInv, NoAttempt, Positions, Total
  <2> QED BY <1>2, <1>6, <2>1 DEF Load, ReturnNil, ReturnErr
<1>7. CASE Discard
  BY <1>1, <1>7 DEF Discard, ItemsInv, Positions, Total
<1>8. CASE MarkProcessing \/ MirrorProcessing \/ ResyncCounters \/ CheckCancelled
  <2>1. {"mirrorMark", "resync", "check", "find"} \subseteq ProgramPoints
    BY DEF ProgramPoints
  <2>2. worker.pc # "idle" /\ river = "running" /\ UNCHANGED <<items, creator>>
    BY <1>8 DEF MarkProcessing, MirrorProcessing, ResyncCounters, CheckCancelled,
       ItemsInv
  <2>3. ASSUME NEW p \in {"mirrorMark", "resync", "check", "find"}, Goto(p),
               UNCHANGED river
        PROVE  ItemsInv'
    BY <1>0, <1>3, <2>1, <2>2, <2>3, GotoMoves
  <2> QED
    BY <1>2, <1>8, <2>2, <2>3 DEF MarkProcessing, MirrorProcessing,
       ResyncCounters, CheckCancelled, ReturnNil, ReturnErr
<1>9. CASE LoopEnds
  BY <1>2, <1>9 DEF LoopEnds, ReturnNil, ItemsInv
<1>10. CASE FindItem
  <2>1. /\ worker.pc # "idle" /\ worker.i <= Total
        /\ UNCHANGED <<items, creator, river, batch>>
    BY <1>10 DEF FindItem, TypeInv, WorkerOK, InRound
  <2>2. CASE NextBook BY <1>0, <1>3, <2>1, <2>2, NextBookMoves
  <2>3. ASSUME NEW k \in 0..Total, StartBook(k), k = 0 \/ items[k] = "pending"
        PROVE  ItemsInv'
    <3>1. worker'.pc = "process" /\ worker'.item = k
      BY <1>0, <2>3, StartBookMoves
    <3> QED BY <2>1, <2>3, <3>1 DEF ItemsInv, Attempted, Positions, Total
  <2> QED
    BY <1>0, <1>10, <2>2, <2>3, ItemRowsOnList DEF FindItem
<1>11. CASE ProcessBook
  <2>1. PICK outcome \in Attempted :
          worker' = [worker EXCEPT !.pc = "setItem", !.outcome = outcome]
    BY <1>11 DEF ProcessBook
  <2>2. worker'.pc = "setItem" /\ worker'.outcome = outcome /\ worker'.item = worker.item
    BY <1>0, <2>1 DEF Attempts
  <2> QED BY <1>11, <2>1, <2>2 DEF ProcessBook, ItemsInv, Positions, Total
<1>12. CASE UpdateItemStatus
  <2>1. worker'.pc = "tick" BY <1>0, <1>12 DEF UpdateItemStatus, Goto, Attempts
  <2>2. \A k \in Positions : items'[k] = items[k] \/ items'[k] \in Attempted
    BY <1>0, <1>12 DEF UpdateItemStatus, ItemsInv
  <2>3. UNCHANGED <<batch, river, creator>> /\ worker.pc # "idle"
    BY <1>12 DEF UpdateItemStatus
  <2> QED BY <2>1, <2>2, <2>3 DEF ItemsInv, Attempted, Positions, Total
<1>13. CASE IncrementProcessed \/ MarkFinished \/ MirrorFinished
  <2>1. worker.pc # "idle" /\ UNCHANGED <<items, creator, river>>
    BY <1>13 DEF IncrementProcessed, MarkFinished, MirrorFinished
  <2>2. worker' \in Attempts BY WorkerStaysOK DEF WorkerOK
  <2>3. worker'.pc \notin {"process", "setItem"}
    BY <1>0, <1>13 DEF IncrementProcessed, MarkFinished, MirrorFinished, Goto,
       NextBook, Attempts
  <2> QED BY <1>3, <2>1, <2>2, <2>3
<1>14. CASE Cancel \/ MirrorCancel \/ DeleteBook
  BY <1>4, <1>14 DEF Cancel, MirrorCancel, DeleteBook
<1>15. CASE Delete \/ DeleteUmbrella
  <2>1. batch'.status = "gone" BY <1>0, <1>15 DEF Delete, DeleteUmbrella, BatchRows
  <2>2. \A k \in Positions : items'[k] = "gone" BY <1>15 DEF Delete, DeleteUmbrella
  <2>3. worker.item # 0 => worker.item \in Positions BY <1>0
  <2> QED BY <1>15, <2>1, <2>2, <2>3
        DEF Delete, DeleteUmbrella, ItemsInv, Attempted, Positions, Total
<1>16. CASE Crash \/ Shutdown
  <2>1. worker'.pc = "idle" /\ UNCHANGED <<items, batch>> /\ creator' \in {creator, "end"}
    BY <1>16, NoAttemptOK DEF Crash, Shutdown
  <2>2. river' = "none" <=> river = "none"
    BY <1>16 DEF Crash, Shutdown
  <2> QED BY <2>1, <2>2 DEF ItemsInv, Positions, Total
<1>17. CASE UNCHANGED vars BY <1>4, <1>17 DEF vars
<1> QED
  BY <1>5, <1>6, <1>7, <1>8, <1>9, <1>10, <1>11, <1>12, <1>13, <1>14, <1>15,
     <1>16, <1>17 DEF Next, WorkerStep

------------------------------------------------------------------------------
(* Counting *)

\* positions up to n that lost their book
OrphansUpTo(n) == {k \in Orphans : k <= n}
\* books accounted for once the rounds up to n are over
Seen == [n \in Int |-> Cardinality(AttemptedItems) + Cardinality(OrphansUpTo(n))]
\* every book is accounted for
Covered == Cardinality(AttemptedItems) + Cardinality(Orphans) >= Total

\* Seen is a number, grows with n and never exceeds what Covered counts.
LEMMA SeenBounds ==
  ASSUME NEW m \in Int, NEW n \in Int, m <= n
  PROVE  /\ Seen[m] \in Nat /\ Seen[n] \in Nat /\ Seen[m] <= Seen[n]
         /\ Cardinality(AttemptedItems) <= Seen[m]
         /\ Seen[n] <= Cardinality(AttemptedItems) + Cardinality(Orphans)
<1>1. OrphansUpTo(m) \subseteq OrphansUpTo(n) /\ OrphansUpTo(n) \subseteq Orphans
  BY DEF OrphansUpTo, Orphans, Positions
<1>2. IsFiniteSet(OrphansUpTo(n)) /\ IsFiniteSet(OrphansUpTo(m))
  BY <1>1, CountsAreNat, FS_Subset
<1>3. /\ Cardinality(OrphansUpTo(m)) \in Nat /\ Cardinality(OrphansUpTo(n)) \in Nat
      /\ Cardinality(OrphansUpTo(m)) <= Cardinality(OrphansUpTo(n))
      /\ Cardinality(OrphansUpTo(n)) <= Cardinality(Orphans)
  BY <1>1, <1>2, CountsAreNat, FS_Subset, FS_CardinalityType
<1> QED BY <1>3, CountsAreNat DEF Seen

\* A round whose book left the catalogue accounts for one book more.
LEMMA SeenOrphan ==
  ASSUME NEW n \in Orphans
  PROVE  Seen[n] = Seen[n - 1] + 1
<1>1. n \in Nat BY TotalPositive DEF Orphans
<1>2. OrphansUpTo(n) = OrphansUpTo(n - 1) \cup {n} /\ n \notin OrphansUpTo(n - 1)
  BY <1>1, TotalPositive DEF OrphansUpTo, Orphans
<1>3. IsFiniteSet(OrphansUpTo(n - 1))
  BY CountsAreNat, FS_Subset DEF OrphansUpTo
<1>4. /\ Cardinality(OrphansUpTo(n)) = Cardinality(OrphansUpTo(n - 1)) + 1
      /\ Cardinality(OrphansUpTo(n - 1)) \in Nat
  BY <1>2, <1>3, FS_AddElement, FS_CardinalityType
<1> QED BY <1>1, <1>4, CountsAreNat DEF Seen

\* A book that gets its result accounts for one book more.
LEMMA SeenItem ==
  ASSUME NEW k \in Positions, NEW n \in Int, k \notin AttemptedItems,
         AttemptedItems' = AttemptedItems \cup {k}, Orphans' = Orphans
  PROVE  Seen'[n] = Seen[n] + 1
<1>1. Cardinality(AttemptedItems') = Cardinality(AttemptedItems) + 1
  BY CountsAreNat, FS_AddElement
<1>2. OrphansUpTo(n)' = OrphansUpTo(n)
  BY DEF OrphansUpTo
<1>3. Cardinality(OrphansUpTo(n)) \in Nat
  BY CountsAreNat, FS_Subset, FS_CardinalityType DEF OrphansUpTo
<1> QED BY <1>1, <1>2, <1>3, CountsAreNat DEF Seen

\* Steps that take no result away account for no fewer books.
LEMMA SeenGrows ==
  ASSUME AttemptedItems \subseteq AttemptedItems', Orphans \subseteq Orphans'
  PROVE  /\ \A n \in Int : Seen[n] <= Seen'[n]
         /\ Covered => Covered'
<1>0. /\ IsFiniteSet(AttemptedItems') /\ Cardinality(AttemptedItems)' \in Nat
      /\ IsFiniteSet(Orphans') /\ Cardinality(Orphans)' \in Nat
  <2>1. IsFiniteSet(Positions)
    BY TotalPositive, FS_Interval
  <2>2. AttemptedItems' \subseteq Positions /\ Orphans' \subseteq Positions
    BY DEF AttemptedItems, Orphans, Positions, Total
  <2> QED BY <2>1, <2>2, FS_Subset, FS_CardinalityType
<1>1. Cardinality(AttemptedItems) <= Cardinality(AttemptedItems)'
      /\ Cardinality(Orphans) <= Cardinality(Orphans)'
  BY <1>0, FS_Subset
<1>2. ASSUME NEW n \in Int
      PROVE  Seen[n] <= Seen'[n]
  <2>1. OrphansUpTo(n) \subseteq OrphansUpTo(n)' /\ OrphansUpTo(n)' \subseteq Orphans'
    BY DEF OrphansUpTo
  <2>2. IsFiniteSet(OrphansUpTo(n)') BY <1>0, <2>1, FS_Subset
  <2>3. /\ Cardinality(OrphansUpTo(n)) <= Cardinality(OrphansUpTo(n))'
        /\ Cardinality(OrphansUpTo(n)) \in Nat /\ Cardinality(OrphansUpTo(n))' \in Nat
    BY <2>1, <2>2, FS_Subset, FS_CardinalityType
  <2> QED BY <1>0, <1>1, <2>3, CountsAreNat DEF Seen
<1>3. Covered => Covered'
  BY <1>0, <1>1, CountsAreNat, TotalPositive DEF Covered, Total
<1> QED BY <1>2, <1>3

\* ... and stays a number in the next state.
LEMMA SeenNatPrime == \A n \in Int : Seen'[n] \in Nat
<1>1. IsFiniteSet(Positions)
  BY TotalPositive, FS_Interval
<1>2. AttemptedItems' \subseteq Positions /\ Orphans' \subseteq Positions
  BY DEF AttemptedItems, Orphans, Positions, Total
<1>3. \A n \in Int : OrphansUpTo(n)' \subseteq Orphans'
  BY DEF OrphansUpTo
<1>4. Cardinality(AttemptedItems') \in Nat
  BY <1>1, <1>2, FS_Subset, FS_CardinalityType
<1>5. ASSUME NEW n \in Int PROVE Cardinality(OrphansUpTo(n)') \in Nat
  BY <1>1, <1>2, <1>3, FS_Subset, FS_CardinalityType
<1> QED BY <1>4, <1>5 DEF Seen

\* no statement was lost: every book the counters hold has been attempted or
\* has left the catalogue, and nothing is declared finished before all have
CountInv == faults = 0 =>
    /\ worker.pc \in {"process", "setItem"} /\ worker.item = 0
         /\ batch.status # "gone" => worker.i \in Orphans
    /\ Live /\ worker.pc \in {"check", "find", "process", "setItem"} =>
          batch.processed <= Seen[worker.i - 1]
    /\ Live /\ worker.pc = "tick" => batch.processed + 1 <= Seen[worker.i]
    /\ Live /\ worker.pc \in {"finish", "mirrorFinish"} =>
          batch.processed <= Seen[worker.i]
    /\ batch.status # "gone" /\ worker.pc \in {"finish", "mirrorFinish"} => Covered
    /\ batch.status \in {"done", "failed"} => Covered
    /\ batch.status # "gone" /\ job \in {"completed", "failed"} => Covered

\* Initially nothing is counted.
LEMMA CountInit == Init => CountInv
  BY DEF Init, CountInv, NoAttempt, Live

\* In a step that leaves the batch in place no result is taken away, no book
\* comes back, and the conditional updates of a closed batch stay refused.
LEMMA Grows ==
  ASSUME TypeInv, CancelInv, ItemsInv, [Next]_vars, batch'.status # "gone"
  PROVE  /\ AttemptedItems \subseteq AttemptedItems' /\ Orphans \subseteq Orphans'
         /\ batch.status # "gone"
         /\ Live' /\ ~Create => Live
<1>0. batch \in BatchRows /\ items \in [Positions -> ItemStatus]
  BY DEF TypeInv, TypeOK
<1>1. batch.status # "gone" BY ClosedStaysClosed
<1>2. Orphans \subseteq Orphans'
  <2>1. deleted \subseteq deleted'
    BY DEF Next, WorkerStep, Create, CreateItem, Enqueue, CreatorFails, Load,
       Discard, MarkProcessing, MirrorProcessing, ResyncCounters, CheckCancelled,
       LoopEnds, FindItem, ProcessBook, UpdateItemStatus, IncrementProcessed,
       MarkFinished, MirrorFinished, Cancel, MirrorCancel, Delete,
     DeleteUmbrella, DeleteBook,
       Crash, Shutdown, vars
  <2> QED BY <2>1 DEF Orphans, Positions, Total
<1>3. AttemptedItems \subseteq AttemptedItems'
  <2>1. CASE UNCHANGED items BY <2>1 DEF AttemptedItems, Positions, Total
  <2>2. CASE CreateItem
    BY <1>0, <2>2 DEF CreateItem, AttemptedItems, Attempted, Positions, Total
  <2>3. CASE UpdateItemStatus
    BY <1>0, <2>3 DEF UpdateItemStatus, ItemsInv, AttemptedItems, Positions, Total
  <2>4. CASE Delete \/ DeleteUmbrella BY <1>0, <2>4 DEF Delete, DeleteUmbrella, BatchRows
  <2> QED
    BY <2>1, <2>2, <2>3, <2>4 DEF Next, WorkerStep, Create, Enqueue,
       CreatorFails, Load, Discard, MarkProcessing, MirrorProcessing,
       ResyncCounters, CheckCancelled, LoopEnds, FindItem, ProcessBook,
       IncrementProcessed, MarkFinished, MirrorFinished, Cancel, MirrorCancel,
       DeleteBook, Crash, Shutdown, vars
<1>4. Live' /\ ~Create => Live
  <2>1. batch.status = "absent" /\ ~Create => UNCHANGED batch
    <3>1. batch.status = "absent" => ~Live BY DEF Live
    <3> QED
      BY <3>1 DEF Next, WorkerStep, CreateItem, Enqueue, CreatorFails, Load,
         Discard, MarkProcessing, MirrorProcessing, ResyncCounters,
         CheckCancelled, LoopEnds, FindItem, ProcessBook, UpdateItemStatus,
         IncrementProcessed, MarkFinished, MirrorFinished, Cancel, MirrorCancel,
         Delete, DeleteUmbrella, DeleteBook, Crash, Shutdown, vars
  <2> QED BY <1>1, <2>1, ClosedStaysClosed DEF Live, Closed
<1> QED BY <1>1, <1>2, <1>3, <1>4

\* Every step keeps the count, whatever it does to the batch's readers.
LEMMA CountStep ==
  ASSUME TypeInv, CancelInv, ItemsInv, CountInv, [Next]_vars
  PROVE  CountInv'
<1> SUFFICES ASSUME faults' = 0, batch'.status # "gone" PROVE CountInv'
  BY DEF CountInv, Live
<1>0. /\ worker \in Attempts /\ items \in [Positions -> ItemStatus]
      /\ batch \in BatchRows /\ batch' \in BatchRows /\ worker' \in Attempts
      /\ worker.i \in 1..(Total + 1) /\ worker.item \in 0..Total
      /\ worker.pc \in ProgramPoints /\ Total \in Nat /\ Positions = 1..Total
      /\ batch.processed \in Nat /\ batch'.processed \in Nat /\ job \in JobStatus
  BY TotalPositive, BatchStaysOK, WorkerStaysOK
     DEF TypeInv, TypeOK, Attempts, BatchRows, WorkerOK
<1>1. /\ AttemptedItems \subseteq AttemptedItems' /\ Orphans \subseteq Orphans'
      /\ batch.status # "gone" /\ (Live' /\ ~Create => Live)
  BY Grows
<1>2. /\ \A n \in Int : Seen[n] <= Seen'[n] /\ Seen[n] \in Nat /\ Seen'[n] \in Nat
      /\ Covered => Covered'
  <2>1. \A n \in Int : Seen[n] \in Nat BY SeenBounds
  <2>2. \A n \in Int : Seen[n] <= Seen'[n] BY <1>1, SeenGrows
  <2>3. \A n \in Int : Seen'[n] \in Nat BY SeenNatPrime
  <2> QED BY <1>1, <2>1, <2>2, <2>3, SeenGrows
<1>3. faults = 0 /\ ~Fault
  <2>1. faults \in Nat BY BatchAssumption DEF TypeInv, TypeOK
  <2> QED BY <2>1, FaultsStep DEF Fault
\* the three ways a batch or its umbrella is declared finished
<1>4. /\ batch.status \in {"done", "failed"} => Covered'
      /\ job \in {"completed", "failed"} => Covered'
      /\ worker.pc \in {"finish", "mirrorFinish"} => Covered'
  BY <1>1, <1>2, <1>3 DEF CountInv
<1>5. ASSUME UNCHANGED <<batch, worker>>,
             job' \in {"completed", "failed"} => job \in {"completed", "failed"}
      PROVE  CountInv'
  BY <1>0, <1>1, <1>2, <1>3, <1>4, <1>5 DEF CountInv, Live, Total
<1>6. ASSUME batch'.status \in {"done", "failed"} => batch.status \in {"done", "failed"},
             job' \in {"completed", "failed"} => job \in {"completed", "failed"},
             worker'.pc \in {"idle", "mark", "mirrorMark", "resync"}
      PROVE  CountInv'
  BY <1>4, <1>6 DEF CountInv
<1>7. CASE Create
  BY <1>0, <1>3, <1>7 DEF Create, CountInv, ItemsInv, Umbrella, BatchRows
<1>8. CASE \/ CreateItem \/ Enqueue \/ CreatorFails \/ Discard \/ MirrorCancel
           \/ DeleteBook
  BY <1>3, <1>5, <1>8 DEF CreateItem, Enqueue, CreatorFails, Discard,
     MirrorCancel, DeleteBook
<1>9. CASE Crash \/ Shutdown \/ LoopEnds \/ Load
  <2>1. worker'.pc \in {"idle", "mark"}
    BY <1>9, NoAttemptOK DEF Crash, Shutdown, LoopEnds, Load, ReturnNil,
       ReturnErr, NoAttempt
  <2> QED BY <1>6, <1>9, <2>1 DEF Crash, Shutdown, LoopEnds, Load
<1>10. CASE Cancel
  <2>1. ~Live' /\ UNCHANGED <<worker, job, items>>
        /\ batch'.status = "cancelled"
    BY <1>0, <1>10 DEF Cancel, Live, BatchRows
  <2> QED BY <1>1, <1>3, <1>4, <2>1 DEF CountInv
<1>11. CASE Delete \/ DeleteUmbrella BY <1>0, <1>11 DEF Delete, DeleteUmbrella, BatchRows
<1>12. CASE MarkProcessing \/ MirrorProcessing
  <2>1. worker'.pc \in {"mirrorMark", "resync"}
    BY <1>0, <1>3, <1>12 DEF MarkProcessing, MirrorProcessing, Goto, Attempts
  <2>2. batch'.status \in {"done", "failed"} => batch.status \in {"done", "failed"}
    BY <1>0, <1>12 DEF MarkProcessing, MirrorProcessing, BatchRows
  <2>3. job' \in {"completed", "failed"} => job \in {"completed", "failed"}
    BY <1>12 DEF MarkProcessing, MirrorProcessing, Umbrella
  <2> QED BY <1>6, <2>1, <2>2, <2>3
<1>13. CASE ResyncCounters
  <2>1. worker'.pc = "check" /\ worker'.i = worker.i /\ UNCHANGED <<job, items>>
    BY <1>0, <1>13 DEF ResyncCounters, Goto, Attempts
  <2>2. batch'.status = batch.status
    BY <1>0, <1>13 DEF ResyncCounters, BatchRows
  <2>3. Live => batch'.processed = Cardinality(AttemptedItems)
    BY <1>0, <1>3, <1>13 DEF ResyncCounters, BatchRows
  <2>4. Cardinality(AttemptedItems) <= Seen[worker.i - 1]
    BY <1>0, SeenBounds
  <2>5. ~Create BY <1>13 DEF ResyncCounters, Create, ItemsInv
  <2>6. Live' => batch'.processed <= Seen'[worker'.i - 1]
    BY <1>0, <1>1, <1>2, <2>1, <2>3, <2>4, <2>5, CountsAreNat
  <2> QED BY <1>4, <2>1, <2>2, <2>6 DEF CountInv
<1>14. CASE CheckCancelled
  <2>1. CASE worker' = NoAttempt
    BY <1>6, <1>14, <2>1, NoAttemptOK DEF CheckCancelled
  <2>2. CASE Goto("find")
    <3>1. worker'.pc = "find" /\ worker'.i = worker.i
      BY <1>0, <2>2 DEF Goto, Attempts
    <3> QED
      BY <1>0, <1>2, <1>3, <1>4, <1>14, <3>1 DEF CheckCancelled, CountInv, Live
  <2> QED BY <1>14, <2>1, <2>2 DEF CheckCancelled, ReturnNil
<1>15. CASE FindItem
  <2>1. /\ worker.pc = "find" /\ worker.i \in Positions /\ river = "running"
        /\ UNCHANGED <<batch, items, job, deleted>> /\ ~Create
    BY <1>0, <1>15 DEF FindItem, TypeInv, WorkerOK, InRound, ItemsInv, Create
  <2>2. Live' => batch'.processed <= Seen'[worker.i - 1]
    BY <1>0, <1>1, <1>2, <1>3, <2>1 DEF CountInv
  <2>3. CASE NextBook
    <3>1. worker'.pc = "check" /\ worker'.i = worker.i + 1
      BY <1>0, <2>1, <2>3, NextBookMoves
    <3>2. Live' => batch'.processed <= Seen'[worker.i]
      <4>1. Live => batch.processed <= Seen[worker.i - 1]
        BY <1>3, <2>1 DEF CountInv
      <4>2. Seen[worker.i - 1] <= Seen[worker.i] BY <1>0, SeenBounds
      <4> QED BY <1>0, <1>1, <1>2, <2>1, <4>1, <4>2
    <3>3. worker'.i - 1 = worker.i BY <1>0, <3>1
    <3> QED BY <1>4, <2>1, <3>1, <3>2, <3>3 DEF CountInv
  <2>4. ASSUME NEW k \in ItemRows, StartBook(k) PROVE CountInv'
    <3>1. k \in 1..Total BY ItemRowsOnList
    <3>2. worker'.pc = "process" /\ worker'.i = worker.i /\ worker'.item = k
      BY <1>0, <2>4, <3>1, StartBookMoves
    <3> QED BY <1>4, <2>1, <2>2, <3>1, <3>2 DEF CountInv
  <2>5. CASE ItemRows = {} /\ StartBook(0)
    <3>1. worker'.pc = "process" /\ worker'.i = worker.i /\ worker'.item = 0
      BY <1>0, <2>5, StartBookMoves
    <3>2. items[worker.i] \notin {"absent", "gone"}
      BY <1>1, <2>1 DEF ItemsInv
    <3>3. worker.i \in Orphans
      BY <2>1, <2>5, <3>2 DEF ItemRows, Orphans
    <3> QED BY <1>1, <1>4, <2>1, <2>2, <3>1, <3>3 DEF CountInv
  <2> QED BY <1>3, <1>15, <2>3, <2>4, <2>5 DEF FindItem
<1>16. CASE ProcessBook
  <2>1. PICK outcome \in Attempted :
          worker' = [worker EXCEPT !.pc = "setItem", !.outcome = outcome]
    BY <1>16 DEF ProcessBook
  <2>2. worker'.pc = "setItem" /\ worker'.item = worker.item /\ worker'.i = worker.i
    BY <1>0, <2>1 DEF Attempts
  <2>3. worker.pc = "process" /\ UNCHANGED <<batch, items, job, deleted>>
    BY <1>16 DEF ProcessBook
  <2> QED
    BY <1>0, <1>1, <1>2, <1>3, <1>4, <2>2, <2>3 DEF CountInv, Live
<1>17. CASE UpdateItemStatus
  <2>1. /\ worker.pc = "setItem" /\ worker'.pc = "tick" /\ worker'.i = worker.i
        /\ UNCHANGED <<batch, job, deleted>>
    BY <1>0, <1>17 DEF UpdateItemStatus, Goto, Attempts
  <2>2. Live => batch.processed <= Seen[worker.i - 1]
    BY <1>3, <2>1 DEF CountInv
  <2>3. Seen[worker.i - 1] + 1 <= Seen'[worker.i]
    <3>1. CASE worker.item = 0
      <4>1. worker.i \in Orphans BY <1>1, <1>3, <2>1, <3>1 DEF CountInv
      <4>2. Seen[worker.i] = Seen[worker.i - 1] + 1 BY <4>1, SeenOrphan
      <4> QED BY <1>0, <1>2, <4>2
    <3>2. CASE worker.item # 0
      <4>1. /\ worker.item \in Positions /\ items[worker.item] \notin Attempted
            /\ worker.outcome \in Attempted
        BY <1>0, <2>1, <3>2 DEF ItemsInv
      <4>2. items' = [items EXCEPT ![worker.item] = worker.outcome]
        <5>1. items[worker.item] # "gone" BY <1>1, <4>1 DEF ItemsInv
        <5> QED BY <1>3, <1>17, <3>2, <5>1 DEF UpdateItemStatus
      <4>3. worker.item \notin AttemptedItems
            /\ AttemptedItems' = AttemptedItems \cup {worker.item}
        BY <1>0, <4>1, <4>2 DEF AttemptedItems, Positions, Total
      <4>4. Orphans' = Orphans BY <2>1 DEF Orphans, Positions, Total
      <4>5. Seen'[worker.i] = Seen[worker.i] + 1
        <5>1. worker.i \in Int BY <1>0
        <5> QED BY <4>1, <4>3, <4>4, <5>1, SeenItem
      <4> QED BY <1>0, <1>2, <4>5, SeenBounds
    <3> QED BY <3>1, <3>2
  <2>4. Live' => batch'.processed + 1 <= Seen'[worker'.i]
    BY <1>0, <1>2, <2>1, <2>2, <2>3 DEF Live
  <2> QED BY <1>4, <2>1, <2>4 DEF CountInv
<1>18. CASE IncrementProcessed
  <2>1. /\ worker.pc = "tick" /\ worker.i <= Total /\ ~Create
        /\ UNCHANGED <<job, items>> /\ batch'.status = batch.status
    BY <1>0, <1>18 DEF IncrementProcessed, Ticked, TypeInv, WorkerOK, InRound,
       Create, ItemsInv, BatchRows
  <2>2. Live => batch.processed + 1 <= Seen[worker.i] BY <1>3, <2>1 DEF CountInv
  <2>3. CASE NextBook
    <3>1. worker'.pc = "check" /\ worker'.i = worker.i + 1 /\ worker'.i - 1 = worker.i
      BY <1>0, <2>1, <2>3, NextBookMoves
    <3>2. Live => batch'.processed = batch.processed + 1
      BY <1>0, <1>3, <1>18 DEF IncrementProcessed, Ticked, BatchRows
    <3>3. Live' => batch'.processed <= Seen'[worker'.i - 1]
      BY <1>0, <1>1, <1>2, <2>1, <2>2, <3>1, <3>2
    <3> QED BY <1>4, <2>1, <3>1, <3>3 DEF CountInv
  <2>4. CASE Live /\ batch' = Ticked /\ Ticked.processed >= Total
             /\ worker'.pc = "finish" /\ worker'.i = worker.i
    <3>1. batch'.processed = batch.processed + 1 /\ batch.processed + 1 >= Total
      BY <1>0, <2>4 DEF Ticked, BatchRows
    <3>2. batch'.processed <= Seen'[worker'.i]
      BY <1>0, <1>2, <2>2, <2>4, <3>1
    <3>3. Covered
      BY <1>0, <2>2, <2>4, <3>1, SeenBounds, CountsAreNat DEF Covered
    <3> QED BY <1>2, <1>4, <2>1, <2>4, <3>2, <3>3 DEF CountInv
  <2>5. NextBook \/ /\ Live /\ batch' = Ticked /\ Ticked.processed >= Total
                    /\ worker'.pc = "finish" /\ worker'.i = worker.i
    BY <1>0, <1>3, <1>18 DEF IncrementProcessed, Attempts
  <2> QED BY <2>3, <2>4, <2>5
<1>19. CASE MarkFinished \/ MirrorFinished
  <2>1. /\ worker.pc \in {"finish", "mirrorFinish"} /\ worker.i <= Total /\ ~Create
        /\ UNCHANGED items /\ batch'.processed = batch.processed
    BY <1>0, <1>19 DEF MarkFinished, MirrorFinished, TypeInv, WorkerOK, InRound,
       Create, ItemsInv, BatchRows
  <2>2. Live' => batch'.processed <= Seen'[worker.i]
    BY <1>0, <1>1, <1>2, <1>3, <2>1 DEF CountInv
  <2>3. CASE NextBook
    <3>1. worker'.pc = "check" /\ worker'.i = worker.i + 1 /\ worker'.i - 1 = worker.i
      BY <1>0, <2>1, <2>3, NextBookMoves
    <3> QED BY <1>4, <2>1, <2>2, <3>1 DEF CountInv
  <2>4. CASE Goto("mirrorFinish")
    <3>1. worker'.pc = "mirrorFinish" /\ worker'.i = worker.i
      BY <1>0, <2>4 DEF Goto, Attempts
    <3> QED BY <1>4, <2>1, <2>2, <3>1 DEF CountInv
  <2> QED BY <1>3, <1>19, <2>3, <2>4 DEF MarkFinished, MirrorFinished
<1>20. CASE UNCHANGED vars BY <1>5, <1>20 DEF vars
<1> QED
  BY <1>7, <1>8, <1>9, <1>10, <1>11, <1>12, <1>13, <1>14, <1>15, <1>16, <1>17,
     <1>18, <1>19, <1>20 DEF Next, WorkerStep

\* All of it together is inductive.
LEMMA FullInvariant == Spec => [](TypeInv /\ CancelInv /\ ItemsInv /\ CountInv)
<1>1. Init => TypeInv /\ CancelInv /\ ItemsInv /\ CountInv
  BY TypeInit, CancelInit, ItemsInit, CountInit
<1>2. TypeInv /\ CancelInv /\ ItemsInv /\ CountInv /\ [Next]_vars
      => (TypeInv /\ CancelInv /\ ItemsInv /\ CountInv)'
  BY TypeStep, CreatorStep, UmbrellaStep, LateStep, ItemsStep, CountStep
     DEF CancelInv
<1> QED BY <1>1, <1>2, PTL DEF Spec

\* FinishedMeansAttempted: neither the batch nor its umbrella row is declared
\* finished before every book has been attempted or has left the catalogue,
\* through any number of crashes, shutdowns and retries.
THEOREM FinishedIsAttempted == Spec => []FinishedMeansAttempted
<1>1. CountInv => FinishedMeansAttempted
  BY DEF CountInv, FinishedMeansAttempted, Covered
<1> QED BY <1>1, FullInvariant, PTL

\* ResultsStick: a book that has its result keeps it until the batch is deleted.
THEOREM ResultsAreFinal == Spec => ResultsStick
<1>1. TypeInv /\ CancelInv /\ ItemsInv /\ [Next]_vars =>
        [\A k \in Positions :
            items[k] \in Attempted => items'[k] \in {items[k], "gone"}]_vars
  <2> SUFFICES ASSUME TypeInv, CancelInv, ItemsInv, [Next]_vars,
                      NEW k \in Positions, items[k] \in Attempted
               PROVE  items'[k] \in {items[k], "gone"}
    OBVIOUS
  <2>0. items \in [Positions -> ItemStatus] BY DEF TypeInv, TypeOK
  <2>1. CASE UNCHANGED items BY <2>1
  <2>2. CASE CreateItem BY <2>0, <2>2 DEF CreateItem, Attempted
  <2>3. CASE UpdateItemStatus BY <2>0, <2>3 DEF UpdateItemStatus, ItemsInv
  <2>4. CASE Delete \/ DeleteUmbrella BY <2>4 DEF Delete, DeleteUmbrella
  <2> QED
    BY <2>1, <2>2, <2>3, <2>4 DEF Next, WorkerStep, Create, Enqueue,
       CreatorFails, Load, Discard, MarkProcessing, MirrorProcessing,
       ResyncCounters, CheckCancelled, LoopEnds, FindItem, ProcessBook,
       IncrementProcessed, MarkFinished, MirrorFinished, Cancel, MirrorCancel,
       DeleteBook, Crash, Shutdown, vars
<1> QED BY <1>1, FullInvariant, PTL DEF Spec, ResultsStick
------------------------------------------------------------------------------
(* The counters and the verdict *)

\* nothing but crashes happened to the batch, and it was neither cancelled nor
\* deleted
Calm == faults = 0 /\ shutdowns = 0 /\ deleted = {} /\ Live
\* every book is named once
Once == \A k, l \in Positions : BookIDs[k] = BookIDs[l] => k = l

Counted == /\ batch.processed = Cardinality(AttemptedItems)
           /\ batch.failed = Cardinality(FailedItems)
\* the book whose result is written down is the one the counters lack
TickDue == /\ batch.processed + 1 = Cardinality(AttemptedItems)
           /\ (IF worker.outcome = "failed" THEN batch.failed + 1 ELSE batch.failed)
                = Cardinality(FailedItems)

\* between two books, and past the last, the counters are what the items say,
\* whatever crashed before ResyncCounters
TallyInv ==
    /\ batch.status = "absent" => creator = "create"
    /\ creator = "create" => AttemptedItems = {}
    /\ Calm =>
        /\ \/ river = "completed"
           \/ worker.pc \in {"check", "find", "process", "setItem", "finish", "mirrorFinish"}
           => Counted
        /\ worker.pc = "tick" => TickDue
        /\ worker.pc \in {"process", "setItem"} => worker.item # 0

Verdict == IF FailedItems = Positions THEN "failed" ELSE "done"

\* an attempt that is the first and the last takes the books in order, and does
\* not leave the last one without its verdict
VerdictInv == (Calm /\ Once /\ crashes = 0) =>
    /\ river \in {"none", "available"} \/ worker.pc \in {"mark", "mirrorMark", "resync"}
       => AttemptedItems = {}
    /\ worker.pc \in {"mark", "mirrorMark", "resync"} => worker.i = 1
    /\ worker.pc \in {"check", "find", "process", "setItem"} => AttemptedItems = 1..(worker.i - 1)
    /\ worker.pc \in {"process", "setItem"} => worker.item = worker.i
    /\ worker.pc \in {"tick", "finish", "mirrorFinish"} => AttemptedItems = 1..worker.i
    /\ worker.pc \in {"finish", "mirrorFinish"} =>
          worker.i = Total /\ worker.verdict = Verdict
    /\ \/ worker.pc = "mirrorFinish" \/ river = "completed"
       \/ worker.pc = "check" /\ worker.i > Total
       => batch.status = Verdict

\* Calm is nothing a step brings back.
LEMMA CalmBefore ==
  ASSUME TypeInv, CancelInv, ItemsInv, [Next]_vars, Calm', ~Create
  PROVE  Calm /\ ~Fault /\ UNCHANGED <<faults, shutdowns, deleted>>
<1>1. faults = 0 /\ faults' = 0
  BY FaultsStep, BatchAssumption DEF TypeInv, TypeOK, Calm
<1>2. shutdowns' \in {shutdowns, shutdowns + 1} /\ deleted \subseteq deleted'
  BY DEF Next, WorkerStep, Create, CreateItem, Enqueue, CreatorFails, Load,
     Discard, MarkProcessing, MirrorProcessing, ResyncCounters, CheckCancelled,
     LoopEnds, FindItem, ProcessBook, UpdateItemStatus, IncrementProcessed,
     MarkFinished, MirrorFinished, Cancel, MirrorCancel, Delete,
     DeleteUmbrella, DeleteBook, Crash, Shutdown, vars, stops
<1>3. shutdowns \in Nat BY BatchAssumption DEF TypeInv, TypeOK
<1>4. shutdowns = 0 /\ shutdowns' = 0 /\ deleted = {} /\ deleted' = {}
  BY <1>2, <1>3 DEF Calm
<1>5. Live
  <2>1. Live' BY DEF Calm
  <2>2. batch'.status # "gone" BY <2>1 DEF Live
  <2> QED BY <2>1, <2>2, Grows
<1> QED BY <1>1, <1>4, <1>5 DEF Calm, Fault

\* What the counters are measured by rests with the items.
LEMMA SameItems ==
  ASSUME UNCHANGED items
  PROVE  AttemptedItems' = AttemptedItems /\ FailedItems' = FailedItems
  BY DEF AttemptedItems, FailedItems, Positions, Total

\* Only the creating request brings the batch row, and items come after it.
LEMMA AbsentStep ==
  ASSUME TypeInv, CancelInv, ItemsInv, TallyInv, [Next]_vars
  PROVE  /\ batch'.status = "absent" => creator' = "create"
         /\ creator' = "create" => AttemptedItems' = {}
<1>a. creator' = "create" => creator = "create"
  BY DEF Next, WorkerStep, Create, CreateItem, Enqueue, CreatorFails, Load,
     Discard, MarkProcessing, MirrorProcessing, ResyncCounters, CheckCancelled,
     LoopEnds, FindItem, ProcessBook, UpdateItemStatus, IncrementProcessed,
     MarkFinished, MirrorFinished, Cancel, MirrorCancel, Delete,
     DeleteUmbrella, DeleteBook, Crash, Shutdown, vars
<1>b. ASSUME creator' = "create" PROVE AttemptedItems' = {}
  <2>1. AttemptedItems = {} BY <1>a, <1>b DEF TallyInv
  <2>2. CASE UNCHANGED items BY <2>1, <2>2, SameItems
  <2>3. CASE Delete \/ DeleteUmbrella
    BY <2>3 DEF Delete, DeleteUmbrella, AttemptedItems, Attempted, Positions, Total
  <2>4. ~CreateItem /\ ~UpdateItemStatus
    BY <1>a, <1>b DEF CreateItem, UpdateItemStatus, ItemsInv
  <2> QED
    BY <2>2, <2>3, <2>4 DEF Next, WorkerStep, Create, Enqueue,
       CreatorFails, Load, Discard, MarkProcessing, MirrorProcessing,
       ResyncCounters, CheckCancelled, LoopEnds, FindItem, ProcessBook,
       IncrementProcessed, MarkFinished, MirrorFinished, Cancel, MirrorCancel,
       DeleteBook, Crash, Shutdown, vars
<1> SUFFICES batch'.status = "absent" => creator' = "create"
  BY <1>b
<1>0. /\ batch \in BatchRows /\ worker.verdict \in {"processing", "done", "failed"}
  BY DEF TypeInv, TypeOK, Attempts
<1>1. CASE UNCHANGED <<batch, creator>> BY <1>1 DEF TallyInv
<1>2. CASE Create \/ Cancel \/ Delete \/ DeleteUmbrella \/ MarkProcessing \/ MarkFinished
  BY <1>0, <1>1, <1>2 DEF Create, Cancel, Delete, DeleteUmbrella, MarkProcessing,
     MarkFinished, BatchRows
<1>3. CASE ResyncCounters \/ IncrementProcessed
  BY <1>0, <1>1, <1>3 DEF ResyncCounters, IncrementProcessed, Live, Ticked, BatchRows
<1>4. CASE CreateItem \/ Enqueue \/ CreatorFails \/ Crash
  BY <1>4 DEF CreateItem, Enqueue, CreatorFails, Crash, TallyInv
<1>5. CASE \/ Load \/ Discard \/ MirrorProcessing \/ CheckCancelled \/ LoopEnds \/ FindItem
           \/ ProcessBook \/ UpdateItemStatus \/ MirrorFinished
           \/ MirrorCancel \/ DeleteBook \/ Shutdown
  BY <1>5, <1>1 DEF Load, Discard, MirrorProcessing, CheckCancelled, LoopEnds, FindItem,
     ProcessBook, UpdateItemStatus, MirrorFinished, MirrorCancel, DeleteBook, Shutdown
<1>6. CASE UNCHANGED vars BY <1>6, <1>1 DEF vars
<1> QED BY <1>2, <1>3, <1>4, <1>5, <1>6 DEF Next, WorkerStep

\* A book that gets its result is one the counters lack.
LEMMA ResultIsDue ==
  ASSUME TypeInv, CancelInv, ItemsInv, TallyInv, [Next]_vars, Calm, Calm', UpdateItemStatus
  PROVE  /\ TickDue' /\ worker'.pc = "tick" /\ worker'.i = worker.i
         /\ AttemptedItems' = AttemptedItems \cup {worker.item}
<1>0. /\ worker \in Attempts /\ items \in [Positions -> ItemStatus] /\ batch \in BatchRows
      /\ worker.item \in 0..Total /\ Positions = 1..Total /\ Total \in Nat
      /\ batch.processed \in Nat /\ batch.failed \in Nat
  BY TotalPositive DEF TypeInv, TypeOK, Attempts, BatchRows
<1>1. /\ worker.pc = "setItem" /\ worker'.pc = "tick" /\ worker'.outcome = worker.outcome
      /\ UNCHANGED batch /\ worker'.i = worker.i
  BY <1>0 DEF UpdateItemStatus, Goto, Attempts
<1>2. worker.item \in Positions /\ worker.outcome \in Attempted
      /\ items[worker.item] \notin Attempted
  BY <1>0, <1>1 DEF TallyInv, ItemsInv
<1>3. items' = [items EXCEPT ![worker.item] = worker.outcome]
  <2>1. items[worker.item] # "gone" BY <1>2 DEF ItemsInv, Calm, Live
  <2>2. ~Fault BY FaultsStep DEF Calm, Fault
  <2> QED BY <1>2, <2>1, <2>2, TotalPositive DEF UpdateItemStatus
<1>4. /\ AttemptedItems' = AttemptedItems \cup {worker.item}
      /\ worker.item \notin AttemptedItems /\ worker.item \notin FailedItems
      /\ FailedItems' = IF worker.outcome = "failed" THEN FailedItems \cup {worker.item}
                        ELSE FailedItems
  BY <1>0, <1>2, <1>3 DEF AttemptedItems, FailedItems, Attempted, Positions, Total
<1>5. /\ Cardinality(AttemptedItems \cup {worker.item}) = Cardinality(AttemptedItems) + 1
      /\ Cardinality(FailedItems \cup {worker.item}) = Cardinality(FailedItems) + 1
  BY <1>4, CountsAreNat, FS_AddElement
<1>6. Counted BY <1>1 DEF TallyInv
<1> QED BY <1>0, <1>1, <1>4, <1>5, <1>6, CountsAreNat DEF TickDue, Counted

\* The tick that is due puts the counters right.
LEMMA TickCounts ==
  ASSUME TypeInv, TallyInv, Calm, ~Fault, IncrementProcessed
  PROVE  /\ Counted' /\ UNCHANGED items /\ batch'.status = batch.status
         /\ batch'.processed = batch.processed + 1
         /\ batch'.failed \in Nat /\ batch'.failed = Cardinality(FailedItems)
         /\ \/ batch'.processed < Total /\ NextBook
            \/ /\ batch'.processed >= Total
               /\ worker' = [worker EXCEPT !.pc = "finish", !.verdict =
                     IF batch'.failed = Total THEN "failed" ELSE "done"]
<1>0. batch \in BatchRows /\ batch.processed \in Nat /\ batch.failed \in Nat
      /\ Total \in Nat
  BY TotalPositive DEF TypeInv, TypeOK, BatchRows
<1>1. batch' = Ticked /\ UNCHANGED items /\ TickDue
  BY DEF IncrementProcessed, Calm, TallyInv
<1>2. /\ Ticked.processed = batch.processed + 1 /\ Ticked.status = batch.status
      /\ Ticked.failed = IF worker.outcome = "failed" THEN batch.failed + 1 ELSE batch.failed
  BY <1>0 DEF Ticked, BatchRows
<1>3. \/ batch'.processed < Total /\ NextBook
      \/ /\ batch'.processed >= Total
         /\ worker' = [worker EXCEPT !.pc = "finish", !.verdict =
               IF batch'.failed = Total THEN "failed" ELSE "done"]
  BY <1>0, <1>1, <1>2 DEF IncrementProcessed, Calm
<1> QED BY <1>0, <1>1, <1>2, <1>3, SameItems DEF Counted, TickDue

\* Every step keeps the counters in line with the items.
LEMMA TallyStep ==
  ASSUME TypeInv, CancelInv, ItemsInv, TallyInv, [Next]_vars
  PROVE  TallyInv'
<1>a. /\ batch'.status = "absent" => creator' = "create"
      /\ creator' = "create" => AttemptedItems' = {}
  BY AbsentStep
<1> SUFFICES ASSUME Calm'
             PROVE  /\ \/ river' = "completed"
                       \/ worker'.pc \in {"check", "find", "process", "setItem", "finish",
                                          "mirrorFinish"}
                       => Counted'
                    /\ worker'.pc = "tick" => TickDue'
                    /\ worker'.pc \in {"process", "setItem"} => worker'.item # 0
  BY <1>a DEF TallyInv
<1> DEFINE Even == {"check", "find", "process", "setItem", "finish", "mirrorFinish"}
<1>0. /\ worker \in Attempts /\ items \in [Positions -> ItemStatus]
      /\ batch \in BatchRows /\ worker.item \in 0..Total
      /\ worker.pc \in ProgramPoints /\ Total \in Nat /\ Positions = 1..Total
  BY TotalPositive DEF TypeInv, TypeOK, Attempts
<1>1. CASE UNCHANGED <<batch, items, worker>> /\ (river' = "completed" => river = "completed")
           /\ Calm
  BY <1>1, SameItems DEF TallyInv, Counted, TickDue
<1>2. CASE river' # "completed" /\ worker'.pc \in {"idle", "mark", "mirrorMark", "resync"}
  BY <1>2
<1>3. ASSUME Calm, UNCHANGED items, batch'.processed = batch.processed,
             batch'.failed = batch.failed, worker.pc \in Even,
             worker'.pc # "tick", worker'.pc \in {"process", "setItem"} => worker'.item # 0
      PROVE  TallyInv'
  BY <1>a, <1>3, SameItems DEF TallyInv, Counted
<1>4. CASE Create
  BY <1>4, <1>2 DEF Create, ItemsInv, TypeInv, TypeOK
<1> SUFFICES ASSUME ~Create PROVE TallyInv'
  BY <1>4 DEF TallyInv
<1>c. Calm /\ ~Fault BY CalmBefore
<1>5. CASE CreateItem \/ Enqueue \/ CreatorFails \/ Discard \/ MirrorCancel \/ DeleteBook
  <2>1. CASE CreateItem
    <3>1. worker.pc = "idle" /\ river = "none" /\ UNCHANGED <<worker, river>>
      BY <2>1 DEF CreateItem, ItemsInv
    <3> QED BY <1>a, <1>2, <3>1 DEF TallyInv
  <2>2. CASE Enqueue \/ CreatorFails \/ Discard \/ MirrorCancel \/ DeleteBook
    BY <1>a, <1>1, <1>c, <2>2 DEF Enqueue, CreatorFails, Discard, MirrorCancel, DeleteBook,
       TallyInv
  <2> QED BY <1>5, <2>1, <2>2
<1>6. CASE Load \/ MarkProcessing \/ MirrorProcessing
  <2>1. CASE Load
    <3>1. river' = "running" /\ worker'.pc = "mark"
      BY <1>c, <2>1 DEF Load, Calm, Live, NoAttempt
    <3> QED BY <1>a, <1>2, <3>1 DEF TallyInv
  <2>2. CASE MarkProcessing \/ MirrorProcessing
    <3>1. worker'.pc \in {"mirrorMark", "resync"} /\ UNCHANGED river /\ river = "running"
      BY <1>0, <1>c, <2>2 DEF MarkProcessing, MirrorProcessing, Goto, Attempts, ItemsInv
    <3> QED BY <1>a, <1>2, <3>1 DEF TallyInv
  <2> QED BY <1>6, <2>1, <2>2
<1>7. CASE ResyncCounters
  <2>1. worker'.pc = "check" /\ UNCHANGED items
    BY <1>0, <1>7 DEF ResyncCounters, Goto, Attempts
  <2>2. batch' = [batch EXCEPT !.processed = Cardinality(AttemptedItems),
                               !.failed = Cardinality(FailedItems)]
    BY <1>c, <1>7 DEF ResyncCounters, Calm
  <2>3. Counted' BY <1>0, <2>1, <2>2, SameItems DEF BatchRows, Counted
  <2> QED BY <1>a, <2>1, <2>3 DEF TallyInv
<1>8. CASE CheckCancelled
  <2>1. Goto("find") BY <1>c, <1>8 DEF CheckCancelled, Calm, Live
  <2>2. worker'.pc = "find" BY <1>0, <2>1 DEF Goto, Attempts
  <2> QED BY <1>3, <1>8, <1>c, <2>2 DEF CheckCancelled
<1>9. CASE LoopEnds
  BY <1>3, <1>9, <1>c, NoAttemptOK DEF LoopEnds, ReturnNil
<1>10. CASE FindItem
  <2>1. worker.pc = "find" /\ worker.i \in Positions /\ UNCHANGED <<batch, items>>
    BY <1>0, <1>10 DEF FindItem, TypeInv, WorkerOK, InRound, Attempts
  <2>2. CASE NextBook
    <3>1. worker'.pc = "check" BY <1>0, <2>2 DEF NextBook, Attempts
    <3> QED BY <1>3, <1>c, <2>1, <3>1
  <2>3. ASSUME NEW k \in ItemRows, StartBook(k) PROVE TallyInv'
    <3>1. k \in 1..Total BY <2>3, ItemRowsOnList
    <3>2. worker'.pc = "process" /\ worker'.item = k BY <1>0, <2>3, <3>1, StartBookMoves
    <3> QED BY <1>3, <1>c, <2>1, <3>1, <3>2
  <2>4. ItemRows # {}
    <3>1. river = "running" /\ items[worker.i] \notin {"absent", "gone"}
      BY <1>c, <2>1 DEF ItemsInv, Calm, Live
    <3>2. worker.i \in ItemRows BY <1>c, <2>1, <3>1 DEF ItemRows, Calm
    <3> QED BY <3>2
  <2> QED BY <1>10, <1>c, <2>2, <2>3, <2>4 DEF FindItem
<1>11. CASE ProcessBook
  <2>1. PICK outcome \in Attempted :
          worker' = [worker EXCEPT !.pc = "setItem", !.outcome = outcome]
    BY <1>11 DEF ProcessBook
  <2>2. worker'.pc = "setItem" /\ worker'.item = worker.item BY <1>0, <2>1 DEF Attempts
  <2>3. worker.pc = "process" /\ worker.item # 0 BY <1>11, <1>c DEF ProcessBook, TallyInv
  <2> QED BY <1>3, <1>11, <1>c, <2>2, <2>3 DEF ProcessBook
<1>12. CASE UpdateItemStatus
  <2>1. TickDue' /\ worker'.pc = "tick" BY <1>12, <1>c, ResultIsDue
  <2>2. river' = "running" BY <1>12 DEF UpdateItemStatus, ItemsInv
  <2> QED BY <1>a, <2>1, <2>2 DEF TallyInv
<1>13. CASE IncrementProcessed
  <2>1. Counted' BY <1>13, <1>c, TickCounts
  <2>2. worker'.pc \in {"check", "finish"}
    BY <1>0, <1>13, <1>c, TickCounts DEF NextBook, Attempts
  <2> QED BY <1>a, <2>1, <2>2 DEF TallyInv
<1>14. CASE MarkFinished \/ MirrorFinished
  <2>1. worker'.pc \in {"mirrorFinish", "check"}
    BY <1>0, <1>14 DEF MarkFinished, MirrorFinished, Goto, NextBook, Attempts
  <2>2. batch'.processed = batch.processed /\ batch'.failed = batch.failed
    BY <1>0, <1>14 DEF MarkFinished, MirrorFinished, BatchRows
  <2> QED BY <1>3, <1>14, <1>c, <2>1, <2>2 DEF MarkFinished, MirrorFinished
<1>15. CASE Cancel \/ Delete \/ DeleteUmbrella
  <2>1. batch'.status \in {"cancelled", "gone"}
    BY <1>0, <1>15 DEF Cancel, Delete, DeleteUmbrella, BatchRows
  <2> QED BY <2>1 DEF Calm, Live
<1>16. CASE Crash
  <2>1. CASE river = "completed"
    <3>1. worker.pc = "idle" BY <2>1 DEF ItemsInv
    <3>2. worker'.pc = "idle" /\ river' = "completed" /\ UNCHANGED <<batch, items>>
      BY <1>16, <2>1, NoAttemptOK DEF Crash
    <3> QED BY <1>a, <1>c, <2>1, <3>2, SameItems DEF TallyInv, Counted
  <2>2. CASE river # "completed"
    <3>1. worker'.pc = "idle" /\ river' # "completed" BY <1>16, <2>2, NoAttemptOK DEF Crash
    <3> QED BY <1>a, <1>2, <3>1 DEF TallyInv
  <2> QED BY <2>1, <2>2
<1>17. CASE Shutdown
  <2>1. shutdowns' # 0 BY <1>17, <1>c DEF Shutdown, Calm
  <2> QED BY <2>1 DEF Calm
<1>18. CASE UNCHANGED vars
  BY <1>a, <1>1, <1>18, <1>c DEF vars, TallyInv
<1> QED
  BY <1>5, <1>6, <1>7, <1>8, <1>9, <1>10, <1>11, <1>12, <1>13, <1>14, <1>15,
     <1>16, <1>17, <1>18 DEF Next, WorkerStep

\* Initially nothing is counted and no verdict is due.
LEMMA TallyInit == Init => TallyInv /\ VerdictInv
  BY DEF Init, TallyInv, VerdictInv, Calm, Live, NoAttempt, AttemptedItems, Attempted, Positions

\* The counters of the items are as many as the positions they are of.
LEMMA AllAttempted ==
  ASSUME TypeInv, NEW n \in 0..Total, AttemptedItems = 1..n
  PROVE  /\ Cardinality(AttemptedItems) = n
         /\ Cardinality(FailedItems) = Total <=> FailedItems = Positions
<1>1. Cardinality(AttemptedItems) = n
  <2>1. Cardinality(1..n) = IF 1 > n THEN 0 ELSE n - 1 + 1
    BY TotalPositive, FS_Interval
  <2> QED BY <2>1
<1>2. IsFiniteSet(Positions) /\ Cardinality(Positions) = Total
  <2>1. Cardinality(1..Total) = IF 1 > Total THEN 0 ELSE Total - 1 + 1
    BY TotalPositive, FS_Interval
  <2> QED BY <2>1, TotalPositive, FS_Interval
<1>3. FailedItems \subseteq Positions BY DEF FailedItems
<1>4. Cardinality(FailedItems) = Total => FailedItems = Positions
  BY <1>2, <1>3, FS_Subset
<1> QED BY <1>1, <1>2, <1>4

\* Every step of the only attempt keeps to the order of the books.
LEMMA VerdictStep ==
  ASSUME TypeInv, CancelInv, ItemsInv, TallyInv, VerdictInv, [Next]_vars
  PROVE  VerdictInv'
<1> SUFFICES ASSUME Calm', Once, crashes' = 0
             PROVE  /\ \/ river' \in {"none", "available"}
                       \/ worker'.pc \in {"mark", "mirrorMark", "resync"}
                       => AttemptedItems' = {}
                    /\ worker'.pc \in {"mark", "mirrorMark", "resync"} => worker'.i = 1
                    /\ worker'.pc \in {"check", "find", "process", "setItem"}
                       => AttemptedItems' = 1..(worker'.i - 1)
                    /\ worker'.pc \in {"process", "setItem"} => worker'.item = worker'.i
                    /\ worker'.pc \in {"tick", "finish", "mirrorFinish"}
                       => AttemptedItems' = 1..worker'.i
                    /\ worker'.pc \in {"finish", "mirrorFinish"} =>
                          worker'.i = Total /\ worker'.verdict = Verdict'
                    /\ \/ worker'.pc = "mirrorFinish" \/ river' = "completed"
                       \/ worker'.pc = "check" /\ worker'.i > Total
                       => batch'.status = Verdict'
  BY DEF VerdictInv, Once, Positions, Total
<1>0. /\ worker \in Attempts /\ items \in [Positions -> ItemStatus]
      /\ batch \in BatchRows /\ worker.item \in 0..Total /\ worker.i \in 1..(Total + 1)
      /\ worker.pc \in ProgramPoints /\ Total \in Nat /\ Total >= 1 /\ Positions = 1..Total
  BY TotalPositive DEF TypeInv, TypeOK, Attempts
<1>b. crashes = 0 /\ ~Crash
  <2>1. crashes' \in {crashes, crashes + 1}
    BY DEF Next, WorkerStep, Create, CreateItem, Enqueue, CreatorFails, Load,
       Discard, MarkProcessing, MirrorProcessing, ResyncCounters, CheckCancelled,
       LoopEnds, FindItem, ProcessBook, UpdateItemStatus, IncrementProcessed,
       MarkFinished, MirrorFinished, Cancel, MirrorCancel, Delete,
       DeleteUmbrella, DeleteBook, Crash, Shutdown, vars, stops
  <2>2. crashes \in Nat BY BatchAssumption DEF TypeInv, TypeOK
  <2> QED BY <2>1, <2>2 DEF Crash
<1>4. CASE Create
  <2>1. AttemptedItems' = AttemptedItems /\ worker.pc = "idle" /\ river = "none"
    BY <1>4, SameItems DEF Create, ItemsInv
  <2>2. AttemptedItems' = {} BY <1>4, <2>1 DEF Create, TallyInv
  <2> QED BY <1>4, <2>1, <2>2 DEF Create
<1> SUFFICES ASSUME ~Create PROVE VerdictInv'
  BY <1>4 DEF VerdictInv
<1>c. Calm /\ ~Fault BY CalmBefore
<1>1. CASE UNCHANGED <<batch, items, worker>>
           /\ (river' \in {"none", "available", "completed"} =>
                  \/ river = river'
                  \/ river \in {"none", "available"} /\ river' = "available")
  BY <1>1, <1>b, <1>c, SameItems DEF VerdictInv, Verdict, Positions, Total
<1>5. CASE CreateItem \/ Enqueue \/ CreatorFails \/ Discard \/ MirrorCancel \/ DeleteBook
  <2>1. CASE CreateItem
    <3>1. worker.pc = "idle" /\ river = "none" /\ UNCHANGED <<worker, river>>
      BY <2>1 DEF CreateItem, ItemsInv
    <3>2. AttemptedItems' = AttemptedItems
      BY <1>0, <2>1 DEF CreateItem, AttemptedItems, Attempted, Positions, Total
    <3>3. AttemptedItems = {} BY <1>b, <1>c, <3>1 DEF VerdictInv
    <3> QED BY <3>1, <3>2, <3>3 DEF VerdictInv
  <2>2. CASE Enqueue \/ CreatorFails \/ Discard \/ MirrorCancel \/ DeleteBook
    <3>1. Enqueue => river = "none" BY DEF Enqueue, ItemsInv
    <3> QED BY <1>1, <2>2, <3>1 DEF Enqueue, CreatorFails, Discard, MirrorCancel, DeleteBook
  <2> QED BY <1>5, <2>1, <2>2
<1>6. CASE Load
  <2>1. river' = "running" /\ worker' = [NoAttempt EXCEPT !.pc = "mark"] /\ UNCHANGED items
    BY <1>c, <1>6 DEF Load, Calm, Live
  <2>2. worker'.pc = "mark" /\ worker'.i = 1 BY <2>1 DEF NoAttempt
  <2>3. AttemptedItems' = {}
    BY <1>b, <1>c, <1>6, <2>1, SameItems DEF VerdictInv, Load
  <2> QED BY <2>1, <2>2, <2>3 DEF VerdictInv
<1>7. CASE MarkProcessing \/ MirrorProcessing
  <2>1. /\ worker'.pc \in {"mirrorMark", "resync"} /\ worker'.i = worker.i
        /\ UNCHANGED <<river, items>> /\ river = "running"
    BY <1>0, <1>c, <1>7 DEF MarkProcessing, MirrorProcessing, Goto, Attempts, ItemsInv
  <2>2. worker.i = 1 /\ AttemptedItems' = {}
    BY <1>b, <1>c, <1>7, <2>1, SameItems DEF VerdictInv, MarkProcessing, MirrorProcessing
  <2> QED BY <2>1, <2>2 DEF VerdictInv
<1>8. CASE ResyncCounters
  <2>1. /\ worker'.pc = "check" /\ worker'.i = worker.i /\ UNCHANGED <<river, items>>
        /\ river = "running"
    BY <1>0, <1>8 DEF ResyncCounters, Goto, Attempts, ItemsInv
  <2>2. worker.i = 1 /\ AttemptedItems' = {}
    BY <1>b, <1>c, <1>8, <2>1, SameItems DEF VerdictInv, ResyncCounters
  <2>3. 1..(worker'.i - 1) = {} BY <2>1, <2>2
  <2> QED BY <1>0, <2>1, <2>2, <2>3 DEF VerdictInv
<1>9. CASE CheckCancelled
  <2>1. Goto("find") /\ UNCHANGED <<items, river>> /\ worker.pc = "check" /\ river = "running"
    BY <1>c, <1>9 DEF CheckCancelled, Calm, Live, ItemsInv
  <2>2. worker'.pc = "find" /\ worker'.i = worker.i BY <1>0, <2>1 DEF Goto, Attempts
  <2>3. AttemptedItems' = 1..(worker.i - 1) BY <1>b, <1>c, <2>1, SameItems DEF VerdictInv
  <2> QED BY <2>1, <2>2, <2>3 DEF VerdictInv
<1>10. CASE LoopEnds
  <2>1. worker'.pc = "idle" /\ river' = "completed" /\ UNCHANGED <<items, batch>>
    BY <1>10, NoAttemptOK DEF LoopEnds, ReturnNil
  <2>2. batch.status = Verdict BY <1>10, <1>b, <1>c DEF LoopEnds, VerdictInv
  <2>3. Verdict' = Verdict BY <2>1, SameItems DEF Verdict, Positions, Total
  <2> QED BY <2>1, <2>2, <2>3 DEF VerdictInv
<1>11. CASE FindItem
  <2>1. /\ worker.pc = "find" /\ worker.i \in Positions /\ UNCHANGED <<batch, items, river>>
        /\ river = "running"
    BY <1>0, <1>11 DEF FindItem, TypeInv, WorkerOK, InRound, Attempts, ItemsInv
  <2>2. AttemptedItems = 1..(worker.i - 1) BY <1>b, <1>c, <2>1 DEF VerdictInv
  <2>3. ItemRows = {worker.i} /\ items[worker.i] = "pending"
    <3>1. items[worker.i] \notin {"absent", "gone"}
      BY <1>c, <2>1 DEF ItemsInv, Calm, Live
    <3>2. worker.i \in ItemRows BY <1>c, <2>1, <3>1 DEF ItemRows, Calm
    <3>3. \A k \in ItemRows : k = worker.i BY <2>1 DEF ItemRows, Once
    <3>4. worker.i \notin AttemptedItems BY <1>0, <2>2
    <3>5. items[worker.i] = "pending"
      BY <1>0, <2>1, <3>1, <3>4 DEF AttemptedItems, ItemStatus, Attempted
    <3> QED BY <3>2, <3>3, <3>5
  <2>4. StartBook(worker.i) BY <1>11, <1>c, <2>3 DEF FindItem
  <2>5. worker'.pc = "process" /\ worker'.item = worker.i /\ worker'.i = worker.i
    <3>1. worker.i \in 0..Total BY <1>0, <2>1
    <3> QED BY <1>0, <2>4, <3>1, StartBookMoves
  <2>6. AttemptedItems' = AttemptedItems BY <2>1, SameItems
  <2> QED BY <2>1, <2>2, <2>5, <2>6 DEF VerdictInv
<1>12. CASE ProcessBook
  <2>1. PICK outcome \in Attempted :
          worker' = [worker EXCEPT !.pc = "setItem", !.outcome = outcome]
    BY <1>12 DEF ProcessBook
  <2>2. worker'.pc = "setItem" /\ worker'.item = worker.item /\ worker'.i = worker.i
    BY <1>0, <2>1 DEF Attempts
  <2>3. worker.pc = "process" /\ UNCHANGED <<batch, items, river>> /\ river = "running"
    BY <1>12 DEF ProcessBook, ItemsInv
  <2>4. AttemptedItems = 1..(worker.i - 1) /\ worker.item = worker.i
    BY <1>b, <1>c, <2>3 DEF VerdictInv
  <2>5. AttemptedItems' = AttemptedItems BY <2>3, SameItems
  <2> QED BY <2>2, <2>3, <2>4, <2>5 DEF VerdictInv
<1>13. CASE UpdateItemStatus
  <2>1. /\ worker'.pc = "tick" /\ worker'.i = worker.i
        /\ AttemptedItems' = AttemptedItems \cup {worker.item}
    BY <1>13, <1>c, ResultIsDue
  <2>2. /\ worker.pc = "setItem" /\ river' = "running"
    BY <1>13 DEF UpdateItemStatus, ItemsInv
  <2>3. AttemptedItems = 1..(worker.i - 1) /\ worker.item = worker.i
    BY <1>b, <1>c, <2>2 DEF VerdictInv
  <2>4. AttemptedItems' = 1..worker.i BY <1>0, <2>1, <2>3
  <2> QED BY <2>1, <2>2, <2>4 DEF VerdictInv
<1>14. CASE IncrementProcessed
  <2>1. /\ worker.pc = "tick" /\ UNCHANGED <<items, river>> /\ river = "running"
        /\ worker.i \in 0..Total
    BY <1>0, <1>14 DEF IncrementProcessed, ItemsInv, TypeInv, WorkerOK, InRound
  <2>2. AttemptedItems = 1..worker.i BY <1>b, <1>c, <2>1 DEF VerdictInv
  <2>3. /\ Cardinality(AttemptedItems) = worker.i
        /\ Cardinality(FailedItems) = Total <=> FailedItems = Positions
    BY <2>1, <2>2, AllAttempted
  <2>4. /\ batch'.processed = batch.processed + 1 /\ batch'.failed = Cardinality(FailedItems)
        /\ \/ batch'.processed < Total /\ NextBook
           \/ /\ batch'.processed >= Total
              /\ worker' = [worker EXCEPT !.pc = "finish", !.verdict =
                     IF batch'.failed = Total THEN "failed" ELSE "done"]
    BY <1>14, <1>c, TickCounts
  <2>5. batch'.processed = worker.i BY <1>c, <2>1, <2>3, <2>4 DEF TallyInv, TickDue
  <2>6. AttemptedItems' = AttemptedItems /\ Verdict' = Verdict
    BY <2>1, SameItems DEF Verdict, Positions, Total
  <2>7. CASE worker.i < Total
    <3>1. NextBook BY <2>4, <2>5, <2>7, <1>0
    <3>2. worker'.pc = "check" /\ worker'.i = worker.i + 1
      BY <1>0, <2>7, <3>1, NextBookMoves
    <3>3. worker'.i - 1 = worker.i /\ ~(worker'.i > Total) BY <1>0, <2>7, <3>2
    <3> QED BY <2>1, <2>2, <2>6, <3>2, <3>3 DEF VerdictInv
  <2>8. CASE worker.i = Total
    <3>1. worker' = [worker EXCEPT !.pc = "finish", !.verdict =
                     IF batch'.failed = Total THEN "failed" ELSE "done"]
      BY <1>0, <2>4, <2>5, <2>8
    <3>2. worker'.pc = "finish" /\ worker'.i = Total /\ worker'.verdict = Verdict
      BY <1>0, <2>3, <2>4, <2>8, <3>1 DEF Attempts, Verdict
    <3> QED BY <2>1, <2>2, <2>6, <2>8, <3>2 DEF VerdictInv
  <2> QED BY <1>0, <2>1, <2>7, <2>8
<1>15. CASE MarkFinished
  <2>1. /\ worker.pc = "finish" /\ UNCHANGED <<items, river>> /\ river = "running"
        /\ batch' = [batch EXCEPT !.status = worker.verdict] /\ Goto("mirrorFinish")
    BY <1>15, <1>c DEF MarkFinished, ItemsInv, Calm
  <2>2. worker'.pc = "mirrorFinish" /\ worker'.i = worker.i /\ worker'.verdict = worker.verdict
    BY <1>0, <2>1 DEF Goto, Attempts
  <2>3. AttemptedItems = 1..worker.i /\ worker.i = Total /\ worker.verdict = Verdict
    BY <1>b, <1>c, <2>1 DEF VerdictInv
  <2>4. AttemptedItems' = AttemptedItems /\ Verdict' = Verdict
    BY <2>1, SameItems DEF Verdict, Positions, Total
  <2>5. batch'.status = worker.verdict BY <1>0, <2>1 DEF BatchRows
  <2> QED BY <2>1, <2>2, <2>3, <2>4, <2>5 DEF VerdictInv
<1>16. CASE MirrorFinished
  <2>1. /\ worker.pc = "mirrorFinish" /\ UNCHANGED <<items, river, batch>> /\ river = "running"
        /\ NextBook /\ worker.i <= Total
    BY <1>16 DEF MirrorFinished, ItemsInv, TypeInv, WorkerOK, InRound
  <2>2. worker'.pc = "check" /\ worker'.i = worker.i + 1
    BY <1>0, <2>1, NextBookMoves
  <2>3. AttemptedItems = 1..worker.i /\ worker.i = Total /\ batch.status = Verdict
    BY <1>b, <1>c, <2>1 DEF VerdictInv
  <2>4. AttemptedItems' = AttemptedItems /\ Verdict' = Verdict
    BY <2>1, SameItems DEF Verdict, Positions, Total
  <2>5. worker'.i - 1 = worker.i BY <1>0, <2>2
  <2> QED BY <2>1, <2>2, <2>3, <2>4, <2>5 DEF VerdictInv
<1>17. CASE Cancel \/ Delete \/ DeleteUmbrella
  <2>1. batch'.status \in {"cancelled", "gone"}
    BY <1>0, <1>17 DEF Cancel, Delete, DeleteUmbrella, BatchRows
  <2> QED BY <2>1 DEF Calm, Live
<1>18. CASE Shutdown
  <2>1. shutdowns' # 0 BY <1>18, <1>c DEF Shutdown, Calm
  <2> QED BY <2>1 DEF Calm
<1>19. CASE UNCHANGED vars
  BY <1>1, <1>19 DEF vars
<1> QED
  BY <1>b, <1>5, <1>6, <1>7, <1>8, <1>9, <1>10, <1>11, <1>12, <1>13, <1>14, <1>15,
     <1>16, <1>17, <1>18, <1>19 DEF Next, WorkerStep

\* The counters are the items' between any two books of every run.
LEMMA TallyHolds == Spec => [](TallyInv /\ VerdictInv)
<1>1. Init => TallyInv /\ VerdictInv BY TallyInit
<1>2. /\ TypeInv /\ CancelInv /\ ItemsInv /\ TallyInv /\ VerdictInv /\ [Next]_vars
         => (TallyInv /\ VerdictInv)'
  BY TallyStep, VerdictStep
<1> QED BY <1>1, <1>2, FullInvariant, PTL DEF Spec

\* Whatever list of books was asked for, one that names a book twice included,
\* and whatever crashed between the two statements that record a book: the
\* counters of a batch River is through with are what its items say
\* (ResyncCounters).
THEOREM CountersFollowItems == Spec => []((Calm /\ river = "completed") => Counted)
<1>1. TallyInv => ((Calm /\ river = "completed") => Counted) BY DEF TallyInv
<1> QED BY <1>1, TallyHolds, PTL

\* CountersMatchItems: so are they, and the verdict too if nothing stopped the
\* attempt.  A list that names a book twice may leave one of the two items
\* pending, and the batch without a verdict: the theorem is for lists that name
\* each book once.
THEOREM CountersMatch == ASSUME Once PROVE Spec => []CountersMatchItems
<1>1. TypeInv /\ CancelInv /\ ItemsInv /\ TallyInv /\ VerdictInv => CountersMatchItems
  <2> SUFFICES ASSUME TypeInv, CancelInv, ItemsInv, TallyInv, VerdictInv,
                      river = "completed", batch.status \notin {"cancelled", "gone"},
                      shutdowns = 0, faults = 0, deleted = {}
               PROVE  /\ batch.processed = Cardinality(AttemptedItems)
                      /\ batch.failed = Cardinality(FailedItems)
                      /\ stops = <<0, 0>> => batch.status = Verdict
    BY DEF CountersMatchItems, Verdict
  <2>1. batch.status # "absent" BY DEF TallyInv, ItemsInv
  <2>2. Calm BY <2>1 DEF Calm, Live
  <2>3. stops = <<0, 0>> => crashes = 0 BY DEF stops
  <2> QED BY <2>2, <2>3 DEF TallyInv, VerdictInv, Counted
<1> QED BY <1>1, TallyHolds, FullInvariant, PTL
------------------------------------------------------------------------------
(* The batch as a list of work *)

\* The word for an item is the list's, and both ways.
LEMMA EntryWords ==
  ASSUME items \in [Positions -> ItemStatus], NEW k \in Positions
  PROVE  /\ Entry(items[k]) = "open" <=> items[k] \in {"absent", "pending"}
         /\ items[k] \in Attempted \cup {"gone"} => Entry(items[k]) = items[k]
  BY DEF Entry, ItemStatus, Attempted

\* No step takes an excuse back: books stay deleted, statements stay lost.
LEMMA ExcusesGrow ==
  ASSUME TypeInv, [Next]_vars
  PROVE  (IF faults = 0 THEN Cardinality(Orphans) ELSE Total)'
            >= IF faults = 0 THEN Cardinality(Orphans) ELSE Total
<1>1. Total' = Total /\ Total \in Nat BY TotalPositive DEF Total
<1>2. faults \in Nat /\ (faults' = faults \/ faults' = faults + 1)
  BY FaultsStep, BatchAssumption DEF TypeInv, TypeOK
<1>3. IsFiniteSet(Positions) /\ Cardinality(Positions) = Total
  <2>1. Cardinality(1..Total) = IF 1 > Total THEN 0 ELSE Total - 1 + 1
    BY TotalPositive, FS_Interval
  <2> QED BY <2>1, TotalPositive, FS_Interval
<1>4. deleted \subseteq deleted'
  BY DEF Next, WorkerStep, Create, CreateItem, Enqueue, CreatorFails, Load,
     Discard, MarkProcessing, MirrorProcessing, ResyncCounters, CheckCancelled,
     LoopEnds, FindItem, ProcessBook, UpdateItemStatus, IncrementProcessed,
     MarkFinished, MirrorFinished, Cancel, MirrorCancel, Delete,
     DeleteUmbrella, DeleteBook, Crash, Shutdown, vars
<1>5. Orphans \subseteq Orphans' /\ Orphans' \subseteq Positions /\ Orphans \subseteq Positions
  BY <1>4 DEF Orphans, Positions, Total
<1>6. IsFiniteSet(Orphans') BY <1>3, <1>5, FS_Subset
<1>7. /\ Cardinality(Orphans) <= Cardinality(Orphans') /\ Cardinality(Orphans') \in Nat
  BY <1>5, <1>6, FS_Subset, FS_CardinalityType
<1>8. Cardinality(Orphans) <= Total /\ Cardinality(Orphans) \in Nat
  BY <1>3, <1>5, FS_Subset, CountsAreNat
<1>9. Cardinality(Orphans)' = Cardinality(Orphans') OBVIOUS
<1> QED BY <1>1, <1>2, <1>7, <1>8, <1>9

\* The books without a result are no more than those that left the catalogue,
\* once as many as the list is long are accounted for.
LEMMA OpenAreExcused ==
  ASSUME TypeInv, ItemsInv, batch.status # "gone", faults = 0 => Covered
  PROVE  WL!Cardinality(WL!OpenEntries)
            <= IF faults = 0 THEN Cardinality(Orphans) ELSE Total
<1>0. items \in [Positions -> ItemStatus] BY DEF TypeInv, TypeOK
<1>1. IsFiniteSet(Positions) /\ Cardinality(Positions) = Total
  <2>1. Cardinality(1..Total) = IF 1 > Total THEN 0 ELSE Total - 1 + 1
    BY TotalPositive, FS_Interval
  <2> QED BY <2>1, TotalPositive, FS_Interval
<1>2. WL!OpenEntries = Positions \ AttemptedItems
  <2>1. \A k \in Positions : items[k] # "gone" BY DEF ItemsInv
  <2>2. ASSUME NEW k \in Positions
        PROVE  Entry(items[k]) = "open" <=> items[k] \notin Attempted
    BY <1>0, <2>1, <2>2, EntryWords DEF ItemStatus, Attempted
  <2> QED BY <2>2 DEF WL!OpenEntries, AttemptedItems
<1>3. AttemptedItems \subseteq Positions BY DEF AttemptedItems
<1>4. Cardinality(Positions \ AttemptedItems)
         = Cardinality(Positions) - Cardinality(Positions \cap AttemptedItems)
  BY <1>1, FS_Difference
<1>5. Positions \cap AttemptedItems = AttemptedItems BY <1>3
<1>6. WL!Cardinality(WL!OpenEntries) = Cardinality(WL!OpenEntries)
  BY DEF WL!Cardinality, Cardinality
<1>7. Cardinality(WL!OpenEntries) = Total - Cardinality(AttemptedItems)
  BY <1>1, <1>2, <1>4, <1>5
<1>8. CASE faults = 0
  <2>1. Cardinality(AttemptedItems) + Cardinality(Orphans) >= Total
    BY <1>8 DEF Covered
  <2> QED BY <1>6, <1>7, <1>8, <2>1, CountsAreNat, TotalPositive
<1>9. CASE faults # 0
  BY <1>6, <1>7, <1>9, CountsAreNat, TotalPositive
<1> QED BY <1>8, <1>9

\* A step that writes neither the batch's status nor an item is none of the
\* list, or an excuse.
LEMMA UnwrittenExcuses ==
  ASSUME TypeInv, [Next]_vars, batch'.status = batch.status,
         UNCHANGED [k \in Positions |-> Entry(items[k])]
  PROVE  WL!Next
<1>1. WL!Excuse BY ExcusesGrow DEF WL!Excuse
<1> QED BY <1>1 DEF WL!Next

\* Every step of the batch is a step of the list.
LEMMA BatchStepWorks ==
  ASSUME TypeInv, CancelInv, ItemsInv, CountInv, TallyInv, [Next]_vars
  PROVE  [WL!Next]_(WL!vars)
<1>0. /\ batch \in BatchRows /\ items \in [Positions -> ItemStatus]
      /\ worker \in Attempts /\ batch.status \in BatchStatus
  BY DEF TypeInv, TypeOK, BatchRows
<1>u. ASSUME batch'.status = batch.status, UNCHANGED items PROVE WL!Next
  BY <1>u, UnwrittenExcuses DEF Positions, Total
<1>o. ASSUME NEW s, batch' = [batch EXCEPT !.status = s] PROVE batch'.status = s
  BY <1>0, <1>o DEF BatchRows
<1>k. ASSUME UNCHANGED <<items, deleted, faults>>
      PROVE  /\ UNCHANGED [k \in Positions |-> Entry(items[k])]
             /\ UNCHANGED (IF faults = 0 THEN Cardinality(Orphans) ELSE Total)
  BY <1>k DEF Positions, Total, Orphans
<1>1. CASE Create
  <2>1. WL!Create
    BY <1>1, <1>o, <1>k DEF Create, WL!Create, CancelInv
  <2> QED BY <2>1 DEF WL!Next
<1>2. CASE CreateItem
  <2>1. PICK k \in Positions : items[k] = "absent" /\ items' = [items EXCEPT ![k] = "pending"]
    BY <1>2 DEF CreateItem
  <2>2. \A l \in Positions : Entry(items'[l]) = Entry(items[l])
    BY <1>0, <2>1 DEF Entry
  <2>3. UNCHANGED [l \in Positions |-> Entry(items[l])] BY <2>2 DEF Positions, Total
  <2> QED BY <1>2, <2>3, UnwrittenExcuses DEF CreateItem
<1>3. CASE MarkProcessing
  <2>1. CASE UNCHANGED batch BY <1>3, <1>u, <2>1 DEF MarkProcessing
  <2>2. CASE Live /\ batch' = [batch EXCEPT !.status = "processing"] /\ UNCHANGED faults
    <3>1. batch.status \in WL!Running \cup WL!Finished
      BY <1>0, <2>2 DEF Live, WL!Running, WL!Finished, BatchStatus
    <3>2. batch'.status = "processing" BY <1>o, <2>2
    <3>3. WL!Work BY <1>3, <1>k, <2>2, <3>1, <3>2 DEF MarkProcessing, WL!Work
    <3> QED BY <3>3 DEF WL!Next
  <2> QED BY <1>3, <2>1, <2>2 DEF MarkProcessing
<1>4. CASE UpdateItemStatus
  <2>1. CASE UNCHANGED items BY <1>4, <1>u, <2>1 DEF UpdateItemStatus
  <2>2. CASE /\ worker.item # 0 /\ items[worker.item] # "gone" /\ UNCHANGED faults
             /\ items' = [items EXCEPT ![worker.item] = worker.outcome]
    <3>1. worker.pc = "setItem" /\ UNCHANGED <<batch, deleted>> BY <1>4 DEF UpdateItemStatus
    <3>2. worker.item \in Positions
      BY <1>0, <2>2, TotalPositive DEF Attempts
    <3>3. worker.outcome \in Attempted /\ items[worker.item] \in {"absent", "pending"}
      BY <1>0, <2>2, <3>1, <3>2 DEF ItemsInv, ItemStatus, Attempted
    <3>4. batch.status # "absent" BY <3>1 DEF TallyInv, ItemsInv
    <3>5. \A l \in Positions :
             Entry(items'[l]) = IF l = worker.item THEN worker.outcome ELSE Entry(items[l])
      BY <1>0, <2>2, <3>2, <3>3 DEF Entry, Attempted
    <3>6. [l \in Positions |-> Entry(items[l])]'
            = [[l \in Positions |-> Entry(items[l])] EXCEPT ![worker.item] = worker.outcome]
      BY <3>5 DEF Positions, Total
    <3>7. [l \in Positions |-> Entry(items[l])][worker.item] = "open"
      BY <3>2, <3>3 DEF Entry
    <3>8. UNCHANGED (IF faults = 0 THEN Cardinality(Orphans) ELSE Total)
      BY <2>2, <3>1 DEF Orphans, Positions, Total
    <3>9. WL!Settle(worker.item, worker.outcome)
      BY <3>1, <3>4, <3>6, <3>7, <3>8 DEF WL!Settle
    <3> QED BY <3>2, <3>3, <3>9 DEF WL!Next, WL!Results, Attempted
  <2> QED BY <1>4, <2>1, <2>2 DEF UpdateItemStatus
<1>5. CASE MarkFinished
  <2>1. CASE UNCHANGED batch BY <1>5, <1>u, <2>1 DEF MarkFinished
  <2>2. CASE Live /\ batch' = [batch EXCEPT !.status = worker.verdict] /\ UNCHANGED faults
    <3>1. batch.status \in WL!Running \cup WL!Finished /\ batch.status # "gone"
      BY <1>0, <2>2 DEF Live, WL!Running, WL!Finished, BatchStatus
    <3>2. batch'.status = worker.verdict BY <1>o, <2>2
    <3>3. faults = 0 => Covered BY <1>5, <3>1 DEF MarkFinished, CountInv
    <3>4. CASE worker.verdict \in WL!Finished
      <4>1. WL!Finish(worker.verdict)
        BY <1>5, <1>k, <2>2, <3>1, <3>2, <3>3, OpenAreExcused DEF MarkFinished, WL!Finish
      <4> QED BY <3>4, <4>1 DEF WL!Next
    <3>5. CASE worker.verdict = "processing"
      <4>1. WL!Work BY <1>5, <1>k, <2>2, <3>1, <3>2, <3>5 DEF MarkFinished, WL!Work
      <4> QED BY <4>1 DEF WL!Next
    <3> QED BY <1>0, <3>4, <3>5 DEF Attempts, WL!Finished
  <2> QED BY <1>5, <2>1, <2>2 DEF MarkFinished
<1>6. CASE Cancel
  <2>1. WL!Cancel BY <1>6, <1>o, <1>k DEF Cancel, WL!Cancel, WL!Running
  <2> QED BY <2>1 DEF WL!Next
<1>7. CASE Delete \/ DeleteUmbrella
  <2>1. batch.status # "absent" /\ batch'.status = "gone" /\ UNCHANGED <<deleted, faults>>
    BY <1>7, <1>o DEF Delete, DeleteUmbrella
  <2>2. \A k \in Positions : items'[k] = "gone"
    BY <1>7 DEF Delete, DeleteUmbrella
  <2>3. [k \in Positions |-> Entry(items[k])]' = [k \in Positions |-> "gone"]
    BY <2>2 DEF Entry, Positions, Total
  <2>4. UNCHANGED (IF faults = 0 THEN Cardinality(Orphans) ELSE Total)
    BY <2>1 DEF Orphans, Positions, Total
  <2>5. WL!Delete BY <2>1, <2>3, <2>4 DEF WL!Delete
  <2> QED BY <2>5 DEF WL!Next
<1>8. CASE ResyncCounters \/ IncrementProcessed
  <2>1. batch'.status = batch.status /\ UNCHANGED items
    BY <1>0, <1>8 DEF ResyncCounters, IncrementProcessed, Ticked, BatchRows
  <2> QED BY <1>u, <2>1
<1>9. CASE \/ Enqueue \/ CreatorFails \/ Load \/ Discard \/ MirrorProcessing
           \/ CheckCancelled \/ LoopEnds \/ FindItem \/ ProcessBook
           \/ MirrorFinished \/ MirrorCancel \/ DeleteBook \/ Crash \/ Shutdown
  BY <1>9, <1>u DEF Enqueue, CreatorFails, Load, Discard, MirrorProcessing,
     CheckCancelled, LoopEnds, FindItem, ProcessBook, MirrorFinished,
     MirrorCancel, DeleteBook, Crash, Shutdown
<1>10. CASE UNCHANGED vars BY <1>10, <1>u DEF vars
<1> QED
  BY <1>1, <1>2, <1>3, <1>4, <1>5, <1>6, <1>7, <1>8, <1>9, <1>10 DEF Next, WorkerStep

\* WorkListHolds: the batch, its worker, the user who cancels it and the
\* catalogue that changes under it together do what a list of work promises.
THEOREM WorkListImplemented == Spec => WorkListHolds
<1>1. Init => WL!Init
  <2> SUFFICES ASSUME Init PROVE WL!Init OBVIOUS
  <2>1. batch.status = "absent" BY DEF Init
  <2>2. [k \in Positions |-> Entry(items[k])] = [k \in Positions |-> "open"]
    BY DEF Init, Entry
  <2>3. (IF faults = 0 THEN Cardinality(Orphans) ELSE Total) \in Nat
    BY CountsAreNat, TotalPositive
  <2> QED BY <2>1, <2>2, <2>3 DEF WL!Init
<1>2. TypeInv /\ CancelInv /\ ItemsInv /\ CountInv /\ TallyInv /\ [Next]_vars
        => [WL!Next]_(WL!vars)
  BY BatchStepWorks
<1> QED BY <1>1, <1>2, FullInvariant, TallyHolds, PTL DEF Spec, WorkListHolds, WL!Spec
=============================================================================
