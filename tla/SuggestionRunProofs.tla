------------------------ MODULE SuggestionRunProofs ------------------------
(***************************************************************************)
(* Proofs about SuggestionRun, for every set of jobs, every limit and any  *)
(* number of interventions, crashes and lost statements.                   *)
(***************************************************************************)
EXTENDS SuggestionRun, SequenceTheorems, TLAPS

\* an attempt of a River job
Attempts == [pc : ProgramPoints, row : Nat, tries : 0..BackfillMax]

\* the points before the backfill loop, and those inside it
Fresh == {"idle", "rate", "count", "umbrella", "create", "generate", "check", "keys"}
InBackfill == {"checkBackfill", "call"}
\* an attempt counts its backfill calls and has one left inside the loop
TriesOK(w) == /\ w.pc \in Fresh => w.tries = 0
              /\ w.pc \in InBackfill => w.tries < BackfillMax

\* the rows recorded so far
RowsOK == runs \in Seq(RunRows)
\* an attempt is well formed and works on a row of its own task
AttemptOK(t) ==
    /\ worker[t] \in Attempts /\ TriesOK(worker[t])
    /\ worker[t].pc \in HasRow => worker[t].row \in DOMAIN runs /\ Row(t).task = t
WorkersOK == /\ worker = [t \in Tasks |-> worker[t]]
             /\ \A t \in Tasks : AttemptOK(t)

TypeInv == RowsOK /\ WorkersOK

------------------------------------------------------------------------------
(* How rows and attempts change *)

\* The points the status is read at.
LEMMA Points ==
    /\ DOMAIN AfterCheck = {"check", "checkTruncated", "genFailed", "checkBackfill",
                            "checkLast"}
    /\ ProgramPoints = {"idle", "rate", "count", "umbrella", "create",
          "umbrellaFailed", "generate", "keys", "call", "persist", "complete",
          "fail", "completed", "cancelled", "check", "checkTruncated",
          "genFailed", "checkBackfill", "checkLast"}
    /\ HasRow = {"create", "umbrellaFailed", "generate", "keys", "call", "persist",
          "complete", "fail", "check", "checkTruncated", "genFailed",
          "checkBackfill", "checkLast"}
    /\ AfterCheck["check"] = "keys" /\ AfterCheck["checkTruncated"] = "fail"
    /\ AfterCheck["genFailed"] = "fail" /\ AfterCheck["checkBackfill"] = "call"
    /\ AfterCheck["checkLast"] = "persist"
  BY DEF AfterCheck, ProgramPoints, HasRow

\* The rows are a function on an interval.
LEMMA RowsAreFunction ==
  ASSUME RowsOK
  PROVE  /\ Len(runs) \in Nat /\ DOMAIN runs = 1..Len(runs)
         /\ \A r \in DOMAIN runs : runs[r] \in RunRows
  BY LenProperties DEF RowsOK

\* A statement that writes one row leaves the others alone.
LEMMA RowWritten ==
  ASSUME RowsOK, NEW i \in DOMAIN runs, NEW row \in RunRows,
         runs' = [runs EXCEPT ![i] = row]
  PROVE  /\ RowsOK' /\ DOMAIN runs' = DOMAIN runs
         /\ runs'[i] = row
         /\ \A r \in DOMAIN runs : r # i => runs'[r] = runs[r]
  BY RowsAreFunction, ExceptSeq DEF RowsOK

\* CreateJob adds a row and leaves the others alone.
LEMMA RowAdded ==
  ASSUME RowsOK, NEW row \in RunRows, runs' = Append(runs, row)
  PROVE  /\ RowsOK' /\ DOMAIN runs' = DOMAIN runs \cup {Len(runs) + 1}
         /\ Len(runs) + 1 \notin DOMAIN runs
         /\ runs'[Len(runs) + 1] = row
         /\ \A r \in DOMAIN runs : runs'[r] = runs[r]
<1>1. RowsOK' BY DEF RowsOK
<1>2. Len(runs') = Len(runs) + 1 BY DEF RowsOK
<1>3. DOMAIN runs' = 1..(Len(runs) + 1) BY <1>1, <1>2, LenProperties DEF RowsOK
<1>4. runs'[Len(runs) + 1] = row BY DEF RowsOK
<1>5. \A r \in 1..Len(runs) : runs'[r] = runs[r] BY DEF RowsOK
<1> QED BY <1>1, <1>3, <1>4, <1>5, RowsAreFunction

\* Moving to a program point changes nothing else of the attempt.
LEMMA GotoMoves ==
  ASSUME WorkersOK, NEW t \in Tasks, NEW p \in ProgramPoints, Goto(t, p)
  PROVE  /\ worker' = [u \in Tasks |-> worker'[u]]
         /\ worker'[t] \in Attempts /\ worker'[t].pc = p
         /\ worker'[t].row = worker[t].row /\ worker'[t].tries = worker[t].tries
         /\ \A u \in Tasks : u # t => worker'[u] = worker[u]
  BY DEF WorkersOK, AttemptOK, Attempts, Goto

\* An attempt that returns works on no row.
LEMMA ReturnMoves ==
  ASSUME WorkersOK, NEW t \in Tasks, Done(t) \/ Abort(t)
  PROVE  /\ worker' = [u \in Tasks |-> worker'[u]]
         /\ worker'[t] \in Attempts /\ worker'[t].pc \in {"completed", "cancelled"}
         /\ \A u \in Tasks : u # t => worker'[u] = worker[u]
  BY SuggestionAssumption, Points DEF WorkersOK, AttemptOK, Attempts, Done, Abort, NoAttempt

------------------------------------------------------------------------------
(* Type correctness *)

\* Every variable starts with its type.
LEMMA TypeInit == Init => TypeInv
<1> SUFFICES ASSUME Init PROVE TypeInv
  OBVIOUS
<1>1. RowsOK BY EmptySeq DEF Init, RowsOK
<1>2. NoAttempt \in Attempts /\ NoAttempt.pc \notin HasRow /\ TriesOK(NoAttempt)
  BY SuggestionAssumption, Points DEF NoAttempt, Attempts, TriesOK, InBackfill
<1> QED BY <1>1, <1>2 DEF Init, TypeInv, WorkersOK, AttemptOK

\* The rows keep their type, and an attempt keeps its own row.
LEMMA RowsStayOK ==
  ASSUME TypeInv, [Next]_vars
  PROVE  /\ RowsOK' /\ DOMAIN runs \subseteq DOMAIN runs'
         /\ \A r \in DOMAIN runs : runs'[r].task = runs[r].task
<1> USE DEF TypeInv
<1> DEFINE Kept == /\ RowsOK' /\ DOMAIN runs \subseteq DOMAIN runs'
                   /\ \A r \in DOMAIN runs : runs'[r].task = runs[r].task
<1>1. CASE runs' = runs BY <1>1 DEF RowsOK
<1>2. ASSUME NEW i \in DOMAIN runs, NEW row \in RunRows, row.task = runs[i].task,
             runs' = [runs EXCEPT ![i] = row]
      PROVE  Kept
  BY <1>2, RowWritten
<1>3. ASSUME NEW t \in Tasks, worker[t].pc \in HasRow PROVE worker[t].row \in DOMAIN runs
  BY <1>3 DEF WorkersOK, AttemptOK
<1>4. ASSUME NEW t \in Tasks, CreateUmbrella(t) PROVE Kept
  <2>1. ASSUME runs' = Append(runs, [task |-> t, run |-> "absent",
                                     job |-> "running", late |-> -1])
        PROVE  Kept
    <3>1. [task |-> t, run |-> "absent", job |-> "running", late |-> -1] \in RunRows
      BY DEF RunRows
    <3> QED BY <2>1, <3>1, RowAdded
  <2> QED BY <1>1, <1>4, <2>1 DEF CreateUmbrella
<1>5. ASSUME NEW t \in Tasks, CreateRun(t) PROVE Kept
  <2>1. worker[t].row \in DOMAIN runs BY <1>3, <1>5, Points DEF CreateRun, At
  <2>2. ASSUME runs' = [runs EXCEPT ![worker[t].row].run = "running"] PROVE Kept
    BY <1>2, <2>1, <2>2, RowsAreFunction DEF RunRows
  <2> QED BY <1>1, <1>5, <2>2 DEF CreateRun
<1>6. ASSUME NEW t \in Tasks, FailUmbrella(t) PROVE Kept
  <2>1. worker[t].row \in DOMAIN runs BY <1>3, <1>6, Points DEF FailUmbrella, At
  <2> DEFINE row == [runs[worker[t].row] EXCEPT !.job = IF @ = "gone" THEN @ ELSE "failed"]
  <2>2. row \in RunRows /\ row.task = runs[worker[t].row].task
    BY <2>1, RowsAreFunction DEF RunRows
  <2>3. ASSUME runs' = [runs EXCEPT ![worker[t].row] = row] PROVE Kept
    BY <1>2, <2>1, <2>2, <2>3
  <2> QED BY <1>1, <1>6, <2>3 DEF FailUmbrella
<1>7. ASSUME NEW t \in Tasks, worker[t].pc \in HasRow, runs' = Stage(t) PROVE Kept
  <2>1. worker[t].row \in DOMAIN runs BY <1>3, <1>7
  <2> DEFINE row == [runs[worker[t].row] EXCEPT !.late = IF @ >= 0 THEN @ + 1 ELSE @]
  <2>2. row \in RunRows /\ row.task = runs[worker[t].row].task
    BY <2>1, RowsAreFunction DEF RunRows
  <2>3. runs' = [runs EXCEPT ![worker[t].row] = row] BY <1>7 DEF Stage
  <2> QED BY <1>2, <2>1, <2>2, <2>3
<1>8. ASSUME NEW t \in Tasks, worker[t].pc \in HasRow,
             NEW status \in {"completed", "failed"}, FinishRun(t, status)
      PROVE  Kept
  <2>1. worker[t].row \in DOMAIN runs BY <1>3, <1>8
  <2> DEFINE row == [runs[worker[t].row] EXCEPT !.run = status, !.job = status]
  <2>2. row \in RunRows /\ row.task = runs[worker[t].row].task
    BY <2>1, RowsAreFunction DEF RunRows
  <2>3. runs' = [runs EXCEPT ![worker[t].row] = row] BY <2>1, <1>8, RowsAreFunction DEF FinishRun
  <2> QED BY <1>2, <2>1, <2>2, <2>3
<1>9. ASSUME NEW t \in Tasks, BackfillCall(t) PROVE Kept
  BY <1>7, <1>9, Points DEF BackfillCall, At
<1>10. ASSUME NEW t \in Tasks, Persist(t) PROVE Kept
  BY <1>1, <1>7, <1>10, Points DEF Persist, At
<1>11. ASSUME NEW t \in Tasks, Complete(t) PROVE Kept
  BY <1>1, <1>8, <1>11, Points DEF Complete, At
<1>12. ASSUME NEW t \in Tasks, Fail(t) PROVE Kept
  BY <1>1, <1>8, <1>12, Points DEF Fail, At
<1>13. ASSUME NEW r \in DOMAIN runs, CancelRun(r) PROVE Kept
  <2> DEFINE row == [runs[r] EXCEPT !.run = "cancelled", !.late = 0]
  <2>1. row \in RunRows /\ row.task = runs[r].task BY RowsAreFunction DEF RunRows
  <2>2. runs' = [runs EXCEPT ![r] = row] BY <1>13, RowsAreFunction DEF CancelRun
  <2> QED BY <1>2, <2>1, <2>2
<1>14. ASSUME NEW r \in DOMAIN runs, DeleteUmbrella(r) PROVE Kept
  <2> DEFINE row == [runs[r] EXCEPT !.job = "gone", !.run = "gone"]
  <2>1. row \in RunRows /\ row.task = runs[r].task BY RowsAreFunction DEF RunRows
  <2>2. runs' = [runs EXCEPT ![r] = row] BY <1>14, RowsAreFunction DEF DeleteUmbrella
  <2> QED BY <1>2, <2>1, <2>2
<1>15. CASE ClearFinished
  <2> DEFINE e(r) == [runs[r] EXCEPT !.run = IF @ \in {"completed", "failed", "cancelled"}
                                             THEN "gone" ELSE @]
  <2>1. \A r \in DOMAIN runs : e(r) \in RunRows /\ e(r).task = runs[r].task
    BY RowsAreFunction DEF RunRows
  <2>2. runs' = [r \in 1..Len(runs) |-> e(r)] BY <1>15, RowsAreFunction DEF ClearFinished
  <2> HIDE DEF e
  <2>3. RowsOK' BY <2>1, <2>2, RowsAreFunction DEF RowsOK
  <2> QED BY <2>1, <2>2, <2>3, RowsAreFunction
<1>16. CASE \E t \in Tasks : \/ AskRate(t) \/ AskRunning(t) \/ Insert(t) \/ Start(t)
                             \/ CheckRate(t) \/ CheckRunning(t) \/ Generate(t)
                             \/ CheckCancelled(t) \/ ListKeys(t) \/ EndJob(t)
                             \/ ContextDies(t)
  BY <1>1, <1>16 DEF AskRate, AskRunning, Insert, Start, CheckRate, CheckRunning,
     Generate, CheckCancelled, ListKeys, EndJob, ContextDies
<1>17. CASE Crash \/ UNCHANGED vars BY <1>1, <1>17 DEF Crash, vars
<1> QED
  BY <1>4, <1>5, <1>6, <1>9, <1>10, <1>11, <1>12, <1>13, <1>14, <1>15, <1>16, <1>17
  DEF Next, Work

\* An attempt stays well formed and on a row of its task.
LEMMA WorkersStayOK == TypeInv /\ [Next]_vars => WorkersOK'
<1> SUFFICES ASSUME TypeInv, [Next]_vars PROVE WorkersOK'
  OBVIOUS
<1> USE DEF TypeInv
<1>1. /\ DOMAIN runs \subseteq DOMAIN runs'
      /\ \A r \in DOMAIN runs : runs'[r].task = runs[r].task
  BY RowsStayOK
<1>2. ASSUME NEW u \in Tasks, worker'[u] = worker[u] PROVE AttemptOK(u)'
  BY <1>1, <1>2 DEF WorkersOK, AttemptOK, Row
<1>3. ASSUME worker' = worker PROVE WorkersOK'
  BY <1>2, <1>3 DEF WorkersOK
<1>4. ASSUME NEW t \in Tasks, worker' = [u \in Tasks |-> worker'[u]],
             worker'[t] \in Attempts, TriesOK(worker'[t]),
             \A u \in Tasks : u # t => worker'[u] = worker[u],
             worker'[t].pc \in HasRow =>
               worker'[t].row \in DOMAIN runs' /\ runs'[worker'[t].row].task = t
      PROVE  WorkersOK'
  <2>1. AttemptOK(t)' BY <1>4 DEF AttemptOK, Row
  <2> QED BY <1>2, <1>4, <2>1 DEF WorkersOK
<1>5. ASSUME NEW t \in Tasks, NEW p \in ProgramPoints, Goto(t, p),
             p \in HasRow => worker[t].pc \in HasRow,
             p \in Fresh => worker[t].pc \in Fresh,
             p \in InBackfill => worker[t].tries < BackfillMax
      PROVE  WorkersOK'
  <2>1. worker[t].pc \in HasRow =>
          worker[t].row \in DOMAIN runs' /\ runs'[worker[t].row].task = t
    BY <1>1 DEF WorkersOK, AttemptOK, Row
  <2>2. TriesOK(worker'[t])
    BY <1>5, GotoMoves DEF WorkersOK, AttemptOK, TriesOK
  <2> QED BY <1>4, <1>5, <2>1, <2>2, GotoMoves
<1>6. ASSUME NEW t \in Tasks, Done(t) \/ Abort(t) PROVE WorkersOK'
  BY <1>4, <1>6, ReturnMoves, Points DEF TriesOK, Fresh, InBackfill
<1>7. ASSUME NEW t \in Tasks, Start(t) PROVE WorkersOK'
  BY <1>5, <1>6, <1>7, Points DEF Start, At, Fresh, InBackfill
<1>8. ASSUME NEW t \in Tasks, CheckRate(t) \/ CheckRunning(t) PROVE WorkersOK'
  BY <1>5, <1>6, <1>8, Points DEF CheckRate, CheckRunning, At, Fresh, InBackfill
<1>9. ASSUME NEW t \in Tasks, CreateUmbrella(t) PROVE WorkersOK'
  <2> DEFINE row == [task |-> t, run |-> "absent", job |-> "running", late |-> -1]
  <2>1. CASE runs' = Append(runs, row) /\ worker' = [worker EXCEPT ![t].pc = "create",
                                                              ![t].row = Len(runs) + 1]
    <3>1. row \in RunRows BY DEF RunRows
    <3>2. Len(runs) + 1 \in DOMAIN runs' /\ runs'[Len(runs) + 1].task = t
      BY <2>1, <3>1, RowAdded
    <3> DEFINE n == Len(runs) + 1
    <3>3. n \in Nat /\ worker' = [worker EXCEPT ![t].pc = "create", ![t].row = n]
      BY <2>1, RowsAreFunction
    <3>4. worker[t].tries = 0
      BY <1>9 DEF CreateUmbrella, At, WorkersOK, AttemptOK, TriesOK, Fresh
    <3> HIDE DEF n
    <3>5. /\ worker' = [u \in Tasks |-> worker'[u]] /\ worker'[t] \in Attempts
          /\ \A u \in Tasks : u # t => worker'[u] = worker[u]
          /\ worker'[t].row = n /\ TriesOK(worker'[t])
      BY <3>3, <3>4, Points DEF WorkersOK, AttemptOK, Attempts, TriesOK, InBackfill
    <3> QED BY <1>4, <3>2, <3>5 DEF n
  <2> QED BY <1>6, <1>9, <2>1 DEF CreateUmbrella
<1>10. ASSUME NEW t \in Tasks, CreateRun(t) \/ FailUmbrella(t) \/ Generate(t) PROVE WorkersOK'
  BY <1>5, <1>6, <1>10, Points DEF CreateRun, FailUmbrella, Generate, At,
     Fresh, InBackfill
<1>11. ASSUME NEW t \in Tasks, CheckCancelled(t) PROVE WorkersOK'
  BY <1>5, <1>6, <1>11, Points
  DEF CheckCancelled, At, Fresh, InBackfill, WorkersOK, AttemptOK, TriesOK
<1>12. ASSUME NEW t \in Tasks, ListKeys(t) PROVE WorkersOK'
  BY <1>5, <1>6, <1>12, Points
  DEF ListKeys, At, AfterTries, Fresh, InBackfill, WorkersOK, AttemptOK, TriesOK
<1>13. ASSUME NEW t \in Tasks, BackfillCall(t) PROVE WorkersOK'
  <2> DEFINE n == worker[t].tries + 1
  <2>1. n \in 0..BackfillMax /\ worker[t].pc \in HasRow
    BY <1>13, SuggestionAssumption, Points
    DEF BackfillCall, At, WorkersOK, AttemptOK, Attempts, TriesOK, InBackfill
  <2>2. PICK next \in AfterTries(n) :
            worker' = [worker EXCEPT ![t].pc = next, ![t].tries = n]
    BY <1>13 DEF BackfillCall
  <2>3. /\ next \in ProgramPoints /\ next \notin Fresh
        /\ next \in InBackfill => n < BackfillMax
    BY Points DEF AfterTries, Fresh, InBackfill
  <2> HIDE DEF n
  <2>4. /\ worker' = [u \in Tasks |-> worker'[u]] /\ worker'[t] \in Attempts
        /\ \A u \in Tasks : u # t => worker'[u] = worker[u]
        /\ worker'[t].row = worker[t].row /\ TriesOK(worker'[t])
    BY <2>1, <2>2, <2>3 DEF WorkersOK, AttemptOK, Attempts, TriesOK
  <2>5. worker[t].row \in DOMAIN runs' /\ runs'[worker[t].row].task = t
    BY <1>1, <2>1 DEF WorkersOK, AttemptOK, Row
  <2> QED BY <1>4, <2>4, <2>5
<1>14. ASSUME NEW t \in Tasks, Persist(t) \/ Complete(t) \/ Fail(t) PROVE WorkersOK'
  BY <1>5, <1>6, <1>14, Points DEF Persist, Complete, Fail, At,
     Fresh, InBackfill
<1>15. ASSUME NEW t \in Tasks, EndJob(t) PROVE WorkersOK'
  <2>1. NoAttempt \in Attempts /\ NoAttempt.pc \notin HasRow /\ TriesOK(NoAttempt)
    BY SuggestionAssumption, Points DEF NoAttempt, Attempts, TriesOK, InBackfill
  <2> QED BY <1>4, <1>15, <2>1 DEF EndJob, WorkersOK
<1>16. ASSUME NEW t \in Tasks, ContextDies(t) PROVE WorkersOK'
  BY <1>5, <1>6, <1>16, Points DEF ContextDies, At, Fresh, InBackfill
<1>17. CASE Crash
  <2>1. NoAttempt \in Attempts /\ NoAttempt.pc \notin HasRow /\ TriesOK(NoAttempt)
    BY SuggestionAssumption, Points DEF NoAttempt, Attempts, TriesOK, InBackfill
  <2> QED BY <1>17, <2>1 DEF Crash, WorkersOK, AttemptOK
<1>18. CASE UNCHANGED vars BY <1>3, <1>18 DEF vars
<1>19. CASE \/ \E t \in Tasks : AskRate(t) \/ AskRunning(t) \/ Insert(t)
            \/ \E r \in DOMAIN runs : CancelRun(r) \/ DeleteUmbrella(r)
            \/ ClearFinished
  BY <1>3, <1>19 DEF AskRate, AskRunning, Insert, CancelRun, DeleteUmbrella, ClearFinished
<1> QED
  BY <1>7, <1>8, <1>9, <1>10, <1>11, <1>12, <1>13, <1>14, <1>15, <1>16, <1>17, <1>18, <1>19
  DEF Next, Work

\* The type invariant, and what the bounds and the callers add to it.
LEMMA TypeStep == TypeOK /\ TypeInv /\ [Next]_vars => TypeOK' /\ TypeInv'
<1> SUFFICES ASSUME TypeOK, TypeInv, [Next]_vars PROVE TypeOK' /\ TypeInv'
  OBVIOUS
<1>1. TypeInv' BY RowsStayOK, WorkersStayOK DEF TypeInv
<1>2. runs' \in Seq(RunRows) /\ worker' \in [Tasks -> Attempts]
      /\ \A t \in Tasks : worker'[t].pc \in HasRow =>
            worker'[t].row \in DOMAIN runs' /\ runs'[worker'[t].row].task = t
  BY <1>1 DEF TypeInv, RowsOK, WorkersOK, AttemptOK, Row
<1>3. client' \in [Tasks -> {"rate", "running", "insert", "end"}]
  <2>1. ASSUME NEW t \in Tasks, NEW step \in {"rate", "running", "insert", "end"},
               Client(t, step)
        PROVE  client' \in [Tasks -> {"rate", "running", "insert", "end"}]
    BY <2>1 DEF TypeOK, Client
  <2>2. CASE \E t \in Tasks : AskRate(t) \/ AskRunning(t) \/ Insert(t)
    BY <2>1, <2>2 DEF AskRate, AskRunning, Insert
  <2>3. CASE Crash BY <2>3 DEF TypeOK, Crash
  <2>4. CASE client' = client BY <2>4 DEF TypeOK
  <2>5. CASE \/ \E t \in Tasks : Work(t) \/ ContextDies(t)
             \/ \E r \in DOMAIN runs : CancelRun(r) \/ DeleteUmbrella(r)
             \/ ClearFinished \/ UNCHANGED vars
    BY <2>4, <2>5 DEF Work, Start, CheckRate, CheckRunning, CreateUmbrella, CreateRun,
       FailUmbrella, Generate, CheckCancelled, ListKeys, BackfillCall, Persist, Complete,
       Fail, EndJob, ContextDies, CancelRun, DeleteUmbrella, ClearFinished, vars
  <2> QED BY <2>2, <2>3, <2>5 DEF Next
<1>4. river' \in [Tasks -> {"none", "available", "running", "completed", "cancelled"}]
  <2>1. CASE river' = river BY <2>1 DEF TypeOK
  <2>2. CASE \E t \in Tasks : Insert(t) \/ Start(t) \/ EndJob(t)
    BY <2>1, <2>2 DEF TypeOK, Insert, Start, EndJob
  <2>3. CASE Crash BY <2>3 DEF TypeOK, Crash
  <2>4. CASE \/ \E t \in Tasks :
                  \/ AskRate(t) \/ AskRunning(t) \/ ContextDies(t)
                  \/ CheckRate(t) \/ CheckRunning(t) \/ CreateUmbrella(t) \/ CreateRun(t)
                  \/ FailUmbrella(t) \/ Generate(t) \/ CheckCancelled(t) \/ ListKeys(t)
                  \/ BackfillCall(t) \/ Persist(t) \/ Complete(t) \/ Fail(t)
             \/ \E r \in DOMAIN runs : CancelRun(r) \/ DeleteUmbrella(r)
             \/ ClearFinished \/ UNCHANGED vars
    BY <2>1, <2>4 DEF AskRate, AskRunning, CheckRate, CheckRunning, CreateUmbrella,
       CreateRun, FailUmbrella, Generate, CheckCancelled, ListKeys, BackfillCall, Persist,
       Complete, Fail, ContextDies, CancelRun, DeleteUmbrella, ClearFinished, vars
  <2> QED BY <2>2, <2>3, <2>4 DEF Next, Work
<1>5. admin' \in 0..MaxAdmin /\ failures' \in 0..MaxFailures
  <2>1. admin' = admin \/ Intervene
    BY DEF Next, Work, AskRate, AskRunning, Insert, Start, CheckRate, CheckRunning,
       CreateUmbrella, CreateRun, FailUmbrella, Generate, CheckCancelled, ListKeys,
       BackfillCall, Persist, Complete, Fail, EndJob, ContextDies, Crash, CancelRun,
       DeleteUmbrella, ClearFinished, vars
  <2>2. failures' = failures \/ Fault
    BY DEF Next, Work, AskRate, AskRunning, Insert, Start, CheckRate, CheckRunning,
       CreateUmbrella, CreateRun, FailUmbrella, Generate, CheckCancelled, ListKeys,
       BackfillCall, Persist, Complete, Fail, EndJob, ContextDies, Crash, CancelRun,
       DeleteUmbrella, ClearFinished, vars
  <2> QED BY <2>1, <2>2, SuggestionAssumption DEF TypeOK, Intervene, Fault
<1> QED BY <1>1, <1>2, <1>3, <1>4, <1>5 DEF TypeOK, Attempts, Row

\* Every variable starts with its type.
LEMMA TypesStart == Init => TypeOK /\ TypeInv
<1> SUFFICES ASSUME Init PROVE TypeOK /\ TypeInv
  OBVIOUS
<1>1. TypeInv BY TypeInit
<1>2. client \in [Tasks -> {"rate", "running", "insert", "end"}]
  BY DEF Init, Entry
<1>3. runs \in Seq(RunRows) /\ worker \in [Tasks -> Attempts]
      /\ \A t \in Tasks : worker[t].pc \in HasRow =>
            worker[t].row \in DOMAIN runs /\ Row(t).task = t
  BY <1>1 DEF TypeInv, RowsOK, WorkersOK, AttemptOK
<1> QED BY <1>1, <1>2, <1>3, SuggestionAssumption DEF Init, TypeOK, Attempts

\* TypeOK holds throughout, for every set of jobs and every bound: an attempt
\* past CreateJob never works on another job's row, through crashes, dead
\* contexts and deletions.
THEOREM TypeCorrect == Spec => []TypeOK
<1>1. TypeOK /\ TypeInv /\ [Next]_vars => (TypeOK /\ TypeInv)'
  BY TypeStep
<1> QED BY <1>1, TypesStart, PTL DEF Spec

------------------------------------------------------------------------------
(* What the rows say while the pipelines run *)

\* between CreateRun and FinishRun
Pipeline == HasRow \ {"create", "umbrellaFailed"}

\* a row: at most one late stage, none while it runs, and an umbrella that
\* agrees with the run
RowFine(w) ==
    /\ w.late <= 1 /\ (w.run = "running" => w.late = -1)
    /\ w.run \in {"completed", "failed"} => w.job = w.run
    /\ w.job \in {"completed", "failed"} => w.run \in {w.job, "absent", "gone"}

\* the row of an attempt at a program point: not begun, begun and not ended,
\* and not late when a stage is about to begin
PointFine(pc, w) ==
    /\ pc = "create" => /\ w.run \in {"absent", "gone"} /\ w.late = -1
                        /\ w.job \in {"running", "gone"}
    /\ pc = "umbrellaFailed" => w.run \in {"absent", "gone"}
    /\ pc \in Pipeline => w.run \in {"running", "cancelled", "gone"}
    /\ pc \in {"call", "persist"} => w.late <= 0

StageOK(t) == worker[t].pc \in HasRow => PointFine(worker[t].pc, Row(t))

\* an attempt that is about to create its run has no other run running
Alone(t) == worker[t].pc \in {"umbrella", "create"} =>
              \A r \in Running : runs[r].task # t

RunsInv ==
    /\ \A r \in DOMAIN runs : RowFine(runs[r])
    /\ \A t \in Tasks : StageOK(t) /\ Alone(t)
    /\ OneRunPerJob

\* a step of t leaves the other attempts where they are
Others(t) == \A u \in Tasks : u # t => worker'[u] = worker[u]

\* a finished run keeps its verdict or goes
Verdicts == \A r \in DOMAIN runs : runs[r].run \in {"completed", "failed"}
                                     => runs'[r].run \in {runs[r].run, "gone"}

\* A step that writes no row.
LEMMA NoRowWritten ==
  ASSUME TypeInv, RunsInv, runs' = runs, NEW t \in Tasks, Others(t),
         StageOK(t)', Alone(t)'
  PROVE  RunsInv' /\ Verdicts
<1>1. ASSUME NEW u \in Tasks, u # t PROVE StageOK(u)' /\ Alone(u)'
  BY <1>1 DEF RunsInv, StageOK, Alone, Row, Running, Others
<1> QED BY <1>1 DEF RunsInv, OneRunPerJob, Running, Verdicts

\* A step of an attempt that writes its own row.
LEMMA OwnRowWritten ==
  ASSUME TypeInv, RunsInv, NEW t \in Tasks, Others(t), worker[t].pc \in HasRow,
         NEW row \in RunRows, row.task = t, RowFine(row),
         runs' = [runs EXCEPT ![worker[t].row] = row],
         row.run = "running" => Row(t).run = "running" \/ worker[t].pc = "create",
         Row(t).run \in {"completed", "failed"} => row.run \in {Row(t).run, "gone"},
         StageOK(t)', Alone(t)'
  PROVE  RunsInv' /\ Verdicts
<1> DEFINE i == worker[t].row
<1>1. i \in DOMAIN runs /\ runs[i].task = t
  BY DEF TypeInv, WorkersOK, AttemptOK, Row
<1>2. /\ DOMAIN runs' = DOMAIN runs /\ runs'[i] = row
      /\ \A r \in DOMAIN runs : r # i => runs'[r] = runs[r]
  BY <1>1, RowWritten DEF TypeInv
<1>3. Row(t) = runs[i] BY DEF Row
<1> HIDE DEF i
<1>4. ASSUME NEW r \in DOMAIN runs PROVE RowFine(runs'[r])
  BY <1>2, <1>4 DEF RunsInv
<1>5. ASSUME NEW u \in Tasks, u # t PROVE StageOK(u)'
  <2>1. worker'[u] = worker[u] BY <1>5 DEF Others
  <2>2. ASSUME worker[u].pc \in HasRow PROVE Row(u)' = Row(u)
    <3>1. worker[u].row \in DOMAIN runs /\ runs[worker[u].row].task = u
      BY <2>2 DEF TypeInv, WorkersOK, AttemptOK, Row
    <3> QED BY <3>1, <2>1, <1>1, <1>2, <1>5 DEF Row
  <2> QED BY <2>1, <2>2 DEF RunsInv, StageOK
<1>6. ASSUME NEW u \in Tasks, u # t PROVE Alone(u)'
  <2>1. worker'[u] = worker[u] BY <1>6 DEF Others
  <2>2. ASSUME NEW r \in Running' PROVE r = i \/ (r \in Running /\ runs'[r] = runs[r])
    BY <1>2, <2>2 DEF Running
  <2>3. ASSUME worker[u].pc \in {"umbrella", "create"}, NEW r \in Running'
        PROVE  runs'[r].task # u
    <3>1. CASE r = i BY <1>2, <1>6, <3>1
    <3>2. CASE r \in Running /\ runs'[r] = runs[r] BY <2>3, <3>2 DEF RunsInv, Alone
    <3> QED BY <2>2, <2>3, <3>1, <3>2
  <2> QED BY <2>1, <2>3 DEF Alone
<1>7. OneRunPerJob'
  <2>1. ASSUME NEW r \in Running', NEW s \in Running', runs'[r].task = runs'[s].task
        PROVE  r = s
    <3>1. r \in DOMAIN runs /\ s \in DOMAIN runs BY <1>2, <2>1 DEF Running
    <3>2. CASE r # i /\ s # i
      BY <1>2, <2>1, <3>1, <3>2 DEF Running, RunsInv, OneRunPerJob
    <3>3. CASE r = i \/ s = i
      <4>1. row.run = "running" BY <1>2, <2>1, <3>3 DEF Running
      <4>2. CASE runs[i].run = "running"
        BY <1>1, <1>2, <2>1, <3>1, <3>3, <4>2 DEF Running, RunsInv, OneRunPerJob
      <4>3. CASE worker[t].pc = "create"
        BY <1>1, <1>2, <2>1, <3>1, <3>3, <4>3 DEF Running, RunsInv, Alone
      <4> QED BY <1>3, <4>1, <4>2, <4>3
    <3> QED BY <3>2, <3>3
  <2> QED BY <2>1 DEF OneRunPerJob
<1>8. Verdicts BY <1>2, <1>3 DEF Verdicts
<1> QED BY <1>2, <1>4, <1>5, <1>6, <1>7, <1>8 DEF RunsInv

\* what a statement of an admin does to a row: it stays, is cancelled while it
\* runs, or goes
Swept(v, w) ==
    /\ w.task = v.task
    /\ \/ w = v
       \/ v.run = "running" /\ w.run = "cancelled" /\ w.late = 0 /\ w.job = v.job
       \/ w.run = "gone" /\ w.late = v.late /\ w.job \in {v.job, "gone"}

\* Such a statement keeps every row fine and every attempt on a fine row.
LEMMA RowsSwept ==
  ASSUME TypeInv, RunsInv, worker' = worker, RowsOK', DOMAIN runs' = DOMAIN runs,
         \A r \in DOMAIN runs : Swept(runs[r], runs'[r])
  PROVE  RunsInv' /\ Verdicts
<1> USE RowsAreFunction DEF TypeInv
<1>1. ASSUME NEW r \in DOMAIN runs PROVE RowFine(runs'[r])
  <2>1. RowFine(runs[r]) /\ Swept(runs[r], runs'[r]) /\ runs[r] \in RunRows
    BY DEF RunsInv
  <2> QED BY <2>1 DEF RowFine, Swept, RunRows
<1>2. ASSUME NEW u \in Tasks PROVE StageOK(u)'
  <2> SUFFICES ASSUME worker[u].pc \in HasRow PROVE PointFine(worker[u].pc, Row(u)')
    BY DEF StageOK
  <2> DEFINE i == worker[u].row
  <2>1. i \in DOMAIN runs BY DEF WorkersOK, AttemptOK
  <2>2. Row(u) = runs[i] /\ Row(u)' = runs'[i] BY DEF Row
  <2>3. PointFine(worker[u].pc, runs[i]) BY <2>2 DEF RunsInv, StageOK
  <2>4. Swept(runs[i], runs'[i]) /\ runs[i] \in RunRows BY <2>1
  <2> HIDE DEF i
  <2> QED BY <2>2, <2>3, <2>4, Points DEF PointFine, Swept, RunRows, Pipeline
<1>3. ASSUME NEW r \in Running' PROVE r \in Running /\ runs'[r].task = runs[r].task
  <2>1. r \in DOMAIN runs /\ runs'[r].run = "running" /\ runs[r] \in RunRows
    BY <1>3 DEF Running
  <2> QED BY <2>1 DEF Swept, Running, RunRows
<1>4. ASSUME NEW u \in Tasks PROVE Alone(u)'
  BY <1>3 DEF RunsInv, Alone
<1>5. OneRunPerJob' BY <1>3 DEF RunsInv, OneRunPerJob
<1>6. Verdicts
  <2>1. ASSUME NEW r \in DOMAIN runs, runs[r].run \in {"completed", "failed"}
        PROVE  runs'[r].run \in {runs[r].run, "gone"}
    BY <2>1 DEF Swept
  <2> QED BY <2>1 DEF Verdicts
<1> QED BY <1>1, <1>2, <1>4, <1>5, <1>6 DEF RunsInv

\* An attempt that moves or returns without writing a row.
LEMMA QuietMove ==
  ASSUME TypeInv, RunsInv, runs' = runs, NEW t \in Tasks, NEW p \in ProgramPoints,
         Goto(t, p), p \in HasRow => PointFine(p, Row(t)),
         p \in {"umbrella", "create"} => Running = {}
  PROVE  RunsInv' /\ Verdicts
<1>1. /\ worker'[t].pc = p /\ worker'[t].row = worker[t].row /\ Others(t)
  BY GotoMoves DEF TypeInv, Others
<1>2. StageOK(t)' BY <1>1 DEF StageOK, Row
<1>3. Alone(t)' BY <1>1 DEF Alone, Running
<1> QED BY <1>1, <1>2, <1>3, NoRowWritten

\* An attempt that returns without writing a row.
LEMMA QuietReturn ==
  ASSUME TypeInv, RunsInv, runs' = runs, NEW t \in Tasks, Done(t) \/ Abort(t)
  PROVE  RunsInv' /\ Verdicts
<1>1. worker'[t].pc \in {"completed", "cancelled"} /\ Others(t)
  BY ReturnMoves DEF TypeInv, Others
<1>2. StageOK(t)' /\ Alone(t)' BY <1>1, Points DEF StageOK, Alone
<1> QED BY <1>1, <1>2, NoRowWritten

\* An attempt that writes its row and moves or returns.
LEMMA WrittenMove ==
  ASSUME TypeInv, RunsInv, NEW t \in Tasks, NEW p \in ProgramPoints,
         \/ Goto(t, p)
         \/ p \in {"completed", "cancelled"} /\ (Done(t) \/ Abort(t)),
         p \notin {"umbrella", "create"}, worker[t].pc \in HasRow,
         NEW row \in RunRows, row.task = t, RowFine(row),
         runs' = [runs EXCEPT ![worker[t].row] = row],
         row.run = "running" => Row(t).run = "running" \/ worker[t].pc = "create",
         Row(t).run \in {"completed", "failed"} => row.run \in {Row(t).run, "gone"},
         p \in HasRow => PointFine(p, row)
  PROVE  RunsInv' /\ Verdicts
<1>1. worker[t].row \in DOMAIN runs /\ runs'[worker[t].row] = row
  BY RowWritten DEF TypeInv, WorkersOK, AttemptOK
<1>2. CASE Goto(t, p)
  <2>1. worker'[t].pc = p /\ worker'[t].row = worker[t].row /\ Others(t)
    BY <1>2, GotoMoves DEF TypeInv, Others
  <2>2. StageOK(t)' /\ Alone(t)' BY <1>1, <2>1 DEF StageOK, Alone, Row
  <2> QED BY <2>1, <2>2, OwnRowWritten
<1>3. CASE Done(t) \/ Abort(t)
  <2>1. worker'[t].pc \in {"completed", "cancelled"} /\ Others(t)
    BY <1>3, ReturnMoves DEF TypeInv, Others
  <2>2. StageOK(t)' /\ Alone(t)' BY <2>1, Points DEF StageOK, Alone
  <2> QED BY <2>1, <2>2, OwnRowWritten
<1> QED BY <1>2, <1>3

\* What an attempt with a row may rely on.
LEMMA OwnRow ==
  ASSUME TypeInv, RunsInv, NEW t \in Tasks, worker[t].pc \in HasRow
  PROVE  /\ worker[t].row \in DOMAIN runs /\ Row(t) = runs[worker[t].row]
         /\ Row(t) \in RunRows /\ Row(t).task = t
         /\ RowFine(Row(t)) /\ PointFine(worker[t].pc, Row(t))
  BY RowsAreFunction DEF TypeInv, WorkersOK, AttemptOK, Row, RunsInv, StageOK

\* CreateJob: a row without a run.
LEMMA UmbrellaStep ==
  ASSUME TypeInv, RunsInv, NEW t \in Tasks, CreateUmbrella(t)
  PROVE  RunsInv' /\ Verdicts
<1> DEFINE row == [task |-> t, run |-> "absent", job |-> "running", late |-> -1]
           n == Len(runs) + 1
<1>1. CASE runs' = Append(runs, row) /\ worker' = [worker EXCEPT ![t].pc = "create",
                                                            ![t].row = Len(runs) + 1]
  <2>1. row \in RunRows /\ RowFine(row) /\ PointFine("create", row)
    BY Points DEF RunRows, RowFine, PointFine, Pipeline
  <2>2. /\ DOMAIN runs' = DOMAIN runs \cup {n} /\ n \notin DOMAIN runs /\ runs'[n] = row
        /\ \A r \in DOMAIN runs : runs'[r] = runs[r]
    BY <1>1, <2>1, RowAdded DEF TypeInv
  <2>3. worker' = [worker EXCEPT ![t].pc = "create", ![t].row = n] /\ row.run = "absent"
    BY <1>1
  <2>4. row.task = t OBVIOUS
  <2> HIDE DEF row, n
  <2>5. /\ worker'[t].pc = "create" /\ worker'[t].row = n
        /\ \A u \in Tasks : u # t => worker'[u] = worker[u]
    BY <2>3 DEF TypeInv, WorkersOK, AttemptOK, Attempts
  <2>6. Running' = Running /\ \A r \in Running : runs'[r] = runs[r]
    BY <2>2, <2>3 DEF Running
  <2>7. \A r \in DOMAIN runs' : RowFine(runs'[r]) BY <2>1, <2>2 DEF RunsInv
  <2>8. StageOK(t)' BY <2>1, <2>2, <2>5 DEF StageOK, Row
  <2>9. Alone(t)'
    <3>1. worker[t].pc = "umbrella" BY DEF CreateUmbrella, At
    <3> QED BY <2>6, <3>1 DEF RunsInv, Alone
  <2>10. ASSUME NEW u \in Tasks, u # t PROVE StageOK(u)' /\ Alone(u)'
    <3>1. worker'[u] = worker[u] BY <2>5, <2>10
    <3>2. worker[u].pc \in HasRow => Row(u)' = Row(u)
      BY <2>2, <3>1 DEF TypeInv, WorkersOK, AttemptOK, Row
    <3> QED BY <2>6, <3>1, <3>2 DEF RunsInv, StageOK, Alone
  <2>11. OneRunPerJob' BY <2>6 DEF RunsInv, OneRunPerJob
  <2>12. Verdicts BY <2>2 DEF Verdicts
  <2> QED BY <2>7, <2>8, <2>9, <2>10, <2>11, <2>12 DEF RunsInv
<1> QED BY <1>1, QuietReturn DEF CreateUmbrella

\* Every step keeps the rows fine and the verdicts.
LEMMA RunsStep == TypeInv /\ RunsInv /\ [Next]_vars => RunsInv' /\ Verdicts
<1> SUFFICES ASSUME TypeInv, RunsInv, [Next]_vars PROVE RunsInv' /\ Verdicts
  OBVIOUS
<1>1. CASE worker' = worker /\ runs' = runs
  BY <1>1, RowsSwept DEF TypeInv, RowsOK, Swept
<1>2. ASSUME NEW t \in Tasks, CreateRun(t) PROVE RunsInv' /\ Verdicts
  <2> DEFINE row == [Row(t) EXCEPT !.run = "running"]
  <2>1. worker[t].pc = "create" /\ "create" \in HasRow BY <1>2, Points DEF CreateRun, At
  <2>2. /\ worker[t].row \in DOMAIN runs /\ Row(t) = runs[worker[t].row]
        /\ Row(t) \in RunRows /\ Row(t).task = t /\ PointFine("create", Row(t))
    BY <2>1, OwnRow
  <2>3. CASE Row(t).job # "gone" /\ Goto(t, "generate")
             /\ runs' = [runs EXCEPT ![worker[t].row].run = "running"]
    <3>1. /\ row \in RunRows /\ row.task = t /\ RowFine(row)
          /\ row.run = "running" /\ PointFine("generate", row)
      BY <2>2, <2>3, Points DEF PointFine, RowFine, RunRows
    <3>2. runs' = [runs EXCEPT ![worker[t].row] = row] BY <2>2, <2>3
    <3>3. Row(t).run \notin {"completed", "failed"} BY <2>2 DEF PointFine
    <3> HIDE DEF row
    <3> QED BY <2>1, <2>3, <3>1, <3>2, <3>3, Points, WrittenMove
  <2>4. CASE runs' = runs /\ Goto(t, "umbrellaFailed")
    <3>1. PointFine("umbrellaFailed", Row(t)) BY <2>2, Points DEF PointFine, Pipeline
    <3> QED BY <2>4, <3>1, Points, QuietMove
  <2> QED BY <1>2, <2>3, <2>4 DEF CreateRun
<1>3. ASSUME NEW t \in Tasks, FailUmbrella(t) PROVE RunsInv' /\ Verdicts
  <2> DEFINE row == [Row(t) EXCEPT !.job = IF @ = "gone" THEN @ ELSE "failed"]
  <2>1. worker[t].pc = "umbrellaFailed" /\ "umbrellaFailed" \in HasRow /\ Abort(t)
    BY <1>3, Points DEF FailUmbrella, At
  <2>2. /\ worker[t].row \in DOMAIN runs /\ Row(t) = runs[worker[t].row]
        /\ Row(t) \in RunRows /\ Row(t).task = t /\ RowFine(Row(t))
        /\ PointFine("umbrellaFailed", Row(t))
    BY <2>1, OwnRow
  <2>3. CASE runs' = [runs EXCEPT ![worker[t].row].job =
                        IF @ = "gone" THEN @ ELSE "failed"]
    <3>1. /\ row \in RunRows /\ row.task = t /\ row.run = Row(t).run
          /\ row.late = Row(t).late /\ row.job \in {"gone", "failed"}
      BY <2>2 DEF RunRows
    <3>2. Row(t).run \in {"absent", "gone"} BY <2>2 DEF PointFine
    <3>3. RowFine(row) BY <2>2, <3>1, <3>2 DEF RowFine
    <3>4. runs' = [runs EXCEPT ![worker[t].row] = row] BY <2>2, <2>3
    <3> HIDE DEF row
    <3> QED BY <2>1, <3>1, <3>2, <3>3, <3>4, Points, WrittenMove
  <2> QED BY <1>3, <2>1, <2>3, QuietReturn DEF FailUmbrella
<1>4. ASSUME NEW t \in Tasks, Start(t) \/ CheckRate(t) PROVE RunsInv' /\ Verdicts
  BY <1>4, Points, QuietMove, QuietReturn DEF Start, CheckRate
<1>5. ASSUME NEW t \in Tasks, CheckRunning(t) PROVE RunsInv' /\ Verdicts
  BY <1>5, Points, QuietMove, QuietReturn DEF CheckRunning
<1>6. ASSUME NEW t \in Tasks, worker[t].pc \in Pipeline,
             NEW p \in Pipeline \ {"call", "persist"}, Goto(t, p), runs' = runs
      PROVE  RunsInv' /\ Verdicts
  <2>1. PointFine(p, Row(t)) BY <1>6, OwnRow, Points DEF PointFine, Pipeline
  <2> QED BY <1>6, <2>1, Points, QuietMove DEF Pipeline
<1>7. ASSUME NEW t \in Tasks, Generate(t) \/ ListKeys(t) PROVE RunsInv' /\ Verdicts
  BY <1>6, <1>7, Points, QuietReturn DEF Generate, ListKeys, At, AfterTries, Pipeline
<1>8. ASSUME NEW t \in Tasks, CheckCancelled(t) PROVE RunsInv' /\ Verdicts
  <2>1. worker[t].pc \in Pipeline /\ worker[t].pc \in HasRow
    BY <1>8, Points DEF CheckCancelled, Pipeline
  <2>2. ASSUME Row(t).run \notin {"cancelled", "gone"}, Goto(t, AfterCheck[worker[t].pc]),
               worker[t].pc \in DOMAIN AfterCheck, runs' = runs
        PROVE  RunsInv' /\ Verdicts
    <3>1. Row(t).run = "running" /\ Row(t).late = -1
      BY <2>1, <2>2, OwnRow DEF PointFine, RowFine
    <3>2. \A p \in Pipeline : PointFine(p, Row(t))
      BY <3>1, Points DEF PointFine, Pipeline
    <3>3. AfterCheck[worker[t].pc] \in Pipeline BY <2>2, Points DEF Pipeline
    <3> QED BY <2>2, <3>2, <3>3, Points, QuietMove DEF Pipeline
  <2> QED BY <1>8, <2>2, QuietReturn DEF CheckCancelled
<1>9. ASSUME NEW t \in Tasks, worker[t].pc \in {"call", "persist"}, runs' = Stage(t),
             NEW p \in Pipeline \ {"call", "persist"}, NEW w \in Attempts,
             w.pc = p, w.row = worker[t].row, worker' = [worker EXCEPT ![t] = w]
      PROVE  RunsInv' /\ Verdicts
  <2> DEFINE row == [Row(t) EXCEPT !.late = IF @ >= 0 THEN @ + 1 ELSE @]
  <2>1. worker[t].pc \in HasRow /\ worker[t].pc \in Pipeline BY <1>9, Points DEF Pipeline
  <2>2. /\ worker[t].row \in DOMAIN runs /\ Row(t) = runs[worker[t].row]
        /\ Row(t) \in RunRows /\ Row(t).task = t /\ RowFine(Row(t))
        /\ Row(t).run \in {"running", "cancelled", "gone"} /\ Row(t).late <= 0
    BY <1>9, <2>1, OwnRow DEF PointFine
  <2>3. /\ row \in RunRows /\ row.task = t /\ row.run = Row(t).run /\ row.job = Row(t).job
        /\ row.late <= 1 /\ (row.run = "running" => row.late = -1)
    BY <2>2 DEF RunRows, RowFine
  <2>4. RowFine(row) /\ PointFine(p, row)
    BY <1>9, <2>2, <2>3, Points DEF RowFine, PointFine, Pipeline
  <2>5. runs' = [runs EXCEPT ![worker[t].row] = row] BY <1>9, <2>2 DEF Stage
  <2> HIDE DEF row
  <2>6. worker'[t] = w /\ Others(t)
    BY <1>9 DEF TypeInv, WorkersOK, Others
  <2>7. StageOK(t)' /\ Alone(t)'
    <3>1. Row(t)' = row BY <1>9, <2>2, <2>5, <2>6, RowWritten, <2>3 DEF Row, TypeInv
    <3> QED BY <1>9, <2>4, <2>6, <3>1, Points DEF StageOK, Alone, Pipeline
  <2> QED BY <2>1, <2>2, <2>3, <2>4, <2>5, <2>6, <2>7, OwnRowWritten
<1>10. ASSUME NEW t \in Tasks, BackfillCall(t) PROVE RunsInv' /\ Verdicts
  <2>1. worker[t].pc = "call" /\ runs' = Stage(t) BY <1>10 DEF BackfillCall, At
  <2> DEFINE n == worker[t].tries + 1
  <2>2. PICK p \in AfterTries(n) :
            worker' = [worker EXCEPT ![t].pc = p, ![t].tries = n]
    BY <1>10 DEF BackfillCall
  <2>3. n \in 0..BackfillMax
    BY <2>1, SuggestionAssumption
    DEF TypeInv, WorkersOK, AttemptOK, Attempts, TriesOK, InBackfill
  <2>4. p \in Pipeline \ {"call", "persist"} /\ p \in ProgramPoints
    BY Points DEF AfterTries, Pipeline
  <2> HIDE DEF n
  <2> DEFINE w == [worker[t] EXCEPT !.pc = p, !.tries = n]
  <2>5. w \in Attempts /\ w.pc = p /\ w.row = worker[t].row
    BY <2>3, <2>4 DEF TypeInv, WorkersOK, AttemptOK, Attempts
  <2>6. worker' = [worker EXCEPT ![t] = w] BY <2>2 DEF TypeInv, WorkersOK
  <2> HIDE DEF w
  <2> QED BY <1>9, <2>1, <2>4, <2>5, <2>6
<1>11. ASSUME NEW t \in Tasks, Persist(t) PROVE RunsInv' /\ Verdicts
  <2>1. worker[t].pc = "persist" BY <1>11 DEF Persist, At
  <2>2. CASE runs' = Stage(t) /\ Goto(t, "complete")
    <3> DEFINE w == [worker[t] EXCEPT !.pc = "complete"]
    <3>1. w \in Attempts /\ w.pc = "complete" /\ w.row = worker[t].row
      BY Points DEF TypeInv, WorkersOK, AttemptOK, Attempts
    <3>2. worker' = [worker EXCEPT ![t] = w] BY <2>2 DEF Goto
    <3>3. "complete" \in Pipeline \ {"call", "persist"} BY Points DEF Pipeline
    <3> HIDE DEF w
    <3> QED BY <1>9, <2>1, <2>2, <3>1, <3>2, <3>3
  <2>3. CASE runs' = runs /\ Goto(t, "fail")
    BY <1>6, <2>1, <2>3, Points DEF Pipeline
  <2> QED BY <1>11, <2>2, <2>3 DEF Persist
<1>12. ASSUME NEW t \in Tasks, worker[t].pc \in {"complete", "fail"},
              NEW status \in {"completed", "failed"}, Row(t).run # "gone",
              FinishRun(t, status), Done(t) \/ Abort(t)
       PROVE  RunsInv' /\ Verdicts
  <2> DEFINE row == [Row(t) EXCEPT !.run = status, !.job = status]
  <2>1. worker[t].pc \in HasRow /\ worker[t].pc \in Pipeline BY <1>12, Points DEF Pipeline
  <2>2. /\ worker[t].row \in DOMAIN runs /\ Row(t) = runs[worker[t].row]
        /\ Row(t) \in RunRows /\ Row(t).task = t /\ RowFine(Row(t))
        /\ Row(t).run \in {"running", "cancelled", "gone"}
    BY <2>1, OwnRow DEF PointFine
  <2>3. /\ row \in RunRows /\ row.task = t /\ row.run = status /\ row.job = status
        /\ row.late = Row(t).late
    BY <1>12, <2>2 DEF RunRows
  <2>4. RowFine(row) BY <1>12, <2>2, <2>3 DEF RowFine
  <2>5. runs' = [runs EXCEPT ![worker[t].row] = row]
    BY <1>12, <2>2, RowsAreFunction DEF FinishRun, TypeInv
  <2> HIDE DEF row
  <2> QED BY <1>12, <2>1, <2>2, <2>3, <2>4, <2>5, Points, WrittenMove
<1>13. ASSUME NEW t \in Tasks, Complete(t) \/ Fail(t) PROVE RunsInv' /\ Verdicts
  BY <1>12, <1>13, QuietReturn DEF Complete, Fail, At
<1>14. ASSUME NEW t \in Tasks, EndJob(t) \/ ContextDies(t) PROVE RunsInv' /\ Verdicts
  <2>1. CASE EndJob(t)
    <3>1. worker'[t] = NoAttempt /\ Others(t) /\ runs' = runs
      BY <2>1 DEF EndJob, TypeInv, WorkersOK, Others
    <3>2. StageOK(t)' /\ Alone(t)' BY <3>1, Points DEF StageOK, Alone, NoAttempt
    <3> QED BY <3>1, <3>2, NoRowWritten
  <2>2. CASE ContextDies(t)
    BY <1>6, <2>2, Points, QuietReturn DEF ContextDies, At, Pipeline
  <2> QED BY <1>14, <2>1, <2>2
<1>15. CASE Crash
  <2>1. runs' = runs /\ \A u \in Tasks : worker'[u] = NoAttempt
    BY <1>15 DEF Crash
  <2>2. \A u \in Tasks : StageOK(u)' /\ Alone(u)'
    BY <2>1, Points DEF StageOK, Alone, NoAttempt
  <2> QED BY <2>1, <2>2 DEF RunsInv, OneRunPerJob, Running, Verdicts
<1>16. ASSUME NEW r \in DOMAIN runs, CancelRun(r) PROVE RunsInv' /\ Verdicts
  <2> DEFINE row == [runs[r] EXCEPT !.run = "cancelled", !.late = 0]
  <2>1. row \in RunRows /\ Swept(runs[r], row)
    BY <1>16, RowsAreFunction DEF TypeInv, RunRows, CancelRun, Swept
  <2>2. runs' = [runs EXCEPT ![r] = row] /\ worker' = worker
    BY <1>16, RowsAreFunction DEF CancelRun, TypeInv
  <2> HIDE DEF row
  <2> QED BY <2>1, <2>2, RowWritten, RowsSwept DEF TypeInv, Swept
<1>17. ASSUME NEW r \in DOMAIN runs, DeleteUmbrella(r) PROVE RunsInv' /\ Verdicts
  <2> DEFINE row == [runs[r] EXCEPT !.job = "gone", !.run = "gone"]
  <2>1. row \in RunRows /\ Swept(runs[r], row)
    BY RowsAreFunction DEF TypeInv, RunRows, Swept
  <2>2. runs' = [runs EXCEPT ![r] = row] /\ worker' = worker
    BY <1>17, RowsAreFunction DEF DeleteUmbrella, TypeInv
  <2> HIDE DEF row
  <2> QED BY <2>1, <2>2, RowWritten, RowsSwept DEF TypeInv, Swept
<1>18. CASE ClearFinished
  <2>1. RowsOK' /\ worker' = worker /\ DOMAIN runs' = DOMAIN runs
    BY <1>18, RowsStayOK DEF ClearFinished
  <2>2. ASSUME NEW r \in DOMAIN runs PROVE Swept(runs[r], runs'[r])
    <3>1. runs[r] \in RunRows BY RowsAreFunction DEF TypeInv
    <3>2. runs'[r] = [runs[r] EXCEPT !.run =
              IF @ \in {"completed", "failed", "cancelled"} THEN "gone" ELSE @]
      BY <1>18 DEF ClearFinished
    <3> QED BY <3>1, <3>2 DEF Swept, RunRows
  <2> QED BY <2>1, <2>2, RowsSwept
<1>19. CASE \E t \in Tasks : AskRate(t) \/ AskRunning(t) \/ Insert(t)
  BY <1>1, <1>19 DEF AskRate, AskRunning, Insert
<1>20. CASE UNCHANGED vars BY <1>1, <1>20 DEF vars
<1> QED
  BY <1>2, <1>3, <1>4, <1>5, <1>7, <1>8, <1>10, <1>11, <1>13, <1>14, <1>15, <1>16,
     <1>17, <1>18, <1>19, <1>20, UmbrellaStep
  DEF Next, Work

------------------------------------------------------------------------------
(* The theorems *)

\* The rows are fine at the start: there are none.
LEMMA RunsStart == Init => RunsInv
  BY Points DEF Init, RunsInv, StageOK, Alone, OneRunPerJob, Running, NoAttempt

\* The invariant behind the safety properties.
LEMMA FullInvariant == Spec => [](TypeOK /\ TypeInv /\ RunsInv)
<1>1. Init => TypeOK /\ TypeInv /\ RunsInv BY TypesStart, RunsStart
<1>2. TypeOK /\ TypeInv /\ RunsInv /\ [Next]_vars => (TypeOK /\ TypeInv /\ RunsInv)'
  BY TypeStep, RunsStep
<1> QED BY <1>1, <1>2, PTL DEF Spec

\* However often a River job is run again, at most one of its runs is running.
THEOREM OneRunEach == Spec => []OneRunPerJob
<1>1. RunsInv => OneRunPerJob BY DEF RunsInv
<1> QED BY <1>1, FullInvariant, PTL

\* After CancelRun at most one more stage of the pipeline begins.
THEOREM CancelStops == Spec => []CancelStopsRun
<1>1. RunsInv => CancelStopsRun BY DEF RunsInv, RowFine, CancelStopsRun
<1> QED BY <1>1, FullInvariant, PTL

\* The umbrella row says completed or failed exactly when the run ended so.
THEOREM HistoryIsHonest == Spec => []HistoryAgrees
<1>1. RunsInv => HistoryAgrees BY DEF RunsInv, RowFine, HistoryAgrees
<1> QED BY <1>1, FullInvariant, PTL

\* No step rewrites the verdict of a finished run.
THEOREM VerdictIsFinal == Spec => VerdictSticks
<1>1. TypeOK /\ TypeInv /\ RunsInv /\ [Next]_vars =>
        [\A r \in DOMAIN runs : runs[r].run \in {"completed", "failed"}
                                  => runs'[r].run \in {runs[r].run, "gone"}]_vars
  BY RunsStep DEF Verdicts
<1> QED BY <1>1, FullInvariant, PTL DEF Spec, VerdictSticks
=============================================================================
