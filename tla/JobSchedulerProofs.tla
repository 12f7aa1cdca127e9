------------------------ MODULE JobSchedulerProofs ------------------------
(***************************************************************************)
(* For every set of kinds and cron periods, every number of Run now        *)
(* requests and every bound on edits, failures and crashes: a due time is  *)
(* served once, a row that says running is somebody's, and a kind that is  *)
(* switched off rests.                                                     *)
(*                                                                         *)
(* What the tick has read may be stale, but of the schedules it has yet to *)
(* fire one thing stays true: no stamp has reached their due time          *)
(* (Listed).  A due time that was served is either stamped over or about   *)
(* to be, and where it is neither a failure or a crash has been counted    *)
(* (Counted).                                                              *)
(***************************************************************************)
EXTENDS JobScheduler, FiniteSetTheorems, TLAPS

Schedule == [there : BOOLEAN, cron : Crons \cup {1}, enabled : BOOLEAN, base : 0..MaxTime]
Job == [kind : Kinds \cup {NoKind}, running : BOOLEAN, at : 0..MaxTime]
Ticker == [pc : {"idle", "create", "hook", "finish", "stamp"}, todo : SUBSET Kinds,
           due : [Kinds -> 0..MaxTime], job : JobIDs \cup {NoJob}, ok : BOOLEAN]
Request == [pc : {"idle", "create", "hook", "finish", "ended"}, kind : Kinds \cup {NoKind},
            job : JobIDs \cup {NoJob}]

\* only the hook and the end of a run have a row to finish
Owners ==
    /\ tick.pc \in {"idle", "create", "stamp"} => tick.job = NoJob
    /\ \A p \in Presses : press[p].pc \notin {"hook", "finish"} => press[p].job = NoJob
    /\ tick.pc = "idle" => tick.todo = {}
    /\ tick.pc = "stamp" => tick.ok

\* what a tick has yet to fire lies after the last stamp
Listed == \A k \in tick.todo : /\ schedules[k].there
                               /\ schedules[k].base < tick.due[k] /\ tick.due[k] <= clock
Stamps == \A k \in Kinds : schedules[k].base <= clock

\* the hook of k ran in this tick; it is yet to run
Ran(k)    == Fires(k) /\ tick.pc \in {"finish", "stamp"} /\ tick.ok
ToRun(k)  == k \in tick.todo /\ ~(Fires(k) /\ tick.pc \in {"finish", "stamp"})

\* a due time that has been served and not been stamped is in the tick's hands
Counted(k, d) ==
    done[k][d] <= faults + crashes +
        (IF (schedules[k].there /\ d <= schedules[k].base) \/ (Ran(k) /\ tick.due[k] = d)
         THEN 1 ELSE 0)

\* a kind that is off has run, or may still run once
Resting(k) ==
    /\ ~schedules[k].enabled => quiet[k] + (IF ToRun(k) THEN 1 ELSE 0) <= 1
    /\ schedules[k].enabled /\ k \notin DefaultOn => quiet[k] = -1

Invariant ==
    /\ TypeOK /\ Owners /\ Listed /\ Stamps
    /\ \A k \in Kinds : Resting(k) /\ \A d \in 1..MaxTime : Counted(k, d)
    /\ RunningRowsOwned

------------------------------------------------------------------------------
(* Due times *)

\* cron's Next lies after the time it is asked about
LEMMA NextDueLater ==
    ASSUME NEW c \in Nat \ {0}, NEW t \in Nat
    PROVE  NextDue(c, t) \in Nat /\ t < NextDue(c, t)
<1>1. c \in Int /\ c > 0 /\ t \in Int /\ t >= 0 OBVIOUS
<1>2. t < c * ((t \div c) + 1) BY ONLY <1>1, Z3
<1>3. PICK q \in Nat : q = t \div c OBVIOUS
<1>4. t < c * (q + 1) /\ NextDue(c, t) = (q + 1) * c BY <1>2, <1>3 DEF NextDue
<1>5. (q + 1) * c = c * (q + 1) /\ c * (q + 1) \in Nat OBVIOUS
<1> QED BY <1>4, <1>5

\* a schedule fires after its last stamp, and the clock has got there
LEMMA DueTimes ==
    ASSUME TypeOK, NEW k \in Kinds, Due(k)
    PROVE  /\ NextDue(schedules[k].cron, schedules[k].base) \in 0..MaxTime
           /\ schedules[k].base < NextDue(schedules[k].cron, schedules[k].base)
           /\ NextDue(schedules[k].cron, schedules[k].base) <= clock
<1>1. schedules \in [Kinds -> Schedule] /\ clock \in 0..MaxTime /\ MaxTime \in Nat
  BY SchedulerAssumption DEF TypeOK, Schedule
<1>2. schedules[k].cron \in Nat \ {0} /\ schedules[k].base \in Nat
  <2>1. schedules[k] \in Schedule BY <1>1
  <2>2. schedules[k].cron \in Crons \cup {1} /\ schedules[k].base \in 0..MaxTime
    BY <2>1 DEF Schedule
  <2>3. \A c \in Crons : c \in Nat \ {0} BY SchedulerAssumption
  <2> QED BY <1>1, <2>2, <2>3
<1> QED BY <1>1, <1>2, NextDueLater DEF Due

------------------------------------------------------------------------------
(* The tick *)

\* Of the kinds a tick has left, one is first.
LEMMA OneFires ==
    ASSUME TypeOK, NEW j \in Kinds, NEW k \in Kinds, Fires(j), Fires(k)
    PROVE  j = k
BY SchedulerAssumption DEF Fires, First

\* the run of a kind gets on
LEMMA FireMoves ==
    ASSUME TypeOK, NEW pc \in {"hook", "finish", "stamp"}, NEW i \in JobIDs \cup {NoJob},
           NEW ok \in BOOLEAN, Fire(pc, i, ok)
    PROVE  /\ tick' \in Ticker /\ tick'.pc = pc /\ tick'.job = i /\ tick'.ok = ok
           /\ tick'.todo = tick.todo /\ tick'.due = tick.due
<1>1. tick \in Ticker BY DEF TypeOK, Ticker
<1> QED BY <1>1 DEF Fire, Ticker

\* A ticker that sleeps, a request that was not sent and a row that is free are well typed.
LEMMA AsleepTyped == Asleep \in Ticker /\ Unsent \in Request /\ Free \in Job
BY SchedulerAssumption DEF Asleep, Unsent, Free, Ticker, Request, Job

\* the tick goes on to the next kind
LEMMA ProceedMoves ==
    ASSUME TypeOK, Proceed
    PROVE  /\ tick' \in Ticker /\ tick'.pc \in {"idle", "create"} /\ tick'.job = NoJob
           /\ tick'.pc = "idle" => tick'.todo = {}
           /\ \E k \in Kinds : Fires(k) /\ tick'.todo = tick.todo \ {k}
           /\ \A j \in tick'.todo : tick'.due[j] = tick.due[j]
<1>1. tick \in Ticker /\ Asleep \in Ticker BY AsleepTyped DEF TypeOK, Ticker
<1>2. PICK k \in Kinds :
        /\ Fires(k)
        /\ tick' = IF tick.todo = {k} THEN Asleep
                   ELSE [Asleep EXCEPT !.pc = "create", !.todo = tick.todo \ {k},
                                       !.due = tick.due]
  BY DEF Proceed
<1>3. CASE tick.todo = {k} BY <1>1, <1>2, <1>3 DEF Asleep
<1>4. CASE tick.todo # {k} BY <1>1, <1>2, <1>4 DEF Asleep, Ticker
<1> QED BY <1>3, <1>4

\* a tick begins
LEMMA ListMoves ==
    ASSUME TypeOK, ListSchedules
    PROVE  /\ tick' \in Ticker /\ tick'.pc = "create" /\ tick'.job = NoJob
           /\ tick'.todo = {k \in Kinds : Due(k)}
           /\ \A k \in tick'.todo : tick'.due[k] = NextDue(schedules[k].cron, schedules[k].base)
<1> DEFINE due == [k \in Kinds |-> IF Due(k) THEN NextDue(schedules[k].cron, schedules[k].base)
                                   ELSE 0]
<1>1. due \in [Kinds -> 0..MaxTime] BY DueTimes, SchedulerAssumption
<1>2. \A k \in Kinds : Due(k) => due[k] = NextDue(schedules[k].cron, schedules[k].base)
  OBVIOUS
<1>3. tick' = [Asleep EXCEPT !.pc = "create", !.todo = {k \in Kinds : Due(k)}, !.due = due]
  BY DEF ListSchedules
<1> HIDE DEF due
<1> QED BY <1>1, <1>2, <1>3 DEF Asleep, Ticker

\* a request gets on
LEMMA PressedMoves ==
    ASSUME TypeOK, NEW p \in Presses, NEW pc \in {"idle", "create", "hook", "finish", "ended"},
           NEW i \in JobIDs \cup {NoJob}, Pressed(p, pc, i)
    PROVE  /\ press' \in [Presses -> Request] /\ press'[p].pc = pc /\ press'[p].job = i
           /\ \A q \in Presses \ {p} : press'[q] = press[q]
<1>1. press \in [Presses -> Request] BY DEF TypeOK, Request
<1> QED BY <1>1 DEF Pressed, Request

------------------------------------------------------------------------------
(* The tables *)

\* a statement may fail within the bound on faults
LEMMA FaultsFit ==
    ASSUME TypeOK, Fault \/ UNCHANGED faults
    PROVE  faults' \in 0..MaxFaults
BY SchedulerAssumption DEF TypeOK, Fault

\* an upsert leaves the stamp of a row that is there
LEMMA UpsertMoves ==
    ASSUME TypeOK, NEW k \in Kinds, NEW c \in Crons, NEW on \in BOOLEAN, Upsert(k, c, on)
    PROVE  /\ schedules' \in [Kinds -> Schedule]
           /\ schedules'[k].there /\ schedules'[k].enabled = on
           /\ schedules'[k].base = IF schedules[k].there THEN schedules[k].base ELSE clock
           /\ \A j \in Kinds \ {k} : schedules'[j] = schedules[j]
<1>1. schedules \in [Kinds -> Schedule] /\ clock \in 0..MaxTime BY DEF TypeOK, Schedule
<1> DEFINE base == IF schedules[k].there THEN schedules[k].base ELSE clock
           new == [there |-> TRUE, cron |-> c, enabled |-> on, base |-> base]
<1>2. base \in 0..MaxTime BY <1>1 DEF Schedule
<1>3. schedules' = [schedules EXCEPT ![k] = new] BY <1>1 DEF Upsert
<1> HIDE DEF base
<1>4. new \in Schedule /\ new.there /\ new.enabled = on /\ new.base = base
  BY <1>2 DEF Schedule
<1> HIDE DEF new
<1>5. /\ schedules' \in [Kinds -> Schedule] /\ schedules'[k] = new
      /\ \A j \in Kinds \ {k} : schedules'[j] = schedules[j]
  BY <1>1, <1>3, <1>4
<1> QED BY <1>4, <1>5 DEF base

\* the seeding is an upsert of the defaults
LEMMA SeedMoves ==
    ASSUME TypeOK, NEW k \in Kinds, Upsert(k, DefaultCron[k], k \in DefaultOn)
    PROVE  /\ schedules' \in [Kinds -> Schedule]
           /\ schedules'[k].there /\ (schedules'[k].enabled <=> k \in DefaultOn)
           /\ schedules'[k].base = IF schedules[k].there THEN schedules[k].base ELSE clock
           /\ \A j \in Kinds \ {k} : schedules'[j] = schedules[j]
<1>1. DefaultCron[k] \in Crons BY SchedulerAssumption
<1>2. CASE k \in DefaultOn
  <2>1. Upsert(k, DefaultCron[k], TRUE) BY <1>2 DEF Upsert
  <2> QED BY <1>1, <1>2, <2>1, UpsertMoves
<1>3. CASE k \notin DefaultOn
  <2>0. (k \in DefaultOn) = FALSE BY <1>3
  <2>1. Upsert(k, DefaultCron[k], FALSE) BY <2>0, Zenon DEF Upsert
  <2> QED BY <1>1, <1>3, <2>1, UpsertMoves
<1> QED BY <1>2, <1>3

\* a stamp is the present time
LEMMA StampMoves ==
    ASSUME TypeOK, NEW k \in Kinds, schedules' = [schedules EXCEPT ![k].base = clock]
    PROVE  /\ schedules' \in [Kinds -> Schedule] /\ schedules'[k].base = clock
           /\ \A j \in Kinds : /\ schedules'[j].there = schedules[j].there
                               /\ schedules'[j].enabled = schedules[j].enabled
                               /\ j # k => schedules'[j].base = schedules[j].base
<1>1. schedules \in [Kinds -> Schedule] /\ clock \in 0..MaxTime BY DEF TypeOK, Schedule
<1> QED BY <1>1 DEF Schedule

\* a row of jobs is made, or goes
LEMMA CreateMoves ==
    ASSUME TypeOK, NEW i \in FreeIDs, NEW k \in Kinds \cup {NoKind}, CreateJob(i, k)
    PROVE  /\ jobs' \in [JobIDs -> Job] /\ i \in JobIDs
           /\ \A j \in JobIDs \ {i} : jobs'[j] = jobs[j]
<1>1. jobs \in [JobIDs -> Job] /\ clock \in 0..MaxTime /\ i \in JobIDs
  BY DEF TypeOK, Job, FreeIDs
<1> QED BY <1>1 DEF CreateJob, Job

\* Finishing a job stops its row and starts none.
LEMMA FinishMoves ==
    ASSUME TypeOK, NEW i, MarkFinished(i)
    PROVE  /\ jobs' \in [JobIDs -> Job]
           /\ \A j \in JobIDs : jobs'[j].running => j # i /\ jobs[j].running
<1>1. jobs \in [JobIDs -> Job] /\ Free \in Job /\ ~Free.running
  BY AsleepTyped DEF TypeOK, Job, Free
<1> QED BY <1>1 DEF MarkFinished

\* a hook that ran is counted
LEMMA ServedMoves ==
    ASSUME TypeOK, NEW k \in Kinds, NEW d \in 1..MaxTime, Served(k, d)
    PROVE  /\ done' \in [Kinds -> [1..MaxTime -> Nat]] /\ quiet' \in [Kinds -> Nat \cup {-1}]
           /\ done'[k][d] = done[k][d] + 1
           /\ \A j \in Kinds, e \in 1..MaxTime : j # k \/ e # d => done'[j][e] = done[j][e]
           /\ quiet'[k] = IF quiet[k] = -1 THEN -1 ELSE quiet[k] + 1
           /\ \A j \in Kinds \ {k} : quiet'[j] = quiet[j]
<1>1. done \in [Kinds -> [1..MaxTime -> Nat]] /\ quiet \in [Kinds -> Nat \cup {-1}]
  BY DEF TypeOK
<1> DEFINE n   == done[k][d] + 1
           row == [done[k] EXCEPT ![d] = n]
<1>2. done[k] \in [1..MaxTime -> Nat] /\ n \in Nat
  <2>1. done[k] \in [1..MaxTime -> Nat] BY <1>1
  <2>2. done[k][d] \in Nat BY <2>1
  <2> QED BY <2>1, <2>2
<1>3. done' = [done EXCEPT ![k] = row] BY <1>1 DEF Served
<1> HIDE DEF n
<1>7. /\ row \in [1..MaxTime -> Nat] /\ row[d] = n
      /\ \A e \in 1..MaxTime : e # d => row[e] = done[k][e]
  BY <1>2
<1> HIDE DEF row
<1>4. /\ done' \in [Kinds -> [1..MaxTime -> Nat]]
      /\ done'[k][d] = done[k][d] + 1
      /\ \A j \in Kinds, e \in 1..MaxTime : j # k \/ e # d => done'[j][e] = done[j][e]
  BY <1>1, <1>3, <1>7 DEF n
<1>5. quiet' = IF quiet[k] = -1 THEN quiet ELSE [quiet EXCEPT ![k] = @ + 1] BY DEF Served
<1>6. /\ quiet' \in [Kinds -> Nat \cup {-1}]
      /\ quiet'[k] = IF quiet[k] = -1 THEN -1 ELSE quiet[k] + 1
      /\ \A j \in Kinds \ {k} : quiet'[j] = quiet[j]
  BY <1>1, <1>5
<1> QED BY <1>4, <1>6

\* every step keeps every type
LEMMA TypesKept ==
    ASSUME TypeOK, Listed, [Next]_vars
    PROVE  TypeOK'
<1> DEFINE Tables == /\ clock \in 0..MaxTime /\ schedules \in [Kinds -> Schedule]
                     /\ jobs \in [JobIDs -> Job]
                     /\ boot \in [todo : SUBSET Kinds, seed : BOOLEAN]
                     /\ tick \in Ticker /\ press \in [Presses -> Request]
                     /\ done \in [Kinds -> [1..MaxTime -> Nat]]
                     /\ quiet \in [Kinds -> Nat \cup {-1}]
                     /\ edits \in 0..MaxEdits /\ faults \in 0..MaxFaults
                     /\ crashes \in 0..MaxCrashes
<1> SUFFICES Tables' BY DEF TypeOK, Schedule, Job, Ticker, Request
<1>1. Tables BY DEF TypeOK, Schedule, Job, Ticker, Request
<1>2. CASE CheckSchedule
  <2>1. Fault \/ UNCHANGED faults BY <1>2 DEF CheckSchedule
  <2>2. boot' \in [todo : SUBSET Kinds, seed : BOOLEAN] BY <1>1, <1>2 DEF CheckSchedule
  <2> QED BY <1>1, <1>2, <2>1, <2>2, FaultsFit DEF CheckSchedule
<1>3. CASE SeedSchedule
  <2>1. Fault \/ UNCHANGED faults BY <1>3 DEF SeedSchedule
  <2>2. boot' \in [todo : SUBSET Kinds, seed : BOOLEAN] BY <1>1, <1>3 DEF SeedSchedule
  <2>3. boot.todo \subseteq Kinds BY <1>1
  <2>4. schedules' \in [Kinds -> Schedule] BY <1>1, <1>3, <2>3, SeedMoves DEF SeedSchedule
  <2> QED BY <1>1, <1>3, <2>1, <2>2, <2>4, FaultsFit DEF SeedSchedule
<1>4. CASE ListSchedules BY <1>1, <1>4, ListMoves DEF ListSchedules
<1>5. CASE FireCreates
  <2>1. Fault \/ UNCHANGED faults BY <1>5 DEF FireCreates
  <2>2. jobs' \in [JobIDs -> Job] /\ tick' \in Ticker
    BY <1>1, <1>5, CreateMoves, FireMoves, ProceedMoves DEF FireCreates
  <2> QED BY <1>1, <1>5, <2>1, <2>2, FaultsFit DEF FireCreates
<1>6. CASE FireRuns
  <2>1. Fault \/ UNCHANGED faults BY <1>6 DEF FireRuns
  <2>2. tick' \in Ticker BY <1>1, <1>6, FireMoves DEF FireRuns, Ticker
  <2>3. \A k \in Kinds : Fires(k) => tick.due[k] \in 1..MaxTime
    <3>1. \A k \in tick.todo : k \in Kinds /\ schedules[k].base \in Nat
      BY <1>1 DEF Ticker, Schedule
    <3>2. \A k \in Kinds : tick.due[k] \in 0..MaxTime BY <1>1 DEF Ticker
    <3> QED BY <3>1, <3>2 DEF Fires, First, Listed
  <2>4. done' \in [Kinds -> [1..MaxTime -> Nat]] /\ quiet' \in [Kinds -> Nat \cup {-1}]
    BY <1>1, <1>6, <2>3, ServedMoves DEF FireRuns
  <2> QED BY <1>1, <1>6, <2>1, <2>2, <2>4, FaultsFit DEF FireRuns
<1>7. CASE FireFinishes
  <2>1. Fault \/ UNCHANGED faults BY <1>7 DEF FireFinishes
  <2>2. jobs' \in [JobIDs -> Job] BY <1>1, <1>7, FinishMoves DEF FireFinishes
  <2>3. tick' \in Ticker BY <1>7, FireMoves, ProceedMoves DEF FireFinishes
  <2> QED BY <1>1, <1>7, <2>1, <2>2, <2>3, FaultsFit DEF FireFinishes
<1>8. CASE MarkScheduleFired
  <2>1. Fault \/ UNCHANGED faults BY <1>8 DEF MarkScheduleFired
  <2>2. schedules' \in [Kinds -> Schedule]
    BY <1>1, <1>8, StampMoves DEF MarkScheduleFired
  <2>3. tick' \in Ticker BY <1>8, ProceedMoves DEF MarkScheduleFired
  <2> QED BY <1>1, <1>8, <2>1, <2>2, <2>3, FaultsFit DEF MarkScheduleFired
<1>9. ASSUME NEW p \in Presses, Press(p) PROVE Tables'
  <2>1. PICK k \in Kinds, pc \in {"ended", "create"} :
            press' = [press EXCEPT ![p].kind = k, ![p].pc = pc]
    BY <1>9 DEF Press
  <2> DEFINE u == [press[p] EXCEPT !.kind = k, !.pc = pc]
  <2>3. u \in Request
    <3>1. press[p] \in Request BY <1>1
    <3> QED BY <3>1 DEF Request
  <2>4. press' = [press EXCEPT ![p] = u] BY <1>1, <2>1
  <2>2. press' \in [Presses -> Request]
    <3> HIDE DEF u
    <3> QED BY <1>1, <2>3, <2>4
  <2> QED BY <1>1, <1>9, <2>2 DEF Press
<1>10. ASSUME NEW p \in Presses, PressCreates(p) PROVE Tables'
  <2>1. Fault \/ UNCHANGED faults BY <1>10 DEF PressCreates
  <2>2. press[p].kind \in Kinds \cup {NoKind} BY <1>1 DEF Request
  <2>3. jobs' \in [JobIDs -> Job] /\ press' \in [Presses -> Request]
    BY <1>1, <1>10, <2>2, CreateMoves, PressedMoves DEF PressCreates
  <2> QED BY <1>1, <1>10, <2>1, <2>3, FaultsFit DEF PressCreates
<1>11. ASSUME NEW p \in Presses, PressRuns(p) PROVE Tables'
  <2>1. Fault \/ UNCHANGED faults BY <1>11 DEF PressRuns
  <2>2. press[p].job \in JobIDs \cup {NoJob} BY <1>1 DEF Request
  <2>3. press' \in [Presses -> Request] BY <1>11, <2>2, PressedMoves DEF PressRuns
  <2> QED BY <1>1, <1>11, <2>1, <2>3, FaultsFit DEF PressRuns
<1>12. ASSUME NEW p \in Presses, PressFinishes(p) PROVE Tables'
  <2>1. Fault \/ UNCHANGED faults BY <1>12 DEF PressFinishes
  <2>2. jobs' \in [JobIDs -> Job] BY <1>1, <1>12, FinishMoves DEF PressFinishes
  <2>3. press' \in [Presses -> Request] BY <1>12, PressedMoves DEF PressFinishes
  <2> QED BY <1>1, <1>12, <2>1, <2>2, <2>3, FaultsFit DEF PressFinishes
<1>13. ASSUME NEW p \in Presses, ClientLeaves(p) PROVE Tables'
  <2>1. press' \in [Presses -> Request] BY <1>13, PressedMoves DEF ClientLeaves
  <2> QED BY <1>1, <1>13, <2>1, FaultsFit DEF ClientLeaves
<1>14. CASE UpdateSchedule
  <2>1. PICK k \in Kinds, c \in Crons, on \in BOOLEAN :
            Upsert(k, c, on) /\ quiet' = [quiet EXCEPT ![k] = IF on THEN -1 ELSE 0]
    BY <1>14 DEF UpdateSchedule
  <2>2. quiet' \in [Kinds -> Nat \cup {-1}] BY <1>1, <2>1
  <2>3. edits' \in 0..MaxEdits BY <1>1, <1>14, SchedulerAssumption DEF UpdateSchedule, Edit
  <2> QED BY <1>1, <1>14, <2>1, <2>2, <2>3, UpsertMoves DEF UpdateSchedule
<1>15. CASE DeleteJob
  <2>1. jobs' \in [JobIDs -> Job] BY <1>15, FinishMoves DEF DeleteJob, MarkFinished
  <2>2. edits' \in 0..MaxEdits BY <1>1, <1>15, SchedulerAssumption DEF DeleteJob, Edit
  <2> QED BY <1>1, <1>15, <2>1, <2>2 DEF DeleteJob
<1>16. CASE Elapse BY <1>1, <1>16, SchedulerAssumption DEF Elapse
<1>17. CASE Crash
  <2>1. press' \in [Presses -> Request]
    <3>1. \A p \in Presses : press[p] \in Request BY <1>1
    <3>2. \A p \in Presses : [press[p] EXCEPT !.pc = "ended", !.job = NoJob] \in Request
      BY <3>1 DEF Request
    <3> QED BY <1>17, <3>2, AsleepTyped DEF Crash
  <2>2. crashes < MaxCrashes /\ crashes' = crashes + 1 BY <1>17 DEF Crash
  <2>3. crashes' \in 0..MaxCrashes BY <1>1, <2>2, SchedulerAssumption
  <2> QED BY <1>1, <1>17, <2>1, <2>3, AsleepTyped DEF Crash
<1>18. CASE UNCHANGED vars BY <1>1, <1>18 DEF vars
<1> HIDE DEF Tables
<1> QED
  BY <1>2, <1>3, <1>4, <1>5, <1>6, <1>7, <1>8, <1>9, <1>10, <1>11, <1>12, <1>13, <1>14,
     <1>15, <1>16, <1>17, <1>18 DEF Next, Seeding, Tick, Answer

------------------------------------------------------------------------------
(* Schedules under the tick *)

\* steps that touch neither schedules nor the tick
Aside == \/ CheckSchedule \/ (\E p \in Presses : Answer(p) \/ ClientLeaves(p))
         \/ DeleteJob \/ Elapse \/ UNCHANGED vars

\* Requests and the clock leave the schedules and the tick alone.
LEMMA AsideMoves ==
    ASSUME TypeOK, Aside
    PROVE  /\ UNCHANGED <<schedules, tick, done, quiet, crashes>>
           /\ clock <= clock' /\ faults <= faults'
<1>1. clock \in Nat /\ faults \in Nat BY SchedulerAssumption DEF TypeOK
<1> QED
  BY <1>1 DEF Aside, CheckSchedule, Answer, Press, PressCreates, PressRuns, PressFinishes,
     ClientLeaves, DeleteJob, Elapse, Fault, vars

\* Every step is one of these.
LEMMA WhatSteps ==
    ASSUME [Next]_vars
    PROVE  Aside \/ SeedSchedule \/ UpdateSchedule \/ Tick \/ Crash
BY DEF Next, Seeding, Aside

\* steps that write a default or an admin's schedule
LEMMA EditMoves ==
    ASSUME TypeOK, SeedSchedule \/ UpdateSchedule
    PROVE  /\ UNCHANGED <<clock, tick, done, crashes>> /\ faults <= faults'
           /\ schedules' \in [Kinds -> Schedule]
           /\ \A k \in Kinds :
                /\ schedules[k].there => /\ schedules'[k].there
                                         /\ schedules'[k].base = schedules[k].base
                /\ schedules'[k].base \in {schedules[k].base, clock}
<1>1. faults \in Nat BY SchedulerAssumption DEF TypeOK
<1>2. CASE SeedSchedule
  <2>1. boot.todo \subseteq Kinds /\ schedules \in [Kinds -> Schedule] BY DEF TypeOK, Schedule
  <2>2. CASE UNCHANGED schedules BY <1>1, <1>2, <2>1, <2>2 DEF SeedSchedule, Fault
  <2>3. ASSUME NEW k \in Kinds, Upsert(k, DefaultCron[k], k \in DefaultOn), UNCHANGED faults
        PROVE  /\ schedules' \in [Kinds -> Schedule]
               /\ \A j \in Kinds :
                    /\ schedules[j].there => /\ schedules'[j].there
                                             /\ schedules'[j].base = schedules[j].base
                    /\ schedules'[j].base \in {schedules[j].base, clock}
    BY <2>3, SeedMoves
  <2> QED BY <1>1, <1>2, <2>1, <2>2, <2>3 DEF SeedSchedule
<1>3. CASE UpdateSchedule
  <2>1. PICK k \in Kinds, c \in Crons, on \in BOOLEAN : Upsert(k, c, on)
    BY <1>3 DEF UpdateSchedule
  <2> QED BY <1>1, <1>3, <2>1, UpsertMoves DEF UpdateSchedule
<1> QED BY <1>2, <1>3

\* every step of the tick, by what becomes of the kind it is at
LEMMA TickMoves ==
    ASSUME TypeOK, Tick
    PROVE  /\ UNCHANGED <<clock, crashes>> /\ faults \in Nat /\ faults' \in Nat
           /\ faults <= faults'
           /\ \/ ListSchedules /\ UNCHANGED <<schedules, done, quiet>>
              \/ /\ tick.pc # "finish" /\ tick'.todo = tick.todo /\ tick'.due = tick.due
                 /\ UNCHANGED <<schedules, done, quiet>>
                 /\ tick.pc = "hook" => ~tick'.ok
                 /\ tick.pc \in {"create", "hook"} /\ tick'.pc \in {"hook", "finish"}
                 /\ tick.pc = "create" => tick'.pc = "hook"
              \/ /\ tick.pc = "hook" /\ tick'.pc = "finish" /\ tick'.ok
                 /\ tick'.todo = tick.todo /\ tick'.due = tick.due
                 /\ UNCHANGED <<schedules, faults>>
                 /\ \E k \in Kinds : Fires(k) /\ Served(k, tick.due[k])
              \/ /\ tick.pc = "finish" /\ tick'.pc = "stamp" /\ tick.ok /\ tick'.ok
                 /\ tick'.todo = tick.todo /\ tick'.due = tick.due
                 /\ UNCHANGED <<schedules, done, quiet>>
              \/ /\ Proceed /\ UNCHANGED <<schedules, done, quiet>>
                 /\ tick.pc \in {"create", "finish", "stamp"}
                 /\ faults' = faults => tick.pc = "finish" /\ ~tick.ok
                 /\ faults' # faults => faults' = faults + 1
              \/ /\ tick.pc = "stamp" /\ Proceed /\ UNCHANGED <<done, quiet, faults>>
                 /\ \E k \in Kinds :
                        Fires(k) /\ schedules' = [schedules EXCEPT ![k].base = clock]
<1>1. /\ faults \in Nat /\ tick.job \in JobIDs \cup {NoJob} /\ tick.ok \in BOOLEAN
      /\ \A i \in FreeIDs : i \in JobIDs
  BY SchedulerAssumption DEF TypeOK, FreeIDs
<1>2. CASE ListSchedules BY <1>1, <1>2 DEF ListSchedules
<1>3. CASE FireCreates
  <2>1. CASE Fault /\ Proceed BY <1>1, <1>3, <2>1 DEF FireCreates, Fault
  <2>2. CASE UNCHANGED faults /\ \E i \in FreeIDs : Fire("hook", i, TRUE)
    <3>1. tick'.pc = "hook" /\ tick'.todo = tick.todo /\ tick'.due = tick.due
      BY <1>1, <2>2, FireMoves
    <3> QED BY <1>1, <1>3, <2>2, <3>1 DEF FireCreates
  <2> QED BY <1>3, <2>1, <2>2 DEF FireCreates
<1>4. CASE FireRuns
  <2>1. CASE Fault /\ Fire("finish", tick.job, FALSE) /\ UNCHANGED <<done, quiet>>
    <3>1. tick'.pc = "finish" /\ ~tick'.ok /\ tick'.todo = tick.todo /\ tick'.due = tick.due
      BY <1>1, <2>1, FireMoves
    <3> QED BY <1>1, <1>4, <2>1, <3>1 DEF FireRuns, Fault
  <2>2. CASE /\ \E k \in Kinds : Fires(k) /\ Served(k, tick.due[k])
             /\ Fire("finish", tick.job, TRUE) /\ UNCHANGED faults
    <3>1. tick'.pc = "finish" /\ tick'.ok /\ tick'.todo = tick.todo /\ tick'.due = tick.due
      BY <1>1, <2>2, FireMoves
    <3> QED BY <1>1, <1>4, <2>2, <3>1 DEF FireRuns
  <2> QED BY <1>4, <2>1, <2>2 DEF FireRuns
<1>5. CASE FireFinishes
  <2>1. (faults' = faults + 1) \/ UNCHANGED faults BY <1>5 DEF FireFinishes, Fault
  <2>2. CASE tick.ok /\ faults' = faults /\ Fire("stamp", NoJob, TRUE)
    <3>1. tick'.pc = "stamp" /\ tick'.ok /\ tick'.todo = tick.todo /\ tick'.due = tick.due
      BY <1>1, <2>2, FireMoves
    <3> QED BY <1>1, <1>5, <2>2, <3>1 DEF FireFinishes
  <2>3. CASE ~(tick.ok /\ faults' = faults) /\ Proceed
    BY <1>1, <1>5, <2>1, <2>3 DEF FireFinishes
  <2> QED BY <1>5, <2>2, <2>3 DEF FireFinishes
<1>6. CASE MarkScheduleFired
  BY <1>1, <1>6 DEF MarkScheduleFired, Fault
<1> QED BY <1>2, <1>3, <1>4, <1>5, <1>6 DEF Tick

\* What a crash leaves: the tables, and nothing in memory.
LEMMA CrashMoves ==
    ASSUME TypeOK, Crash
    PROVE  /\ UNCHANGED <<clock, schedules, jobs, done, quiet, faults>>
           /\ crashes' = crashes + 1 /\ crashes \in Nat /\ tick' = Asleep /\ tick'.todo = {}
<1>1. crashes \in Nat BY SchedulerAssumption DEF TypeOK
<1>2. /\ UNCHANGED <<clock, schedules, jobs, done, quiet, faults>>
      /\ crashes' = crashes + 1 /\ tick' = Asleep
  BY DEF Crash
<1>3. Asleep.todo = {} BY DEF Asleep
<1> QED BY <1>1, <1>2, <1>3

\* no stamp lies in the future
LEMMA StampsKept ==
    ASSUME TypeOK, Stamps, [Next]_vars
    PROVE  Stamps'
<1>1. /\ clock \in Nat
      /\ \A k \in Kinds : schedules[k].base \in Nat
  <2>1. schedules \in [Kinds -> Schedule] /\ clock \in 0..MaxTime BY DEF TypeOK, Schedule
  <2> QED BY <2>1, SchedulerAssumption DEF Schedule
<1>2. CASE Aside
  <2>1. schedules' = schedules /\ clock <= clock' /\ clock' \in Nat
    <3>1. clock' \in Nat
      BY <1>1, <1>2 DEF Aside, CheckSchedule, Answer, Press, PressCreates, PressRuns,
         PressFinishes, ClientLeaves, DeleteJob, Elapse, vars
    <3> QED BY <1>2, <3>1, AsideMoves
  <2> QED BY <1>1, <2>1 DEF Stamps
<1>3. CASE SeedSchedule \/ UpdateSchedule BY <1>1, <1>3, EditMoves DEF Stamps
<1>4. CASE Tick
  <2>1. CASE UNCHANGED schedules BY <1>4, <2>1, TickMoves DEF Stamps
  <2>2. ASSUME NEW k \in Kinds, schedules' = [schedules EXCEPT ![k].base = clock]
        PROVE  Stamps'
    BY <1>1, <1>4, <2>2, StampMoves, TickMoves DEF Stamps
  <2> QED BY <1>4, <2>1, <2>2, TickMoves
<1>5. CASE Crash BY <1>5, CrashMoves DEF Stamps
<1> QED BY <1>2, <1>3, <1>4, <1>5, WhatSteps

\* what the tick has yet to fire stays ahead of the stamps
LEMMA ListedKept ==
    ASSUME TypeOK, Listed, [Next]_vars
    PROVE  Listed'
<1>1. clock \in Nat /\ tick \in Ticker BY SchedulerAssumption DEF TypeOK, Ticker
<1>2. tick.todo \subseteq Kinds /\ tick.due \in [Kinds -> 0..MaxTime] BY <1>1 DEF Ticker
<1>3. CASE Aside
  <2>1. schedules' = schedules /\ tick' = tick /\ clock <= clock'
    BY <1>3, AsideMoves
  <2>2. clock' \in Nat
    BY <1>1, <1>3 DEF Aside, CheckSchedule, Answer, Press, PressCreates, PressRuns,
       PressFinishes, ClientLeaves, DeleteJob, Elapse, vars
  <2>3. \A k \in Kinds : tick.due[k] \in Nat BY <1>2, SchedulerAssumption
  <2> QED BY <1>1, <1>2, <2>1, <2>2, <2>3 DEF Listed
<1>4. CASE SeedSchedule \/ UpdateSchedule BY <1>2, <1>4, EditMoves DEF Listed
<1>5. CASE Tick
  <2>1. CASE ListSchedules /\ UNCHANGED <<schedules, done, quiet>>
    <3>1. \A k \in tick'.todo : k \in Kinds /\ Due(k) BY <2>1, ListMoves
    <3>2. \A k \in Kinds : Due(k) => schedules[k].there BY DEF Due
    <3> QED BY <1>5, <2>1, <3>1, <3>2, ListMoves, DueTimes, TickMoves DEF Listed
  <2>2. CASE tick'.todo = tick.todo /\ tick'.due = tick.due /\ UNCHANGED schedules
    BY <1>5, <2>2, TickMoves DEF Listed
  <2>3. CASE Proceed /\ UNCHANGED schedules
    BY <1>5, <2>3, ProceedMoves, TickMoves DEF Listed
  <2>4. CASE /\ Proceed
             /\ \E k \in Kinds : Fires(k) /\ schedules' = [schedules EXCEPT ![k].base = clock]
    <3>1. PICK k \in Kinds :
            Fires(k) /\ schedules' = [schedules EXCEPT ![k].base = clock]
      BY <2>4
    <3>2. tick'.todo = tick.todo \ {k} BY <2>4, <3>1, ProceedMoves, OneFires
    <3>3. \A j \in tick'.todo : j \in Kinds /\ j # k /\ j \in tick.todo BY <1>2, <3>2
    <3>4. \A j \in tick'.todo : /\ schedules'[j].there = schedules[j].there
                                /\ schedules'[j].base = schedules[j].base
      BY <3>1, <3>3, StampMoves
    <3>5. clock' = clock /\ \A j \in tick'.todo : tick'.due[j] = tick.due[j]
      BY <1>5, <2>4, TickMoves, ProceedMoves
    <3> QED BY <3>3, <3>4, <3>5 DEF Listed
  <2> QED BY <1>5, <2>1, <2>2, <2>3, <2>4, TickMoves
<1>6. CASE Crash BY <1>6, CrashMoves DEF Listed
<1> QED BY <1>3, <1>4, <1>5, <1>6, WhatSteps

\* the tick's own facts
LEMMA OwnersKept ==
    ASSUME TypeOK, Owners, [Next]_vars
    PROVE  Owners'
<1> DEFINE OfTick == /\ tick.pc \in {"idle", "create", "stamp"} => tick.job = NoJob
                     /\ tick.pc = "idle" => tick.todo = {}
                     /\ tick.pc = "stamp" => tick.ok
           OfPress == \A p \in Presses :
                        press[p].pc \notin {"hook", "finish"} => press[p].job = NoJob
<1>1. OfTick /\ OfPress /\ press \in [Presses -> Request] /\ tick.ok \in BOOLEAN
  BY DEF Owners, TypeOK, Request
<1>2. OfTick'
  <2>1. CASE UNCHANGED tick BY <1>1, <2>1
  <2>2. CASE tick' = Asleep BY <2>2 DEF Asleep
  <2>3. CASE ListSchedules BY <2>3, ListMoves
  <2>4. CASE Proceed BY <2>4, ProceedMoves
  <2>5. CASE \E i \in JobIDs \cup {NoJob}, pc \in {"hook", "finish"}, ok \in BOOLEAN : Fire(pc, i, ok)
    <3>1. tick'.pc \in {"hook", "finish"} BY <2>5, FireMoves
    <3> QED BY <3>1
  <2>6. CASE Fire("stamp", NoJob, TRUE)
    <3>1. tick'.pc = "stamp" /\ tick'.job = NoJob /\ tick'.ok BY <2>6, FireMoves
    <3> QED BY <3>1
  <2>7. tick.job \in JobIDs \cup {NoJob} /\ \A i \in FreeIDs : i \in JobIDs
    BY DEF TypeOK, FreeIDs
  <2>8. CASE FireCreates BY <2>4, <2>5, <2>7, <2>8 DEF FireCreates
  <2>9. CASE FireRuns BY <2>5, <2>7, <2>9 DEF FireRuns
  <2>10. CASE FireFinishes BY <2>4, <2>6, <2>10 DEF FireFinishes
  <2>11. CASE MarkScheduleFired BY <2>4, <2>11 DEF MarkScheduleFired
  <2>12. CASE Aside \/ SeedSchedule \/ UpdateSchedule BY <2>1, <2>12, AsideMoves, EditMoves
  <2>13. CASE Crash BY <2>2, <2>13, CrashMoves
  <2> HIDE DEF OfTick
  <2> QED BY <2>3, <2>8, <2>9, <2>10, <2>11, <2>12, <2>13, WhatSteps DEF Tick
<1>3. OfPress'
  <2>1. CASE UNCHANGED press BY <1>1, <2>1
  <2>2. ASSUME NEW p \in Presses, NEW i \in JobIDs \cup {NoJob},
               NEW pc \in {"hook", "finish"}, Pressed(p, pc, i)
        PROVE  OfPress'
    BY <1>1, <2>2, PressedMoves
  <2>3. ASSUME NEW p \in Presses, Pressed(p, "ended", NoJob) PROVE OfPress'
    BY <1>1, <2>3, PressedMoves
  <2>4. ASSUME NEW p \in Presses, Press(p) PROVE OfPress'
    <3>1. PICK k \in Kinds, pc \in {"ended", "create"} :
            press' = [press EXCEPT ![p].kind = k, ![p].pc = pc]
      BY <2>4 DEF Press
    <3>2. press[p].pc = "idle" /\ press[p].job = NoJob BY <1>1, <2>4 DEF Press
    <3>3. press'[p].job = press[p].job /\ \A q \in Presses \ {p} : press'[q] = press[q]
      BY <1>1, <3>1 DEF Request
    <3> QED BY <1>1, <3>2, <3>3
  <2>5. /\ \A p \in Presses : press[p].job \in JobIDs \cup {NoJob}
        /\ \A i \in FreeIDs : i \in JobIDs
    BY <1>1 DEF Request, FreeIDs
  <2>6. ASSUME NEW p \in Presses, Answer(p) \/ ClientLeaves(p) PROVE OfPress'
    <3> HIDE DEF OfPress
    <3> QED
      BY <2>2, <2>3, <2>4, <2>5, <2>6 DEF Answer, PressCreates, PressRuns, PressFinishes,
         ClientLeaves
  <2>7. CASE Crash
    <3>1. \A p \in Presses : press'[p].pc = "idle" \/ press'[p].job = NoJob
      BY <1>1, <2>7 DEF Crash, Request, Unsent
    <3>2. \A p \in Presses : press'[p].job = NoJob
      BY <1>1, <2>7 DEF Crash, Request, Unsent
    <3> QED BY <3>2
  <2>8. CASE Seeding \/ Tick \/ UpdateSchedule \/ DeleteJob \/ Elapse \/ UNCHANGED vars
    BY <2>1, <2>8 DEF Seeding, CheckSchedule, SeedSchedule, Tick, ListSchedules, FireCreates,
       FireRuns, FireFinishes, MarkScheduleFired, UpdateSchedule, DeleteJob, Elapse, vars
  <2> HIDE DEF OfPress
  <2> QED BY <2>6, <2>7, <2>8 DEF Next
<1> QED BY <1>2, <1>3 DEF Owners

------------------------------------------------------------------------------
(* Due times are served once *)

\* a due time is stamped, or about to be
Covered(k, d) == \/ schedules[k].there /\ d <= schedules[k].base
                 \/ Ran(k) /\ tick.due[k] = d

\* what is covered stays covered, or a failure or a crash has been counted
LEMMA CoveredStays ==
    ASSUME TypeOK, Owners, Listed, Stamps, [Next]_vars, NEW k \in Kinds, NEW d \in 1..MaxTime,
           Covered(k, d)
    PROVE  Covered(k, d)' \/ faults < faults' \/ crashes < crashes'
<1>1. /\ tick \in Ticker /\ clock \in Nat /\ schedules \in [Kinds -> Schedule] /\ d \in Nat
      /\ MaxTime \in Nat
  BY SchedulerAssumption DEF TypeOK, Ticker, Schedule
<1>2. CASE Aside
  <2>1. schedules' = schedules /\ tick' = tick BY <1>2, AsideMoves
  <2> QED BY <2>1 DEF Covered, Ran, Fires
<1>3. CASE SeedSchedule \/ UpdateSchedule
  <2>1. /\ tick' = tick
        /\ schedules[k].there => schedules'[k].there /\ schedules'[k].base = schedules[k].base
    BY <1>3, EditMoves
  <2> QED BY <2>1 DEF Covered, Ran, Fires
<1>4. CASE Tick
  <2>1. faults \in Nat /\ faults' \in Nat /\ faults <= faults' BY <1>4, TickMoves
  <2>2. CASE UNCHANGED schedules /\ ~Ran(k) BY <2>2 DEF Covered
  <2>3. CASE tick.pc \in {"idle", "create", "hook"}
    <3>1. ~Ran(k) BY <2>3 DEF Ran
    <3>2. UNCHANGED schedules BY <1>4, <2>3, TickMoves
    <3> QED BY <2>2, <3>1, <3>2
  <2>4. CASE tick.pc = "finish"
    <3>1. CASE /\ tick'.pc = "stamp" /\ tick'.ok /\ tick'.todo = tick.todo
               /\ tick'.due = tick.due /\ UNCHANGED schedules
      BY <3>1 DEF Covered, Ran, Fires
    <3>2. CASE ~tick.ok /\ UNCHANGED schedules BY <2>2, <3>2 DEF Ran
    <3>3. faults' # faults \/ (~tick.ok /\ UNCHANGED schedules)
            \/ (/\ tick'.pc = "stamp" /\ tick'.ok /\ tick'.todo = tick.todo
                /\ tick'.due = tick.due /\ UNCHANGED schedules)
      <4>1. ~ListSchedules BY <2>4 DEF ListSchedules
      <4> QED BY <1>4, <2>4, <4>1, TickMoves
    <3> QED BY <2>1, <3>1, <3>2, <3>3
  <2>5. CASE tick.pc = "stamp"
    <3>1. faults' # faults \/
          \E j \in Kinds : Fires(j) /\ schedules' = [schedules EXCEPT ![j].base = clock]
      <4>1. ~ListSchedules BY <2>5 DEF ListSchedules
      <4> QED BY <1>4, <2>5, <4>1, TickMoves
    <3>2. ASSUME NEW j \in Kinds, Fires(j), schedules' = [schedules EXCEPT ![j].base = clock]
          PROVE  Covered(k, d)'
      <4>1. /\ schedules'[j].base = clock
            /\ \A i \in Kinds : /\ schedules'[i].there = schedules[i].there
                                /\ i # j => schedules'[i].base = schedules[i].base
        BY <3>2, StampMoves
      <4>2. CASE k # j
        <5>1. ~Ran(k) BY <3>2, <4>2, OneFires DEF Ran
        <5> QED BY <4>1, <4>2, <5>1 DEF Covered
      <4>3. CASE k = j
        <5>1. schedules[j].there /\ tick.due[j] <= clock /\ schedules[j].base <= clock
          BY <3>2 DEF Listed, Stamps, Fires, First
        <5>2. schedules[j].base \in Nat /\ tick.due[j] \in Nat
          BY <1>1 DEF Schedule, Ticker
        <5> QED BY <1>1, <4>1, <4>3, <5>1, <5>2 DEF Covered
      <4> QED BY <4>2, <4>3
    <3> QED BY <2>1, <3>1, <3>2
  <2>6. tick.pc \in {"idle", "create", "hook", "finish", "stamp"} BY <1>1 DEF Ticker
  <2> QED BY <2>3, <2>4, <2>5, <2>6
<1>5. CASE Crash BY <1>5, CrashMoves
<1> QED BY <1>2, <1>3, <1>4, <1>5, WhatSteps

\* a hook that runs serves a due time that is not covered, and covers it
LEMMA ServedFresh ==
    ASSUME TypeOK, Listed, [Next]_vars, NEW k \in Kinds, NEW d \in 1..MaxTime
    PROVE  \/ done'[k][d] = done[k][d]
           \/ /\ done'[k][d] = done[k][d] + 1 /\ ~Covered(k, d) /\ Covered(k, d)'
              /\ UNCHANGED <<faults, crashes>>
<1>1. CASE Aside BY <1>1, AsideMoves
<1>2. CASE SeedSchedule \/ UpdateSchedule BY <1>2, EditMoves
<1>3. CASE Crash BY <1>3, CrashMoves
<1>4. CASE Tick
  <2>1. CASE UNCHANGED done BY <2>1
  <2>2. ASSUME NEW j \in Kinds, Fires(j), Served(j, tick.due[j]), tick.pc = "hook",
               tick'.pc = "finish", tick'.ok, tick'.todo = tick.todo, tick'.due = tick.due,
               UNCHANGED schedules
        PROVE  \/ done'[k][d] = done[k][d]
               \/ done'[k][d] = done[k][d] + 1 /\ ~Covered(k, d) /\ Covered(k, d)'
    <3>1. /\ schedules[j].base < tick.due[j] /\ j \in tick.todo
          /\ schedules[j].base \in Nat /\ tick.due[j] \in 0..MaxTime /\ MaxTime \in Nat
      <4>1. schedules \in [Kinds -> Schedule] /\ tick \in Ticker
        BY DEF TypeOK, Schedule, Ticker
      <4> QED BY <2>2, <4>1, SchedulerAssumption DEF Listed, Fires, First, Schedule, Ticker
    <3>2. tick.due[j] \in 1..MaxTime BY <3>1
    <3>3. CASE k # j \/ d # tick.due[j] BY <2>2, <3>2, <3>3, ServedMoves
    <3>4. CASE k = j /\ d = tick.due[j]
      <4>1. done'[k][d] = done[k][d] + 1 BY <2>2, <3>2, <3>4, ServedMoves
      <4>2. ~Covered(k, d) BY <2>2, <3>1, <3>4 DEF Covered, Ran
      <4>3. Covered(k, d)' BY <2>2, <3>4 DEF Covered, Ran, Fires
      <4> QED BY <4>1, <4>2, <4>3
    <3> QED BY <3>3, <3>4
  <2> QED BY <1>4, <2>1, <2>2, TickMoves
<1> QED BY <1>1, <1>2, <1>3, <1>4, WhatSteps

\* Every step keeps the count of the runs of a kind that were due at a time.
LEMMA CountedKept ==
    ASSUME TypeOK, TypeOK', Owners, Listed, Stamps, [Next]_vars, NEW k \in Kinds,
           NEW d \in 1..MaxTime, Counted(k, d)
    PROVE  Counted(k, d)'
<1>1. /\ faults \in Nat /\ faults' \in Nat /\ crashes \in Nat /\ crashes' \in Nat
      /\ faults <= faults' /\ crashes <= crashes'
  <2>1. /\ faults \in Nat /\ faults' \in Nat /\ crashes \in Nat /\ crashes' \in Nat
    BY SchedulerAssumption DEF TypeOK
  <2> QED BY <2>1, AsideMoves, EditMoves, TickMoves, CrashMoves, WhatSteps
<1>2. done[k][d] \in Nat
  <2>1. done[k] \in [1..MaxTime -> Nat] BY DEF TypeOK
  <2> QED BY <2>1
<1>3. done[k][d] <= faults + crashes + (IF Covered(k, d) THEN 1 ELSE 0)
  BY DEF Counted, Covered
<1>4. done'[k][d] <= faults' + crashes' + (IF Covered(k, d)' THEN 1 ELSE 0)
  BY <1>1, <1>2, <1>3, CoveredStays, ServedFresh
<1> QED BY <1>4 DEF Counted, Covered

------------------------------------------------------------------------------
(* Kinds that are off rest *)

\* once a tick has begun it runs no kind it did not list, and none twice
LEMMA ToRunShrinks ==
    ASSUME TypeOK, Tick, ~ListSchedules, NEW k \in Kinds, ToRun(k)'
    PROVE  ToRun(k)
<1>1. CASE tick'.todo = tick.todo
  <2>1. tick.pc \in {"finish", "stamp"} => tick'.pc \in {"finish", "stamp"}
    <3>1. CASE Proceed
      <4>1. PICK j \in Kinds : Fires(j) /\ tick'.todo = tick.todo \ {j} BY <3>1, ProceedMoves
      <4> QED BY <1>1, <4>1 DEF Fires, First
    <3> QED BY <3>1, TickMoves
  <2> QED BY <1>1, <2>1 DEF ToRun, Fires
<1>2. CASE Proceed
  <2>1. PICK j \in Kinds : Fires(j) /\ tick'.todo = tick.todo \ {j} BY <1>2, ProceedMoves
  <2>2. k \in tick.todo /\ k # j BY <2>1 DEF ToRun
  <2> QED BY <2>1, <2>2, OneFires DEF ToRun
<1> QED BY <1>1, <1>2, TickMoves

\* Every step leaves a schedule that is off at rest.
LEMMA RestingKept ==
    ASSUME TypeOK, [Next]_vars, NEW k \in Kinds, Resting(k)
    PROVE  Resting(k)'
<1>1. /\ quiet \in [Kinds -> Nat \cup {-1}] /\ quiet[k] \in Int /\ quiet[k] >= -1
      /\ schedules \in [Kinds -> Schedule]
  BY DEF TypeOK, Schedule
<1>2. CASE Aside
  <2>1. UNCHANGED <<schedules, tick, quiet>> BY <1>2, AsideMoves
  <2> QED BY <2>1 DEF Resting, ToRun, Fires
<1>3. CASE SeedSchedule
  <2>1. tick' = tick /\ quiet' = quiet /\ boot.todo \subseteq Kinds
    BY <1>3 DEF SeedSchedule, TypeOK
  <2>2. CASE schedules'[k] = schedules[k]
    BY <2>1, <2>2 DEF Resting, ToRun, Fires
  <2>3. CASE schedules'[k].enabled <=> k \in DefaultOn
    BY <1>1, <2>1, <2>3 DEF Resting, ToRun, Fires
  <2> QED BY <1>3, <2>1, <2>2, <2>3, SeedMoves DEF SeedSchedule
<1>4. CASE UpdateSchedule
  <2>1. PICK j \in Kinds, c \in Crons, on \in BOOLEAN :
            /\ Upsert(j, c, on) /\ quiet' = [quiet EXCEPT ![j] = IF on THEN -1 ELSE 0]
            /\ tick' = tick
    BY <1>4 DEF UpdateSchedule
  <2>2. CASE j = k
    <3>1. schedules'[k].enabled = on /\ quiet'[k] = IF on THEN -1 ELSE 0
      BY <1>1, <2>1, <2>2, UpsertMoves
    <3> QED BY <3>1 DEF Resting
  <2>3. CASE j # k
    <3>1. schedules'[k] = schedules[k] /\ quiet'[k] = quiet[k]
      BY <1>1, <2>1, <2>3, UpsertMoves
    <3> QED BY <2>1, <3>1 DEF Resting, ToRun, Fires
  <2> QED BY <2>2, <2>3
<1>5. CASE Tick
  <2>1. schedules'[k].enabled = schedules[k].enabled BY <1>5, StampMoves, TickMoves
  <2>2. CASE ListSchedules
    <3>1. quiet' = quiet /\ schedules' = schedules BY <2>2 DEF ListSchedules
    <3>2. ToRun(k)' => schedules[k].enabled BY <2>2, ListMoves DEF ToRun, Due
    <3> QED BY <1>1, <3>1, <3>2 DEF Resting
  <2>3. CASE ~ListSchedules
    <3>1. CASE quiet'[k] = quiet[k]
      BY <1>1, <1>5, <2>1, <2>3, <3>1, ToRunShrinks DEF Resting
    <3>2. ASSUME NEW j \in Kinds, Fires(j), Served(j, tick.due[j]), tick.pc = "hook",
                 tick'.pc = "finish", tick'.todo = tick.todo, quiet'[k] # quiet[k]
          PROVE  Resting(k)'
      <4>1. quiet' = IF quiet[j] = -1 THEN quiet ELSE [quiet EXCEPT ![j] = @ + 1]
        BY <3>2 DEF Served
      <4>2. j = k /\ quiet[k] # -1 /\ quiet'[k] = quiet[k] + 1 BY <1>1, <3>2, <4>1
      <4>3. ToRun(k) /\ ~ToRun(k)' BY <3>2, <4>2 DEF ToRun, Fires, First
      <4> QED BY <1>1, <2>1, <4>2, <4>3 DEF Resting
    <3> QED BY <1>5, <2>3, <3>1, <3>2, TickMoves
  <2> QED BY <2>2, <2>3
<1>6. CASE Crash
  <2>1. ~ToRun(k)' BY <1>6, CrashMoves DEF ToRun
  <2> QED BY <1>1, <1>6, <2>1, CrashMoves DEF Resting
<1> QED BY <1>2, <1>3, <1>4, <1>5, <1>6, WhatSteps

------------------------------------------------------------------------------
(* Rows that say running *)

\* the tick or one request holds another row than before, at most
LEMMA OwnersMove ==
    ASSUME TypeOK, Owners, [Next]_vars, ~Crash
    PROVE  \/ Ownerless' \subseteq Ownerless
           \/ /\ faults' = faults + 1
              /\ \E x : Ownerless' \subseteq Ownerless \cup {x}
<1> DEFINE Rest == Ownerless' \subseteq Ownerless
           Lost == faults' = faults + 1 /\ \E x : Ownerless' \subseteq Ownerless \cup {x}
<1> SUFFICES Rest \/ Lost OBVIOUS
<1>1. /\ tick \in Ticker /\ press \in [Presses -> Request] /\ jobs \in [JobIDs -> Job]
      /\ \A i \in FreeIDs : i \in JobIDs
      /\ \A i \in JobIDs : i # NoJob
  BY DEF TypeOK, Ticker, Request, Job, FreeIDs, JobIDs, NoJob
<1>2. ASSUME jobs' = jobs, tick'.job = tick.job,
             \A p \in Presses : press'[p].job = press[p].job
      PROVE  Rest
  BY <1>2 DEF Ownerless
<1>3. CASE CheckSchedule \/ SeedSchedule \/ UpdateSchedule \/ Elapse \/ UNCHANGED vars
  BY <1>2, <1>3 DEF CheckSchedule, SeedSchedule, UpdateSchedule, Elapse, vars
<1>4. CASE ListSchedules
  <2>1. tick'.job = NoJob /\ tick.job = NoJob BY <1>4, ListMoves DEF Owners, ListSchedules
  <2> QED BY <1>2, <1>4, <2>1 DEF ListSchedules
<1>5. CASE FireCreates
  <2>1. tick.job = NoJob /\ press' = press BY <1>5 DEF FireCreates, Owners
  <2>2. CASE Proceed /\ UNCHANGED jobs BY <1>2, <2>1, <2>2, ProceedMoves
  <2>3. ASSUME NEW k \in Kinds, NEW i \in FreeIDs, CreateJob(i, k), Fire("hook", i, TRUE)
        PROVE  Rest
    <3>1. tick'.job = i
      <4>1. i \in JobIDs \cup {NoJob} BY <1>1
      <4> QED BY <2>3, <4>1, FireMoves
    <3>2. \A j \in JobIDs \ {i} : jobs'[j] = jobs[j] BY <2>3, CreateMoves
    <3> QED BY <1>1, <2>1, <3>1, <3>2 DEF Ownerless
  <2> QED BY <1>5, <2>2, <2>3 DEF FireCreates
<1>6. CASE FireRuns
  <2>1. tick.job \in JobIDs \cup {NoJob} BY <1>1 DEF Ticker
  <2>2. \E ok \in BOOLEAN : Fire("finish", tick.job, ok) BY <1>6 DEF FireRuns
  <2>3. tick'.job = tick.job BY <2>1, <2>2, FireMoves
  <2> QED BY <1>2, <1>6, <2>3 DEF FireRuns
<1>7. CASE FireFinishes
  <2>1. tick'.job = NoJob /\ press' = press
    BY <1>7, FireMoves, ProceedMoves DEF FireFinishes
  <2>2. CASE MarkFinished(tick.job)
    <3>1. \A j \in JobIDs : jobs'[j].running => j # tick.job /\ jobs[j].running
      BY <2>2, FinishMoves
    <3> QED BY <1>1, <2>1, <3>1 DEF Ownerless
  <2>3. CASE Fault /\ UNCHANGED jobs
    <3>1. Ownerless' \subseteq Ownerless \cup {tick.job} BY <2>1, <2>3 DEF Ownerless
    <3> QED BY <2>3, <3>1 DEF Fault
  <2> QED BY <1>7, <2>2, <2>3 DEF FireFinishes
<1>8. CASE MarkScheduleFired
  <2>1. tick.job = NoJob /\ tick'.job = NoJob
    BY <1>8, ProceedMoves DEF MarkScheduleFired, Owners
  <2> QED BY <1>2, <1>8, <2>1 DEF MarkScheduleFired
<1>9. ASSUME NEW p \in Presses, Press(p) PROVE Rest
  <2>1. PICK k \in Kinds, pc \in {"ended", "create"} :
            press' = [press EXCEPT ![p].kind = k, ![p].pc = pc]
    BY <1>9 DEF Press
  <2>2. \A q \in Presses : press'[q].job = press[q].job BY <1>1, <2>1 DEF Request
  <2> QED BY <1>2, <1>9, <2>2 DEF Press
<1>10. ASSUME NEW p \in Presses, PressCreates(p) PROVE Rest
  <2>1. press[p].job = NoJob /\ tick' = tick BY <1>10 DEF PressCreates, Owners
  <2>2. CASE Pressed(p, "ended", NoJob) /\ UNCHANGED jobs
    BY <1>2, <2>1, <2>2, PressedMoves
  <2>3. ASSUME NEW i \in FreeIDs, CreateJob(i, press[p].kind), Pressed(p, "hook", i)
        PROVE  Rest
    <3>1. press'[p].job = i /\ \A q \in Presses \ {p} : press'[q].job = press[q].job
      BY <1>1, <2>3, PressedMoves
    <3>2. press[p].kind \in Kinds \cup {NoKind} BY <1>1 DEF Request
    <3>3. \A j \in JobIDs \ {i} : jobs'[j] = jobs[j] BY <2>3, <3>2, CreateMoves
    <3> QED BY <1>1, <2>1, <3>1, <3>3 DEF Ownerless
  <2> QED BY <1>10, <2>2, <2>3 DEF PressCreates
<1>11. ASSUME NEW p \in Presses, PressRuns(p) PROVE Rest
  <2>1. press[p].job \in JobIDs \cup {NoJob} BY <1>1 DEF Request
  <2>2. \A q \in Presses : press'[q].job = press[q].job
    BY <1>11, <2>1, PressedMoves DEF PressRuns
  <2> QED BY <1>2, <1>11, <2>2 DEF PressRuns
<1>12. ASSUME NEW p \in Presses, PressFinishes(p) \/ ClientLeaves(p) PROVE Rest \/ Lost
  <2>1. /\ press'[p].job = NoJob /\ tick' = tick
        /\ \A q \in Presses \ {p} : press'[q].job = press[q].job
    BY <1>12, PressedMoves DEF PressFinishes, ClientLeaves
  <2>2. CASE MarkFinished(press[p].job)
    <3>1. \A j \in JobIDs : jobs'[j].running => j # press[p].job /\ jobs[j].running
      BY <2>2, FinishMoves
    <3> QED BY <1>1, <2>1, <3>1 DEF Ownerless
  <2>3. CASE Fault /\ UNCHANGED jobs
    <3>1. Ownerless' \subseteq Ownerless \cup {press[p].job} BY <2>1, <2>3 DEF Ownerless
    <3> QED BY <2>3, <3>1 DEF Fault
  <2> QED BY <1>12, <2>2, <2>3 DEF PressFinishes, ClientLeaves
<1>13. CASE DeleteJob
  <2>1. PICK i \in JobIDs : MarkFinished(i) BY <1>13 DEF DeleteJob, MarkFinished
  <2>2. \A j \in JobIDs : jobs'[j].running => jobs[j].running BY <2>1, FinishMoves
  <2> QED BY <1>13, <2>2 DEF DeleteJob, Ownerless
<1> HIDE DEF Rest, Lost
<1> QED
  BY <1>3, <1>4, <1>5, <1>6, <1>7, <1>8, <1>9, <1>10, <1>11, <1>12, <1>13
     DEF Next, Seeding, Tick, Answer

\* the process holds a row for the tick and one for each request
LEMMA HeldCount ==
    /\ IsFiniteSet(Held) /\ Cardinality(Held) \in Nat
    /\ Cardinality(Presses) \in Nat /\ Cardinality(Held) <= 1 + Cardinality(Presses)
<1> DEFINE S == {press[p].job : p \in Presses}
           f == [p \in Presses |-> press[p].job]
<1>1. IsFiniteSet(Presses) BY SchedulerAssumption
<1>2. f \in Surjection(Presses, S) BY DEF Surjection
<1>3. IsFiniteSet(S) /\ Cardinality(S) <= Cardinality(Presses) BY <1>1, <1>2, FS_Surjection
<1>4. Cardinality(Presses) \in Nat /\ Cardinality(S) \in Nat
  BY <1>1, <1>3, FS_CardinalityType
<1>5. Held = S \cup {tick.job} BY DEF Held
<1>6. /\ IsFiniteSet(S \cup {tick.job})
      /\ Cardinality(S \cup {tick.job}) =
            IF tick.job \in S THEN Cardinality(S) ELSE Cardinality(S) + 1
  <2> HIDE DEF S
  <2> QED BY <1>3, FS_AddElement
<1> HIDE DEF S
<1> QED BY <1>3, <1>4, <1>5, <1>6

\* Every step leaves each running row to an owner.
LEMMA OwnedKept ==
    ASSUME TypeOK, TypeOK', Owners, RunningRowsOwned, [Next]_vars
    PROVE  RunningRowsOwned'
<1> DEFINE n == Cardinality(Presses)
<1>1. /\ faults \in Nat /\ faults' \in Nat /\ crashes \in Nat /\ crashes' \in Nat
      /\ faults <= faults' /\ crashes <= crashes' /\ n \in Nat
  <2>1. /\ faults \in Nat /\ faults' \in Nat /\ crashes \in Nat /\ crashes' \in Nat
    BY SchedulerAssumption DEF TypeOK
  <2> QED BY <2>1, AsideMoves, EditMoves, TickMoves, CrashMoves, WhatSteps, HeldCount
<1>2. IsFiniteSet(JobIDs) BY FS_Interval, SchedulerAssumption DEF JobIDs
<1>3. Ownerless \in SUBSET JobIDs /\ Ownerless' \in SUBSET JobIDs BY DEF Ownerless
<1>4. IsFiniteSet(Ownerless) /\ IsFiniteSet(Ownerless') BY <1>2, <1>3, FS_Subset
<1>5. Cardinality(Ownerless) \in Nat /\ Cardinality(Ownerless') \in Nat
  BY <1>4, FS_CardinalityType
<1>6. Cardinality(Ownerless) <= faults + crashes * (1 + n) BY DEF RunningRowsOwned
<1>7. crashes * (1 + n) \in Nat /\ (crashes + 1) * (1 + n) = crashes * (1 + n) + (1 + n)
  BY <1>1
<1>8. CASE ~Crash
  <2>1. crashes' = crashes
    BY <1>8, AsideMoves, EditMoves, TickMoves, WhatSteps
  <2>2. CASE Ownerless' \subseteq Ownerless
    <3>1. Cardinality(Ownerless') <= Cardinality(Ownerless) BY <1>4, <2>2, FS_Subset
    <3> QED BY <1>1, <1>5, <1>6, <1>7, <2>1, <3>1 DEF RunningRowsOwned
  <2>3. ASSUME NEW x, Ownerless' \subseteq Ownerless \cup {x}, faults' = faults + 1
        PROVE  RunningRowsOwned'
    <3>1. /\ IsFiniteSet(Ownerless \cup {x})
          /\ Cardinality(Ownerless \cup {x}) <= Cardinality(Ownerless) + 1
          /\ Cardinality(Ownerless \cup {x}) \in Nat
      <4>1. /\ IsFiniteSet(Ownerless \cup {x})
            /\ Cardinality(Ownerless \cup {x}) =
                IF x \in Ownerless THEN Cardinality(Ownerless) ELSE Cardinality(Ownerless) + 1
        BY <1>4, FS_AddElement
      <4> QED BY <1>5, <4>1
    <3>2. Cardinality(Ownerless') <= Cardinality(Ownerless \cup {x})
      BY <2>3, <3>1, FS_Subset
    <3> QED BY <1>1, <1>5, <1>6, <1>7, <2>1, <2>3, <3>1, <3>2 DEF RunningRowsOwned
  <2> QED BY <1>8, <2>2, <2>3, OwnersMove
<1>9. CASE Crash
  <2>1. crashes' = crashes + 1 /\ faults' = faults /\ jobs' = jobs BY <1>9, CrashMoves
  <2>2. Ownerless' \subseteq Ownerless \cup Held BY <2>1 DEF Ownerless, Held
  <2>3. /\ IsFiniteSet(Ownerless \cup Held)
        /\ Cardinality(Ownerless \cup Held) =
            Cardinality(Ownerless) + Cardinality(Held) - Cardinality(Ownerless \cap Held)
    BY <1>4, HeldCount, FS_Union
  <2>4. Cardinality(Ownerless \cap Held) \in Nat
    <3>1. Ownerless \cap Held \in SUBSET Ownerless OBVIOUS
    <3>2. IsFiniteSet(Ownerless \cap Held) BY <1>4, <3>1, FS_Subset
    <3> QED BY <3>2, FS_CardinalityType
  <2>5. Cardinality(Ownerless') <= Cardinality(Ownerless \cup Held)
    BY <2>2, <2>3, FS_Subset
  <2>6. Cardinality(Ownerless') <= Cardinality(Ownerless) + (1 + n)
    BY <1>1, <1>5, <2>3, <2>4, <2>5, HeldCount
  <2> QED BY <1>1, <1>5, <1>6, <1>7, <2>1, <2>6 DEF RunningRowsOwned
<1> QED BY <1>8, <1>9

------------------------------------------------------------------------------
(* The theorems *)

\* The invariant holds at first.
LEMMA InvariantStarts ==
    ASSUME Init
    PROVE  Invariant
<1>1. /\ 0 \in 0..MaxTime /\ 0 \in 0..MaxEdits /\ 0 \in 0..MaxFaults /\ 0 \in 0..MaxCrashes
      /\ clock = 0 /\ faults = 0 /\ crashes = 0
  BY SchedulerAssumption DEF Init
<1>2. schedules \in [Kinds -> Schedule] /\ \A k \in Kinds : schedules[k].base = 0
  BY <1>1 DEF Init, Absent, Schedule
<1>3. jobs \in [JobIDs -> Job] /\ \A i \in JobIDs : ~jobs[i].running
  BY AsleepTyped DEF Init, Free
<1>4. press \in [Presses -> Request] /\ \A p \in Presses : press[p].job = NoJob
  BY AsleepTyped DEF Init, Unsent
<1>5. /\ tick \in Ticker /\ tick.todo = {} /\ tick.job = NoJob /\ tick.pc = "idle"
  BY AsleepTyped DEF Init, Asleep
<1>6. /\ done \in [Kinds -> [1..MaxTime -> Nat]]
      /\ \A k \in Kinds, d \in 1..MaxTime : done[k][d] = 0
      /\ quiet \in [Kinds -> Nat \cup {-1}] /\ \A k \in Kinds : quiet[k] = -1
  BY DEF Init
<1>7. TypeOK
  BY <1>1, <1>2, <1>3, <1>4, <1>5, <1>6 DEF Init, TypeOK, Schedule, Job, Ticker, Request
<1>8. Owners /\ Listed /\ Stamps BY <1>1, <1>2, <1>4, <1>5 DEF Owners, Listed, Stamps
<1>9. \A k \in Kinds : Resting(k) /\ \A d \in 1..MaxTime : Counted(k, d)
  BY <1>1, <1>5, <1>6 DEF Resting, Counted, ToRun
<1>10. RunningRowsOwned
  <2>1. Ownerless = {} BY <1>3 DEF Ownerless
  <2>2. Cardinality(Presses) \in Nat BY HeldCount
  <2>3. 0 * (1 + Cardinality(Presses)) = 0 BY <2>2
  <2> QED BY <1>1, <2>1, <2>2, <2>3, FS_EmptySet DEF RunningRowsOwned
<1> QED BY <1>7, <1>8, <1>9, <1>10 DEF Invariant

\* the invariant is inductive, and every specification with these steps has it
LEMMA InvariantKept == Invariant /\ [Next]_vars => Invariant'
<1> SUFFICES ASSUME Invariant, [Next]_vars PROVE Invariant' OBVIOUS
<1>1. TypeOK' /\ Owners' /\ Listed' /\ Stamps' /\ RunningRowsOwned'
  BY TypesKept, OwnersKept, ListedKept, StampsKept, OwnedKept DEF Invariant
<1>2. \A k \in Kinds : Resting(k)' BY RestingKept DEF Invariant
<1>3. \A k \in Kinds, d \in 1..MaxTime : Counted(k, d)'
  BY <1>1, CountedKept DEF Invariant
<1> QED BY <1>1, <1>2, <1>3 DEF Invariant

\* Every step keeps the invariant: the theorems below read their properties off it.
LEMMA InvariantHolds == Spec => []Invariant
BY InvariantStarts, InvariantKept, PTL DEF Spec

\* Every variable keeps its type; in particular a stamp never lies past the
\* clock's range, and the scheduler fires kinds of the registry only.
THEOREM Typed == Spec => []TypeOK
<1>1. Invariant => TypeOK BY DEF Invariant
<1> QED BY <1>1, InvariantHolds, PTL

\* Scheduler.tick and fire: for any kinds, periods, edits, failures and
\* crashes, a due time is served once, and once more for each failed statement
\* or crash.
THEOREM ServedOnce == Spec => []DueServedOnce
<1>1. Invariant => DueServedOnce
  <2> SUFFICES ASSUME Invariant, NEW k \in Kinds, NEW d \in 1..MaxTime
               PROVE  done[k][d] <= 1 + faults + crashes
    BY DEF DueServedOnce
  <2>1. faults \in Nat /\ crashes \in Nat /\ done[k][d] \in Nat
    <3>1. done[k] \in [1..MaxTime -> Nat] BY DEF Invariant, TypeOK
    <3> QED BY <3>1, SchedulerAssumption DEF Invariant, TypeOK
  <2>2. Counted(k, d) BY DEF Invariant
  <2> QED BY <2>1, <2>2 DEF Counted
<1> QED BY <1>1, InvariantHolds, PTL

\* Scheduler.fire and RunNow: a row that says running and has nobody at work on
\* it was left by a lost statement, a client that went or a crash, each of which
\* leaves no more than the process was holding.
THEOREM RowsOwned == Spec => []RunningRowsOwned
<1>1. Invariant => RunningRowsOwned BY DEF Invariant
<1> QED BY <1>1, InvariantHolds, PTL

\* UpdateSchedule under a running tick: a kind that is switched off is run by
\* the scheduler once more at most.
THEOREM OffIsQuiet == Spec => []DisabledStaysQuiet
<1>1. Invariant => DisabledStaysQuiet
  <2> SUFFICES ASSUME Invariant, NEW k \in Kinds, ~schedules[k].enabled PROVE quiet[k] <= 1
    BY DEF DisabledStaysQuiet
  <2>1. quiet[k] \in Int BY DEF Invariant, TypeOK
  <2> QED BY <2>1 DEF Invariant, Resting
<1> QED BY <1>1, InvariantHolds, PTL

=============================================================================
