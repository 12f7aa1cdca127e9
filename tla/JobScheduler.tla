---------------------------- MODULE JobScheduler ----------------------------
(***************************************************************************)
(* Cron schedules and their runs: the seeding at start-up, the scheduler   *)
(* goroutine that fires what is due, admins who edit schedules, press Run  *)
(* now and delete jobs.  All of it lives in one process that may die and   *)
(* be started again.                                                       *)
(*                                                                         *)
(* An action is one SQL statement with the Go code up to the next, or the  *)
(* whole of a kind's Enqueue hook.  A cron expression is a period: it is   *)
(* due at every multiple of it.  Kinds are numbered in the order of their  *)
(* names, in which the registry and ListSchedules return them.  The hooks' *)
(* own work is left out, and so are finished rows of jobs, which nothing   *)
(* here looks at again.                                                    *)
(***************************************************************************)
EXTENDS Integers, FiniteSets

CONSTANTS
    Kinds,         \* the schedulable kinds
    DefaultOn,     \* kinds with DefaultEnabled
    DefaultCron,   \* DefaultCron[k]: the period a kind is seeded with
    Crons,         \* periods an admin may set
    StaleRun,      \* age from which a running row counts as gone
    Presses,       \* Run now requests
    MaxTime,       \* bound: the clock
    MaxJobs,       \* bound: running rows of jobs
    MaxEdits,      \* bound: admins' edits
    MaxFaults,     \* bound: statements that fail, requests whose client leaves
    MaxCrashes     \* bound: crashes of the process

JobIDs == 1..MaxJobs

ASSUME SchedulerAssumption ==
    /\ Kinds \subseteq Nat \ {0} /\ DefaultOn \subseteq Kinds /\ IsFiniteSet(Presses)
    /\ Crons \subseteq Nat \ {0} /\ DefaultCron \in [Kinds -> Crons]
    /\ StaleRun \in Nat \ {0} /\ MaxTime \in Nat /\ MaxJobs \in Nat /\ MaxEdits \in Nat
    /\ MaxFaults \in Nat /\ MaxCrashes \in Nat

VARIABLES
    clock,
    schedules,  \* job_schedules by kind; base is last_fired_at, or created_at
    jobs,       \* the running rows of jobs the scheduler and Run now create
    boot,       \* start-up: kinds still to seed, and what is done about the first
    tick,       \* the scheduler goroutine
    press,      \* the Run now requests
    done,       \* observer: how often each due time was served by a hook
    quiet,      \* observer: hooks run for a kind since it was switched off, or -1
    edits, faults, crashes

vars == <<clock, schedules, jobs, boot, tick, press, done, quiet,
          edits, faults, crashes>>

Absent == [there |-> FALSE, cron |-> 1, enabled |-> FALSE, base |-> 0]
NoJob  == 0
NoKind == 0
Free   == [kind |-> NoKind, running |-> FALSE, at |-> 0]
Asleep == [pc |-> "idle", todo |-> {}, due |-> [k \in Kinds |-> 0],
           job |-> NoJob, ok |-> TRUE]
Unsent == [pc |-> "idle", kind |-> NoKind, job |-> NoJob]

Init ==
    /\ clock = 0
    /\ schedules = [k \in Kinds |-> Absent]
    /\ jobs = [i \in JobIDs |-> Free]
    /\ boot = [todo |-> Kinds, seed |-> FALSE]
    /\ tick = Asleep /\ press = [p \in Presses |-> Unsent]
    /\ done = [k \in Kinds |-> [d \in 1..MaxTime |-> 0]] /\ quiet = [k \in Kinds |-> -1]
    /\ edits = 0 /\ faults = 0 /\ crashes = 0

Fault == faults < MaxFaults /\ faults' = faults + 1

\* the first of a list
First(x, xs) == x \in xs /\ \A y \in xs : x <= y

------------------------------------------------------------------------------
(* Start-up *)

\* GetSchedule: a row ends it; no row, and any error, lead to the upsert
CheckSchedule ==
    /\ ~boot.seed
    /\ \E k \in boot.todo :
        /\ First(k, boot.todo)
        /\ \/ /\ schedules[k].there /\ UNCHANGED faults
              /\ boot' = [boot EXCEPT !.todo = @ \ {k}]
           \/ /\ ~schedules[k].there /\ UNCHANGED faults
              /\ boot' = [boot EXCEPT !.seed = TRUE]
           \/ Fault /\ boot' = [boot EXCEPT !.seed = TRUE]
    /\ UNCHANGED <<clock, schedules, jobs, tick, press, done, quiet,
                   edits, crashes>>

\* UpsertSchedule keeps last_fired_at and created_at of a row that is there
Upsert(k, cron, enabled) ==
    schedules' = [schedules EXCEPT ![k] =
        [there |-> TRUE, cron |-> cron, enabled |-> enabled,
         base |-> IF @.there THEN @.base ELSE clock]]

SeedSchedule ==
    /\ boot.seed
    /\ \E k \in boot.todo :
        /\ First(k, boot.todo)
        /\ boot' = [todo |-> boot.todo \ {k}, seed |-> FALSE]
        /\ \/ Upsert(k, DefaultCron[k], k \in DefaultOn) /\ UNCHANGED faults
           \/ Fault /\ UNCHANGED schedules
    /\ UNCHANGED <<clock, jobs, tick, press, done, quiet, edits, crashes>>

\* the scheduler and the HTTP server start after the seeding
Up == boot.todo = {}

------------------------------------------------------------------------------
(* Rows of jobs *)

\* a finished or deleted row's id is taken again once nobody holds it
Held    == {tick.job} \cup {press[p].job : p \in Presses}
FreeIDs == {i \in JobIDs : ~jobs[i].running} \ Held

CreateJob(i, k) ==
    /\ First(i, FreeIDs)
    /\ jobs' = [jobs EXCEPT ![i] = [kind |-> k, running |-> TRUE, at |-> clock]]

\* MarkFinished, to completed or failed; a row an admin deleted takes nothing
MarkFinished(i) == jobs' = [jobs EXCEPT ![i] = Free]

\* IsKindRunning
KindRunning(k) ==
    \E i \in JobIDs : jobs[i].running /\ jobs[i].kind = k /\ jobs[i].at > clock - StaleRun

\* observers: the hook of kind k ran to its end for due time d
Served(k, d) ==
    /\ done' = [done EXCEPT ![k][d] = @ + 1]
    /\ quiet' = IF quiet[k] = -1 THEN quiet ELSE [quiet EXCEPT ![k] = @ + 1]

------------------------------------------------------------------------------
(* Scheduler.tick *)

\* cron's Next: the first due time after t
NextDue(cron, t) == ((t \div cron) + 1) * cron
\* mutant: schedules that are switched off are due as well
DueAnyway(k) == /\ schedules[k].there
                /\ NextDue(schedules[k].cron, schedules[k].base) <= clock
Due(k) == /\ schedules[k].there /\ schedules[k].enabled
          /\ NextDue(schedules[k].cron, schedules[k].base) <= clock

\* ListSchedules, and which of the rows are due now; nothing is read again
ListSchedules ==
    /\ Up /\ tick.pc = "idle"
    /\ \E k \in Kinds : Due(k)
    /\ tick' = [Asleep EXCEPT
            !.pc = "create", !.todo = {k \in Kinds : Due(k)},
            !.due = [k \in Kinds |-> IF Due(k) THEN NextDue(schedules[k].cron, schedules[k].base)
                                     ELSE 0]]
    /\ UNCHANGED <<clock, schedules, jobs, boot, press, done, quiet,
                   edits, faults, crashes>>

\* the kind that is being fired, and how far that is
Fires(k) == First(k, tick.todo)
Fire(pc, job, ok) == tick' = [tick EXCEPT !.pc = pc, !.job = job, !.ok = ok]
\* on to the next due kind, or to sleep
Proceed == \E k \in Kinds :
    /\ Fires(k)
    /\ tick' = IF tick.todo = {k} THEN Asleep
               ELSE [Asleep EXCEPT !.pc = "create", !.todo = tick.todo \ {k}, !.due = tick.due]

\* fire, CreateJob: its error leaves the schedule for the next tick
FireCreates ==
    /\ tick.pc = "create"
    /\ \/ /\ \E k \in Kinds, i \in FreeIDs :
                Fires(k) /\ CreateJob(i, k) /\ Fire("hook", i, TRUE)
          /\ UNCHANGED faults
       \/ Fault /\ Proceed /\ UNCHANGED jobs
    /\ UNCHANGED <<clock, schedules, boot, press, done, quiet, edits, crashes>>

\* fire, Enqueue
FireRuns ==
    /\ tick.pc = "hook"
    /\ \/ /\ \E k \in Kinds : Fires(k) /\ Served(k, tick.due[k])
          /\ Fire("finish", tick.job, TRUE) /\ UNCHANGED faults
       \/ Fault /\ Fire("finish", tick.job, FALSE) /\ UNCHANGED <<done, quiet>>
    /\ UNCHANGED <<clock, schedules, jobs, boot, press, edits, crashes>>

\* mutant: the hook is left to finish the row
FireLeavesRow ==
    /\ tick.pc = "finish"
    /\ IF tick.ok THEN Fire("stamp", NoJob, TRUE) ELSE Proceed
    /\ UNCHANGED <<clock, schedules, jobs, boot, press, done, quiet,
                   edits, faults, crashes>>
\* mutant: a failed run is stamped like any other
FireStampsAnyway ==
    /\ tick.pc = "finish" /\ MarkFinished(tick.job) /\ Fire("stamp", NoJob, TRUE)
    /\ UNCHANGED <<clock, schedules, boot, press, done, quiet, edits,
                   faults, crashes>>

\* fire, MarkFinished: the error of a completed run is fire's error as well
FireFinishes ==
    /\ tick.pc = "finish"
    /\ \/ MarkFinished(tick.job) /\ UNCHANGED faults
       \/ Fault /\ UNCHANGED jobs
    /\ IF tick.ok /\ faults' = faults THEN Fire("stamp", NoJob, TRUE) ELSE Proceed
    /\ UNCHANGED <<clock, schedules, boot, press, done, quiet, edits, crashes>>

\* mutant: the time of the next run is stamped
StampNext ==
    /\ tick.pc = "stamp" /\ Proceed
    /\ \E k \in Kinds : /\ Fires(k)
                        /\ schedules' = [schedules EXCEPT ![k].base =
                                            NextDue(schedules[k].cron, clock)]
    /\ UNCHANGED <<clock, jobs, boot, press, done, quiet, edits, faults, crashes>>
\* mutant: the stamp is the time of the run before
StampStale ==
    /\ tick.pc = "stamp" /\ Proceed
    /\ \E k \in Kinds : /\ Fires(k)
                        /\ schedules' = [schedules EXCEPT ![k].base = tick.due[k] - 1]
    /\ UNCHANGED <<clock, jobs, boot, press, done, quiet, edits, faults, crashes>>

\* MarkScheduleFired writes NOW(), however long the hook took
MarkScheduleFired ==
    /\ tick.pc = "stamp" /\ Proceed
    /\ \/ /\ \E k \in Kinds :
                Fires(k) /\ schedules' = [schedules EXCEPT ![k].base = clock]
          /\ UNCHANGED faults
       \/ Fault /\ UNCHANGED schedules
    /\ UNCHANGED <<clock, jobs, boot, press, done, quiet, edits, crashes>>

------------------------------------------------------------------------------
(* RunNow *)

Pressed(p, pc, job) == press' = [press EXCEPT ![p].pc = pc, ![p].job = job]

\* IsKindRunning: a fresh running row answers 409
Press(p) ==
    /\ Up /\ press[p].pc = "idle"
    /\ \E k \in Kinds :
        press' = [press EXCEPT ![p].kind = k,
                               ![p].pc = IF KindRunning(k) THEN "ended" ELSE "create"]
    /\ UNCHANGED <<clock, schedules, jobs, boot, tick, done, quiet,
                   edits, faults, crashes>>

PressCreates(p) ==
    /\ press[p].pc = "create"
    /\ \/ /\ \E i \in FreeIDs : CreateJob(i, press[p].kind) /\ Pressed(p, "hook", i)
          /\ UNCHANGED faults
       \/ Fault /\ Pressed(p, "ended", NoJob) /\ UNCHANGED jobs
    /\ UNCHANGED <<clock, schedules, boot, tick, done, quiet, edits, crashes>>

PressRuns(p) ==
    /\ press[p].pc = "hook"
    /\ UNCHANGED faults \/ Fault
    /\ Pressed(p, "finish", press[p].job)
    /\ UNCHANGED <<clock, schedules, jobs, boot, tick, done, quiet,
                   edits, crashes>>

\* MarkFinished, whose error is dropped
PressFinishes(p) ==
    /\ press[p].pc = "finish"
    /\ \/ MarkFinished(press[p].job) /\ UNCHANGED faults
       \/ Fault /\ UNCHANGED jobs
    /\ Pressed(p, "ended", NoJob)
    /\ UNCHANGED <<clock, schedules, boot, tick, done, quiet, edits, crashes>>

\* the client leaves while the hook runs: the request's context is dead, so the
\* hook's next statement fails, and MarkFinished with it
ClientLeaves(p) ==
    /\ press[p].pc \in {"hook", "finish"} /\ Fault
    /\ Pressed(p, "ended", NoJob)
    /\ UNCHANGED <<clock, schedules, jobs, boot, tick, done, quiet,
                   edits, crashes>>

------------------------------------------------------------------------------
(* Admins, time, crashes *)

Edit == edits < MaxEdits /\ edits' = edits + 1

UpdateSchedule ==
    /\ Up /\ Edit
    /\ \E k \in Kinds, c \in Crons, on \in BOOLEAN :
        /\ Upsert(k, c, on)
        /\ quiet' = [quiet EXCEPT ![k] = IF on THEN -1 ELSE 0]
    /\ UNCHANGED <<clock, jobs, boot, tick, press, done, faults, crashes>>

\* DeleteJob takes any row, also a running one
DeleteJob ==
    /\ Up /\ Edit
    /\ \E i \in JobIDs : jobs[i].running /\ jobs' = [jobs EXCEPT ![i] = Free]
    /\ UNCHANGED <<clock, schedules, boot, tick, press, done, quiet,
                   faults, crashes>>

Elapse ==
    /\ clock < MaxTime /\ clock' = clock + 1
    /\ UNCHANGED <<schedules, jobs, boot, tick, press, done, quiet,
                   edits, faults, crashes>>

Crash ==
    /\ Up /\ crashes < MaxCrashes /\ crashes' = crashes + 1
    /\ boot' = [todo |-> Kinds, seed |-> FALSE]
    /\ tick' = Asleep
    /\ press' = [p \in Presses |-> IF press[p].pc = "idle" THEN Unsent
                                   ELSE [press[p] EXCEPT !.pc = "ended", !.job = NoJob]]
    /\ UNCHANGED <<clock, schedules, jobs, done, quiet, edits, faults>>

------------------------------------------------------------------------------
Seeding == CheckSchedule \/ SeedSchedule
Tick == ListSchedules \/ FireCreates \/ FireRuns \/ FireFinishes \/ MarkScheduleFired
Answer(p) == Press(p) \/ PressCreates(p) \/ PressRuns(p) \/ PressFinishes(p)

Next == \/ Seeding \/ Tick
        \/ \E p \in Presses : Answer(p) \/ ClientLeaves(p)
        \/ UpdateSchedule \/ DeleteJob \/ Elapse \/ Crash

Spec == Init /\ [][Next]_vars

\* the process is started again after a crash, and its ticker never stops
FairSpec == Spec /\ WF_vars(Seeding) /\ WF_vars(Tick)
------------------------------------------------------------------------------
(* Properties *)

\* Every variable keeps its type: the tables' columns and the program points of
\* tick, fire and RunNow.
TypeOK ==
    /\ clock \in 0..MaxTime
    /\ schedules \in [Kinds -> [there : BOOLEAN, cron : Crons \cup {1},
                                enabled : BOOLEAN, base : 0..MaxTime]]
    /\ jobs \in [JobIDs -> [kind : Kinds \cup {NoKind}, running : BOOLEAN,
                            at : 0..MaxTime]]
    /\ boot \in [todo : SUBSET Kinds, seed : BOOLEAN]
    /\ tick \in [pc : {"idle", "create", "hook", "finish", "stamp"},
                 todo : SUBSET Kinds, due : [Kinds -> 0..MaxTime],
                 job : JobIDs \cup {NoJob}, ok : BOOLEAN]
    /\ press \in [Presses -> [pc : {"idle", "create", "hook", "finish", "ended"},
                  kind : Kinds \cup {NoKind}, job : JobIDs \cup {NoJob}]]
    /\ done \in [Kinds -> [1..MaxTime -> Nat]]
    /\ quiet \in [Kinds -> Nat \cup {-1}]
    /\ edits \in 0..MaxEdits /\ faults \in 0..MaxFaults /\ crashes \in 0..MaxCrashes

\* A due time is served once.  A tick repeats it only for a statement that
\* failed or a crash before the stamp: the stamp lies after the due time, also
\* when the hook ran past the next one.
DueServedOnce ==
    \A k \in Kinds, d \in 1..MaxTime : done[k][d] <= 1 + faults + crashes

\* A row that says running has somebody at work on it; each misfortune (a
\* crash, a lost statement, a client that left) leaves at most one behind per
\* process, so that IsKindRunning refuses a run for one of these only.
Ownerless == {i \in JobIDs : /\ jobs[i].running /\ tick.job # i
                             /\ \A p \in Presses : press[p].job # i}
RunningRowsOwned ==
    Cardinality(Ownerless) <= faults + crashes * (1 + Cardinality(Presses))

\* A kind that an admin switched off runs once more at most for the scheduler,
\* in the tick that had already read its schedule, for as long as its row stays
\* off.  (A failed read of it at the next start switches it on again.)
DisabledStaysQuiet ==
    \A k \in Kinds : ~schedules[k].enabled => quiet[k] <= 1

\* Once due (and not being fired for an earlier time), an enabled schedule runs,
\* through failures and restarts, unless an admin switches it off or changes its
\* cron first.
Waiting(k, d, c) == /\ k \notin tick.todo
                    /\ schedules[k].enabled /\ schedules[k].cron = c
                    /\ NextDue(schedules[k].cron, schedules[k].base) = d
                    /\ d <= clock
Settled(k, d, c) == \/ done[k][d] > 0
                    \/ ~schedules[k].enabled \/ schedules[k].cron # c
DueIsServed ==
    \A k \in Kinds, d \in 1..MaxTime, c \in Crons : Waiting(k, d, c) ~> Settled(k, d, c)
=============================================================================
