---------------------------- MODULE SuggestionRun ----------------------------
(***************************************************************************)
(* AI suggestion runs of one user: requests, admin sweeps and the          *)
(* scheduler insert River jobs; an attempt of AISuggestionsWorker runs the *)
(* pipeline of RunForUser, which records itself in an umbrella jobs row    *)
(* and an ai_suggestion_runs row; admins cancel and clear runs.            *)
(*                                                                         *)
(* An action is one SQL statement, transaction or provider call with the   *)
(* Go code up to the next.  Prompts, candidates, events, costs and the     *)
(* pool the suggestions land in are left out; all runs of an instance fall *)
(* into one 24-hour window.                                                *)
(***************************************************************************)
EXTENDS Integers, Sequences, FiniteSets

CONSTANTS
    Tasks,      \* River jobs that ask for a run of this user
    Trigger,    \* Trigger[t]: who asks, "user", "admin" or "scheduler"
    Limit,      \* UserRunRateLimitPerDay: negative unlimited, 0 none
    BackfillMax,\* backfill attempts of a run, 2 in the code
    MaxAdmin,   \* bound: cancellations and deletions by admins
    MaxFailures \* bound: crashes of the process, attempts whose context dies
                \* (timeout, shutdown) and SQL statements that fail, together

ASSUME SuggestionAssumption ==
    /\ IsFiniteSet(Tasks) /\ Trigger \in [Tasks -> {"user", "admin", "scheduler"}]
    /\ Limit \in Int /\ BackfillMax \in Nat
    /\ MaxAdmin \in Nat /\ MaxFailures \in Nat

VARIABLES
    runs,    \* per umbrella row: its task, the run row and its own status,
             \* and the stages begun after CancelRun (-1 while not cancelled)
    client,  \* where the request or sweep that inserts the task stands
    river,   \* River's state of each task
    worker,  \* the running attempt of each task: program point, its row in
             \* runs, backfill attempts made
    admin,   \* cancellations and deletions so far
    failures \* crashes, dead contexts and lost statements so far

vars == <<runs, client, river, worker, admin, failures>>

Running  == {r \in DOMAIN runs : runs[r].run = "running"}
UserRuns == {r \in DOMAIN runs : /\ runs[r].run \notin {"absent", "gone"}
                                 /\ Trigger[runs[r].task] = "user"}

NoAttempt == [pc |-> "idle", row |-> 0, tries |-> 0]

\* the first step of each kind of request
Entry(t) == CASE Trigger[t] = "user"  -> "rate"
              [] Trigger[t] = "admin" -> "running"
              [] OTHER                -> "insert"

Init ==
    /\ runs = <<>>
    /\ client = [t \in Tasks |-> Entry(t)]
    /\ river = [t \in Tasks |-> "none"]
    /\ worker = [t \in Tasks |-> NoAttempt]
    /\ admin = 0 /\ failures = 0

\* something goes wrong: a crash, a dead context, a lost statement
Fault == failures < MaxFailures /\ failures' = failures + 1

------------------------------------------------------------------------------
(* Asking for a run: RunNow, AdminRunSuggestions and the scheduler's Enqueue, *)
(* which skips users by the time of their last run and asks nothing else.     *)

Client(t, step) == client' = [client EXCEPT ![t] = step]

\* RunNow: the daily limit, when there is one
AskRate(t) ==
    /\ client[t] = "rate"
    /\ \/ /\ Client(t, IF Limit > 0 /\ Cardinality(UserRuns) >= Limit
                       THEN "end" ELSE "running")
          /\ UNCHANGED failures
       \/ Limit > 0 /\ Fault /\ Client(t, "end")
    /\ UNCHANGED <<runs, river, worker, admin>>

\* no second run beside a running one; an admin's sweep ignores a failed read
AskRunning(t) ==
    /\ client[t] = "running"
    /\ \/ Client(t, IF Running # {} THEN "end" ELSE "insert") /\ UNCHANGED failures
       \/ Fault /\ Client(t, IF Trigger[t] = "admin" THEN "insert" ELSE "end")
    /\ UNCHANGED <<runs, river, worker, admin>>

Insert(t) ==
    /\ client[t] = "insert" /\ Client(t, "end")
    /\ \/ river' = [river EXCEPT ![t] = "available"] /\ UNCHANGED failures
       \/ Fault /\ UNCHANGED river
    /\ UNCHANGED <<runs, worker, admin>>

------------------------------------------------------------------------------
(* AISuggestionsWorker.Work and RunForUser *)

At(t, pc)   == worker[t].pc = pc
Goto(t, pc) == worker' = [worker EXCEPT ![t].pc = pc]
\* Work returns nil: done, disabled, rate limited, already running, cancelled
Done(t)  == worker' = [worker EXCEPT ![t] = [NoAttempt EXCEPT !.pc = "completed"]]
\* Work returns river.JobCancel
Abort(t) == worker' = [worker EXCEPT ![t] = [NoAttempt EXCEPT !.pc = "cancelled"]]

Row(t) == runs[worker[t].row]

\* River starts an attempt; the user, the provider and the configuration may
\* say no before any row is read
Start(t) ==
    /\ river[t] = "available" /\ At(t, "idle")
    /\ river' = [river EXCEPT ![t] = "running"]
    /\ \/ Done(t) /\ UNCHANGED failures
       \/ /\ Trigger[t] # "user" \/ Limit # 0
          /\ Goto(t, IF Trigger[t] = "user" /\ Limit > 0 THEN "rate" ELSE "count")
          /\ UNCHANGED failures
       \/ Fault /\ Abort(t)
    /\ UNCHANGED <<runs, client, admin>>

CheckRate(t) ==
    /\ At(t, "rate")
    /\ \/ /\ IF Cardinality(UserRuns) >= Limit THEN Done(t) ELSE Goto(t, "count")
          /\ UNCHANGED failures
       \/ Fault /\ Abort(t)
    /\ UNCHANGED <<runs, client, river, admin>>

\* mutant: only the handlers ask whether a run is running
CheckRunningNot(t) ==
    /\ At(t, "count") /\ Goto(t, "umbrella")
    /\ UNCHANGED <<runs, client, river, admin, failures>>

\* "Don't stack a new run on top of a still-running one"
CheckRunning(t) ==
    /\ At(t, "count")
    /\ \/ /\ IF Running # {} THEN Done(t) ELSE Goto(t, "umbrella")
          /\ UNCHANGED failures
       \/ Fault /\ Abort(t)
    /\ UNCHANGED <<runs, client, river, admin>>

\* permissions, titles, blocks and steering are read (an empty account is
\* skipped), then CreateJob inserts the umbrella row
CreateUmbrella(t) ==
    /\ At(t, "umbrella")
    /\ \/ /\ runs' = Append(runs, [task |-> t, run |-> "absent",
                                   job |-> "running", late |-> -1])
          /\ worker' = [worker EXCEPT ![t].pc = "create",
                                      ![t].row = Len(runs) + 1]
          /\ UNCHANGED failures
       \/ Done(t) /\ UNCHANGED <<runs, failures>>
       \/ Fault /\ Abort(t) /\ UNCHANGED runs
    /\ UNCHANGED <<client, river, admin>>

\* CreateRun; its foreign key needs the umbrella row
CreateRun(t) ==
    /\ At(t, "create")
    /\ \/ /\ Row(t).job # "gone" /\ UNCHANGED failures
          /\ runs' = [runs EXCEPT ![worker[t].row].run = "running"]
          /\ Goto(t, "generate")
       \/ /\ Row(t).job = "gone" /\ UNCHANGED <<runs, failures>>
          /\ Goto(t, "umbrellaFailed")
       \/ Fault /\ Goto(t, "umbrellaFailed") /\ UNCHANGED runs
    /\ UNCHANGED <<client, river, admin>>

\* CreateRun failed: MarkFinished(failed) on the umbrella row
FailUmbrella(t) ==
    /\ At(t, "umbrellaFailed") /\ Abort(t)
    /\ \/ /\ runs' = [runs EXCEPT ![worker[t].row].job =
                        IF @ = "gone" THEN @ ELSE "failed"]
          /\ UNCHANGED failures
       \/ Fault /\ UNCHANGED runs
    /\ UNCHANGED <<client, river, admin>>

\* the first provider call: an answer, a truncated answer, or an error, which
\* may come from watchCancellation
Generate(t) ==
    /\ At(t, "generate")
    /\ \E next \in {"check", "checkTruncated", "genFailed"} : Goto(t, next)
    /\ UNCHANGED <<runs, client, river, admin, failures>>

\* where the pipeline goes from each of its looks at the run's status
AfterCheck == [check |-> "keys", checkTruncated |-> "fail", genFailed |-> "fail",
               checkBackfill |-> "call", checkLast |-> "persist"]

\* mutant: the status is not read between the stages
CheckNothing(t) ==
    /\ worker[t].pc \in DOMAIN AfterCheck
    /\ Goto(t, AfterCheck[worker[t].pc])
    /\ UNCHANGED <<runs, client, river, admin, failures>>

\* checkCancelled: a cancelled run, a missing one and a failed read all stop
\* the pipeline with ErrRunCancelled, on which Work returns nil
CheckCancelled(t) ==
    /\ worker[t].pc \in DOMAIN AfterCheck
    /\ \/ /\ IF Row(t).run \in {"cancelled", "gone"}
             THEN Done(t) ELSE Goto(t, AfterCheck[worker[t].pc])
          /\ UNCHANGED failures
       \/ Fault /\ Done(t)
    /\ UNCHANGED <<runs, client, river, admin>>

\* mutant: one backfill attempt too many
AfterTriesInclusive(n) ==
    {"checkLast"} \cup (IF n <= BackfillMax THEN {"checkBackfill"} ELSE {})

\* the backfill loop goes round again, while it may, or ends
AfterTries(n) == {"checkLast"} \cup (IF n < BackfillMax THEN {"checkBackfill"} ELSE {})

\* ListNewSuggestionKeys
ListKeys(t) ==
    /\ At(t, "keys")
    /\ \/ (\E next \in AfterTries(0) : Goto(t, next)) /\ UNCHANGED failures
       \/ Fault /\ Abort(t)
    /\ UNCHANGED <<runs, client, river, admin>>

\* a stage begins: it is late when the run was cancelled before
Stage(t) == [runs EXCEPT ![worker[t].row].late = IF @ >= 0 THEN @ + 1 ELSE @]

\* a backfill provider call; an error or a truncated answer ends the loop
BackfillCall(t) ==
    /\ At(t, "call")
    /\ runs' = Stage(t)
    /\ \E next \in AfterTries(worker[t].tries + 1) :
        worker' = [worker EXCEPT ![t].pc = next, ![t].tries = @ + 1]
    /\ UNCHANGED <<client, river, admin, failures>>

\* AppendSuggestions, one transaction; a suggestion's run_id is a foreign key,
\* so a deleted run fails it unless there is nothing to insert
Persist(t) ==
    /\ At(t, "persist")
    /\ \/ runs' = Stage(t) /\ Goto(t, "complete") /\ UNCHANGED failures
       \/ Row(t).run = "gone" /\ Goto(t, "fail") /\ UNCHANGED <<runs, failures>>
       \/ Fault /\ Goto(t, "fail") /\ UNCHANGED runs
    /\ UNCHANGED <<client, river, admin>>

\* mutant: the umbrella row is forgotten
FinishRunAlone(t, status) == runs' = [runs EXCEPT ![worker[t].row].run = status]

\* FinishRun: run and umbrella row in one transaction, whatever they say now
FinishRun(t, status) ==
    runs' = [runs EXCEPT ![worker[t].row].run = status, ![worker[t].row].job = status]

\* the last step: an error of FinishRun is the attempt's error
Complete(t) ==
    /\ At(t, "complete")
    /\ \/ Row(t).run # "gone" /\ FinishRun(t, "completed") /\ Done(t) /\ UNCHANGED failures
       \/ Row(t).run = "gone" /\ Abort(t) /\ UNCHANGED <<runs, failures>>
       \/ Fault /\ Abort(t) /\ UNCHANGED runs
    /\ UNCHANGED <<client, river, admin>>

\* mutant: a failed pipeline leaves its row as it is
FailSilently(t) ==
    /\ At(t, "fail") /\ Abort(t)
    /\ UNCHANGED <<runs, client, river, admin, failures>>

\* a failed provider call, a truncated answer or a failed AppendSuggestions:
\* FinishRun(failed), its own error ignored
Fail(t) ==
    /\ At(t, "fail") /\ Abort(t)
    /\ \/ Row(t).run # "gone" /\ FinishRun(t, "failed") /\ UNCHANGED failures
       \/ Row(t).run = "gone" /\ UNCHANGED <<runs, failures>>
       \/ Fault /\ UNCHANGED runs
    /\ UNCHANGED <<client, river, admin>>

\* River records what Work returned
EndJob(t) ==
    /\ worker[t].pc \in {"completed", "cancelled"}
    /\ river' = [river EXCEPT ![t] = worker[t].pc]
    /\ worker' = [worker EXCEPT ![t] = NoAttempt]
    /\ UNCHANGED <<runs, client, admin, failures>>

------------------------------------------------------------------------------
(* Admins and the machine *)

Intervene == admin < MaxAdmin /\ admin' = admin + 1

\* mutant: cancels a run whatever its state
CancelAnyRun(r) ==
    /\ Intervene
    /\ runs[r].run \notin {"absent", "gone", "cancelled"}
    /\ runs' = [runs EXCEPT ![r].run = "cancelled", ![r].late = 0]
    /\ UNCHANGED <<client, river, worker, failures>>

\* CancelRun: one statement, a running run only, and not its umbrella row
CancelRun(r) ==
    /\ Intervene
    /\ runs[r].run = "running"
    /\ runs' = [runs EXCEPT ![r].run = "cancelled", ![r].late = 0]
    /\ UNCHANGED <<client, river, worker, failures>>

\* DeleteFinishedRuns: every run in a terminal state; umbrella rows stay
ClearFinished ==
    /\ Intervene
    /\ runs' = [r \in DOMAIN runs |->
                  [runs[r] EXCEPT !.run = IF @ \in {"completed", "failed", "cancelled"}
                                          THEN "gone" ELSE @]]
    /\ runs' # runs
    /\ UNCHANGED <<client, river, worker, failures>>

\* DeleteJob: the umbrella row in any state; the run goes with it
DeleteUmbrella(r) ==
    /\ Intervene
    /\ runs[r].job # "gone"
    /\ runs' = [runs EXCEPT ![r].job = "gone", ![r].run = "gone"]
    /\ UNCHANGED <<client, river, worker, failures>>

\* the process dies: requests are lost, River runs its jobs again
Crash ==
    /\ Fault
    /\ worker' = [t \in Tasks |-> NoAttempt]
    /\ river' = [t \in Tasks |-> IF river[t] = "running" THEN "available" ELSE river[t]]
    /\ client' = [t \in Tasks |-> IF client[t] = Entry(t) THEN client[t] ELSE "end"]
    /\ UNCHANGED <<runs, admin>>

\* The attempt's context dies, by the 20-minute timeout or a shutdown.  The
\* first provider call fails and its aftermath has a context of its own
\* (terminalWriteCtx); everywhere else every later statement fails, and a
\* status check that fails reads as cancelled.
ContextDies(t) ==
    /\ worker[t].pc \notin {"idle", "genFailed", "completed", "cancelled"}
    /\ Fault
    /\ CASE At(t, "generate") -> Goto(t, "genFailed")
         [] worker[t].pc \in {"check", "checkTruncated", "checkBackfill", "checkLast",
                              "call"} -> Done(t)
         [] OTHER -> Abort(t)
    /\ UNCHANGED <<runs, client, river, admin>>

------------------------------------------------------------------------------
Work(t) ==
    \/ Start(t) \/ CheckRate(t) \/ CheckRunning(t) \/ CreateUmbrella(t)
    \/ CreateRun(t) \/ FailUmbrella(t) \/ Generate(t) \/ CheckCancelled(t)
    \/ ListKeys(t) \/ BackfillCall(t) \/ Persist(t)
    \/ Complete(t) \/ Fail(t) \/ EndJob(t)

Next ==
    \/ \E t \in Tasks : \/ AskRate(t) \/ AskRunning(t) \/ Insert(t)
                        \/ Work(t) \/ ContextDies(t)
    \/ \E r \in DOMAIN runs : CancelRun(r) \/ DeleteUmbrella(r)
    \/ ClearFinished \/ Crash

Spec == Init /\ [][Next]_vars

\* River keeps running every available job, and a provider call ends: the
\* client's own timeout sees to that
FairSpec == Spec /\ \A t \in Tasks : WF_vars(Work(t))
------------------------------------------------------------------------------
(* Properties *)

ProgramPoints == {"idle", "rate", "count", "umbrella", "create", "umbrellaFailed",
    "generate", "keys", "call", "persist", "complete", "fail",
    "completed", "cancelled"} \cup DOMAIN AfterCheck
RunRows == [task : Tasks,
            run : {"absent", "running", "completed", "failed", "cancelled", "gone"},
            job : {"running", "completed", "failed", "gone"}, late : Nat \cup {-1}]
\* program points at which the attempt has a row of its own
HasRow == ProgramPoints \ {"idle", "rate", "count", "umbrella", "completed", "cancelled"}

\* Every variable keeps its type, and an attempt past CreateJob works on a row
\* of its own task.
TypeOK ==
    /\ runs \in Seq(RunRows)
    /\ client \in [Tasks -> {"rate", "running", "insert", "end"}]
    /\ river \in [Tasks -> {"none", "available", "running", "completed", "cancelled"}]
    /\ worker \in [Tasks -> [pc : ProgramPoints, row : Nat, tries : 0..BackfillMax]]
    /\ \A t \in Tasks : worker[t].pc \in HasRow =>
          worker[t].row \in DOMAIN runs /\ Row(t).task = t
    /\ admin \in 0..MaxAdmin /\ failures \in 0..MaxFailures

\* A River job that is run again never stacks a run on the one its dead attempt
\* left behind: however often it crashes, at most one of its runs is running.
OneRunPerJob ==
    \A r, s \in Running : runs[r].task = runs[s].task => r = s

\* After CancelRun the pipeline begins at most one more stage (a provider call
\* or the write of its suggestions), also when the cancelled run is cleared from
\* the history before the worker looks.
CancelStopsRun == \A r \in DOMAIN runs : runs[r].late <= 1

\* The unified history tells how a run ended exactly when it ended that way: no
\* crash, cancellation or clearing leaves a finished run with another umbrella,
\* or a finished umbrella with a run that is not.
HistoryAgrees ==
    \A r \in DOMAIN runs :
        /\ runs[r].run \in {"completed", "failed"} => runs[r].job = runs[r].run
        /\ runs[r].job \in {"completed", "failed"}
             => runs[r].run \in {runs[r].job, "absent", "gone"}

\* A run that ended keeps its verdict until it is deleted: a late cancellation,
\* a retry or another run of the user does not rewrite it.
VerdictSticks ==
    [][\A r \in DOMAIN runs : runs[r].run \in {"completed", "failed"}
                                => runs'[r].run \in {runs[r].run, "gone"}]_vars

RunState(r) == IF r \in DOMAIN runs THEN runs[r].run ELSE "absent"

\* Whatever the provider answers and whatever the admins do, the pipeline does
\* not leave its run behind as running (which would bar the user from further
\* runs), as long as no process, context or statement fails.
RunEnds ==
    \A r \in 1..Cardinality(Tasks) :
        RunState(r) = "running" ~> (RunState(r) # "running" \/ failures > 0)
=============================================================================
