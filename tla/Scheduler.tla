----------------------------- MODULE Scheduler -----------------------------
(***************************************************************************)
(* The cron half of ota_core/automation/scheduler.py: registration, the    *)
(* run loop, manual triggers, start and stop, over the cron_jobs table.    *)
(*                                                                         *)
(* Everything runs on one asyncio event loop.  A task gives way only where *)
(* it awaits: in a job's callback, in the wait between two ticks and where *)
(* stop() joins the loop.  One action is what a task does from one of      *)
(* these points to the next, which includes looking up the next due job.   *)
(* A crash keeps the table and forgets everything else.                    *)
(***************************************************************************)
EXTENDS Naturals

CONSTANTS
  Jobs,             (* job ids                                             *)
  Expressions,      (* cron expressions                                    *)
  NextAfter(_, _),  (* CronExpression.next_after: expression and time      *)
  Loops,            (* run-loop tasks that may exist at a time             *)
  Callers,          (* tasks that call trigger and stop                    *)
  None,             (* no job, no row, no loop task                        *)
  Never,            (* the job has not run since it was registered         *)
  MaxTime,          (* bound: clock ticks                                  *)
  MaxFaults,        (* bound: callbacks that raise and writes that fail    *)
  MaxCalls,         (* bound: calls to register, deregister and trigger    *)
  MaxCrashes        (* bound: process crashes                              *)

Runners == Loops \cup Callers

\* A row of cron_jobs, and as history the expression its next fire time is from.
Rows == [next : Nat, last : Nat \cup {Never}, status : {"succeeded", "failed", "none"},
         from : Expressions]

ASSUME RolesAssumption ==
  /\ Loops \cap Callers = {}
  /\ None \notin Loops /\ None \notin Jobs /\ None \notin Expressions /\ None \notin Rows
  /\ Never \notin Nat

\* Cron looks forward: the next match is strictly later, and a later start does
\* not find an earlier one.
ASSUME CronAssumption ==
  \A e \in Expressions : \A t \in 0..MaxTime :
    /\ NextAfter(e, t) \in Nat
    /\ NextAfter(e, t) > t
    /\ \A u \in t..MaxTime : NextAfter(e, t) <= NextAfter(e, u)

ASSUME BoundsAssumption ==
  MaxTime \in Nat /\ MaxFaults \in Nat /\ MaxCalls \in Nat /\ MaxCrashes \in Nat

VARIABLES
  now,       (* the clock                                                  *)
  cron,      (* _cron: the registered jobs and their expressions           *)
  table,     (* cron_jobs                                                  *)
  current,   (* _loop_task                                                 *)
  stopping,  (* the _stop event is set                                     *)
  pc,        (* where each task awaits                                     *)
  due,       (* the due rows a loop's tick has still to look at            *)
  job, expr, (* the job whose callback a task awaits, as it looked it up   *)
  began,     (* when that callback was called                              *)
  joined,    (* the loop task a call of stop() awaits                      *)
  faults, calls, crashes  (* what has been used of the bounds              *)

run == <<job, expr, began>>
bounds == <<faults, calls, crashes>>
vars == <<now, cron, table, current, stopping, pc, due, run, joined, bounds>>

LoopLabels == {"none", "ready", "wait", "run", "done", "dead"}
CallerLabels == {"idle", "run", "join"}

TypeOK ==
  /\ now \in 0..MaxTime
  /\ cron \in [Jobs -> Expressions \cup {None}]
  /\ table \in [Jobs -> Rows \cup {None}]
  /\ current \in Loops \cup {None}
  /\ stopping \in BOOLEAN
  /\ \A l \in Loops : pc[l] \in LoopLabels
  /\ \A c \in Callers : pc[c] \in CallerLabels
  /\ pc \in [Runners -> LoopLabels \cup CallerLabels]
  /\ due \in [Runners -> SUBSET Jobs]
  /\ job \in [Runners -> Jobs \cup {None}]
  /\ expr \in [Runners -> Expressions \cup {None}]
  /\ began \in [Runners -> Nat]
  /\ joined \in [Runners -> Loops \cup {None}]
  /\ faults \in 0..MaxFaults /\ calls \in 0..MaxCalls /\ crashes \in 0..MaxCrashes

\* Scheduler.__init__: nothing is registered and no task runs.
NoJobs == [j \in Jobs |-> None]
NoTasks == [r \in Runners |-> IF r \in Loops THEN "none" ELSE "idle"]
Nothing(x) == [r \in Runners |-> x]

Init ==
  /\ now = 0
  /\ cron = NoJobs
  /\ table = NoJobs
  /\ current = None
  /\ stopping = FALSE
  /\ pc = NoTasks
  /\ due = Nothing({})
  /\ job = Nothing(None) /\ expr = Nothing(None) /\ began = Nothing(0)
  /\ joined = Nothing(None)
  /\ faults = 0 /\ calls = 0 /\ crashes = 0

Live(l) == pc[l] \in {"ready", "wait", "run"}

Call == calls < MaxCalls /\ calls' = calls + 1

Fault == faults < MaxFaults /\ faults' = faults + 1

-----------------------------------------------------------------------------
(* Registration                                                            *)

\* register_cron: the job is in _cron before its row is written; INSERT OR
\* REPLACE starts the row afresh.  The write may raise.
Register(j, e) ==
  /\ Call
  /\ cron[j] = None
  /\ cron' = [cron EXCEPT ![j] = e]
  /\ \/ table' = [table EXCEPT ![j] = [next |-> NextAfter(e, now), last |-> Never,
                                        status |-> "none", from |-> e]]
        /\ UNCHANGED faults
     \/ Fault /\ UNCHANGED table
  /\ UNCHANGED <<now, current, stopping, pc, due, run, joined, crashes>>

\* deregister_cron: the row stays if its DELETE raises.
Deregister(j) ==
  /\ Call
  /\ cron[j] # None
  /\ cron' = [cron EXCEPT ![j] = None]
  /\ \/ table' = [table EXCEPT ![j] = None] /\ UNCHANGED faults
     \/ Fault /\ UNCHANGED table
  /\ UNCHANGED <<now, current, stopping, pc, due, run, joined, crashes>>

-----------------------------------------------------------------------------
(* Runs of a job                                                           *)

\* The task calls the job's callback and awaits it.
Begin(r, j) ==
  /\ pc' = [pc EXCEPT ![r] = "run"]
  /\ job' = [job EXCEPT ![r] = j]
  /\ expr' = [expr EXCEPT ![r] = cron[j]]
  /\ began' = [began EXCEPT ![r] = now]

\* The task awaits no callback any more.
End(r, label) ==
  /\ pc' = [pc EXCEPT ![r] = label]
  /\ job' = [job EXCEPT ![r] = None]
  /\ expr' = [expr EXCEPT ![r] = None]
  /\ began' = [began EXCEPT ![r] = 0]

\* The loop looks at the rows of its tick, in any order: it skips those whose
\* job is gone and calls the first that is registered; after the last one it
\* waits for the next tick.
Proceed(l, rows) ==
  \/ \E j \in rows, gone \in SUBSET {h \in rows : cron[h] = None} :
       /\ cron[j] # None
       /\ Begin(l, j)
       /\ due' = [due EXCEPT ![l] = rows \ (gone \cup {j})]
  \/ /\ \A j \in rows : cron[j] = None
     /\ End(l, "wait")
     /\ due' = [due EXCEPT ![l] = {}]

\* Faulty variant: the row keeps its next fire time.
NextFireKept(r) == table[job[r]].next

\* Faulty variant: the time of the call decides, not that of the return.
NextFireFromStart(r) == NextAfter(expr[r], began[r])

\* next_fire_at as _fire_cron computes it once the callback has returned, from
\* the job it was given.
NextFire(r) == NextAfter(expr[r], now)

RunRow(r, status) ==
  [next |-> NextFire(r), last |-> began[r], status |-> status, from |-> expr[r]]

\* Faulty variant: the row is written whether it is there or not.
Upsert(r, status) == table' = [table EXCEPT ![job[r]] = RunRow(r, status)]

\* UPDATE cron_jobs ... WHERE job_id = ?: nothing to update once the row is gone.
Record(r, status) ==
  table' = [table EXCEPT ![job[r]] = IF @ = None THEN None ELSE RunRow(r, status)]

\* The callback returns.
Succeed(r) ==
  /\ pc[r] = "run"
  /\ Record(r, "succeeded")
  /\ \/ r \in Loops /\ Proceed(r, due[r])
     \/ r \in Callers /\ End(r, "idle") /\ UNCHANGED due
  /\ UNCHANGED <<now, cron, current, stopping, joined, bounds>>

\* Faulty variant: the exception of a triggered run ends the task for good.
FateDead(r) == "dead"

\* What an exception makes of the task: nobody awaits the loop's.
Fate(r) == IF r \in Loops THEN "dead" ELSE "idle"

\* The callback raises, or the write after it does: the exception goes on to the
\* caller of trigger, or ends the loop's task and the rest of its tick.
Raise(r) ==
  /\ pc[r] = "run"
  /\ Fault
  /\ Record(r, "failed") \/ UNCHANGED table
  /\ End(r, Fate(r))
  /\ due' = [due EXCEPT ![r] = {}]
  /\ UNCHANGED <<now, cron, current, stopping, joined, calls, crashes>>

\* trigger: next to whatever the loop is doing.
Trigger(c, j) ==
  /\ Call
  /\ pc[c] = "idle"
  /\ cron[j] # None
  /\ Begin(c, j)
  /\ UNCHANGED <<now, cron, table, current, stopping, due, joined, faults, crashes>>

-----------------------------------------------------------------------------
(* The run loop                                                            *)

\* Faulty variant: a row is due only after its time has passed.
DueJobsLate == {j \in Jobs : table[j] # None /\ table[j].next < now}

\* _fetch_due_jobs.
DueJobs == {j \in Jobs : table[j] # None /\ table[j].next <= now}

\* The loop wakes up: it returns if _stop is set, and otherwise takes its rows
\* and calls the first job.
Wake(l) ==
  /\ pc[l] \in {"ready", "wait"}
  /\ \/ stopping /\ End(l, "done") /\ UNCHANGED due
     \/ ~stopping /\ Proceed(l, DueJobs)
  /\ UNCHANGED <<now, cron, table, current, stopping, joined, bounds>>

\* start: a new task, unless _loop_task is set, whatever became of that one.
Start(l) ==
  /\ current = None
  /\ pc[l] \in {"none", "done", "dead"}
  /\ \A c \in Callers : joined[c] # l
  /\ current' = l
  /\ stopping' = FALSE
  /\ pc' = [pc EXCEPT ![l] = "ready"]
  /\ UNCHANGED <<now, cron, table, due, run, joined, bounds>>

\* stop() from where the task it awaits has ended: an exception of the task
\* leaves _loop_task as it is.
Stopped(c, l) ==
  /\ pc[l] \in {"done", "dead"}
  /\ current' = IF pc[l] = "done" THEN None ELSE current
  /\ pc' = [pc EXCEPT ![c] = "idle"]
  /\ joined' = [joined EXCEPT ![c] = None]

\* stop: sets _stop and joins the task.
Stop(c) ==
  /\ pc[c] = "idle"
  /\ current # None
  /\ stopping' = TRUE
  /\ \/ /\ ~Live(current)
        /\ Stopped(c, current)
     \/ /\ Live(current)
        /\ pc' = [pc EXCEPT ![c] = "join"]
        /\ joined' = [joined EXCEPT ![c] = current]
        /\ UNCHANGED current
  /\ UNCHANGED <<now, cron, table, due, run, bounds>>

\* Faulty variant: stop() does not wait for the task.
JoinNothing(c) ==
  /\ pc[c] = "join"
  /\ current' = None
  /\ pc' = [pc EXCEPT ![c] = "idle"]
  /\ joined' = [joined EXCEPT ![c] = None]
  /\ UNCHANGED <<now, cron, table, stopping, due, run, bounds>>

\* The task that stop() awaits has ended.
Join(c) ==
  /\ pc[c] = "join"
  /\ Stopped(c, joined[c])
  /\ UNCHANGED <<now, cron, table, stopping, due, run, bounds>>

-----------------------------------------------------------------------------
Tick ==
  /\ now < MaxTime
  /\ now' = now + 1
  /\ UNCHANGED <<cron, table, current, stopping, pc, due, run, joined, bounds>>

\* The process dies and starts again with the table as it is.
Crash ==
  /\ crashes < MaxCrashes
  /\ crashes' = crashes + 1
  /\ cron' = NoJobs
  /\ current' = None
  /\ stopping' = FALSE
  /\ pc' = NoTasks
  /\ due' = Nothing({})
  /\ job' = Nothing(None) /\ expr' = Nothing(None) /\ began' = Nothing(0)
  /\ joined' = Nothing(None)
  /\ UNCHANGED <<now, table, faults, calls>>

Next ==
  \/ \E j \in Jobs : (\E e \in Expressions : Register(j, e)) \/ Deregister(j)
  \/ \E r \in Runners : Succeed(r) \/ Raise(r)
  \/ \E c \in Callers : (\E j \in Jobs : Trigger(c, j)) \/ Stop(c) \/ Join(c)
  \/ \E l \in Loops : Wake(l) \/ Start(l)
  \/ Tick
  \/ Crash

\* The event loop resumes every task that can go on, and callbacks end.  Nothing
\* makes the application start the scheduler again or stop it.
Fairness ==
  /\ \A r \in Runners : WF_vars(Succeed(r) \/ Raise(r))
  /\ \A l \in Loops : WF_vars(Wake(l))
  /\ \A c \in Callers : WF_vars(Join(c))

Spec == Init /\ [][Next]_vars /\ Fairness

-----------------------------------------------------------------------------
(* Properties                                                              *)

\* Whatever overlaps, a row's next fire time is later than the start of the run
\* it records: a job is never due for the time it has just run for.
RowAhead == \A j \in Jobs : table[j] # None /\ table[j].last # Never => table[j].last < table[j].next

\* Neither the row of j nor a run of it is left from another registration, with
\* another expression.
SameRegistration(j) ==
  /\ table[j] # None => table[j].from = cron[j]
  /\ \A r \in Runners : job[r] = j => expr[r] = cron[j]

\* As long as a job stays registered its next fire time only moves forward,
\* even when a triggered run and one of the loop overlap and return in the
\* wrong order.  Only what another registration left behind can set it back.
NextForward ==
  [][\A j \in Jobs :
       /\ cron[j] # None /\ cron'[j] = cron[j] /\ SameRegistration(j)
       /\ table[j] # None
       => table'[j] # None /\ table'[j].next >= table[j].next]_vars

\* A run that returns after its job was deregistered does not bring the job's
\* row back: only a registration makes a row.
RowsComeFromRegister ==
  [][\A j \in Jobs : table[j] = None /\ table'[j] # None => cron[j] = None /\ cron'[j] # None]_vars

\* The scheduler loses track of a running loop only to a stop() that was still
\* waiting for an earlier one: two overlapping stops and a start between them.
LoopLostOnlyToLateStop ==
  [][(current # None /\ Live(current) /\ current' = None /\ crashes' = crashes)
       => \E c \in Callers : pc[c] = "join" /\ joined[c] # current]_vars

Running == current # None /\ Live(current)

Overdue(j) == table[j] # None /\ table[j].next <= now

\* No due job starves: as long as the loop is running, a registered job that is
\* due is run, or deregistered, in the end, whatever other jobs and triggers do.
DueJobRuns ==
  \A j \in Jobs :
    (Running /\ ~stopping /\ cron[j] # None /\ Overdue(j))
      ~> (~Running \/ stopping \/ cron[j] = None \/ ~Overdue(j))

-----------------------------------------------------------------------------
(* What the documentation says, refuted by the code                        *)

\* docs/phase-2-notes.md: "If the framework was down when a cron job was due, on
\* restart the scheduler currently just fires it once at the next tick
\* regardless": a due time is left behind only by a run.
MissedRunIsFired ==
  [][\A j \in Jobs :
       (table[j] # None /\ table[j].next <= now /\ table'[j] # None /\ table'[j].next > now)
         => table'[j].last # Never]_vars

=============================================================================
