--------------------------- MODULE SchedulerProofs ---------------------------
(***************************************************************************)
(* Theorems about Scheduler, for every set of jobs and tasks, every cron   *)
(* expression that looks forward, and all bounds.                          *)
(*                                                                         *)
(* Two facts carry them: a run was called in the past with an expression   *)
(* of its job (InRun), and a row holds the match of its expression that    *)
(* follows some earlier moment (OnSchedule).                               *)
(***************************************************************************)
EXTENDS Scheduler, TLAPS

InRun(r) ==
  pc[r] = "run" => job[r] \in Jobs /\ expr[r] \in Expressions /\ began[r] <= now

OnSchedule(j) ==
  table[j] # None => \E t \in 0..now : table[j].next = NextAfter(table[j].from, t)

IInv ==
  /\ TypeOK
  /\ \A r \in Runners : InRun(r)
  /\ \A j \in Jobs : OnSchedule(j)
  /\ RowAhead

\* A step of task r moves no other task, and a run it begins is one of a registered
\* job that starts now.
TaskStep(r) ==
  /\ pc' \in [Runners -> LoopLabels \cup CallerLabels]
  /\ \A l \in Loops : pc'[l] \in LoopLabels
  /\ \A c \in Callers : pc'[c] \in CallerLabels
  /\ job' \in [Runners -> Jobs \cup {None}]
  /\ expr' \in [Runners -> Expressions \cup {None}]
  /\ began' \in [Runners -> Nat]
  /\ \A s \in Runners \ {r} :
       pc'[s] = pc[s] /\ job'[s] = job[s] /\ expr'[s] = expr[s] /\ began'[s] = began[s]
  /\ pc'[r] = "run" => job'[r] \in Jobs /\ expr'[r] \in Expressions /\ began'[r] = now

\* What a step may do to a row: leave it, remove it, or write a match that follows now.
WrittenNow(row) ==
  /\ row \in Rows
  /\ row.next = NextAfter(row.from, now)
  /\ row.last # Never => row.last <= now

RowStep(j) == table'[j] = table[j] \/ table'[j] = None \/ WrittenNow(table'[j])

-----------------------------------------------------------------------------
(* Types.                                                                  *)

\* Nothing is registered and no task runs at the start and after a crash.
LEMMA Blank ==
  /\ NoJobs \in [Jobs -> Expressions \cup {None}]
  /\ NoJobs \in [Jobs -> Rows \cup {None}]
  /\ NoTasks \in [Runners -> LoopLabels \cup CallerLabels]
  /\ \A l \in Loops : NoTasks[l] \in LoopLabels
  /\ \A c \in Callers : NoTasks[c] \in CallerLabels
  /\ \A r \in Runners : NoTasks[r] # "run"
BY RolesAssumption DEF NoJobs, NoTasks, LoopLabels, CallerLabels, Runners

\* No task holds anything either.
LEMMA BlankRuns ==
  /\ Nothing({}) \in [Runners -> SUBSET Jobs]
  /\ Nothing(None) \in [Runners -> Jobs \cup {None}]
  /\ Nothing(None) \in [Runners -> Expressions \cup {None}]
  /\ Nothing(None) \in [Runners -> Loops \cup {None}]
  /\ Nothing(0) \in [Runners -> Nat]
BY DEF Nothing

\* Every variable has its type at the start.
LEMMA TypeInit == Init => TypeOK
<1> SUFFICES ASSUME Init PROVE TypeOK
  OBVIOUS
<1>1. /\ now \in 0..MaxTime /\ faults \in 0..MaxFaults /\ calls \in 0..MaxCalls
      /\ crashes \in 0..MaxCrashes
  BY BoundsAssumption DEF Init
<1> QED
  BY <1>1, Blank, BlankRuns DEF Init, TypeOK

\* A match is a time, and later than where the search began.
LEMMA MatchType ==
  ASSUME TypeOK, NEW e \in Expressions
  PROVE  NextAfter(e, now) \in Nat /\ NextAfter(e, now) > now
<1>1. now \in 0..MaxTime
  BY DEF TypeOK
<1>2. \A t \in 0..MaxTime : NextAfter(e, t) \in Nat /\ NextAfter(e, t) > t
  BY CronAssumption
<1> QED
  BY <1>1, <1>2

\* Calling a callback, and being done with one.
LEMMA BeginStep ==
  ASSUME TypeOK, NEW r \in Runners, NEW j \in Jobs, cron[j] # None, Begin(r, j)
  PROVE  TaskStep(r)
<1>1. cron[j] \in Expressions /\ now \in Nat
  BY BoundsAssumption DEF TypeOK
<1> QED
  BY <1>1 DEF TypeOK, Begin, LoopLabels, CallerLabels, Runners, TaskStep

LEMMA EndStep ==
  ASSUME TypeOK, NEW r \in Runners, NEW label, End(r, label), label # "run",
         r \in Loops => label \in LoopLabels, r \in Callers => label \in CallerLabels
  PROVE  TaskStep(r)
BY DEF TypeOK, End, Runners, TaskStep

\* What the loop does with its rows.
LEMMA ProceedStep ==
  ASSUME TypeOK, NEW l \in Loops, NEW rows \in SUBSET Jobs, Proceed(l, rows)
  PROVE  TaskStep(l) /\ due' \in [Runners -> SUBSET Jobs]
<1>1. l \in Runners /\ l \notin Callers
  BY RolesAssumption DEF Runners
<1>2. due' \in [Runners -> SUBSET Jobs]
  BY <1>1 DEF Proceed, TypeOK
<1>3. CASE \E j \in rows : cron[j] # None /\ Begin(l, j)
  BY <1>1, <1>2, <1>3, BeginStep
<1>4. CASE End(l, "wait")
  <2>1. "wait" \in LoopLabels /\ "wait" # "run"
    BY DEF LoopLabels
  <2> QED
    BY <1>1, <1>2, <1>4, <2>1, EndStep
<1> QED
  BY <1>3, <1>4 DEF Proceed

\* What a run writes to its row when it returns.
LEMMA RecordStep ==
  ASSUME IInv, NEW r \in Runners, pc[r] = "run", NEW status \in {"succeeded", "failed", "none"},
         Record(r, status)
  PROVE  /\ table' \in [Jobs -> Rows \cup {None}]
         /\ \A j \in Jobs : RowStep(j)
<1>1. TypeOK /\ job[r] \in Jobs /\ expr[r] \in Expressions /\ began[r] \in Nat /\ began[r] <= now
  BY DEF IInv, InRun, TypeOK
<1>2. RunRow(r, status) \in Rows /\ WrittenNow(RunRow(r, status))
  <2>1. NextAfter(expr[r], now) \in Nat
    BY <1>1, MatchType
  <2> QED
    BY <1>1, <2>1 DEF RunRow, NextFire, Rows, WrittenNow
<1>3. table'[job[r]] = None \/ table'[job[r]] = RunRow(r, status)
  BY <1>1 DEF Record, TypeOK
<1>4. \A j \in Jobs \ {job[r]} : table'[j] = table[j]
  BY <1>1 DEF Record, TypeOK
<1>5. table' \in [Jobs -> Rows \cup {None}]
  BY <1>1, <1>2 DEF Record, TypeOK
<1> QED
  BY <1>2, <1>3, <1>4, <1>5 DEF RowStep

-----------------------------------------------------------------------------
(* The invariant.                                                          *)

\* Nothing runs and nothing is recorded at the start.
LEMMA InitInv == Init => IInv
BY Blank, TypeInit DEF Init, IInv, InRun, OnSchedule, RowAhead, NoJobs

\* Steps that keep the clock keep the rows ahead of their runs and on schedule.
LEMMA RowsKept ==
  ASSUME IInv, TypeOK', now' = now, \A j \in Jobs : RowStep(j)
  PROVE  RowAhead' /\ \A j \in Jobs : OnSchedule(j)'
<1>1. TypeOK /\ now \in Nat
  BY BoundsAssumption DEF IInv, TypeOK
<1>2. SUFFICES ASSUME NEW j \in Jobs, table'[j] # None
               PROVE  /\ \E t \in 0..now : table'[j].next = NextAfter(table'[j].from, t)
                      /\ table'[j].last # Never => table'[j].last < table'[j].next
  BY DEF RowAhead, OnSchedule
<1>3. CASE table'[j] = table[j]
  BY <1>2, <1>3 DEF IInv, RowAhead, OnSchedule
<1>4. CASE WrittenNow(table'[j])
  <2>1. table'[j].from \in Expressions /\ table'[j].last \in Nat \cup {Never}
    BY <1>4 DEF WrittenNow, Rows
  <2>2. NextAfter(table'[j].from, now) \in Nat /\ NextAfter(table'[j].from, now) > now
    BY <1>1, <2>1, MatchType
  <2>3. now \in 0..now
    BY <1>1
  <2> QED
    BY <1>1, <1>4, <2>1, <2>2, <2>3 DEF WrittenNow
<1> QED
  BY <1>2, <1>3, <1>4 DEF RowStep

\* Steps that keep the clock and move one task leave every run on record.
LEMMA RunsKept ==
  ASSUME IInv, now' = now, NEW r \in Runners, TaskStep(r)
  PROVE  \A s \in Runners : InRun(s)'
<1>1. now \in Nat
  BY BoundsAssumption DEF IInv, TypeOK
<1> QED
  BY <1>1 DEF IInv, InRun, TaskStep

\* Registering and deregistering: the row starts afresh, goes, or stays.
LEMMA RegisterStep ==
  ASSUME IInv, NEW j \in Jobs,
         (\E e \in Expressions : Register(j, e)) \/ Deregister(j)
  PROVE  IInv'
<1>1. TypeOK
  BY DEF IInv
<1>2. /\ cron' \in [Jobs -> Expressions \cup {None}]
      /\ table' \in [Jobs -> Rows \cup {None}]
      /\ \A i \in Jobs : RowStep(i)
  <2>1. CASE Deregister(j)
    BY <1>1, <2>1 DEF Deregister, TypeOK, RowStep
  <2>2. ASSUME NEW e \in Expressions, Register(j, e) PROVE <1>2
    <3> DEFINE fresh == [next |-> NextAfter(e, now), last |-> Never, status |-> "none", from |-> e]
    <3>1. fresh \in Rows /\ WrittenNow(fresh)
      BY <1>1, MatchType DEF Rows, WrittenNow
    <3>2. table' = [table EXCEPT ![j] = fresh] \/ table' = table
      BY <2>2 DEF Register
    <3>3. cron' = [cron EXCEPT ![j] = e]
      BY <2>2 DEF Register
    <3> HIDE DEF fresh
    <3> QED
      BY <1>1, <3>1, <3>2, <3>3 DEF TypeOK, RowStep
  <2> QED
    BY <2>1, <2>2
<1>3. /\ calls' \in 0..MaxCalls /\ faults' \in 0..MaxFaults
      /\ UNCHANGED <<now, current, stopping, pc, due, run, joined, crashes>>
  BY <1>1, BoundsAssumption DEF Register, Deregister, Call, Fault, TypeOK
<1>4. TypeOK'
  BY <1>1, <1>2, <1>3 DEF TypeOK, run
<1>5. \A r \in Runners : InRun(r)'
  BY <1>3 DEF IInv, InRun, run
<1> QED
  BY <1>2, <1>3, <1>4, <1>5, RowsKept DEF IInv

\* The end of a callback, whether it returns or raises.
LEMMA ReturnStep ==
  ASSUME IInv, NEW r \in Runners, Succeed(r) \/ Raise(r)
  PROVE  IInv'
<1>1. TypeOK /\ pc[r] = "run"
  BY DEF IInv, Succeed, Raise
<1>2. /\ table' \in [Jobs -> Rows \cup {None}]
      /\ \A j \in Jobs : RowStep(j)
  <2>1. CASE UNCHANGED table
    BY <1>1, <2>1 DEF TypeOK, RowStep
  <2>2. CASE Record(r, "succeeded") \/ Record(r, "failed")
    BY <1>1, <2>2, RecordStep
  <2> QED
    BY <2>1, <2>2 DEF Succeed, Raise
<1>3. TaskStep(r) /\ due' \in [Runners -> SUBSET Jobs]
  <2>1. CASE r \in Loops /\ Proceed(r, due[r])
    <3>1. due[r] \in SUBSET Jobs
      BY <1>1 DEF TypeOK
    <3> QED
      BY <1>1, <2>1, <3>1, ProceedStep
  <2>2. CASE r \in Callers /\ End(r, "idle") /\ UNCHANGED due
    <3>1. "idle" \in CallerLabels /\ "idle" # "run" /\ r \notin Loops
      BY <2>2, RolesAssumption DEF CallerLabels
    <3> QED
      BY <1>1, <2>2, <3>1, EndStep DEF TypeOK
  <2>3. CASE Raise(r)
    <3>1. /\ Fate(r) # "run"
          /\ r \in Loops => Fate(r) \in LoopLabels
          /\ r \in Callers => Fate(r) \in CallerLabels
      BY RolesAssumption DEF Fate, LoopLabels, CallerLabels
    <3>2. End(r, Fate(r)) /\ due' \in [Runners -> SUBSET Jobs]
      BY <1>1, <2>3 DEF Raise, TypeOK
    <3> QED
      BY <1>1, <3>1, <3>2, EndStep
  <2> QED
    BY <2>1, <2>2, <2>3 DEF Succeed
<1>4. /\ faults' \in 0..MaxFaults
      /\ UNCHANGED <<now, cron, current, stopping, joined, calls, crashes>>
  BY <1>1, BoundsAssumption DEF Succeed, Raise, Fault, bounds, TypeOK
<1>5. TypeOK'
  BY <1>1, <1>2, <1>3, <1>4 DEF TypeOK, TaskStep
<1> QED
  BY <1>2, <1>3, <1>4, <1>5, RowsKept, RunsKept DEF IInv

\* A trigger calls the job next to whatever the loop is doing.
LEMMA TriggerStep ==
  ASSUME IInv, NEW c \in Callers, NEW j \in Jobs, Trigger(c, j)
  PROVE  IInv'
<1>1. TypeOK /\ c \in Runners
  BY DEF IInv, Runners
<1>2. TaskStep(c)
  BY <1>1, BeginStep DEF Trigger
<1>3. /\ calls' \in 0..MaxCalls
      /\ UNCHANGED <<now, cron, table, current, stopping, due, joined, faults, crashes>>
  BY <1>1, BoundsAssumption DEF Trigger, Call, TypeOK
<1>4. TypeOK'
  BY <1>1, <1>2, <1>3 DEF TypeOK, TaskStep
<1> QED
  BY <1>1, <1>2, <1>3, <1>4, RowsKept, RunsKept DEF IInv, RowStep

\* The loop wakes up.
LEMMA WakeStep ==
  ASSUME IInv, NEW l \in Loops, Wake(l)
  PROVE  IInv'
<1>1. TypeOK /\ l \in Runners /\ l \notin Callers
  BY RolesAssumption DEF IInv, Runners
<1>2. TaskStep(l) /\ due' \in [Runners -> SUBSET Jobs]
  <2>1. CASE End(l, "done") /\ UNCHANGED due
    <3>1. "done" \in LoopLabels /\ "done" # "run"
      BY DEF LoopLabels
    <3> QED
      BY <1>1, <2>1, <3>1, EndStep DEF TypeOK
  <2>2. CASE Proceed(l, DueJobs)
    <3>1. DueJobs \in SUBSET Jobs
      BY DEF DueJobs
    <3> QED
      BY <1>1, <2>2, <3>1, ProceedStep
  <2> QED
    BY <2>1, <2>2 DEF Wake
<1>3. UNCHANGED <<now, cron, table, current, stopping, joined, bounds>>
  BY DEF Wake
<1>4. TypeOK'
  BY <1>1, <1>2, <1>3 DEF TypeOK, TaskStep, bounds
<1> QED
  BY <1>1, <1>2, <1>3, <1>4, RowsKept, RunsKept DEF IInv, RowStep

\* Starting and stopping the loop touches no run and no row.
LEMMA ControlStep ==
  ASSUME IInv,
         (\E l \in Loops : Start(l)) \/ (\E c \in Callers : Stop(c) \/ Join(c))
  PROVE  IInv'
<1>1. TypeOK
  BY DEF IInv
<1>2. UNCHANGED <<now, cron, table, due, run, bounds>>
  BY DEF Start, Stop, Join
<1>3. /\ current' \in Loops \cup {None} /\ stopping' \in BOOLEAN
      /\ joined' \in [Runners -> Loops \cup {None}]
      /\ pc' \in [Runners -> LoopLabels \cup CallerLabels]
      /\ \A l \in Loops : pc'[l] \in LoopLabels
      /\ \A c \in Callers : pc'[c] \in CallerLabels
      /\ \A r \in Runners : pc'[r] = "run" => pc[r] = "run"
  <2>1. ASSUME NEW l \in Loops, Start(l) PROVE <1>3
    <3>1. l \in Runners /\ l \notin Callers
      BY RolesAssumption DEF Runners
    <3>2. pc \in [Runners -> LoopLabels \cup CallerLabels] /\ pc' = [pc EXCEPT ![l] = "ready"]
      BY <1>1, <2>1 DEF Start, TypeOK
    <3>3. pc' \in [Runners -> LoopLabels \cup CallerLabels]
      BY <3>1, <3>2 DEF LoopLabels
    <3>4. pc'[l] = "ready" /\ \A r \in Runners \ {l} : pc'[r] = pc[r]
      BY <3>1, <3>2
    <3>5. \A k \in Loops : pc'[k] \in LoopLabels
      BY <1>1, <3>4 DEF TypeOK, LoopLabels, Runners
    <3>6. \A c \in Callers : pc'[c] \in CallerLabels
      BY <1>1, <3>1, <3>4 DEF TypeOK, Runners
    <3>7. current' \in Loops \cup {None} /\ stopping' \in BOOLEAN
          /\ joined' \in [Runners -> Loops \cup {None}]
      BY <1>1, <2>1 DEF Start, TypeOK
    <3>8. \A r \in Runners : pc'[r] = "run" => pc[r] = "run"
      BY <3>4
    <3> QED BY <3>3, <3>5, <3>6, <3>7, <3>8
  <2>2. ASSUME NEW c \in Callers, Stop(c) \/ Join(c) PROVE <1>3
    <3>1. c \in Runners /\ c \notin Loops
      BY RolesAssumption DEF Runners
    <3>2. PICK label \in {"idle", "join"} : pc' = [pc EXCEPT ![c] = label]
      BY <2>2 DEF Stop, Join, Stopped
    <3>3. /\ pc' \in [Runners -> LoopLabels \cup CallerLabels]
          /\ \A l \in Loops : pc'[l] \in LoopLabels
          /\ \A d \in Callers : pc'[d] \in CallerLabels
          /\ \A r \in Runners : pc'[r] = "run" => pc[r] = "run"
      BY <1>1, <3>1, <3>2 DEF TypeOK, CallerLabels, LoopLabels, Runners
    <3>4. current' \in Loops \cup {None} /\ stopping' \in BOOLEAN
      BY <1>1, <2>2 DEF Stop, Join, Stopped, TypeOK
    <3>5. joined' \in [Runners -> Loops \cup {None}]
      BY <1>1, <2>2, <3>1 DEF Stop, Join, Stopped, TypeOK
    <3> QED
      BY <3>3, <3>4, <3>5
  <2> QED
    BY <2>1, <2>2
<1>4. TypeOK'
  BY <1>1, <1>2, <1>3 DEF TypeOK, run, bounds
<1>5. \A r \in Runners : InRun(r)'
  BY <1>2, <1>3 DEF IInv, InRun, run
<1> QED
  BY <1>1, <1>2, <1>4, <1>5, RowsKept DEF IInv, RowStep

\* The clock moves on: what was in the past stays there.
LEMMA TickStep == ASSUME IInv, Tick PROVE IInv'
<1>1. TypeOK /\ now \in Nat /\ now' \in 0..MaxTime /\ now' = now + 1
  BY BoundsAssumption DEF IInv, Tick, TypeOK
<1>2. TypeOK'
  BY <1>1 DEF Tick, TypeOK, run, bounds
<1>3. \A r \in Runners : InRun(r)'
  <2>1. \A r \in Runners : began[r] \in Nat
    BY <1>1 DEF TypeOK
  <2> QED
    BY <1>1, <2>1 DEF IInv, InRun, Tick, run
<1>4. \A j \in Jobs : OnSchedule(j)'
  <2>1. \A t \in 0..now : t \in 0..now'
    BY <1>1
  <2> QED
    BY <2>1 DEF IInv, OnSchedule, Tick
<1>5. RowAhead'
  BY DEF IInv, RowAhead, Tick
<1> QED
  BY <1>2, <1>3, <1>4, <1>5 DEF IInv

\* A crash keeps the rows and nothing else.
LEMMA CrashStep == ASSUME IInv, Crash PROVE IInv'
<1>1. TypeOK
  BY DEF IInv
<1>2. crashes' \in 0..MaxCrashes
  BY <1>1, BoundsAssumption DEF Crash, TypeOK
<1>3. TypeOK'
  BY <1>1, <1>2, Blank, BlankRuns DEF Crash, TypeOK
<1>4. \A r \in Runners : InRun(r)'
  BY Blank DEF Crash, InRun
<1> QED
  BY <1>1, <1>3, <1>4, RowsKept DEF IInv, Crash, RowStep

\* Every step keeps the invariant.
LEMMA InvStep == ASSUME IInv, [Next]_vars PROVE IInv'
<1>1. CASE UNCHANGED vars
  BY <1>1 DEF vars, run, bounds, IInv, TypeOK, InRun, OnSchedule, RowAhead
<1>2. CASE Next
  BY <1>2, RegisterStep, ReturnStep, TriggerStep, WakeStep, ControlStep, TickStep, CrashStep
  DEF Next
<1> QED
  BY <1>1, <1>2

-----------------------------------------------------------------------------
(* The theorems.                                                           *)

\* Every state of the scheduler keeps the invariant.
THEOREM Invariance == Spec => []IInv
<1>1. Init => IInv
  BY InitInv
<1>2. IInv /\ [Next]_vars => IInv'
  BY InvStep
<1> QED
  BY <1>1, <1>2, PTL DEF Spec

\* Type correctness: in particular a callback that returns was called with a job and
\* an expression, whatever was deregistered meanwhile.
THEOREM TypeCorrect == Spec => []TypeOK
<1>1. IInv => TypeOK
  BY DEF IInv
<1> QED
  BY <1>1, Invariance, PTL

\* However runs of a job overlap, its row is never due for the time it has run for.
THEOREM Ahead == Spec => []RowAhead
<1>1. IInv => RowAhead
  BY DEF IInv
<1> QED
  BY <1>1, Invariance, PTL

\* Only a registration, and a run that returns, write a row that is there afterwards.
LEMMA Writers ==
  ASSUME IInv, [Next]_vars, NEW j \in Jobs, table'[j] # table[j]
  PROVE  \/ cron[j] = None /\ cron'[j] # None
         \/ cron[j] # None /\ cron'[j] = None
         \/ table[j] = None /\ table'[j] = None
         \/ \E r \in Runners :
              /\ pc[r] = "run" /\ job[r] = j /\ now' = now
              /\ table[j] # None
              /\ \E status \in {"succeeded", "failed"} : table'[j] = RunRow(r, status)
<1>1. TypeOK
  BY DEF IInv
<1>2. ASSUME NEW i \in Jobs, NEW e \in Expressions, Register(i, e)
      PROVE  cron[j] = None /\ cron'[j] # None
  <2>1. i = j
    BY <1>1, <1>2 DEF Register, TypeOK
  <2> QED
    BY <1>1, <1>2, <2>1, RolesAssumption DEF Register, TypeOK
<1>3. ASSUME NEW i \in Jobs, Deregister(i)
      PROVE  cron[j] # None /\ cron'[j] = None
  BY <1>1, <1>3 DEF Deregister, TypeOK
<1>4. ASSUME NEW r \in Runners, Succeed(r) \/ Raise(r)
      PROVE  /\ pc[r] = "run" /\ job[r] = j /\ now' = now
             /\ table[j] # None
             /\ \E status \in {"succeeded", "failed"} : table'[j] = RunRow(r, status)
  <2>1. PICK status \in {"succeeded", "failed"} : Record(r, status)
    BY <1>1, <1>4 DEF Succeed, Raise
  <2>2. pc[r] = "run" /\ job[r] \in Jobs /\ now' = now
    BY <1>4 DEF IInv, InRun, Succeed, Raise
  <2> QED
    BY <1>1, <2>1, <2>2 DEF Record, TypeOK
<1>5. ASSUME \/ \E c \in Callers : (\E i \in Jobs : Trigger(c, i)) \/ Stop(c) \/ Join(c)
             \/ \E l \in Loops : Wake(l) \/ Start(l)
             \/ Tick \/ Crash \/ UNCHANGED vars
      PROVE  FALSE
  BY <1>5 DEF Trigger, Stop, Join, Wake, Start, Tick, Crash, vars
<1> QED
  BY <1>2, <1>3, <1>4, <1>5 DEF Next

\* A run that returns late brings back no row: rows come from registrations only.
THEOREM Origin == Spec => RowsComeFromRegister
<1> DEFINE FromRegister ==
      \A j \in Jobs : table[j] = None /\ table'[j] # None => cron[j] = None /\ cron'[j] # None
<1>1. ASSUME IInv, [Next]_vars PROVE FromRegister
  <2>1. SUFFICES ASSUME NEW j \in Jobs, table[j] = None, table'[j] # None
                 PROVE  cron[j] = None /\ cron'[j] # None
    OBVIOUS
  <2>2. cron[j] # None /\ cron'[j] = None => table'[j] = None \/ table'[j] = table[j]
    BY <1>1 DEF IInv, TypeOK, Next, Register, Deregister, Succeed, Raise, Trigger, Stop, Join,
       Wake, Start, Tick, Crash, vars
  <2> QED
    BY <1>1, <2>1, <2>2, Writers
<1>2. IInv /\ [Next]_vars => [FromRegister]_vars
  BY <1>1
<1> QED
  BY <1>2, Invariance, PTL DEF Spec, RowsComeFromRegister

\* The next fire time of a job that stays registered never moves back, whatever runs
\* of this registration overlap and in whatever order they return.
THEOREM Forward == Spec => NextForward
<1> DEFINE Later ==
      \A j \in Jobs :
        /\ cron[j] # None /\ cron'[j] = cron[j] /\ SameRegistration(j)
        /\ table[j] # None
        => table'[j] # None /\ table'[j].next >= table[j].next
<1>1. ASSUME IInv, [Next]_vars PROVE Later
  <2>1. SUFFICES ASSUME NEW j \in Jobs,
                        cron[j] # None, cron'[j] = cron[j], SameRegistration(j), table[j] # None
                 PROVE  table'[j] # None /\ table'[j].next >= table[j].next
    OBVIOUS
  <2>2. TypeOK /\ table[j] \in Rows /\ now \in Nat
    BY <1>1, <2>1, BoundsAssumption DEF IInv, TypeOK
  <2>3. CASE table'[j] = table[j]
    BY <2>1, <2>2, <2>3 DEF Rows
  <2>4. CASE table'[j] # table[j]
    <3>1. PICK r \in Runners, status \in {"succeeded", "failed"} :
            pc[r] = "run" /\ job[r] = j /\ table'[j] = RunRow(r, status)
      BY <1>1, <2>1, <2>4, Writers
    <3>2. expr[r] = cron[j] /\ table[j].from = cron[j] /\ cron[j] \in Expressions
      BY <2>1, <2>2, <3>1 DEF SameRegistration, TypeOK
    <3>3. PICK t \in 0..now : table[j].next = NextAfter(cron[j], t)
      BY <1>1, <2>1, <3>2 DEF IInv, OnSchedule
    <3>4. table'[j].next = NextAfter(cron[j], now)
      BY <3>1, <3>2 DEF RunRow, NextFire
    <3>5. NextAfter(cron[j], t) <= NextAfter(cron[j], now)
      <4>1. t \in 0..MaxTime /\ now \in t..MaxTime
        BY <2>2, BoundsAssumption DEF TypeOK
      <4>2. \A u \in t..MaxTime : NextAfter(cron[j], t) <= NextAfter(cron[j], u)
        BY <3>2, <4>1, CronAssumption
      <4> QED
        BY <4>1, <4>2
    <3>6. NextAfter(cron[j], t) \in Nat /\ NextAfter(cron[j], now) \in Nat
      BY <2>2, <3>2, <3>3, <3>4, MatchType DEF Rows
    <3>7. table'[j] # None
      <4>1. RunRow(r, status) \in Rows
        BY <1>1, <3>1, <3>2, <3>4, <3>6 DEF RunRow, Rows, IInv, TypeOK
      <4> QED
        BY <3>1, <4>1, RolesAssumption
    <3> QED
      BY <3>3, <3>4, <3>5, <3>6, <3>7
  <2> QED
    BY <2>3, <2>4
<1>2. IInv /\ [Next]_vars => [Later]_vars
  BY <1>1
<1> QED
  BY <1>2, Invariance, PTL DEF Spec, NextForward

\* A running loop is lost only to a stop() that was waiting for an earlier loop.
THEOREM LateStop == Spec => LoopLostOnlyToLateStop
<1> DEFINE Kept ==
      (current # None /\ Live(current) /\ current' = None /\ crashes' = crashes)
        => \E c \in Callers : pc[c] = "join" /\ joined[c] # current
<1>1. ASSUME IInv, [Next]_vars PROVE Kept
  <2>1. SUFFICES ASSUME current # None, Live(current), current' = None, crashes' = crashes
                 PROVE  \E c \in Callers : pc[c] = "join" /\ joined[c] # current
    OBVIOUS
  <2>2. TypeOK /\ current' # current
    BY <1>1, <2>1 DEF IInv
  <2>3. ~Crash
    BY <2>1, <2>2, BoundsAssumption DEF Crash, TypeOK
  <2>4. \A l \in Loops : ~Start(l)
    BY <2>1 DEF Start
  <2>5. \A c \in Callers : ~Stop(c)
    BY <2>1, <2>2 DEF Stop
  <2>6. PICK c \in Callers : Join(c)
    BY <1>1, <2>2, <2>3, <2>4, <2>5
    DEF Next, vars, Register, Deregister, Succeed, Raise, Trigger, Wake, Tick
  <2>7. pc[c] = "join" /\ pc[joined[c]] \in {"done", "dead"}
    BY <2>6 DEF Join, Stopped
  <2> QED
    BY <2>1, <2>7 DEF Live
<1>2. IInv /\ [Next]_vars => [Kept]_vars
  BY <1>1
<1> QED
  BY <1>2, Invariance, PTL DEF Spec, LoopLostOnlyToLateStop

=============================================================================
