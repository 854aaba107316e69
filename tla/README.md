# Formal models of the OTA framework

This directory holds TLA+ models of the OTA framework (`src/`), the TLC configurations that
check them on small instances, and theorems about them that TLAPS checks for every value of
the constants. The code is the reference: each definition names, in `PROJECT.json` ("map"),
the lines it stands for.

| module | what it is |
| --- | --- |
| `Gates.tla` | human-in-the-loop gates: proposals, decisions, expiry, audit, over one shared SQLite connection |
| `GateBook.tla` | abstract specification: a book of gates and the trail of events about it |
| `GatesProofs.tla` | theorems about `Gates`, which implements `GateBook` |
| `EmailTriage.tla` | the email_triage routine: ticks, template trust, deduplication, decision log |
| `EmailTriageProofs.tla` | theorems about `EmailTriage`: the trust table; replies, log and marks |
| `Scheduler.tla` | cron jobs: registration, run loop, triggers, start and stop, restart |
| `SchedulerProofs.tla` | theorems about `Scheduler` |
| `EventHooks.tla` | the scheduler's event hooks: registration, firing, debounce |
| `Cron.tla` | cron expressions: parsing and the search for the next match |
| `SecretsMap.tla` | abstract specification: a map of credentials, written one key at a time |
| `Secrets.tla` | the encrypted secrets file, which implements `SecretsMap` |
| `Tokens.tla` | the OAuth client and its token store, on top of `SecretsMap` |
| `Http.tla` | the HTTP client: retries, token buckets, allowlist |
| `ServicesProofs.tla` | theorems about `Secrets`, `Tokens`, `Http` and the run of all three |
| `Runs.tla` | a run of a routine: bracket, budget, ledger |
| `Dispatch.tla` | a verb call: policy, binding, adapter, outcome |
| `Inbound.tla` | inbound events: the polling loop, the Gmail cursor, the Slack listener, the action router |
| `AuditLog.tla` | the audit file with its monthly rotation, and its reader |
| `SchemaHistory.tla` | abstract specification: migrations applied one after the other, each as a whole |
| `Migrations.tla` | schema migrations by several processes, which implement `SchemaHistory` |
| `Adapters.tla` | the adapter registry's cache |
| `RunsProofs.tla` | theorems about `Runs`, `Dispatch`, `Adapters` |
| `StorageProofs.tla` | theorems about `AuditLog`, `Migrations` |
| `TriggersProofs.tla` | theorems about `EventHooks`, `Inbound`, `Cron` |
| `DeliveryProofs.tla` | the run of `MCDelivery` is a run of its eight components, whose theorems it inherits |
| `MCGates`, `MCEmailTriage`, `MCScheduler` | instances of one component each |
| `MCServices.tla` | instances of `Secrets`, `Tokens`, `Http` |
| `MCDelivery.tla` | instances of `Runs`, `Dispatch`, `Inbound`, `AuditLog`, `Migrations`, `Adapters`, `Cron`, `EventHooks` |
| `*.cfg` | the instances TLC checks |

`tlc -config X.cfg M` checks one instance and `tlapm M.tla` one module of proofs.


## 1. The system

OTA is a Python framework that runs *routines* (scheduled programs with an LLM) for one
operator, connects them to external services through *adapters*, and puts a policy layer with
human approval and an audit file between the two. One process holds one asyncio event loop
and, for the dashboard's synchronous routes, a pool of threads. State is in SQLite files (one
connection per `Database` object, shared by all threads of the process), an append-only
audit file, an encrypted secrets file, and memory.

### Components

| component | state | operations | depends on |
| --- | --- | --- | --- |
| HITL gates (`policy/gates.py`) | table `gates` | `propose_for_review`, `decide`, `expire_due` | storage, audit |
| Approval queue API (`routes/approval_queue.py`) | none | list, get, decide, websocket stream | gates |
| Storage (`storage/`) | one SQLite connection, applied migrations | `transaction`, `apply_pending` | |
| Audit (`audit/`) | monthly JSONL file | `emit`, read | |
| email_triage (`ota_routines/email_triage`) | tables of processed emails, template trust, edits, decisions | `run` (a tick), `record_unedited_approval`, `record_edit`, `opt_in_auto_send` | mail adapter, engine, storage |
| Scheduler (`automation/scheduler.py`) | `_cron`, `_events`, `_loop_task`, `_stop`; tables `cron_jobs`, `event_hooks` | `register_*`, `deregister_*`, `trigger`, `fire_event`, `start`, `stop`, run loop | cron, storage |
| Cron (`automation/cron.py`) | none | parse, `next_after` | |
| L0b (`policy/l0b.py`) | the active run's usage of tokens, calls and wall time | `enforce_*`, `reserve_llm_budget`, `record_*` | audit |
| Dispatch and binding (`ota_connect/binding`) | none per call | `dispatch`, resolve, paginate, normalise errors | L0b, registry, adapters |
| Adapter registry | factories, instances, lock | `register_factory`, `load` | |
| Inbound loop, action router | task, stop event, handlers | `tick_once`, `run`, `start`, `stop`, `route` | registry |
| Gmail adapter | history cursor, access token | verbs, `poll`, `tick_inbound` | OAuth, HTTP |
| Slack adapter | socket session | verbs, action events | HTTP |
| OAuth client, token store (`oauth/`) | token sets in the secrets provider | exchange, refresh, `access_token` | secrets, HTTP |
| Secrets provider | encrypted file and its copy in memory | `fetch`, `store`, `rotate`, `revoke` | |
| HTTP client | connection pool, token bucket | `request` | posture |
| Network posture | none | host matching | |
| Routine engine, knobs | run context | run a routine inside an audit bracket | L0b, LLM, knobs |
| Conductor, branches, identity, sources, LLM providers, contracts, observability | configuration, immutable records | look-ups, one call each | |
| Dashboard API and web client | two in-memory dictionaries | views | all of the above |

### How they interact, and what is hard about it

* *Threads on one connection.* FastAPI runs each synchronous route in a thread, and all of them
  share the connection of `Database`: a `BEGIN` inside another thread's transaction raises, and
  reads see its uncommitted rows. `update_decision` reads the status before it begins.
* *Read, then write.* `record_unedited_approval`, `record_edit`, `is_processed`/`mark_processed`,
  `has_remembered_approval`, `AdapterRegistry.load`, `reserve_llm_budget` and `OAuthClient.access_token`
  all decide on something they read earlier.
* *External effects without a transaction.* A reply is sent before the email is marked; a decision
  is committed before it is audited; an event is handed over before its handler has run.
* *Exceptions as control flow.* An exception ends a tick of the routine, a sweep of `expire_due`, the
  scheduler's loop task and a batch of inbound events: what comes behind is dropped or retried.
* *Await points.* Callbacks of the scheduler overlap with triggers, `stop()` with `start()`,
  refreshes with each other.
* *Restarts.* Memory and tables disagree after a crash; registration rewrites rows.

What makes each part correct, in a sentence: a gate is decided by someone who may decide it, the
file of events never claims more than the table, and a due gate does not stay open (gates); no
silent promotion, a bounded number of replies, a log that explains every email, no email left
aside by a loop that goes on (email_triage); no job lost, none run twice for one time by its own row, one loop that
somebody owns (scheduler); spending stays within the budget up to the calls in flight (L0b, HTTP);
a token is available as long as its refresh token is (OAuth, secrets); no event lost or handled
twice beyond what a crash forces (inbound); `next_after` is the least match (cron). The hazards,
with their lines, are listed in `PROJECT.json`.


## 2. Plan

The order in which the modules were written, the most important behaviour first:

1. `Gates`: the approval of everything that leaves the system.
2. `EmailTriage`: what may leave the system *without* an approval.
3. `Scheduler`: what starts routines.
4. `Secrets` as an implementation of `SecretsMap`, and `Tokens` over `SecretsMap`.
5. `Http`, `Runs`, `Dispatch`: what a routine may do outside, how often, and what it may spend.
6. `Inbound` and `Adapters`: what comes in.
7. `Cron` and `EventHooks`: the rest of the scheduler; `AuditLog` and `Migrations`: the storage.

All of these are done, and every type invariant, safety invariant, action property and refinement that a run checks
is proved as well, for every value of the constants. What is left, in this order:

* The composition of `Runs` and `Dispatch` (a verb call as a step of one of a run's tasks), and of
  `Http` below the adapters' verbs: a retried request that acted twice is then seen by the ledger once.
* `set_rate_limit` while requests wait, which the rate property would have to be restated for.


## 3. Gates

**Code.** `policy/gates.py`, the `decide` route, `Database.transaction`, `AuditSink.emit`.

**State.** `rows` is the table as the shared connection sees it, `saved` the committed one, `txn` the
thread whose transaction is open, `audit` the file. A thread is a label `pc` and what it
carries: `gate`, the decision `verdict`, and `todo`, the rest of a sweep's snapshot. A row keeps
its status and, as history, every decision ever written to it. `proposal` holds the columns
that are written once. Gates are numbered in the order of `created_at`.

**Actions.** Each call of the code that reaches the database or the audit file is one
step, because another thread may run between any two of them:

| code | actions |
| --- | --- |
| `propose_for_review` | `StartPropose`, `Insert`, `Commit`, `Announce`, `Recall` |
| `POST /approvals/{pk}/decide` | `StartDecide` (status and mode from the route's maps) |
| `expire_due` | `StartSweep`, `SweepNext` |
| `_record_decision`, `update_decision` | `Check`, `Update`, `Commit`, `Record` |
| `AuditSink.emit` | `Emit` in `Announce` and `Record`, which may raise |
| `transaction` | `Write` (raises inside another transaction), `Commit` |
| environment | `Tick`, `Crash` (rolls back the open transaction, forgets the threads) |

**Runs.**

* `gates`: one operator, one routine and one sweep over two gates of two routines that share a
  similarity key; actions reject and edit-and-approve; one clock tick; one crash. `DecisionsWarranted`:
  every committed decision goes back to an operator, to a deadline that has passed or, for an
  auto-approval, to an operator's approval of the same routine, gate and key.
  `ImplementsBook`: the committed table and the audit file, seen together, are a `GateBook`, to which whole proposals,
  whole decisions and events of what is already in it are added. (It implies `AuditFollowsCommit`, no event is ahead of the
  committed table, which is therefore not a property of the run.) `SettledIsFinal`: a decision
  that nobody's stale reading threatens is never overwritten. `DueGateLeavesPending`: a due gate leaves
  `pending` although every lost race drops the rest of a sweep.
* `gates_once` (violated): `docs/phase-4-notes.md` says double decisions are rejected; two operators that
  read the gate as pending both commit and both audit.
* `gates_remember` (violated): the docstring reserves automatic approval for approve-and-remember; a
  plain approval suffices.

**Bounds.** Two gates are what a remembered approval needs (an approved one and one that profits), and
with two scopes and one key the look-up can be wrong in either column. Three threads are enough to have
the two decisions of a race and the transaction that gets in the way. One tick makes a
deadline pass before, during or after a decision. The larger instance with two operators is
in `GatesOnce.cfg`, which stops at its violation.

**Fairness.** Weak fairness of each thread's steps (the operating system schedules threads that have
started; a call that fails counts as a step) and of `StartSweep`. Nobody is forced to propose, decide or crash.
The fairness of `StartSweep` rests on one line, the docstring of `expire_due`, which gives it to a periodic hook: no
caller is in the repository. A caller must also survive a sweep that raises; as a callback of the scheduler a
raising sweep would end the loop (section 5), and `DueGateLeavesPending` would no longer follow.

**Deadlock** is not checked (here and in the other models): the bounded instance runs out of proposals,
clock ticks and crashes, and the system may really be idle then.

**Proof.** `GatesProofs` proves `TypeOK`, `DecisionsWarranted`, `AuditFollowsCommit`, `SettledIsFinal` and `ImplementsBook` for
any set of threads, requests and bounds. None of them is inductive: that an auto-approval is warranted
when it is *committed* depends on the row its thread saw, perhaps uncommitted, when it *looked it up*. The
invariant says that the two tables differ in the row of the open transaction only
(`Connection`), that both are well formed (`Tables`), and that what a thread carries at each label still holds
of the table (`Thread`): a warrant, once given, is never taken back. `SettledIsFinal` follows since
a thread gets to `update` through `Check` only. The refinement `ImplementsBook` is proved step by step: what a thread
has written and not committed is one proposal or one decision on top of the committed row (`Written`), so its `COMMIT` is
one step of the book (`CommitIsBooked`), its event one step of the trail (`EmitIsBooked`), and every other step,
`Crash` included, leaves both alone. `DueGateLeavesPending` is checked by TLC only.


## 4. EmailTriage

**Code.** `run.py`, `state.py` and `helpers.py` of `ota_routines/email_triage`.

**State.** The four tables (`trust`, `edits`, `processed`, `log`), what the mail adapter delivered (`sent`), and
per process a label, the position in the page, the content hash, the template and the trust row it
read; `ended` holds the runs whose loop an exception has ended. History are `granted` (templates ever opted in),
`streak` (approvals of a template since its last edit), `known` (the edits there were when a process read its row) and
`undone` (templates whose last edit was written over by an approval that had read the row before it).

**Actions.** `StartTick` (opts the allowlist in, or part of it if cut short, and lists one page), `Look` (pre-fetched or
missing body, `is_processed`, classification, draft), `Evaluate`, `Send`, `Notify`, `LogDecision`, `Mark`,
`EndTick`; `ReadTrust` and `Promote` are the two halves of `record_unedited_approval`, called by a tick
after an automatic reply and by an operator; `StartFeedback` with `WriteEdit` is `record_edit`, `SetOptIn`
is `opt_in_auto_send`; `Fail` is any call that raises and any crash, at any label. What raises in a tick, a poisoned
draft included, is raised again by `RoutineEngine.run` and ends the scheduler's loop task, which `start` does not
replace (section 5): `Raised` notes it. Such a run may still tick (`trigger`, a restart), and nothing makes it. Runs and
operators are separate processes on one SQLite file: each statement or transaction of `state.py` is atomic
(`BEGIN IMMEDIATE` with a busy timeout), and anything may happen between two.

Abstracted: subject, body and sender (an email is its position; its content hash only tells whether the body
was there), what the LLM writes, and `_ensure_trust_row` (a missing row reads as `NewRow`; losing the race for
its insertion is a `Fail`). The order of the emails within the folder does not change during an instance.

**Runs.**

* `triage`: two overlapping ticks and one operator; one template, on the allowlist; a page of three emails whose
  second has a draft that raises and ends every tick that reaches it (unless its body is missing, and the third
  gets its turn); threshold 2; one failure, one missing body, three calls of the operator.
  `RepliesBounded`: an email is answered at most once per run and once more per failure.
  `RepliesLogged`: the log never claims a reply that was not delivered and misses only those of ticks on their
  way or cut short. `ProcessedExplained`: what is marked has the decision in the log that its content calls for.
  `PromotionEarned`: a template that sends by itself was opted in, and threshold approvals were recorded since its
  last edit, unless an approval that had read the row before that edit was written after it. This race
  is the one exception, and it lasts until the next edit.
  `PageHandled`: an answerable email that no poisoned one precedes is dealt with, unless each loop has been ended by
  a failure or has passed it with its body missing. Emails behind a poisoned one are held back, and nothing is promised.
* `triage_edit` (violated): `docs/phase-4-notes.md` says that editing demotes immediately. Two operators, threshold 2:
  the edit is committed between the read and the write of an approval, and the template sends by itself again.
* `triage_resend` (violated): `state.py` says the processed table prevents a second draft on retry; a tick cut
  short between the reply and its mark answers again.
* `triage_opt_out` (violated): `SendDecision` says automatic sending needs an opt-in; a template
  opted out after its promotion goes on sending.

**Bounds.** The races are between two readers and writers of one row, so two runs and an operator
cover each pair, and one template suffices, since no step relates two; threshold 2 separates "one approval
short" from "none yet"; one failure is enough for a second reply, and a second failure only adds one. The limit of
25 emails is the constant `PageLimit`; the page here ends with the folder. The instance has 1.8 million states.

**Fairness.** The scheduler's loop starts tick after tick as long as none has raised (`r \notin ended /\ StartTick(r)`, weakly
fair), and a tick goes on or raises (`RunStep`, weakly fair per run). Nothing starts a run whose loop has ended, so
`PageHandled` has to count the loops that are left. Operators are never forced to answer.

**Proof.** `EmailTriageProofs` proves `TypeOK` and `PromotionEarned` for any number of runs,
operators, templates and emails. `PromotionEarned` is not inductive, since `Promote` writes values
computed from a row read earlier. The invariant says of such a reading (`Reading`) that its opt-in is on record in
`granted`, that a promotion it shows comes with threshold approvals, that its count is not above the template's
total, which only grows, and, unless the template was edited since (`Outdated`) or its last edit is undone already, that its
count is at most the approvals since the last edit, which grow as well until the next; `Place` says where a process may be.
It proves `RepliesBounded` by counting: a run that has passed `is_processed` holds a ticket for
one reply (`Asked`); a run that has replied owes the mark (`Answered`); while an email has no
mark, its replies are covered by the runs that owe it and by failures; and since a run is in one of the two
sets at most, tickets taken then do not exceed the runs. Last, it proves `RepliesLogged` and `ProcessedExplained`. The
log is tallied likewise: a reply is in the log, or belongs to a run on its way to
`record_decision` (`Logging`), or to a failure (`Tally`); and a run that is past its decision has one in the log
that agrees with the content it hashed (`Decided`), which is what its mark needs. `PageHandled` is checked by
TLC only.


## 5. Scheduler

**Code.** `automation/scheduler.py`; event hooks are in `EventHooks` (section 7). `CronExpression.next_after` is a
constant operator with two assumptions (`CronAssumption`): a match is strictly later, and a later start does
not find an earlier one. Both are part of `NextFireRight`, which is proved of the code's parser and search (`Cron`,
section 7) for every calendar.

**State.** `cron` (`_cron`), `table` (`cron_jobs`; `from` is history: the expression a row's time comes
from), `current` (`_loop_task`), `stopping` (`_stop`), and for each task where it awaits (`pc`), the rest of
its tick (`due`), the job it looked up and when it called it (`job`, `expr`, `began`), and the loop
that `stop()` awaits (`joined`).

**Actions.** On one event loop a task runs from one await to the next, so one action is such a stretch, the
look-up of the next due job included: `Register` and `Deregister` (whose writes may raise after the
memory has changed), `Trigger`, `Wake` (the loop takes its rows), `Succeed` and `Raise` (the callback
ends, the row is written, and the loop goes on or dies), `Start`, `Stop`, `Join`; `Tick`, `Crash`.

**Runs.**

* `scheduler`: two instances, one of which is chosen at the start. Two jobs, two loop tasks, two callers, one fault, one
  crash and two calls; or one job, no stop and four calls, enough to register it, call it, register it again with another
  expression and call it again while the first callback is still out (747,732 distinct states).
  `LoopLostOnlyToLateStop`: a running loop is
  lost track of only through two overlapping stops with a start between. `DueJobRuns`: while a loop runs, a
  registered job that is due is run or deregistered in the end, whatever else goes on.
  `RowAhead`: a row is never due for the
  time it has run for. `NextForward`: the next time never moves back unless something is left over from another
  registration (with it, the code does set the time back: the late run writes a time of the old
  expression). `RowsComeFromRegister`: a late run brings back no row. Neither says that a row which a triggered run has
  just moved on is not run a second time by a tick that listed it before: the code runs it.
* `scheduler_missed` (violated): `docs/phase-2-notes.md` says a job missed while the framework was down is
  fired once at the next tick; the registration after the restart overwrites its row.

**Bounds.** Periods 1 and 2 over two clock ticks give rows that are due now, later, and due again while a
callback is out. Two loop tasks are what overlapping stops need; more can never be current.

**Fairness.** The event loop resumes every task that can go on (`Wake`, `Join`), and callbacks end (`Succeed` or
`Raise`): a callback that never returns does block the loop, in the code as in the model. Nothing
starts or stops the scheduler by itself.

**Proof.** `SchedulerProofs` proves `TypeOK`, `RowAhead`, `NextForward`, `RowsComeFromRegister` and
`LoopLostOnlyToLateStop` for any jobs, tasks, expressions and bounds, from `CronAssumption`. The invariant adds
that a run was called in the past with an expression of its job (`InRun`), and that each row holds the
match of its expression after *some* earlier moment (`OnSchedule`); monotonicity then orders the
rows that overlapping runs write, in whatever order they return. `DueJobRuns` is checked by TLC only.


## 6. Services: `Secrets`, `Tokens`, `Http`

The three share no state as modelled: `Tokens` reaches the secrets through `SecretsMap`, and what it sends is a
request of its own. `MCServices` therefore chooses a `focus` at the start, among `Focuses`, and only that component
moves: the run explores the components beside each other and not their product. A component that stands still
is in an initial state, where its invariants hold. Fairness is stated for `Http` only, while it is
the focus.

### Secrets and SecretsMap

**Code.** `EncryptedFileSecretsProvider` (`secrets/provider.py`). `mem` is `_store`, `lock` the holder of `_lock`,
`file` and `tmp` the two files, `pc`, `job` and `answer` what each thread does. `store`, `rotate` and `revoke` change
memory under the lock (`Store`, `Rotate`, `RotateMissing`, `Revoke`) and persist it, one file operation a step
(`OpenTmp`, `WriteTmp`, `Replace`, `Finish`, or `Fail` at any of them); `fetch` reads under the lock
(`Fetch`) and tests expiry and scopes after it (`FetchChecks`); `Reload`; `Crash` at any point.

**Abstract specification.** `SecretsMap` is what callers may rely on: a write is one step of what `fetch` reads and of
what a restart finds; a refused write may change the former alone (the code does not undo
memory), and becomes durable with the next write of any key. The refinement maps `creds` to
`VisibleMem`, memory with the key under change put back until the file has been replaced, and
`durable` to the file's content.

**Checked** (2 threads, 2 keys, 2 credentials, 3 calls). `AckedSurvives`: a write answered "ok" is what memory and file hold until another write of
that key; a *refused* write can surface later, an older value never does. `ImplementsMap`: the refinement. It implies
`FileWhole` (no interleaving, failed operation or crash leaves a file that cannot be loaded), since no content of the map is
an incomplete one.
**Proved** for any number of all of these, `FileWhole` and the refinement included: the invariant says which
thread holds the lock, that memory still has that thread's value, and what `tmp` and `file` hold at each of its
steps.

### Tokens

**Code.** `OAuthClient` and `OAuthTokenStore` (`oauth/`). A task reads the store and posts in one step (nothing suspends
it in between); then other tasks run, the provider handles the request or refuses it (`Handle`, `Refuse`),
the answer is stored (`Persist`) or lost (`Lose`), tokens age, the process dies. `rotates` says whether the
provider replaces the refresh token at each refresh and forgets the old one.

**Checked** (2 tasks, the integration's key and one routine's, 2 tokens issued). `StrandedOnlyByLoss`: the refresh token on file
is one the provider accepts, unless an answer was lost or a routine without a record of its own
refreshed the shared one (which stores the new refresh token under the routine's key and leaves the
old one behind). `RefreshTokenKept`: an answer that omits the refresh token keeps the one on file. Three tokens
(10.6 million states) give no counterexample either; two are kept for the time of the run.
`tokens_expired` (violated): `tests/oauth/test_client.py` says an expired token is refreshed; `fetch` refuses the expired
record before the client sees its refresh token.
**Proved** for any tasks, keys and tokens. A refresh replaces the token at the provider
first and on file afterwards, perhaps under a key that another request writes meanwhile. The invariant: a refresh
token is on file under one key; every request sent with it was read from that key; and a token granted and
not yet stored is known to its own request only.

### Http

**Code.** `HttpClient.request` and `TokenBucket` (`http/client.py`). Time is counted in ticks and only relatively (`idle`,
`sleep`, `window`), a bucket in fractions of a token, so no clock is bounded. `waiters` is the queue at the
`asyncio.Lock` that `acquire` holds while it sleeps. Header formats and the backoff's formula are left out: a retry's delay ends
at any later moment.

**Checked** (2 requests, one retry, a token every tick with burst 1 and every 2 ticks with burst 2, stretches of up to 4
ticks). `RateRespected`: in *any* stretch of time no more is sent than burst plus refill, retries
included. `RepeatsOnlyUnanswered`: the server acts twice on one call only after an unanswered attempt (the method is
not looked at: a `POST` that timed out is sent again). `QueuedIsSent`: nobody waits for ever behind others' retries, given that
sleeps end, the clock runs and every request is answered or times out, which `httpx`'s timeout provides.
**Proved** for any rates, bursts, requests and retries, except `QueuedIsSent`; the theorems speak of `HttpSteps`, which is
`HttpSpec` without its fairness, and hence of both. The account of a bucket:
what the stretch's attempts have taken, with what the bucket would hold if refilled now, is within its burst
and the stretch's refill.

Together 524,166 distinct states.

**The run as a whole.** The proofs are in `ServicesProofs`. `ServicesAreRuns` shows that a behaviour of `ServicesSpec`, which TLC
explores, is one of each component (whatever the focus, a step of the composition is a step of each or leaves it
alone); `ServicesTypes` and `ServicesSafety` carry the components' theorems over to it.


## 7. Delivery: runs, verbs, events, storage

`MCDelivery` explores eight components beside each other, by the same `focus` (946,113 distinct states). None needs
fairness: what is stated of them is safety.

* **`Runs`** (`RoutineEngine.run`, `L0bEnforcer`, `RoutineRunContext`). `asyncio` copies the context variable into every
  task created in a run, so tasks that the routine does not await go on with the run's context after its end
  (`outlived`). Three tasks, a limit of 2, estimates 0 and 2, answers of 1 and 2, five calls, one failing emit.
  `BudgetOvershootBounded`: `reserve_llm_budget` compares and keeps nothing, so waiting calls
  exceed the limit together, by at most one answer per task. `LedgerComplete`: the events add up to the ledger
  unless an emit raised, and `run_completed` is final unless a task outlived the run. Both are **proved** for any tasks,
  limit and usages; the bound is inductive, the ledger needs that a run nobody outlives has no
  task left at its end.
* **`Dispatch`** (verb wrapper, L0b's enforcement, resolver, registry's load, error normalisation, and what both adapters make
  of each kind of reply). A call is synchronous, hence one step. Four sets of adapter directories (one broken, one with a duplicate id, one
  whose adapter has no code), three binding maps, three manifests, all verbs' scopes, two calls, one failing emit.
  `ActsWithinGrant`: a service acts in a run only for a declared integration and with the scope the verb needs,
  although an *empty* dependency list lets every integration pass the first test. `RefusalsHaveNoEffect`: a
  call answered with a refusal did nothing. `ValidatedResolves`: what validation at installation accepts can be resolved.
* **`Inbound`** (`InboundEmailLoop`, `ActionRouter`, Gmail's history cursor, Slack's `SocketModeListener`). Two loop tasks, one caller of
  `stop`, history pages of one record, two mails, one payload, one exception. `InboundAccounted`: every event is in
  exactly one place: with its adapter, delivered, audited as undelivered, or lost in one of four named ways
  (before a baseline, behind the first page of a poll, in a batch that raised, or taken by a listener whose stop flag was
  never cleared). The environment is taken to be regular: Gmail's replies carry the `historyId` that the adapter reads
  (`gmail_oauth/adapter.py:283`), Slack's stream payloads are dictionaries (`slack/adapter.py:505`), and the process is not
  restarted, which would forget the cursor and the queue. `LoopsOwned`: two loops run only if `start` came before a `stop` had returned.
* **`AuditLog`** (`FileAuditSink`, `FileAuditReader`). Two emitters, months of two moments, three events, two failing file
  operations, one restart. The timestamp is taken before the lock, so an event of the old month may be written after the
  rotation and reopens the old file. Text is UTF-8, so a line cut short by a failed write or by a death during a write may end
  inside a character (`split`, `garbled`): iterating over that file raises, outside the `try` that skips malformed lines.
  `AckedIsRead`: an event whose `emit` returned is found once by every query over its time, with three exceptions.
  It was written behind an incomplete line (one event per line). A file of the query holds a character cut off: the
  query raises, and there are no more such files than incomplete lines. Or a bound does not reach its month: `_files_in_range`
  takes the months of the bounds in the bounds' own timezones and compares them with files named in UTC, so a start ahead
  of UTC at the end of a month (which names the next one), or an end behind UTC at the start of one, skips the file
  that holds events of the range (`ReachesItsMonths`; the run has offsets of half a month to either side). A bound without a
  timezone raises `TypeError` in `AuditFilter.matches` and is not modelled. A caller that stops before the end of a scan, as
  `/audit` does at its limit, may not notice that it raises.
* **`Migrations`** (`apply_pending`, `Database.transaction`). Two processes, two lists, four calls, two faults, among them a
  `COMMIT` that raises and leaves its transaction open with SQLite's write lock. `MigratedOnce`: a migration's
  statements are in the data exactly if its row is, once, and each list is applied in order. `ImplementsHistory`: what is committed
  changes by whole migrations, in the order of some interleaving of the lists (`SchemaHistory`).
* **`Adapters`** (`AdapterRegistry`). Two threads, two registrations of a factory, four instances. `AdapterFresh`: a cached instance
  is of the latest factory, unless a load that was under way at its registration stored its own afterwards.
* **`Cron`** (`CronExpression`). The calendar is a constant (`HourLen`, `DayLen`, `WeekLen`, `LongestMonth`, `MonthCount`, and `Days`, the
  dates one after the other). The run has hours of three minutes, days of two hours, weeks of three days, and ten
  years of two months with a leap day every second year. A match of the leap day on one weekday can fall outside the
  sweep, as 29 February on a given weekday does in the code's four years. Nine expressions, three of them
  refused. `NextFireRight`: the answer is the least instant the expression means that is strictly later; of two
  questions the later is not answered with the earlier minute; and it gives up only if nothing
  is in the sweep. The expression's meaning (`DueAt`) is stated without parsing or searching.
* **`EventHooks`** (`register_event_hook`, `deregister`, `fire_event`). Two hooks, with a debounce of 2 and of 0, two events, a clock up
  to 2, one fault. `DebounceHolds`: a hook is fired twice within its debounce only if its callback was called
  while it was awaited (the test comes before the await, the time is noted after it). The instance's hooks have different ids: that an
  id is registered again with another object is in the model and not in the instance (a third hook has over 7.5 million states).

**Proof.** `RunsProofs` (`Runs`, `Dispatch`, `Adapters`), `StorageProofs` (`AuditLog`, `Migrations`) and `TriggersProofs` (`EventHooks`,
`Inbound`, `Cron`) prove the types and the properties above for any values of the constants; `DeliveryProofs` shows that a
behaviour of `DeliverySpec` is one of each of the eight components (`DeliveryIsRuns`), so that all of it holds of what TLC
explores (`DeliveryTypes`, `DeliverySafety`). Beside the types hardly anything is inductive but `LoopsOwned`. What each argument adds:

* `ActsWithinGrant`, `RefusalsHaveNoEffect`, `ValidatedResolves`: the last call is related to the configuration (`Fits`): its result
  is the one that the binding of its path leads to, through the only directory with the adapter's id.
* `InboundAccounted`: everything that is with an adapter, routed or lost lies at or below the cursor (`Top`), so a poll that moves the
  cursor brings nothing twice.
* `AckedIsRead`: an event is in one place at most (`LinesInv`, `WaitingInv`); each swallowed event, each incomplete line at the
  end of a closed file and the one the open file continues has an incomplete line of its own (`TornInv`); so has each file
  that ends in such a line or holds a character cut off (`DamagedInv`).
* `MigratedOnce`: only the holder of the write lock has anything uncommitted, and what a process has behind it of its list is
  tracked (`PlaceOf`), so that what it commits is the next of the list although it read the names long before.
  The same fact makes its `COMMIT` one step of `SchemaHistory` (`CommitIsHistory`), and no other step touches the committed
  data: `ImplementsHistory`.
* `NextFireRight`: the search is a loop over single minutes, so its invariant says that no minute it has passed over since the
  question is due (`NoneDue`), and that whatever is due from the question on comes no earlier than the answer to an earlier
  question (`AnswerInv`), so no induction over the calendar is needed. What is left is that the
  code's test says what the expression means: that a part which is not refused keeps the values `lo + k * step` of its range, and
  no others (`PartMeans`), for every range and step, and that a minute's fields lie in their ranges (`MomentInRange`).
* The types of `Inbound` follow from the invariant of `InboundAccounted` and from what it leaves unsaid of the flags and
  counters (`LimitInv`).
* `AdapterFresh`: instances are numbered, hence a cached one is told from those that loads under way will store.
* `DebounceHolds`: the latest firing is the one that the noted time belongs to, unless its callback is still awaited.

**Bounds.** Each instance has two of whatever races (tasks, threads, processes, loops), three tasks where a sum over the waiting ones is what
counts, and enough calls for a fault or a restart to fall between two steps of one and be followed by another's.


## 8. What is proved, and what is only checked

| component | proved for every instance | checked by TLC only |
| --- | --- | --- |
| `Gates` | types, `DecisionsWarranted`, `AuditFollowsCommit`, `SettledIsFinal`, the refinement `ImplementsBook` | `DueGateLeavesPending` |
| `EmailTriage` | types, `RepliesBounded`, `RepliesLogged`, `ProcessedExplained`, `PromotionEarned` | `PageHandled` |
| `Scheduler` | types, `RowAhead`, `NextForward`, `RowsComeFromRegister`, `LoopLostOnlyToLateStop` | `DueJobRuns` |
| `Secrets` | types, `FileWhole`, `AckedSurvives`, the refinement `ImplementsMap` | |
| `Tokens` | types, `StrandedOnlyByLoss`, `RefreshTokenKept` | |
| `Http` | types, `RateRespected`, `RepeatsOnlyUnanswered` | `QueuedIsSent` |
| `Runs` | types, `BudgetOvershootBounded`, `LedgerComplete` | |
| `Dispatch` | types, `ActsWithinGrant`, `RefusalsHaveNoEffect`, `ValidatedResolves` | |
| `Inbound` | types, `InboundAccounted`, `LoopsOwned` | |
| `AuditLog` | types, `AckedIsRead` | |
| `Migrations` | types, `MigratedOnce`, the refinement `ImplementsHistory` | |
| `Adapters` | types, `AdapterFresh` | |
| `EventHooks` | types, `DebounceHolds` | |
| `Cron` | types, `NextFireRight` | |
| `MCServices`, `MCDelivery` | types and all of the above, of the composed specifications | |

Each proof starts from the named assumptions on its module's constants (`RolesAssumption`, `SecretsAssumption` and so on: bounds are natural numbers, absent
values are no members of the sets they are absent from), which TLC evaluates in the runs.
Liveness depends on fairness, which is outside what the proofs cover, so it is model-checked on the bounded instances.
They are the four properties in the right-hand column. The seven violated statements of section 9 are TLC's as well: a
counterexample on a small instance is all they need.


## 9. Disagreements between the code and its documents

Seven runs end in a violation; their lines and quotations are under "findings" in `PROJECT.json`: `gates_once`, `gates_remember`,
`triage_resend`, `triage_opt_out`, `triage_edit`, `scheduler_missed`, `tokens_expired`. Others were met while modelling. The models have
the behaviour of the code, and the properties above are stated so that they hold of it:

* `docs/contracts.md:62` calls the budget "hard limits"; it is compared before a call and charged after (`Runs`).
* `gmail_oauth/adapter.py:266` means to re-baseline when the history has expired; Gmail answers that with a 404, which
  is classified as `RecipientUnreachable` and raised (`Inbound`). Only the first page of a history is read.
* `audit/reader.py:91` means that "a partial line during rotation should not crash a query"; one that ends inside a UTF-8
  character does, in every query of its month (`AuditLog`: `ScanRaises`).
* `routes/audit.py` takes `start` and `end` with any timezone and passes them on; near the turn of a month the reader then
  skips the file that holds events of the range (`reader.py:120-123`, `AuditLog`: `ReachesItsMonths`).
* `audit/reader.py:5` promises timestamp order; lines come in the order in which they were appended (`AuditLog`). The dashboard's
  `next_cursor` (`routes/audit.py`) is always empty, so what is behind the limit cannot be asked for.
* Cron expressions with a day of the month *and* a weekday need both to match (`Cron`), not either as in cron.
* `SocketModeListener.start` after a `stop` does not clear the stop flag (`Inbound`).
* One invalid manifest makes the load of every adapter fail (`Dispatch`).
* `last_fire_at` of an event hook is written and never read back: a restart forgets the debounce (`EventHooks`).


## 10. Not modelled

* A `COMMIT` that raises on the connection the gates share: `Gates` takes it to succeed; its effect on a connection is in `Migrations`.
* `EmailTriage` has each process on its own connection; ticks that share one with other threads
  would in addition see its `BEGIN` fail, which is a `Fail` there.
* Clocks that go backwards.
* Three hazards in `PROJECT.json` have no property, each with its reason: the approval stream's gaps between two polls, the page of 25 without a
  cursor, a run loop that dies of a callback. A job that is in memory without its row (`Register` whose write raises)
  is modelled, and no property speaks of it.
* Of components that are modelled: the output-token and USD budgets (line by line like the input tokens), `set_rate_limit` while
  requests wait, `build_auth_url` and the comparison of its state, `iter_all` (one caller walking a cursor), MIME messages and
  Slack blocks (formatting), the routine source (the same walk as the integration source), the markdown store (no caller relies on its
  order).
* The approval stream (a poll of `list_pending` with a set of announced ids) and `list_*` calls, which only read.
* Conductor: classifies one message and calls `RoutineEngine.run`, with no state of its own. Knobs: defaults and coercions, pure
  conversions. Network posture: a pure predicate on host names, whose answer `Http` takes as an input that may change.
* Branches, identity, contracts beyond those of `Dispatch`: immutable records and look-ups.
* LLM providers: one request translated, one response translated. Observability: logging and a context variable without
  shared state.
* Dashboard views and web client: other components' state, presented; two dictionaries updated in one statement. Generators: build time.
