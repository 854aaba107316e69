-------------------------------- MODULE Http ---------------------------------
(***************************************************************************)
(* HttpClient and TokenBucket (src/ota_core/http/client.py): the requests   *)
(* of several tasks to one host, its two token buckets, the retry loop and  *)
(* the allowlist.                                                           *)
(*                                                                          *)
(* Time is counted in ticks and only relatively, so the clock needs no      *)
(* bound.  A bucket that is refilled with one token every Period ticks is   *)
(* counted in units of 1/Period token: a tick adds a unit, a request takes  *)
(* Period of them.  The delay of a retry is random or set by the server, so *)
(* it ends at any later moment.                                             *)
(***************************************************************************)
EXTENDS Integers, Sequences, FiniteSets

CONSTANTS
    Requests,       \* concurrent calls of HttpClient.request
    MaxRetries,     \* max_retries
    SecPeriod,      \* ticks per token of the per-second bucket
    SecBurst,       \* burst_capacity
    MinPeriod,      \* ticks per token of the per-minute bucket
    MinBurst,       \* burst_per_minute
    MaxWindow       \* bound: the longest stretch whose attempts are counted

ASSUME HttpAssumption ==
    /\ MaxRetries \in Nat
    /\ {SecPeriod, SecBurst, MinPeriod, MinBurst} \subseteq Nat \ {0}
    /\ MaxWindow \in Nat

VARIABLES
    sec, min,   \* units in the two buckets
    idle,       \* ticks since the refill of both, up to what fills them
    sleep,      \* what is left of the holder's asyncio.sleep
    waiters,    \* tasks at the bucket's asyncio.Lock, the first one holds it
    at,         \* where each request is
    attempt,    \* its attempt
    allowed,    \* the allowlist lets the host through
    sent,       \* attempts sent
    done,       \* how many times the server has acted on the request
    unanswered, \* attempts without a final answer: a timeout, a retryable status
    window      \* history: a stretch of time and the attempts sent in it

bucketVars == <<sec, min, idle, sleep>>
requestVars == <<waiters, at, attempt, sent>>
answerVars == <<done, unanswered>>
httpVars == <<bucketVars, requestVars, allowed, answerVars, window>>

Positions == {"new", "queued", "sending", "backoff", "answered", "failed", "blocked"}

Later(a, b) == IF a > b THEN a ELSE b

Full == Later(SecBurst * SecPeriod, MinBurst * MinPeriod)

Closed == [open |-> FALSE, ticks |-> 0, sent |-> 0]

HttpInit ==
    /\ sec = SecBurst * SecPeriod
    /\ min = MinBurst * MinPeriod
    /\ idle = 0
    /\ sleep = 0
    /\ waiters = <<>>
    /\ at = [r \in Requests |-> "new"]
    /\ attempt = [r \in Requests |-> 0]
    /\ allowed = TRUE
    /\ sent = [r \in Requests |-> 0]
    /\ done = [r \in Requests |-> 0]
    /\ unanswered = [r \in Requests |-> 0]
    /\ window = Closed

Moves(r, from, to) == at[r] = from /\ at' = [at EXCEPT ![r] = to]

\* request() up to its first attempt: the allowlist is asked once.
Begin(r) ==
    /\ IF allowed
       THEN Moves(r, "new", "queued") /\ waiters' = Append(waiters, r)
       ELSE Moves(r, "new", "blocked") /\ UNCHANGED waiters
    /\ UNCHANGED <<bucketVars, attempt, allowed, sent, answerVars, window>>

\* set_allowlist: applies to the requests that begin later.
SetAllowlist ==
    /\ allowed' = ~allowed
    /\ UNCHANGED <<bucketVars, requestVars, answerVars, window>>

-----------------------------------------------------------------------------
(* TokenBucket.acquire, with the lock held from the refill to the last sleep. *)

\* Faulty variant: the bucket is not capped at its burst.
Uncapped(units, cap) == units

Capped(units, cap) == IF units > cap THEN cap ELSE units

Refilled(units, burst, period) == Capped(units + idle, burst * period)

Wait(units, period) == Later(0, period - units)

\* One turn of acquire's loop for the task that holds the lock: refill, then take
\* a token of each bucket or sleep until both have one.
Acquire(r) ==
    LET s == Refilled(sec, SecBurst, SecPeriod)
        m == Refilled(min, MinBurst, MinPeriod)
        wait == Later(Wait(s, SecPeriod), Wait(m, MinPeriod))
    IN  /\ waiters # <<>>
        /\ r = Head(waiters)
        /\ sleep = 0
        /\ idle' = 0
        /\ \/ /\ wait = 0
              /\ sec' = s - SecPeriod
              /\ min' = m - MinPeriod
              /\ waiters' = Tail(waiters)
              /\ Moves(r, "queued", "sending")
              /\ sent' = [sent EXCEPT ![r] = @ + 1]
              /\ window' = IF window.open THEN [window EXCEPT !.sent = @ + 1] ELSE window
              /\ UNCHANGED sleep
           \/ /\ wait > 0
              /\ sec' = s
              /\ min' = m
              /\ sleep' = wait
              /\ UNCHANGED <<waiters, at, sent, window>>
        /\ UNCHANGED <<attempt, allowed, answerVars>>

-----------------------------------------------------------------------------
(* The retry loop. *)

\* A status outside retry_status_codes: the response is returned.
Succeed(r) ==
    /\ Moves(r, "sending", "answered")
    /\ done' = [done EXCEPT ![r] = @ + 1]
    /\ UNCHANGED <<bucketVars, waiters, attempt, allowed, sent, unanswered, window>>

\* Faulty variant: one attempt too few.
RetryShort(r) ==
    /\ IF attempt[r] + 1 >= MaxRetries THEN Moves(r, "sending", "failed")
                                       ELSE Moves(r, "sending", "backoff")
    /\ unanswered' = [unanswered EXCEPT ![r] = @ + 1]
    /\ \E acted \in {0, 1} : done' = [done EXCEPT ![r] = @ + acted]
    /\ UNCHANGED <<bucketVars, waiters, attempt, allowed, sent, window>>

\* A network error, a timeout or a retryable status; the server may have acted on
\* the request.  The last attempt raises MaxRetriesExceeded, others wait.
Retry(r) ==
    /\ IF attempt[r] >= MaxRetries THEN Moves(r, "sending", "failed")
                                   ELSE Moves(r, "sending", "backoff")
    /\ unanswered' = [unanswered EXCEPT ![r] = @ + 1]
    /\ \E acted \in {0, 1} : done' = [done EXCEPT ![r] = @ + acted]
    /\ UNCHANGED <<bucketVars, waiters, attempt, allowed, sent, window>>

\* Faulty variant: a retry is sent without a token.
AgainAtOnce(r) ==
    /\ Moves(r, "backoff", "sending")
    /\ attempt' = [attempt EXCEPT ![r] = @ + 1]
    /\ sent' = [sent EXCEPT ![r] = @ + 1]
    /\ window' = IF window.open THEN [window EXCEPT !.sent = @ + 1] ELSE window
    /\ UNCHANGED <<bucketVars, waiters, allowed, answerVars>>

\* Faulty variant: a retry waits for a token at no lock.
AgainUnqueued(r) ==
    /\ Moves(r, "backoff", "queued")
    /\ attempt' = [attempt EXCEPT ![r] = @ + 1]
    /\ UNCHANGED <<bucketVars, waiters, allowed, sent, answerVars, window>>

\* The delay is over: the next attempt queues for a token again.
Again(r) ==
    /\ Moves(r, "backoff", "queued")
    /\ attempt' = [attempt EXCEPT ![r] = @ + 1]
    /\ waiters' = Append(waiters, r)
    /\ UNCHANGED <<bucketVars, allowed, sent, answerVars, window>>

Tick ==
    /\ idle' = Capped(idle + 1, Full)
    /\ sleep' = IF sleep = 0 THEN 0 ELSE sleep - 1
    /\ window' = IF ~window.open THEN window
                 ELSE IF window.ticks = MaxWindow THEN Closed
                 ELSE [window EXCEPT !.ticks = @ + 1]
    /\ UNCHANGED <<sec, min, requestVars, allowed, answerVars>>

\* History only: a stretch whose attempts are counted begins.
OpenWindow ==
    /\ ~window.open
    /\ window' = [open |-> TRUE, ticks |-> 0, sent |-> 0]
    /\ UNCHANGED <<bucketVars, requestVars, allowed, answerVars>>

HttpWork(r) == Acquire(r) \/ Succeed(r) \/ Retry(r) \/ Again(r)

HttpNext ==
    \/ \E r \in Requests : Begin(r) \/ HttpWork(r)
    \/ SetAllowlist
    \/ Tick
    \/ OpenWindow

\* Sleeps end, the server answers or the request times out, and the clock runs.
HttpFairness == (\A r \in Requests : WF_httpVars(HttpWork(r))) /\ WF_httpVars(Tick)

HttpSpec == HttpInit /\ [][HttpNext]_httpVars /\ HttpFairness

-----------------------------------------------------------------------------
(* Properties. *)

\* Every variable has its type.
HttpTypeOK ==
    /\ sec \in 0..SecBurst * SecPeriod
    /\ min \in 0..MinBurst * MinPeriod
    /\ idle \in 0..Full
    /\ sleep \in 0..Later(SecPeriod, MinPeriod)
    /\ waiters \in Seq(Requests)
    /\ at \in [Requests -> Positions]
    /\ attempt \in [Requests -> 0..MaxRetries]
    /\ allowed \in BOOLEAN
    /\ {sent, done, unanswered} \subseteq [Requests -> 0..MaxRetries + 1]
    /\ window \in [open : BOOLEAN, ticks : 0..MaxWindow, sent : Nat]

\* In any stretch of time, however the requests and their retries interleave, no
\* more attempts are sent than either bucket's burst plus its refill over that
\* stretch: retries do not get round the rate limit.
RateRespected ==
    /\ window.sent * SecPeriod <= SecBurst * SecPeriod + window.ticks
    /\ window.sent * MinPeriod <= MinBurst * MinPeriod + window.ticks

\* The server acts twice on one call only after an attempt that was not answered;
\* a call that is answered at the first attempt is acted on once; a call is given
\* up only after all its attempts.  The method is not looked at: a POST that timed
\* out after it was handled is sent again.
RepeatsOnlyUnanswered ==
    \A r \in Requests :
        /\ done[r] <= unanswered[r] + (IF at[r] = "answered" THEN 1 ELSE 0)
        /\ sent[r] = unanswered[r] + (IF at[r] \in {"sending", "answered"} THEN 1 ELSE 0)
        /\ at[r] = "failed" => sent[r] = MaxRetries + 1

\* A task queued for a token is sent out, although the lock is held while its
\* holder sleeps: nobody waits for ever behind another's retries.
QueuedIsSent == \A r \in Requests : at[r] = "queued" ~> at[r] # "queued"

=============================================================================
