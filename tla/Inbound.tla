------------------------------- MODULE Inbound -------------------------------
(***************************************************************************)
(* Events from outside to the routines: InboundEmailLoop                    *)
(* (src/ota_connect/binding/inbound_email.py) over the events that Gmail's  *)
(* history poll and Slack's socket listener leave with their adapters       *)
(* (src/ota_connect/adapters/), and ActionRouter (binding/actions.py),      *)
(* which audits each event and hands it to the routine's handler.           *)
(*                                                                          *)
(* Everything runs on one asyncio loop: a tick, which is synchronous, is    *)
(* one step; start() and stop() interleave with the loop tasks at their     *)
(* awaits.  The mailbox and the socket are external.                        *)
(***************************************************************************)
EXTENDS Integers, Sequences, SequencesExt, FiniteSets

CONSTANTS
    LoopTasks,      \* tasks that start() creates
    Stoppers,       \* callers of stop()
    NoTask,         \* no task
    NoCursor,       \* last_history_id is None
    PageSize,       \* history records of one reply
    MaxMail,        \* bound: messages that arrive at the mailbox
    MaxSocket,      \* bound: payloads of the socket stream
    MaxRaises       \* bound: loads, emits and handlers that raise

ASSUME InboundAssumption ==
    /\ NoTask \notin LoopTasks
    /\ PageSize \in Nat \ {0}
    /\ {MaxMail, MaxSocket, MaxRaises} \subseteq Nat
    /\ NoCursor \notin Nat

Mail(n) == <<"gmail", n>>
Payload(n) == <<"slack", n>>

\* adapter_ids, in the order in which a tick polls them.
AdapterOrder == <<"gmail", "slack">>

VARIABLES
    task,       \* InboundEmailLoop._task
    stopSet,    \* its _stop event
    loopAt,     \* where each loop task is
    stopping,   \* the task each stop() awaits
    mailbox,    \* messages in the mailbox: its history id
    expired,    \* the provider has forgotten the history up to here
    cursor,     \* last_history_id
    queued,     \* _pending_inbound of each adapter
    taken,      \* payloads taken off the socket stream
    listener,   \* SocketModeListener's task
    listenerStop, \* its _stop event, which nothing clears
    registered, \* the routine has a handler at the router
    delivered,  \* events its handler has accepted
    unrouted,   \* events audited as not delivered
    raises,     \* calls that raised
    lostBy,     \* history: how events were lost
    hurried     \* history: start() was called while a stop() waited

loopVars == <<task, stopSet, loopAt, stopping, hurried>>
mailVars == <<mailbox, expired, cursor>>
socketVars == <<taken, listener, listenerStop>>
routeVars == <<registered, delivered, unrouted, raises>>
inboundVars == <<loopVars, mailVars, socketVars, routeVars, queued, lostBy>>

Reasons == {"baseline", "page", "raise", "deaf"}

InboundInit ==
    /\ task = NoTask
    /\ stopSet = FALSE
    /\ loopAt = [l \in LoopTasks |-> "none"]
    /\ stopping = [s \in Stoppers |-> NoTask]
    /\ mailbox = 0
    /\ expired = 0
    /\ cursor = NoCursor
    /\ queued = [gmail |-> <<>>, slack |-> <<>>]
    /\ taken = 0
    /\ listener = "none"
    /\ listenerStop = FALSE
    /\ registered = FALSE
    /\ delivered = {}
    /\ unrouted = {}
    /\ raises = 0
    /\ lostBy = [r \in Reasons |-> {}]
    /\ hurried = FALSE

LoseBy(reason, events) == lostBy' = [lostBy EXCEPT ![reason] = @ \cup events]

-----------------------------------------------------------------------------
(* Gmail: tick_inbound. *)

Arrive ==
    /\ mailbox < MaxMail
    /\ mailbox' = mailbox + 1
    /\ UNCHANGED <<expired, cursor, loopVars, socketVars, routeVars, queued, lostBy>>

Expire ==
    /\ expired < mailbox
    /\ expired' = mailbox
    /\ UNCHANGED <<mailbox, cursor, loopVars, socketVars, routeVars, queued, lostBy>>

\* Messages that the poll has handed to the adapter, or passed over before.
Polled == Range(queued.gmail) \cup delivered \cup unrouted \cup UNION {lostBy[r] : r \in Reasons}

\* Without a cursor the poll only notes where the mailbox stands.
Baseline ==
    /\ cursor = NoCursor
    /\ cursor' = mailbox
    /\ LoseBy("baseline", {Mail(n) : n \in 1..mailbox} \ Polled)
    /\ UNCHANGED <<mailbox, expired, loopVars, socketVars, routeVars, queued>>

\* A cursor that the provider has forgotten: a reply that is classified as
\* MessageRejected drops it.  The other one, "Requested entity was not found",
\* is classified as RecipientUnreachable and raised, which changes nothing.
DropCursor ==
    /\ cursor # NoCursor
    /\ cursor < expired
    /\ cursor' = NoCursor
    /\ UNCHANGED <<mailbox, expired, loopVars, socketVars, routeVars, queued, lostBy>>

\* Faulty variant: the cursor stays where it was.
PollHistoryAgain ==
    LET Fresh == (cursor + 1)..mailbox
        Page == {n \in Fresh : n <= cursor + PageSize}
    IN  /\ cursor # NoCursor
        /\ cursor >= expired
        /\ queued' = [queued EXCEPT !.gmail =
                        @ \o [i \in 1..Cardinality(Page) |-> Mail(cursor + i)]]
        /\ UNCHANGED <<cursor, mailbox, expired, loopVars, socketVars, routeVars, lostBy>>

\* Only the first page is read, and the reply's historyId is the mailbox's own.
PollHistory ==
    LET Fresh == (cursor + 1)..mailbox
        First == {n \in Fresh : n <= cursor + PageSize}
    IN  /\ cursor # NoCursor
        /\ cursor >= expired
        /\ cursor' = mailbox
        /\ queued' = [queued EXCEPT !.gmail =
                        @ \o [i \in 1..Cardinality(First) |-> Mail(cursor + i)]]
        /\ LoseBy("page", {Mail(n) : n \in Fresh \ First})
        /\ UNCHANGED <<mailbox, expired, loopVars, socketVars, routeVars>>

-----------------------------------------------------------------------------
(* Slack: SocketModeListener. *)

StartListener ==
    /\ listener = "none"
    /\ listener' = "running"
    /\ UNCHANGED <<taken, listenerStop, loopVars, mailVars, routeVars, queued, lostBy>>

\* The stop flag is set, the task cancelled, awaited and forgotten.
StopListener ==
    /\ listenerStop' = TRUE
    /\ listener' = "none"
    /\ UNCHANGED <<taken, loopVars, mailVars, routeVars, queued, lostBy>>

\* The next payload of the stream; a listener started after a stop returns on it.
TakePayload ==
    /\ listener = "running"
    /\ taken < MaxSocket
    /\ taken' = taken + 1
    /\ \/ /\ ~listenerStop
          /\ queued' = [queued EXCEPT !.slack = Append(@, Payload(taken + 1))]
          /\ UNCHANGED <<listener, lostBy>>
       \/ /\ listenerStop
          /\ listener' = "done"
          /\ LoseBy("deaf", {Payload(taken + 1)})
          /\ UNCHANGED queued
    /\ UNCHANGED <<listenerStop, loopVars, mailVars, routeVars>>

-----------------------------------------------------------------------------
(* The router, and a tick of the loop. *)

RegisterHandler ==
    /\ registered' = ~registered
    /\ UNCHANGED <<delivered, unrouted, raises, loopVars, mailVars, socketVars, queued, lostBy>>

\* ActionRouter.dispatch for events that raise nothing.
Route(events) ==
    IF registered THEN delivered' = delivered \cup events /\ UNCHANGED unrouted
                  ELSE unrouted' = unrouted \cup events /\ UNCHANGED delivered

\* A tick that raises nothing drains every adapter.
TickAll ==
    /\ queued' = [a \in DOMAIN queued |-> <<>>]
    /\ Route(UNION {Range(queued[a]) : a \in DOMAIN queued})
    /\ UNCHANGED <<raises, lostBy>>

\* The k-th event of the i-th adapter raises in the audit sink or in its handler
\* (k = 0: the adapter cannot be loaded).  The adapter was drained before: the rest
\* of its events is gone; the adapters behind it are not polled in this tick.
TickRaises(i, k) ==
    LET a == AdapterOrder[i]
        Earlier == {AdapterOrder[j] : j \in 1..i - 1}
        Before == UNION {Range(queued[b]) : b \in Earlier}
    IN  /\ raises < MaxRaises
        /\ raises' = raises + 1
        /\ k <= Len(queued[a])
        /\ Route(Before \cup {queued[a][j] : j \in 1..k - 1})
        /\ LoseBy("raise", IF k = 0 THEN {} ELSE {queued[a][j] : j \in k..Len(queued[a])})
        /\ queued' = [b \in DOMAIN queued |->
                        IF b \in Earlier \/ (b = a /\ k > 0) THEN <<>> ELSE queued[b]]

TickOnce ==
    \/ TickAll
    \/ \E i \in DOMAIN AdapterOrder, k \in 0..(MaxMail + MaxSocket) : TickRaises(i, k)

-----------------------------------------------------------------------------
(* The loop's tasks. *)

\* run(): the stop flag is tested, a tick made (an exception is logged), and the
\* task sleeps until the flag is set or the poll interval is over.
RunLoop(l) ==
    /\ loopAt[l] = "ready"
    /\ \/ /\ stopSet
          /\ loopAt' = [loopAt EXCEPT ![l] = "ended"]
          /\ UNCHANGED <<queued, delivered, unrouted, raises, lostBy>>
       \/ /\ ~stopSet
          /\ TickOnce
          /\ loopAt' = [loopAt EXCEPT ![l] = "asleep"]
    /\ UNCHANGED <<task, stopSet, stopping, hurried, mailVars, socketVars, registered>>

Timeout(l) ==
    /\ loopAt[l] = "asleep"
    /\ loopAt' = [loopAt EXCEPT ![l] = "ready"]
    /\ UNCHANGED <<task, stopSet, stopping, hurried, mailVars, socketVars, routeVars, queued, lostBy>>

\* Faulty variant: a second start replaces the task.
StartLoopAgain(l) ==
    /\ loopAt[l] = "none"
    /\ task' = l
    /\ stopSet' = FALSE
    /\ loopAt' = [loopAt EXCEPT ![l] = "ready"]
    /\ hurried' = (hurried \/ \E s \in Stoppers : stopping[s] # NoTask)
    /\ UNCHANGED <<stopping, mailVars, socketVars, routeVars, queued, lostBy>>

\* A task that exists is kept; otherwise the flag is cleared and a new one made.
StartLoop(l) ==
    /\ task = NoTask
    /\ loopAt[l] = "none"
    /\ task' = l
    /\ stopSet' = FALSE
    /\ loopAt' = [loopAt EXCEPT ![l] = "ready"]
    /\ hurried' = (hurried \/ \E s \in Stoppers : stopping[s] # NoTask)
    /\ UNCHANGED <<stopping, mailVars, socketVars, routeVars, queued, lostBy>>

\* Setting the flag wakes the sleepers: they will test it when they run.
BeginStop(s) ==
    /\ stopping[s] = NoTask
    /\ stopSet' = TRUE
    /\ stopping' = [stopping EXCEPT ![s] = task]
    /\ task' = NoTask
    /\ loopAt' = [l \in LoopTasks |-> IF loopAt[l] = "asleep" THEN "ready" ELSE loopAt[l]]
    /\ UNCHANGED <<hurried, mailVars, socketVars, routeVars, queued, lostBy>>

\* What the stop awaits.
Awaited(s) == stopping[s]

StopReturns(s) ==
    /\ Awaited(s) # NoTask
    /\ loopAt[Awaited(s)] = "ended"
    /\ stopping' = [stopping EXCEPT ![s] = NoTask]
    /\ UNCHANGED <<task, stopSet, loopAt, hurried, mailVars, socketVars, routeVars, queued, lostBy>>

InboundNext ==
    \/ Arrive \/ Expire \/ Baseline \/ DropCursor \/ PollHistory
    \/ StartListener \/ StopListener \/ TakePayload
    \/ RegisterHandler
    \/ \E l \in LoopTasks : RunLoop(l) \/ Timeout(l) \/ StartLoop(l)
    \/ \E s \in Stoppers : BeginStop(s) \/ StopReturns(s)

InboundSpec == InboundInit /\ [][InboundNext]_inboundVars

-----------------------------------------------------------------------------
(* Properties. *)

InboundEvents == {Mail(n) : n \in 1..MaxMail} \cup {Payload(n) : n \in 1..MaxSocket}

\* Every variable has its type.
InboundTypeOK ==
    /\ task \in LoopTasks \cup {NoTask}
    /\ {stopSet, listenerStop, registered, hurried} \subseteq BOOLEAN
    /\ loopAt \in [LoopTasks -> {"none", "ready", "asleep", "ended"}]
    /\ stopping \in [Stoppers -> LoopTasks \cup {NoTask}]
    /\ mailbox \in 0..MaxMail /\ expired \in 0..mailbox
    /\ cursor \in 0..mailbox \cup {NoCursor}
    /\ queued \in [gmail : Seq(InboundEvents), slack : Seq(InboundEvents)]
    /\ taken \in 0..MaxSocket
    /\ listener \in {"none", "running", "done"}
    /\ delivered \cup unrouted \subseteq InboundEvents
    /\ raises \in 0..MaxRaises
    /\ lostBy \in [Reasons -> SUBSET InboundEvents]

\* Every message that the cursor has passed and every payload taken off the socket
\* is in exactly one place: with its adapter, delivered, audited as undelivered, or
\* lost in one of four ways (it was there before a baseline, it was behind the first
\* page of a poll, an event at or before it in its batch raised, or a listener that
\* had been stopped took it).  No event is handed over twice.
InboundAccounted ==
    LET Lost == UNION {lostBy[r] : r \in Reasons}
        Held == Range(queued.gmail) \cup Range(queued.slack)
        Passed == {Mail(n) : n \in 1..(IF cursor = NoCursor THEN 0 ELSE cursor)}
                    \cup {Payload(n) : n \in 1..taken}
    IN  /\ Passed \subseteq Held \cup delivered \cup unrouted \cup Lost
        /\ IsInjective(queued.gmail) /\ IsInjective(queued.slack)
        /\ Held \cap (delivered \cup unrouted \cup Lost) = {}
        /\ delivered \cap unrouted = {} /\ Lost \cap (delivered \cup unrouted) = {}

LoopRunning(l) == loopAt[l] \in {"ready", "asleep"}

\* No loop runs that nobody can stop: each is the one that stop() would end next or
\* one that a stop() is waiting for; and two run together only if start() was called
\* before a stop() had returned, which then goes on waiting.
LoopsOwned ==
    /\ \A l \in LoopTasks : LoopRunning(l) =>
        task = l \/ \E s \in Stoppers : stopping[s] = l
    /\ (\E l, m \in LoopTasks : l # m /\ LoopRunning(l) /\ LoopRunning(m)) => hurried

=============================================================================
