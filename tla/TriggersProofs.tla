-------------------------- MODULE TriggersProofs ----------------------------
(***************************************************************************)
(* Proofs about what sets a routine going: event hooks, inbound loops and   *)
(* cron expressions, for any number of events, tasks and messages and any   *)
(* calendar.                                                                *)
(***************************************************************************)
EXTENDS EventHooks, Inbound, Cron, FiniteSetTheorems, SequenceTheorems, TLAPS

-----------------------------------------------------------------------------
(* Event hooks.  As long as nobody overlapped on a hook with a debounce, the *)
(* last firing is the latest one, at most one call awaits the hook's        *)
(* callback, and what let that call through still holds.                    *)

\* The call e awaits the callback of the hook h.
Awaits(e, h) == eventAt[e] = "awaiting" /\ Head(snapshot[e]) = h

HookInv(h) ==
    /\ firings[h] # {} => lastFire[h] # NoFiring /\ \A time \in firings[h] : time <= lastFire[h]
    /\ \A e \in Events : Awaits(e, h) => Passes(h, eventNow[e])
    /\ \A d, e \in Events : Awaits(d, h) /\ Awaits(e, h) => d = e

HooksInv ==
    /\ EventHooksTypeOK
    /\ \A e \in Events : eventAt[e] = "awaiting" => snapshot[e] # <<>>
    /\ \A h \in Hooks : Debounce[h] = 0 => firings[h] = {}
    /\ \A h \in Hooks \ overlapped : HookInv(h)
    /\ DebounceHolds

LEMMA EventHooksInitInv == EventHooksInit => HooksInv
<1> SUFFICES ASSUME EventHooksInit PROVE HooksInv
  OBVIOUS
<1>1. clock \in 0..MaxClock /\ hookFaults \in 0..MaxHookFaults
  BY EventHooksAssumption DEF EventHooksInit
<1>2. order \in Seq(known) /\ snapshot \in [Events -> Seq(known)]
  BY DEF EventHooksInit
<1>3. eventNow \in [Events -> 0..clock] /\ firings \in [Hooks -> SUBSET (0..clock)]
  BY DEF EventHooksInit
<1>4. EventHooksTypeOK
  BY <1>1, <1>2, <1>3 DEF EventHooksInit, EventHooksTypeOK
<1> QED BY <1>4 DEF EventHooksInit, HooksInv, HookInv, Awaits, DebounceHolds

\* A step that leaves the callers and the firings alone.
LEMMA HooksAlone ==
    ASSUME HooksInv, EventHooksTypeOK',
           UNCHANGED <<lastFire, callers, firingHistory>>
    PROVE  HooksInv'
BY DEF HooksInv, HookInv, Awaits, Passes, DebounceHolds, callers, firingHistory

LEMMA ClockTicksInv == HooksInv /\ ClockTicks => HooksInv'
<1> SUFFICES ASSUME HooksInv, ClockTicks PROVE HooksInv'
  OBVIOUS
<1>1. MaxClock \in Nat /\ clock \in 0..MaxClock /\ clock' = clock + 1 /\ clock < MaxClock
  BY EventHooksAssumption DEF ClockTicks, HooksInv, EventHooksTypeOK
<1>2. clock' \in 0..MaxClock /\ 0..clock \subseteq 0..clock'
  BY <1>1
<1>3. EventHooksTypeOK'
  BY <1>2 DEF ClockTicks, HooksInv, EventHooksTypeOK, callers, firingHistory
<1> QED BY <1>3, HooksAlone DEF ClockTicks

LEMMA HookFaultsTyped ==
    ASSUME EventHooksTypeOK, HookFaultCounted
    PROVE  hookFaults' \in 0..MaxHookFaults
<1>1. MaxHookFaults \in Nat /\ hookFaults \in 0..MaxHookFaults
  BY EventHooksAssumption DEF EventHooksTypeOK
<1> QED BY <1>1 DEF HookFaultCounted

LEMMA RegistrationInv ==
    ASSUME HooksInv, NEW h \in Hooks, RegisterHook(h) \/ DeregisterHook(h)
    PROVE  HooksInv'
<1>0. EventHooksTypeOK
  BY DEF HooksInv
<1>1. known \subseteq known' /\ known' \subseteq Hooks
  BY <1>0 DEF RegisterHook, DeregisterHook, EventHooksTypeOK
<1>2. order' \in Seq(known')
  <2>1. CASE RegisterHook(h)
    <3>1. order \in Seq(known') /\ h \in known'
      BY <1>0, <1>1, <2>1, SeqMonotonic DEF RegisterHook, EventHooksTypeOK
    <3> QED BY <2>1, <3>1 DEF RegisterHook
  <2>2. CASE DeregisterHook(h)
    <3>1. PICK i \in DOMAIN order : order' = RemoveAt(order, i)
      BY <2>2 DEF DeregisterHook
    <3>2. order \in Seq(known) /\ i \in 1..Len(order) /\ known' = known
      BY <1>0, <2>2, <3>1 DEF DeregisterHook, EventHooksTypeOK
    <3>3. SubSeq(order, 1, i - 1) \in Seq(known) /\ SubSeq(order, i + 1, Len(order)) \in Seq(known)
      BY <3>2
    <3> QED BY <3>1, <3>2, <3>3, ConcatProperties DEF RemoveAt
  <2> QED BY <2>1, <2>2
<1>3. snapshot' \in [Events -> Seq(known')]
  <2>1. Seq(known) \subseteq Seq(known')
    BY <1>1, SeqMonotonic
  <2> QED BY <1>0, <2>1 DEF RegisterHook, DeregisterHook, EventHooksTypeOK, callers
<1>4. hookRows' \in [HookIds -> Nat \cup {NoFiring, NoHook}]
  BY <1>0 DEF RegisterHook, DeregisterHook, EventHooksTypeOK
<1>5. hookFaults' \in 0..MaxHookFaults
  BY <1>0, HookFaultsTyped DEF RegisterHook, DeregisterHook, EventHooksTypeOK
<1>6. UNCHANGED <<clock, lastFire, callers, firingHistory>>
  BY DEF RegisterHook, DeregisterHook
<1>7. EventHooksTypeOK'
  BY <1>0, <1>1, <1>2, <1>3, <1>4, <1>5, <1>6
     DEF EventHooksTypeOK, callers, firingHistory
<1> QED BY <1>6, <1>7, HooksAlone

\* The hook that the call e looks at, and what is left behind it.
LEMMA LookedAt ==
    ASSUME EventHooksTypeOK, NEW e \in Events, snapshot[e] # <<>>
    PROVE  Head(snapshot[e]) \in Hooks /\ Tail(snapshot[e]) \in Seq(known)
<1>1. snapshot[e] \in Seq(known) /\ known \subseteq Hooks
  BY DEF EventHooksTypeOK
<1> QED BY <1>1, HeadTailProperties

\* The call e does something that is no firing, and does not await a callback then.
LEMMA CallerMoves ==
    ASSUME HooksInv, NEW e \in Events,
           FireEvent(e) \/ SkipHook(e) \/ CallbackRaises(e) \/ EventDone(e)
    PROVE  HooksInv'
<1>0. EventHooksTypeOK
  BY DEF HooksInv
<1>1. UNCHANGED <<clock, order, hookRows, lastFire, known, firingHistory>>
  BY DEF FireEvent, SkipHook, CallbackRaises, EventDone
<1>m. \/ /\ eventAt' = [eventAt EXCEPT ![e] = "looking"]
         /\ eventNow' = [eventNow EXCEPT ![e] = clock]
         /\ snapshot' = [snapshot EXCEPT ![e] = order]
      \/ /\ eventAt[e] = "looking" /\ UNCHANGED <<eventAt, eventNow>>
         /\ snapshot[e] # <<>> /\ snapshot' = [snapshot EXCEPT ![e] = Tail(snapshot[e])]
      \/ /\ eventAt' = [eventAt EXCEPT ![e] = "out"]
         /\ eventNow' = [eventNow EXCEPT ![e] = 0]
         /\ snapshot' = [snapshot EXCEPT ![e] = <<>>]
  BY DEF FireEvent, SkipHook, CallbackRaises, EventDone, Leaves
<1>t. /\ eventAt \in [Events -> {"out", "looking", "awaiting"}]
      /\ eventNow \in [Events -> 0..clock] /\ snapshot \in [Events -> Seq(known)]
  BY <1>0 DEF EventHooksTypeOK
<1>2. /\ eventAt' \in [Events -> {"out", "looking", "awaiting"}]
      /\ eventAt'[e] # "awaiting"
      /\ \A d \in Events \ {e} : eventAt'[d] = eventAt[d]
  BY <1>m, <1>t
<1>3. /\ eventNow' \in [Events -> 0..clock]
      /\ \A d \in Events \ {e} : eventNow'[d] = eventNow[d]
  <2>1. clock \in 0..clock /\ 0 \in 0..clock
    BY <1>0, EventHooksAssumption DEF EventHooksTypeOK
  <2> QED BY <1>m, <1>t, <2>1
<1>4. /\ snapshot' \in [Events -> Seq(known)]
      /\ \A d \in Events \ {e} : snapshot'[d] = snapshot[d]
  <2>1. <<>> \in Seq(known) /\ order \in Seq(known)
    BY <1>0 DEF EventHooksTypeOK
  <2>2. snapshot[e] # <<>> => Tail(snapshot[e]) \in Seq(known)
    BY <1>0, LookedAt
  <2> DEFINE lists == Seq(known)
  <2>3. snapshot \in [Events -> lists] /\ <<>> \in lists /\ order \in lists
        /\ (snapshot[e] # <<>> => Tail(snapshot[e]) \in lists)
    BY <1>t, <2>1, <2>2
  <2> HIDE DEF lists
  <2>4. snapshot' \in [Events -> lists] /\ \A d \in Events \ {e} : snapshot'[d] = snapshot[d]
    BY <1>m, <2>3
  <2> QED BY <2>4 DEF lists
<1>5. hookFaults' \in 0..MaxHookFaults
  BY <1>0, HookFaultsTyped
     DEF FireEvent, SkipHook, CallbackRaises, EventDone, EventHooksTypeOK
<1>6. EventHooksTypeOK'
  BY <1>0, <1>1, <1>2, <1>3, <1>4, <1>5 DEF EventHooksTypeOK, firingHistory
<1>7. \A h \in Hooks \ overlapped : HookInv(h)'
  <2> SUFFICES ASSUME NEW h \in Hooks \ overlapped PROVE HookInv(h)'
    OBVIOUS
  <2>1. \A d \in Events : Awaits(d, h)' => d # e /\ Awaits(d, h)
    BY <1>2, <1>4 DEF Awaits
  <2>2. HookInv(h)
    BY DEF HooksInv
  <2> QED BY <1>1, <1>3, <2>1, <2>2 DEF HookInv, Passes, firingHistory
<1> QED BY <1>1, <1>2, <1>4, <1>6, <1>7 DEF HooksInv, DebounceHolds, firingHistory

LEMMA StartCallbackInv ==
    ASSUME HooksInv, NEW e \in Events, StartCallback(e)
    PROVE  HooksInv'
<1> DEFINE h == Head(snapshot[e])
<1>0. EventHooksTypeOK
  BY DEF HooksInv
<1>1. /\ UNCHANGED <<clock, order, hookRows, lastFire, eventNow, snapshot, known, hookFaults,
                     firings, tooClose>>
      /\ snapshot[e] # <<>> /\ Passes(h, eventNow[e])
      /\ overlapped' = IF Awaiting(h) = {} THEN overlapped ELSE overlapped \cup {h}
      /\ eventAt' = [eventAt EXCEPT ![e] = "awaiting"]
  BY DEF StartCallback
<1>2. h \in Hooks /\ h \in known
  <2>1. snapshot[e] \in Seq(known) /\ known \subseteq Hooks
    BY <1>0 DEF EventHooksTypeOK
  <2> QED BY <1>1, <2>1, HeadTailProperties
<1>3. /\ eventAt'[e] = "awaiting" /\ \A d \in Events \ {e} : eventAt'[d] = eventAt[d]
      /\ eventAt' \in [Events -> {"out", "looking", "awaiting"}]
  BY <1>0, <1>1 DEF EventHooksTypeOK
<1>4. EventHooksTypeOK'
  <2>1. tooClose' \cup overlapped' \subseteq known
    BY <1>0, <1>1, <1>2 DEF EventHooksTypeOK
  <2> QED BY <1>0, <1>1, <1>3, <2>1 DEF EventHooksTypeOK
<1>5. ASSUME NEW g \in Hooks \ overlapped' PROVE HookInv(g)'
  <2>1. g \notin overlapped /\ HookInv(g)
    BY <1>1 DEF HooksInv
  <2>2. CASE g # h
    <3>1. \A d \in Events : Awaits(d, g)' <=> Awaits(d, g) /\ d # e
      BY <1>1, <1>3, <2>2 DEF Awaits
    <3> QED BY <1>1, <2>1, <3>1 DEF HookInv, Passes
  <2>3. CASE g = h
    <3>1. \A d \in Events : ~Awaits(d, g)
      BY <1>1, <1>5, <2>3 DEF Awaiting, Awaits
    <3>2. \A d \in Events : Awaits(d, g)' => d = e
      BY <1>1, <1>3, <3>1 DEF Awaits
    <3> QED BY <1>1, <2>1, <2>3, <3>2 DEF HookInv, Passes
  <2> QED BY <2>2, <2>3
<1>6. \A d \in Events : eventAt'[d] = "awaiting" => snapshot'[d] # <<>>
  BY <1>1, <1>3 DEF HooksInv
<1>7. DebounceHolds' /\ \A g \in Hooks : Debounce[g] = 0 => firings'[g] = {}
  BY <1>1 DEF HooksInv, DebounceHolds
<1> QED BY <1>4, <1>5, <1>6, <1>7 DEF HooksInv

LEMMA CallbackReturnsInv ==
    ASSUME HooksInv, NEW e \in Events, CallbackReturns(e)
    PROVE  HooksInv'
<1> DEFINE h == Head(snapshot[e])
           time == eventNow[e]
<1>0. EventHooksTypeOK
  BY DEF HooksInv
<1>1. /\ eventAt[e] = "awaiting"
      /\ lastFire' = [lastFire EXCEPT ![h] = time]
      /\ firings' = [firings EXCEPT ![h] = IF Debounce[h] = 0 THEN @ ELSE @ \cup {time}]
      /\ tooClose' = IF \E other \in firings[h] : Distance(time, other) < Debounce[h]
                     THEN tooClose \cup {h} ELSE tooClose
      /\ UNCHANGED <<clock, order, known, overlapped>>
  BY DEF CallbackReturns, NotedTime
<1>2. snapshot[e] # <<>> /\ h \in Hooks /\ h \in known /\ Tail(snapshot[e]) \in Seq(known)
  <2>1. snapshot[e] # <<>>
    BY <1>1 DEF HooksInv
  <2>2. snapshot[e] \in Seq(known) /\ known \subseteq Hooks
    BY <1>0 DEF EventHooksTypeOK
  <2> QED BY <2>1, <2>2, HeadTailProperties
<1>3. time \in 0..clock /\ clock \in Nat /\ Debounce[h] \in Nat /\ time \in Nat
      /\ time # NoFiring
  BY <1>0, <1>2, EventHooksAssumption DEF EventHooksTypeOK
<1>m. \/ /\ eventAt' = [eventAt EXCEPT ![e] = "looking"] /\ eventNow' = eventNow
         /\ snapshot' = [snapshot EXCEPT ![e] = Tail(snapshot[e])]
      \/ /\ eventAt' = [eventAt EXCEPT ![e] = "out"]
         /\ eventNow' = [eventNow EXCEPT ![e] = 0]
         /\ snapshot' = [snapshot EXCEPT ![e] = <<>>]
  BY DEF CallbackReturns, Leaves
<1>t. /\ eventAt \in [Events -> {"out", "looking", "awaiting"}]
      /\ eventNow \in [Events -> 0..clock] /\ snapshot \in [Events -> Seq(known)]
  BY <1>0 DEF EventHooksTypeOK
<1>4. /\ eventAt' \in [Events -> {"out", "looking", "awaiting"}] /\ eventAt'[e] # "awaiting"
      /\ \A d \in Events \ {e} : eventAt'[d] = eventAt[d]
  BY <1>m, <1>t
<1>5. /\ eventNow' \in [Events -> 0..clock]
      /\ \A d \in Events \ {e} : eventNow'[d] = eventNow[d]
  <2>1. 0 \in 0..clock
    BY <1>3
  <2> QED BY <1>m, <1>t, <2>1
<1>6. /\ snapshot' \in [Events -> Seq(known)]
      /\ \A d \in Events \ {e} : snapshot'[d] = snapshot[d]
  <2> DEFINE lists == Seq(known)
  <2>1. snapshot \in [Events -> lists] /\ <<>> \in lists /\ Tail(snapshot[e]) \in lists
    BY <1>t, <1>2
  <2> HIDE DEF lists
  <2>2. snapshot' \in [Events -> lists] /\ \A d \in Events \ {e} : snapshot'[d] = snapshot[d]
    BY <1>m, <2>1
  <2> QED BY <2>2 DEF lists
<1>7. lastFire \in [Hooks -> Nat \cup {NoFiring}] /\ firings \in [Hooks -> SUBSET (0..clock)]
  BY <1>0 DEF EventHooksTypeOK
<1>8. /\ lastFire'[h] = time /\ \A g \in Hooks \ {h} : lastFire'[g] = lastFire[g]
      /\ firings'[h] = (IF Debounce[h] = 0 THEN firings[h] ELSE firings[h] \cup {time})
      /\ \A g \in Hooks \ {h} : firings'[g] = firings[g]
  BY <1>1, <1>2, <1>7
<1>9. EventHooksTypeOK'
  <2>1. hookRows' \in [HookIds -> Nat \cup {NoFiring, NoHook}]
    BY <1>0, <1>3 DEF CallbackReturns, EventHooksTypeOK
  <2>2. hookFaults' \in 0..MaxHookFaults
    BY <1>0, HookFaultsTyped DEF CallbackReturns, EventHooksTypeOK
  <2>3. lastFire' \in [Hooks -> Nat \cup {NoFiring}]
    BY <1>1, <1>3, <1>7
  <2>4. firings' \in [Hooks -> SUBSET (0..clock)]
    BY <1>1, <1>3, <1>7
  <2>5. tooClose' \cup overlapped' \subseteq known
    BY <1>0, <1>1, <1>2 DEF EventHooksTypeOK
  <2> QED BY <1>0, <1>1, <1>4, <1>5, <1>6, <2>1, <2>2, <2>3, <2>4, <2>5 DEF EventHooksTypeOK
<1>10. Awaits(e, h) /\ h \notin overlapped => HookInv(h) /\ Passes(h, time)
  BY <1>2 DEF HooksInv, HookInv
<1>11. Awaits(e, h)
  BY <1>1 DEF Awaits
<1>12. h \notin overlapped /\ Debounce[h] # 0 =>
          \A other \in firings[h] : other \in Nat /\ other <= time /\ time - other >= Debounce[h]
  <2> SUFFICES ASSUME h \notin overlapped, Debounce[h] # 0, NEW other \in firings[h]
               PROVE  other \in Nat /\ other <= time /\ time - other >= Debounce[h]
    OBVIOUS
  <2>1. lastFire[h] # NoFiring /\ other <= lastFire[h] /\ time - lastFire[h] >= Debounce[h]
    BY <1>10, <1>11 DEF HookInv, Passes
  <2>2. other \in Nat /\ lastFire[h] \in Nat
    BY <1>2, <1>3, <1>7, <2>1
  <2> QED BY <1>3, <2>1, <2>2
<1>13. ASSUME NEW g \in Hooks \ overlapped' PROVE HookInv(g)'
  <2>1. g \notin overlapped /\ HookInv(g)
    BY <1>1 DEF HooksInv
  <2>2. \A d \in Events : Awaits(d, g)' => d # e /\ Awaits(d, g)
    BY <1>4, <1>6 DEF Awaits
  <2>3. CASE g # h
    BY <1>5, <1>8, <2>1, <2>2, <2>3 DEF HookInv, Passes
  <2>4. CASE g = h
    <3>1. \A d \in Events : ~Awaits(d, g)'
      BY <1>11, <2>1, <2>2, <2>4 DEF HookInv
    <3>2. \A other \in firings'[h] : other <= time
      <4>1. CASE Debounce[h] = 0
        BY <1>2, <1>8, <4>1 DEF HooksInv
      <4>2. CASE Debounce[h] # 0
        BY <1>3, <1>8, <1>12, <2>1, <2>4, <4>2
      <4> QED BY <4>1, <4>2
    <3> QED BY <1>3, <1>8, <2>4, <3>1, <3>2 DEF HookInv
  <2> QED BY <2>3, <2>4
<1>14. DebounceHolds'
  <2> SUFFICES ASSUME h \notin overlapped, NEW other \in firings[h]
               PROVE  ~(Distance(time, other) < Debounce[h])
    BY <1>1 DEF HooksInv, DebounceHolds
  <2>1. Debounce[h] # 0
    BY <1>2 DEF HooksInv
  <2>2. other \in Nat /\ other <= time /\ time - other >= Debounce[h]
    BY <1>12, <2>1
  <2> QED BY <1>3, <2>1, <2>2 DEF Distance
<1>15. \A d \in Events : eventAt'[d] = "awaiting" => snapshot'[d] # <<>>
  BY <1>4, <1>6 DEF HooksInv
<1>16. \A g \in Hooks : Debounce[g] = 0 => firings'[g] = {}
  BY <1>8 DEF HooksInv
<1> QED BY <1>9, <1>13, <1>14, <1>15, <1>16 DEF HooksInv

LEMMA EventHooksStep == HooksInv /\ [EventHooksNext]_hookVars => HooksInv'
<1> SUFFICES ASSUME HooksInv, [EventHooksNext]_hookVars PROVE HooksInv'
  OBVIOUS
<1>1. CASE UNCHANGED hookVars
  <2>1. EventHooksTypeOK'
    BY <1>1 DEF hookVars, HooksInv, EventHooksTypeOK
  <2> QED BY <1>1, <2>1, HooksAlone DEF hookVars, callers, firingHistory
<1> QED BY <1>1, ClockTicksInv, RegistrationInv, CallerMoves, StartCallbackInv,
           CallbackReturnsInv DEF EventHooksNext

\* Every variable of EventHooks keeps its type.
THEOREM EventHooksTypes == EventHooksSpec => []EventHooksTypeOK
<1>1. HooksInv => EventHooksTypeOK
  BY DEF HooksInv
<1> QED BY <1>1, EventHooksInitInv, EventHooksStep, PTL DEF EventHooksSpec

\* The debounce of Scheduler.fire_event: unless a hook's callback was called again
\* while it was awaited, no two of its firings are within the debounce, for any
\* hooks, events, faults and debounces.
THEOREM DebounceIsKept == EventHooksSpec => []DebounceHolds
<1>1. HooksInv => DebounceHolds
  BY DEF HooksInv
<1> QED BY <1>1, EventHooksInitInv, EventHooksStep, PTL DEF EventHooksSpec

-----------------------------------------------------------------------------
(* The inbound loop's tasks: who owns them is inductive as it stands.        *)

LoopInv ==
    /\ task \in LoopTasks \cup {NoTask}
    /\ loopAt \in [LoopTasks -> {"none", "ready", "asleep", "ended"}]
    /\ stopping \in [Stoppers -> LoopTasks \cup {NoTask}]
    /\ LoopsOwned

\* A step in which no task begins to run and every running one keeps its owner.
LEMMA OwnersKept ==
    ASSUME LoopInv,
           task' \in LoopTasks \cup {NoTask},
           loopAt' \in [LoopTasks -> {"none", "ready", "asleep", "ended"}],
           stopping' \in [Stoppers -> LoopTasks \cup {NoTask}],
           hurried' = hurried,
           \A l \in LoopTasks : LoopRunning(l)' =>
                /\ LoopRunning(l)
                /\ task = l => task' = l \/ \E s \in Stoppers : stopping'[s] = l
                /\ (\E s \in Stoppers : stopping[s] = l) => \E s \in Stoppers : stopping'[s] = l
    PROVE  LoopInv'
BY DEF LoopInv, LoopsOwned

LEMMA StartLoopInv ==
    ASSUME LoopInv, NEW l \in LoopTasks, StartLoop(l)
    PROVE  LoopInv'
<1>1. /\ task = NoTask /\ task' = l /\ stopping' = stopping
      /\ loopAt'[l] = "ready" /\ \A m \in LoopTasks \ {l} : loopAt'[m] = loopAt[m]
      /\ loopAt' \in [LoopTasks -> {"none", "ready", "asleep", "ended"}]
      /\ hurried' = (hurried \/ \E s \in Stoppers : stopping[s] # NoTask)
  BY DEF StartLoop, LoopInv
<1>2. \A m \in LoopTasks \ {l} : LoopRunning(m)' =>
          LoopRunning(m) /\ \E s \in Stoppers : stopping[s] = m /\ stopping[s] # NoTask
  BY <1>1, InboundAssumption DEF LoopInv, LoopsOwned, LoopRunning
<1>3. \A m \in LoopTasks : LoopRunning(m)' =>
          task' = m \/ \E s \in Stoppers : stopping'[s] = m
  BY <1>1, <1>2
<1>4. (\E m, n \in LoopTasks : m # n /\ LoopRunning(m)' /\ LoopRunning(n)') => hurried'
  BY <1>1, <1>2
<1> QED BY <1>1, <1>3, <1>4 DEF LoopInv, LoopsOwned, LoopRunning

LEMMA BeginStopInv ==
    ASSUME LoopInv, NEW s \in Stoppers, BeginStop(s)
    PROVE  LoopInv'
<1>1. /\ stopping' = [stopping EXCEPT ![s] = task] /\ stopping[s] = NoTask
      /\ task' = NoTask /\ hurried' = hurried
      /\ loopAt' = [l \in LoopTasks |-> IF loopAt[l] = "asleep" THEN "ready" ELSE loopAt[l]]
  BY DEF BeginStop
<1>2. /\ stopping'[s] = task /\ \A r \in Stoppers \ {s} : stopping'[r] = stopping[r]
      /\ stopping' \in [Stoppers -> LoopTasks \cup {NoTask}]
  BY <1>1 DEF LoopInv
<1>3. loopAt' \in [LoopTasks -> {"none", "ready", "asleep", "ended"}]
  BY <1>1 DEF LoopInv
<1>4. \A l \in LoopTasks : LoopRunning(l)' => LoopRunning(l)
  BY <1>1 DEF LoopRunning
<1>5. \A l \in LoopTasks : (\E r \in Stoppers : stopping[r] = l) =>
          \E r \in Stoppers : stopping'[r] = l
  BY <1>1, <1>2, InboundAssumption
<1> QED BY <1>1, <1>2, <1>3, <1>4, <1>5, OwnersKept

LEMMA StopReturnsInv ==
    ASSUME LoopInv, NEW s \in Stoppers, StopReturns(s)
    PROVE  LoopInv'
<1>1. /\ stopping' = [stopping EXCEPT ![s] = NoTask] /\ loopAt[stopping[s]] = "ended"
      /\ stopping[s] # NoTask /\ UNCHANGED <<task, loopAt, hurried>>
  BY DEF StopReturns, Awaited
<1>2. /\ \A r \in Stoppers \ {s} : stopping'[r] = stopping[r]
      /\ stopping' \in [Stoppers -> LoopTasks \cup {NoTask}]
  BY <1>1 DEF LoopInv
<1>3. \A l \in LoopTasks : LoopRunning(l) => stopping[s] # l
  BY <1>1 DEF LoopRunning
<1>4. \A l \in LoopTasks : LoopRunning(l)' => LoopRunning(l)
  BY <1>1 DEF LoopRunning
<1>5. \A l \in LoopTasks : LoopRunning(l) /\ (\E r \in Stoppers : stopping[r] = l) =>
          \E r \in Stoppers : stopping'[r] = l
  BY <1>2, <1>3
<1>6. /\ task' \in LoopTasks \cup {NoTask}
      /\ loopAt' \in [LoopTasks -> {"none", "ready", "asleep", "ended"}]
  BY <1>1 DEF LoopInv
<1> QED BY <1>1, <1>2, <1>4, <1>5, <1>6, OwnersKept

LEMMA LoopStep == LoopInv /\ [InboundNext]_inboundVars => LoopInv'
<1> SUFFICES ASSUME LoopInv, [InboundNext]_inboundVars PROVE LoopInv'
  OBVIOUS
<1>1. CASE UNCHANGED loopVars
  BY <1>1 DEF loopVars, LoopInv, LoopsOwned, LoopRunning
<1>2. ASSUME NEW l \in LoopTasks, RunLoop(l) \/ Timeout(l) PROVE LoopInv'
  <2>1. /\ loopAt' \in [LoopTasks -> {"none", "ready", "asleep", "ended"}]
        /\ \A m \in LoopTasks \ {l} : loopAt'[m] = loopAt[m]
        /\ LoopRunning(l)
        /\ UNCHANGED <<task, stopping, hurried>>
    BY <1>2 DEF RunLoop, Timeout, LoopInv, LoopRunning
  <2>2. \A m \in LoopTasks : LoopRunning(m)' => LoopRunning(m)
    BY <2>1 DEF LoopRunning
  <2> QED BY <2>1, <2>2, OwnersKept DEF LoopInv
<1>3. CASE Arrive \/ Expire \/ Baseline \/ DropCursor \/ PollHistory
           \/ StartListener \/ StopListener \/ TakePayload \/ RegisterHandler
           \/ UNCHANGED inboundVars
  <2>1. UNCHANGED loopVars
    BY <1>3 DEF Arrive, Expire, Baseline, DropCursor, PollHistory, StartListener,
                StopListener, TakePayload, RegisterHandler, inboundVars
  <2> QED BY <1>1, <2>1
<1> QED BY <1>2, <1>3, StartLoopInv, BeginStopInv, StopReturnsInv DEF InboundNext

LEMMA InboundInitLoops == InboundInit => LoopInv
BY DEF InboundInit, LoopInv, LoopsOwned, LoopRunning

\* InboundEmailLoop: however starts, stops and ticks interleave, every running task
\* can still be stopped, and two run only after a start that came before a stop had
\* returned, for any number of tasks and callers.
THEOREM RunningLoopsAreOwned == InboundSpec => []LoopsOwned
<1>1. LoopInv => LoopsOwned
  BY DEF LoopInv
<1> QED BY <1>1, InboundInitLoops, LoopStep, PTL DEF InboundSpec

-----------------------------------------------------------------------------
(* Inbound events: where each is.  With the places stated for the part of   *)
(* the mailbox up to the cursor, or all of it when there is none, nothing   *)
(* in them can be polled again.                                             *)

Top == IF cursor = NoCursor THEN mailbox ELSE cursor

Mails(n) == {Mail(i) : i \in 1..n}
Payloads(n) == {Payload(i) : i \in 1..n}

HeldEvents == Range(queued.gmail) \cup Range(queued.slack)
LostEvents == UNION {lostBy[r] : r \in Reasons}
Handed == delivered \cup unrouted
PassedEvents == Mails(IF cursor = NoCursor THEN 0 ELSE cursor) \cup Payloads(taken)

MailTypes ==
    /\ mailbox \in Nat /\ expired \in 0..mailbox /\ cursor \in 0..mailbox \cup {NoCursor}
    /\ taken \in Nat
    /\ lostBy \in [Reasons -> SUBSET (Mails(Top) \cup Payloads(taken))]

PlaceInv ==
    /\ queued \in [gmail : Seq(Mails(Top)), slack : Seq(Payloads(taken))]
    /\ IsInjective(queued.gmail) /\ IsInjective(queued.slack)
    /\ Handed \subseteq Mails(Top) \cup Payloads(taken)
    /\ PassedEvents \subseteq HeldEvents \cup Handed \cup LostEvents
    /\ HeldEvents \cap (Handed \cup LostEvents) = {}
    /\ delivered \cap unrouted = {}
    /\ LostEvents \cap Handed = {}

EventInv == MailTypes /\ PlaceInv

LEMMA EventNames ==
    /\ \A m, n : Mail(m) = Mail(n) => m = n
    /\ \A m, n : Payload(m) = Payload(n) => m = n
    /\ \A m, n : Mail(m) # Payload(n)
BY DEF Mail, Payload

LEMMA NamesGrow ==
    ASSUME NEW m \in Nat, NEW n \in Nat, m <= n
    PROVE  /\ Mails(m) \subseteq Mails(n) /\ Payloads(m) \subseteq Payloads(n)
           /\ Seq(Mails(m)) \subseteq Seq(Mails(n))
           /\ Seq(Payloads(m)) \subseteq Seq(Payloads(n))
<1>1. 1..m \subseteq 1..n
  OBVIOUS
<1>2. Mails(m) \subseteq Mails(n) /\ Payloads(m) \subseteq Payloads(n)
  BY <1>1 DEF Mails, Payloads
<1> QED BY <1>2, SeqMonotonic

LEMMA Accounted == PlaceInv => InboundAccounted
BY DEF PlaceInv, InboundAccounted, PassedEvents, HeldEvents, Handed, LostEvents, Mails, Payloads

LEMMA EventInitInv == InboundInit => EventInv
<1> SUFFICES ASSUME InboundInit PROVE EventInv
  OBVIOUS
<1>1. Mails(0) = {} /\ Payloads(0) = {}
  BY DEF Mails, Payloads
<1>2. Top = 0 /\ PassedEvents = {}
  BY <1>1 DEF InboundInit, Top, PassedEvents
<1>3. HeldEvents = {} /\ LostEvents = {} /\ Handed = {}
  BY DEF InboundInit, HeldEvents, LostEvents, Handed, Range
<1>4. MailTypes
  BY <1>1, <1>2 DEF InboundInit, MailTypes
<1>5. queued \in [gmail : Seq(Mails(Top)), slack : Seq(Payloads(taken))]
  BY DEF InboundInit
<1>6. IsInjective(queued.gmail) /\ IsInjective(queued.slack)
  BY DEF InboundInit, IsInjective
<1> QED BY <1>2, <1>3, <1>4, <1>5, <1>6 DEF EventInv, PlaceInv, InboundInit

\* Steps that move no event, and pass none.
LEMMA EventsAlone ==
    ASSUME EventInv, UNCHANGED <<queued, delivered, unrouted, lostBy, taken>>,
           mailbox' \in Nat, expired' \in 0..mailbox', cursor' \in 0..mailbox' \cup {NoCursor},
           Top <= Top', cursor' = cursor \/ cursor' = NoCursor
    PROVE  EventInv'
<1>1. Top \in Nat /\ Top' \in Nat
  BY InboundAssumption DEF EventInv, MailTypes, Top
<1>2. Mails(Top) \subseteq Mails(Top') /\ Seq(Mails(Top)) \subseteq Seq(Mails(Top'))
  BY <1>1, NamesGrow
<1>3. MailTypes'
  BY <1>2 DEF EventInv, MailTypes
<1>4. queued' \in [gmail : Seq(Mails(Top')), slack : Seq(Payloads(taken'))]
  BY <1>2 DEF EventInv, PlaceInv
<1>5. PassedEvents' \subseteq PassedEvents
  <2>1. Mails(0) = {}
    BY DEF Mails
  <2> QED BY <2>1 DEF PassedEvents
<1>6. HeldEvents' = HeldEvents /\ Handed' = Handed /\ LostEvents' = LostEvents
  BY DEF HeldEvents, Handed, LostEvents
<1>7. PlaceInv'
  BY <1>2, <1>4, <1>5, <1>6 DEF EventInv, PlaceInv, Handed
<1> QED BY <1>3, <1>7 DEF EventInv

LEMMA MailboxInv ==
    ASSUME EventInv, Arrive \/ Expire \/ DropCursor
    PROVE  EventInv'
<1>1. mailbox \in Nat /\ expired \in 0..mailbox /\ cursor \in 0..mailbox \cup {NoCursor}
  BY DEF EventInv, MailTypes
<1>2. UNCHANGED <<queued, delivered, unrouted, lostBy, taken>>
  BY DEF Arrive, Expire, DropCursor, socketVars, routeVars
<1>3. CASE Arrive
  <2>1. mailbox' = mailbox + 1 /\ UNCHANGED <<expired, cursor>>
    BY <1>3 DEF Arrive
  <2> QED BY <1>1, <1>2, <2>1, InboundAssumption, EventsAlone DEF Top
<1>4. CASE Expire
  <2>1. expired' = mailbox /\ UNCHANGED <<mailbox, cursor>>
    BY <1>4 DEF Expire
  <2> QED BY <1>1, <1>2, <2>1, InboundAssumption, EventsAlone DEF Top
<1>5. CASE DropCursor
  <2>1. cursor' = NoCursor /\ cursor # NoCursor /\ UNCHANGED <<mailbox, expired>>
    BY <1>5 DEF DropCursor
  <2> QED BY <1>1, <1>2, <2>1, InboundAssumption, EventsAlone DEF Top
<1> QED BY <1>3, <1>4, <1>5

\* LoseBy adds to what is lost and to nothing else.
LEMMA Losing ==
    ASSUME NEW S, lostBy \in [Reasons -> SUBSET S], NEW r \in Reasons, NEW events \in SUBSET S,
           LoseBy(r, events)
    PROVE  lostBy' \in [Reasons -> SUBSET S] /\ LostEvents' = LostEvents \cup events
<1>1. lostBy' = [lostBy EXCEPT ![r] = @ \cup events]
  BY DEF LoseBy
<1>2. lostBy' \in [Reasons -> SUBSET S]
  BY <1>1
<1>3. lostBy'[r] = lostBy[r] \cup events /\ \A q \in Reasons \ {r} : lostBy'[q] = lostBy[q]
  BY <1>1
<1>4. \A e : (\E q \in Reasons : e \in lostBy'[q]) <=> (\E q \in Reasons : e \in lostBy[q]) \/ e \in events
  BY <1>3
<1>5. \A e : (e \in LostEvents <=> \E q \in Reasons : e \in lostBy[q])
             /\ (e \in LostEvents' <=> \E q \in Reasons : e \in lostBy'[q])
  BY DEF LostEvents
<1> QED BY <1>2, <1>4, <1>5

LEMMA BaselineInv ==
    ASSUME EventInv, Baseline
    PROVE  EventInv'
<1> DEFINE fresh == {Mail(n) : n \in 1..mailbox} \ Polled
           all == Mails(Top) \cup Payloads(taken)
<1>1. /\ cursor = NoCursor /\ cursor' = mailbox /\ LoseBy("baseline", fresh)
      /\ UNCHANGED <<mailbox, expired, queued, delivered, unrouted, taken>>
  BY DEF Baseline, socketVars, routeVars
<1>2. mailbox \in Nat /\ Top = mailbox /\ Top' = mailbox
  BY <1>1, InboundAssumption DEF EventInv, MailTypes, Top
<1>3. fresh \subseteq Mails(Top) /\ fresh \subseteq all
  BY <1>2 DEF Mails
<1>4. lostBy' \in [Reasons -> SUBSET all] /\ LostEvents' = LostEvents \cup fresh
  <2>1. lostBy \in [Reasons -> SUBSET all] /\ "baseline" \in Reasons
    BY DEF EventInv, MailTypes, Reasons
  <2> QED BY <1>1, <1>3, <2>1, Losing
<1>5. MailTypes'
  BY <1>1, <1>2, <1>4 DEF EventInv, MailTypes
<1>6. HeldEvents' = HeldEvents /\ Handed' = Handed
  BY <1>1 DEF HeldEvents, Handed
<1>7. Polled = Range(queued.gmail) \cup Handed \cup LostEvents
  BY DEF Polled, Handed, LostEvents
<1>8. PassedEvents' \subseteq HeldEvents \cup Handed \cup LostEvents'
  <2>1. PassedEvents' = Mails(mailbox) \cup Payloads(taken)
    BY <1>1, <1>2, InboundAssumption DEF PassedEvents
  <2>2. Mails(mailbox) \subseteq Polled \cup fresh
    BY DEF Mails
  <2>3. Payloads(taken) \subseteq HeldEvents \cup Handed \cup LostEvents
    BY DEF EventInv, PlaceInv, PassedEvents
  <2> QED BY <1>4, <1>7, <2>1, <2>2, <2>3 DEF HeldEvents
<1>9. fresh \cap (HeldEvents \cup Handed) = {}
  <2>1. Range(queued.slack) \subseteq Payloads(taken)
    BY DEF EventInv, PlaceInv, Range
  <2>2. fresh \cap Payloads(taken) = {}
    BY EventNames DEF Payloads
  <2> QED BY <1>7, <2>1, <2>2 DEF HeldEvents
<1> HIDE DEF fresh
<1>10. PlaceInv'
  BY <1>1, <1>2, <1>4, <1>6, <1>8, <1>9 DEF EventInv, PlaceInv, Handed
<1> QED BY <1>5, <1>10 DEF EventInv

\* A queue with one more batch of events that are not in it, each once.
LEMMA Enqueued ==
    ASSUME NEW S, NEW q \in Seq(S), NEW more \in Seq(S), IsInjective(q), IsInjective(more),
           Range(q) \cap Range(more) = {}
    PROVE  /\ q \o more \in Seq(S) /\ IsInjective(q \o more)
           /\ Range(q \o more) = Range(q) \cup Range(more)
<1> DEFINE both == q \o more
<1>1. /\ both \in Seq(S) /\ Len(both) = Len(q) + Len(more)
      /\ \A i \in 1..Len(q) + Len(more) :
            both[i] = IF i <= Len(q) THEN q[i] ELSE more[i - Len(q)]
  BY ConcatProperties
<1>2. DOMAIN both = 1..Len(q) + Len(more) /\ DOMAIN q = 1..Len(q) /\ DOMAIN more = 1..Len(more)
      /\ Len(q) \in Nat /\ Len(more) \in Nat
  BY <1>1
<1>3. \A i \in 1..Len(q) : i \in DOMAIN both /\ both[i] = q[i] /\ both[i] \in Range(q)
  BY <1>1, <1>2 DEF Range
<1>4. \A i \in 1..Len(more) : Len(q) + i \in DOMAIN both /\ both[Len(q) + i] = more[i]
                              /\ more[i] \in Range(more)
  <2> SUFFICES ASSUME NEW i \in 1..Len(more)
               PROVE  Len(q) + i \in DOMAIN both /\ both[Len(q) + i] = more[i]
                      /\ more[i] \in Range(more)
    OBVIOUS
  <2>1. Len(q) + i \in 1..Len(q) + Len(more) /\ ~(Len(q) + i <= Len(q))
        /\ (Len(q) + i) - Len(q) = i
    BY <1>2
  <2> QED BY <1>1, <1>2, <2>1 DEF Range
<1>5. \A i \in DOMAIN both : i \in 1..Len(q) \/ \E j \in 1..Len(more) : i = Len(q) + j
  <2> SUFFICES ASSUME NEW i \in DOMAIN both, i \notin 1..Len(q)
               PROVE  \E j \in 1..Len(more) : i = Len(q) + j
    OBVIOUS
  <2>1. i - Len(q) \in 1..Len(more) /\ i = Len(q) + (i - Len(q))
    BY <1>2
  <2> QED BY <2>1
<1> HIDE DEF both
<1>6. Range(both) = Range(q) \cup Range(more)
  <2>1. \A i \in DOMAIN both : both[i] \in Range(q) \cup Range(more)
    BY <1>3, <1>4, <1>5
  <2>2. \A e \in Range(q) : \E i \in DOMAIN both : both[i] = e
    BY <1>2, <1>3 DEF Range
  <2>3. \A e \in Range(more) : \E i \in DOMAIN both : both[i] = e
    BY <1>2, <1>4 DEF Range
  <2>4. \A e : e \in Range(both) <=> \E i \in DOMAIN both : both[i] = e
    BY DEF Range
  <2> QED BY <2>1, <2>2, <2>3, <2>4
<1>7. IsInjective(both)
  <2> SUFFICES ASSUME NEW i \in DOMAIN both, NEW j \in DOMAIN both, both[i] = both[j]
               PROVE  i = j
    BY DEF IsInjective
  <2>1. CASE i \in 1..Len(q) /\ j \in 1..Len(q)
    BY <1>2, <1>3, <2>1 DEF IsInjective
  <2>2. CASE i \notin 1..Len(q) /\ j \notin 1..Len(q)
    <3>1. PICK m \in 1..Len(more) : i = Len(q) + m
      BY <1>5, <2>2
    <3>2. PICK n \in 1..Len(more) : j = Len(q) + n
      BY <1>5, <2>2
    <3>3. more[m] = more[n]
      BY <1>4, <3>1, <3>2
    <3> QED BY <1>2, <3>1, <3>2, <3>3 DEF IsInjective
  <2>3. CASE i \in 1..Len(q) /\ j \notin 1..Len(q)
    BY <1>3, <1>4, <1>5, <2>3
  <2>4. CASE i \notin 1..Len(q) /\ j \in 1..Len(q)
    BY <1>3, <1>4, <1>5, <2>4
  <2> QED BY <2>1, <2>2, <2>3, <2>4
<1> QED BY <1>1, <1>6, <1>7 DEF both

LEMMA PollInv ==
    ASSUME EventInv, PollHistory
    PROVE  EventInv'
<1> DEFINE Fresh == (cursor + 1)..mailbox
           OnPage == {n \in Fresh : n <= cursor + PageSize}
           page == [i \in 1..Cardinality(OnPage) |-> Mail(cursor + i)]
           behind == {Mail(n) : n \in Fresh \ OnPage}
           all == Mails(mailbox) \cup Payloads(taken)
<1>1. /\ cursor # NoCursor /\ cursor' = mailbox /\ LoseBy("page", behind)
      /\ queued' = [queued EXCEPT !.gmail = @ \o page]
      /\ UNCHANGED <<mailbox, expired, delivered, unrouted, taken>>
  BY DEF PollHistory, socketVars, routeVars
<1>2. /\ mailbox \in Nat /\ cursor \in 0..mailbox /\ Top = cursor /\ Top' = mailbox
      /\ taken \in Nat /\ PageSize \in Nat
  BY <1>1, InboundAssumption DEF EventInv, MailTypes, Top
<1>3. PICK final \in Nat : cursor <= final /\ final <= mailbox /\ OnPage = (cursor + 1)..final
  <2>1. CASE mailbox <= cursor + PageSize
    <3>1. OnPage = (cursor + 1)..mailbox
      BY <1>2, <2>1
    <3> QED BY <1>2, <3>1
  <2>2. CASE ~(mailbox <= cursor + PageSize)
    <3>1. OnPage = (cursor + 1)..(cursor + PageSize)
      BY <1>2, <2>2
    <3> QED BY <1>2, <2>2, <3>1
  <2> QED BY <2>1, <2>2
<1>4. Cardinality(OnPage) = final - cursor
  <2>1. cursor + 1 \in Int /\ final \in Int
    BY <1>2, <1>3
  <2>2. Cardinality((cursor + 1)..final)
            = IF cursor + 1 > final THEN 0 ELSE final - (cursor + 1) + 1
    BY <2>1, FS_Interval
  <2> HIDE DEF OnPage
  <2> QED BY <1>2, <1>3, <2>2
<1>5. /\ page = [i \in 1..(final - cursor) |-> Mail(cursor + i)]
      /\ DOMAIN page = 1..(final - cursor)
      /\ \A i \in 1..(final - cursor) : page[i] = Mail(cursor + i) /\ cursor + i \in OnPage
  <2> HIDE DEF OnPage
  <2>1. page = [i \in 1..(final - cursor) |-> Mail(cursor + i)]
    BY <1>4
  <2> HIDE DEF page
  <2>2. \A i \in 1..(final - cursor) : cursor + i \in OnPage
    BY <1>2, <1>3
  <2> QED BY <2>1, <2>2
<1>6. page \in Seq(Mails(mailbox))
  <2>1. \A i \in 1..(final - cursor) : cursor + i \in 1..mailbox
    BY <1>2, <1>3
  <2> HIDE DEF page
  <2>2. page \in [1..(final - cursor) -> Mails(mailbox)]
    BY <1>5, <2>1 DEF Mails
  <2>3. final - cursor \in Nat
    BY <1>2, <1>3
  <2> QED BY <2>2, <2>3, SeqDef
<1>7. IsInjective(page)
  BY <1>2, <1>3, <1>5, EventNames DEF IsInjective
<1>8. Range(page) = {Mail(n) : n \in OnPage}
  <2>1. \A n \in OnPage : n - cursor \in 1..(final - cursor) /\ n = cursor + (n - cursor)
    BY <1>2, <1>3
  <2> QED BY <1>5, <2>1 DEF Range
<1> HIDE DEF page, OnPage
<1>9. Mails(cursor) \subseteq Mails(mailbox) /\ Seq(Mails(cursor)) \subseteq Seq(Mails(mailbox))
  BY <1>2, NamesGrow
<1>10. \A n \in Fresh : Mail(n) \notin HeldEvents \cup Handed \cup LostEvents
  <2>1. HeldEvents \cup Handed \cup LostEvents \subseteq Mails(cursor) \cup Payloads(taken)
    <3>1. HeldEvents \subseteq Mails(cursor) \cup Payloads(taken)
      BY <1>2 DEF EventInv, PlaceInv, HeldEvents, Range
    <3> QED BY <1>2, <3>1 DEF EventInv, PlaceInv, MailTypes, LostEvents
  <2>2. \A n \in Fresh : Mail(n) \notin Mails(cursor)
    BY <1>2, EventNames DEF Mails
  <2>3. \A n \in Fresh : Mail(n) \notin Payloads(taken)
    BY EventNames DEF Payloads
  <2> QED BY <2>1, <2>2, <2>3
<1>11. OnPage \subseteq Fresh /\ Fresh \subseteq 1..mailbox
  BY <1>2 DEF OnPage
<1>12. /\ queued.gmail \in Seq(Mails(mailbox)) /\ queued.slack \in Seq(Payloads(taken))
       /\ queued'.gmail = queued.gmail \o page /\ queued'.slack = queued.slack
       /\ queued' \in [gmail : {queued'.gmail}, slack : {queued'.slack}]
  BY <1>1, <1>2, <1>9 DEF EventInv, PlaceInv
<1>13. /\ queued'.gmail \in Seq(Mails(mailbox)) /\ IsInjective(queued'.gmail)
       /\ Range(queued'.gmail) = Range(queued.gmail) \cup {Mail(n) : n \in OnPage}
  <2>1. Range(queued.gmail) \cap Range(page) = {}
    BY <1>8, <1>10, <1>11 DEF HeldEvents
  <2>2. IsInjective(queued.gmail)
    BY DEF EventInv, PlaceInv
  <2> QED BY <1>6, <1>7, <1>8, <1>12, <2>1, <2>2, Enqueued
<1>14. lostBy' \in [Reasons -> SUBSET all] /\ LostEvents' = LostEvents \cup behind
  <2>1. lostBy \in [Reasons -> SUBSET all] /\ "page" \in Reasons
    BY <1>2, <1>9 DEF EventInv, MailTypes, Reasons
  <2>2. behind \subseteq all
    BY <1>11 DEF Mails
  <2> HIDE DEF behind, all
  <2> QED BY <1>1, <2>1, <2>2, Losing
<1>15. MailTypes'
  BY <1>1, <1>2, <1>14 DEF EventInv, MailTypes
<1>16. HeldEvents' = HeldEvents \cup {Mail(n) : n \in OnPage} /\ Handed' = Handed
  BY <1>1, <1>12, <1>13 DEF HeldEvents, Handed
<1>17. PassedEvents' \subseteq HeldEvents' \cup Handed' \cup LostEvents'
  <2>1. PassedEvents' = Mails(mailbox) \cup Payloads(taken)
        /\ PassedEvents = Mails(cursor) \cup Payloads(taken)
    BY <1>1, <1>2, InboundAssumption DEF PassedEvents
  <2>2. \A n \in 1..mailbox : n \in 1..cursor \/ n \in Fresh
    BY <1>2
  <2>3. Mails(mailbox) \subseteq Mails(cursor) \cup {Mail(n) : n \in OnPage} \cup behind
    BY <2>2 DEF Mails
  <2>4. PassedEvents \subseteq HeldEvents \cup Handed \cup LostEvents
    BY DEF EventInv, PlaceInv
  <2> QED BY <1>14, <1>16, <2>1, <2>3, <2>4
<1>18. HeldEvents' \cap (Handed' \cup LostEvents') = {} /\ LostEvents' \cap Handed' = {}
  <2>1. {Mail(n) : n \in OnPage} \cap behind = {}
    BY EventNames
  <2>2. {Mail(n) : n \in OnPage} \cap (Handed \cup LostEvents) = {}
        /\ behind \cap (HeldEvents \cup Handed) = {}
    BY <1>10, <1>11
  <2> HIDE DEF behind
  <2> QED BY <1>14, <1>16, <2>1, <2>2 DEF EventInv, PlaceInv
<1>19. PlaceInv'
  <2>1. Handed' \subseteq Mails(Top') \cup Payloads(taken')
    BY <1>1, <1>2, <1>9, <1>16 DEF EventInv, PlaceInv
  <2>2. queued' \in [gmail : Seq(Mails(Top')), slack : Seq(Payloads(taken'))]
    BY <1>1, <1>2, <1>12, <1>13
  <2> QED BY <1>1, <1>12, <1>13, <1>17, <1>18, <2>1, <2>2 DEF EventInv, PlaceInv
<1> QED BY <1>15, <1>19 DEF EventInv

LEMMA TakePayloadInv ==
    ASSUME EventInv, TakePayload
    PROVE  EventInv'
<1> DEFINE new == Payload(taken + 1)
           all == Mails(Top) \cup Payloads(taken + 1)
<1>1. taken' = taken + 1 /\ UNCHANGED <<mailVars, delivered, unrouted>>
  BY DEF TakePayload, routeVars
<1>2. taken \in Nat /\ Top' = Top
  BY <1>1 DEF EventInv, MailTypes, Top, mailVars
<1>3. /\ Payloads(taken + 1) = Payloads(taken) \cup {new}
      /\ Payloads(taken) \subseteq Payloads(taken + 1)
      /\ Seq(Payloads(taken)) \subseteq Seq(Payloads(taken + 1))
  <2>1. 1..(taken + 1) = 1..taken \cup {taken + 1}
    BY <1>2
  <2> QED BY <1>2, <2>1, NamesGrow DEF Payloads
<1>4. new \notin HeldEvents \cup Handed \cup LostEvents
  <2>1. HeldEvents \cup Handed \cup LostEvents \subseteq Mails(Top) \cup Payloads(taken)
    <3>1. HeldEvents \subseteq Mails(Top) \cup Payloads(taken)
      BY DEF EventInv, PlaceInv, HeldEvents, Range
    <3> QED BY <3>1 DEF EventInv, PlaceInv, MailTypes, LostEvents
  <2>2. new \notin Mails(Top)
    BY EventNames DEF Mails
  <2>3. new \notin Payloads(taken)
    BY <1>2, EventNames DEF Payloads
  <2> QED BY <2>1, <2>2, <2>3
<1>5. Handed' = Handed /\ PassedEvents' = PassedEvents \cup {new}
  BY <1>1, <1>3 DEF Handed, PassedEvents, mailVars
<1>6. lostBy \in [Reasons -> SUBSET all] /\ new \in all
  BY <1>3 DEF EventInv, MailTypes
<1> HIDE DEF new
<1>7. CASE queued' = [queued EXCEPT !.slack = Append(@, new)] /\ UNCHANGED lostBy
  <2>1. /\ queued.slack \in Seq(Payloads(taken + 1)) /\ queued.gmail \in Seq(Mails(Top))
        /\ queued'.slack = queued.slack \o <<new>> /\ queued'.gmail = queued.gmail
        /\ queued' \in [gmail : {queued'.gmail}, slack : {queued'.slack}]
    <3>1. queued \in [gmail : Seq(Mails(Top)), slack : Seq(Payloads(taken))]
      BY DEF EventInv, PlaceInv
    <3>2. queued'.slack = Append(queued.slack, new) /\ queued'.gmail = queued.gmail
          /\ queued' \in [gmail : {queued'.gmail}, slack : {queued'.slack}]
      BY <1>7, <3>1
    <3> QED BY <1>3, <3>1, <3>2, AppendIsConcat
  <2>2. <<new>> \in Seq(Payloads(taken + 1)) /\ Range(<<new>>) = {new} /\ IsInjective(<<new>>)
    BY <1>3 DEF Range, IsInjective
  <2>3. /\ queued'.slack \in Seq(Payloads(taken + 1)) /\ IsInjective(queued'.slack)
        /\ Range(queued'.slack) = Range(queued.slack) \cup {new}
    <3>1. Range(queued.slack) \cap Range(<<new>>) = {} /\ IsInjective(queued.slack)
      BY <1>4, <2>2 DEF HeldEvents, EventInv, PlaceInv
    <3> DEFINE S == Payloads(taken + 1)
               q == queued.slack
               more == <<new>>
    <3>2. q \in Seq(S) /\ more \in Seq(S) /\ IsInjective(q) /\ IsInjective(more)
          /\ Range(q) \cap Range(more) = {}
      BY <2>1, <2>2, <3>1
    <3>3. queued'.slack = q \o more /\ Range(more) = {new}
      BY <2>1, <2>2
    <3> HIDE DEF S, q, more
    <3>4. q \o more \in Seq(S) /\ IsInjective(q \o more)
          /\ Range(q \o more) = Range(q) \cup Range(more)
      BY <3>2, Enqueued
    <3> QED BY <3>3, <3>4 DEF S, q
  <2>4. HeldEvents' = HeldEvents \cup {new} /\ LostEvents' = LostEvents
    BY <1>7, <2>1, <2>3 DEF HeldEvents, LostEvents
  <2>5. MailTypes'
    BY <1>1, <1>2, <1>6, <1>7 DEF EventInv, MailTypes, mailVars
  <2>6. queued' \in [gmail : Seq(Mails(Top')), slack : Seq(Payloads(taken'))]
    BY <1>1, <1>2, <2>1, <2>3
  <2>7. PlaceInv'
    BY <1>1, <1>2, <1>3, <1>4, <1>5, <2>1, <2>3, <2>4, <2>6 DEF EventInv, PlaceInv, Handed
  <2> QED BY <2>5, <2>7 DEF EventInv
<1>8. CASE LoseBy("deaf", {new}) /\ UNCHANGED queued
  <2>1. lostBy' \in [Reasons -> SUBSET all] /\ LostEvents' = LostEvents \cup {new}
    <3>1. "deaf" \in Reasons
      BY DEF Reasons
    <3>2. {new} \in SUBSET all
      BY <1>6
    <3> HIDE DEF all
    <3> QED BY <1>6, <1>8, <3>1, <3>2, Losing
  <2>2. HeldEvents' = HeldEvents
    BY <1>8 DEF HeldEvents
  <2>3. MailTypes'
    BY <1>1, <1>2, <2>1 DEF EventInv, MailTypes, mailVars
  <2>4. queued' \in [gmail : Seq(Mails(Top')), slack : Seq(Payloads(taken'))]
    BY <1>1, <1>2, <1>3, <1>8 DEF EventInv, PlaceInv
  <2>5. PlaceInv'
    BY <1>1, <1>2, <1>3, <1>4, <1>5, <1>8, <2>1, <2>2, <2>4 DEF EventInv, PlaceInv, Handed
  <2> QED BY <2>3, <2>5 DEF EventInv
<1> QED BY <1>7, <1>8 DEF TakePayload, new

\* A tick hands some of the queued events over and loses others.
LEMMA TickMoves ==
    ASSUME EventInv, NEW routed, NEW gone, Route(routed), LoseBy("raise", gone),
           UNCHANGED <<mailVars, taken>>,
           queued' \in [gmail : {<<>>, queued.gmail}, slack : {<<>>, queued.slack}],
           routed \cup gone \subseteq HeldEvents,
           routed \cap gone = {},
           HeldEvents' = HeldEvents \ (routed \cup gone)
    PROVE  EventInv'
<1> DEFINE all == Mails(Top) \cup Payloads(taken)
<1>1. HeldEvents \subseteq all
  BY DEF EventInv, PlaceInv, HeldEvents, Range
<1>2. Top' = Top /\ taken' = taken
  BY DEF Top, mailVars
<1>3. lostBy' \in [Reasons -> SUBSET all] /\ LostEvents' = LostEvents \cup gone
  <2>1. lostBy \in [Reasons -> SUBSET all] /\ gone \subseteq all /\ "raise" \in Reasons
    BY <1>1 DEF EventInv, MailTypes, Reasons
  <2> HIDE DEF all
  <2> QED BY <2>1, Losing
<1>4. MailTypes'
  BY <1>2, <1>3 DEF EventInv, MailTypes, mailVars
<1>5. /\ delivered \cup unrouted \cup routed = delivered' \cup unrouted'
      /\ delivered' \cap unrouted' = {}
  BY DEF Route, EventInv, PlaceInv, Handed
<1>6. Handed' = Handed \cup routed
  BY <1>5 DEF Handed
<1>7. /\ <<>> \in Seq(Mails(Top)) /\ <<>> \in Seq(Payloads(taken)) /\ IsInjective(<<>>)
  BY DEF IsInjective
<1>8. /\ queued' \in [gmail : Seq(Mails(Top')), slack : Seq(Payloads(taken'))]
      /\ IsInjective(queued'.gmail) /\ IsInjective(queued'.slack)
  BY <1>2, <1>7 DEF EventInv, PlaceInv
<1>9. PassedEvents' = PassedEvents
  BY DEF PassedEvents, mailVars
<1>10. PlaceInv'
  <2>1. Handed' \subseteq all
    BY <1>1, <1>6 DEF EventInv, PlaceInv
  <2>2. PassedEvents' \subseteq HeldEvents' \cup Handed' \cup LostEvents'
    BY <1>3, <1>6, <1>9 DEF EventInv, PlaceInv
  <2>3. HeldEvents' \cap (Handed' \cup LostEvents') = {} /\ LostEvents' \cap Handed' = {}
    BY <1>3, <1>6 DEF EventInv, PlaceInv
  <2> QED BY <1>2, <1>5, <1>8, <2>1, <2>2, <2>3 DEF PlaceInv
<1> QED BY <1>4, <1>10 DEF EventInv

LEMMA TickOnceInv ==
    ASSUME EventInv, TickOnce, UNCHANGED <<mailVars, taken>>
    PROVE  EventInv'
<1> DEFINE mail == queued.gmail
           sock == queued.slack
<1>1. /\ queued \in [gmail : {mail}, slack : {sock}] /\ DOMAIN queued = {"gmail", "slack"}
      /\ mail \in Seq(Mails(Top)) /\ sock \in Seq(Payloads(taken))
      /\ IsInjective(mail) /\ IsInjective(sock)
      /\ HeldEvents = Range(mail) \cup Range(sock)
  BY DEF EventInv, PlaceInv, HeldEvents
<1>2. Range(mail) \cap Range(sock) = {}
  <2>1. Range(mail) \subseteq Mails(Top) /\ Range(sock) \subseteq Payloads(taken)
    BY <1>1 DEF Range
  <2> QED BY <2>1, EventNames DEF Mails, Payloads
<1>3. Range(<<>>) = {}
  BY DEF Range
<1>4. queued.gmail = mail /\ queued.slack = sock
  OBVIOUS
<1> HIDE DEF mail, sock
<1>5. CASE TickAll
  <2>1. /\ queued' = [a \in {"gmail", "slack"} |-> <<>>]
        /\ Route(UNION {Range(queued[a]) : a \in {"gmail", "slack"}})
        /\ lostBy' = lostBy
    BY <1>1, <1>5 DEF TickAll
  <2>2. queued' \in [gmail : {<<>>}, slack : {<<>>}] /\ HeldEvents' = {}
    BY <1>3, <2>1 DEF HeldEvents
  <2>3. Route(HeldEvents)
    <3>1. UNION {Range(queued[a]) : a \in {"gmail", "slack"}} = HeldEvents
      BY <1>1, <1>4
    <3> QED BY <2>1, <3>1
  <2>4. LoseBy("raise", {})
    BY <2>1 DEF LoseBy, EventInv, MailTypes, Reasons
  <2> QED BY <1>1, <1>4, <2>2, <2>3, <2>4, TickMoves
<1>6. ASSUME NEW k \in 0..(MaxMail + MaxSocket), TickRaises(1, k)
      PROVE  EventInv'
  <2> DEFINE routed == {mail[j] : j \in 1..k - 1}
             gone == IF k = 0 THEN {} ELSE {mail[j] : j \in k..Len(mail)}
  <2>1. k <= Len(mail) /\ k \in Nat /\ Len(mail) \in Nat /\ DOMAIN mail = 1..Len(mail)
    BY <1>1, <1>4, <1>6, InboundAssumption DEF TickRaises, AdapterOrder
  <2>2. Route(routed) /\ LoseBy("raise", gone)
    <3>1. {AdapterOrder[j] : j \in 1..1 - 1} = {}
      OBVIOUS
    <3> QED BY <1>4, <1>6, <3>1 DEF TickRaises, AdapterOrder
  <2>3. queued' \in [gmail : {IF k > 0 THEN <<>> ELSE mail}, slack : {sock}]
    <3>1. {AdapterOrder[j] : j \in 1..1 - 1} = {} /\ AdapterOrder[1] = "gmail"
      BY DEF AdapterOrder
    <3>2. queued' = [b \in {"gmail", "slack"} |->
                        IF b = "gmail" /\ k > 0 THEN <<>> ELSE queued[b]]
      BY <1>1, <1>6, <3>1 DEF TickRaises
    <3> QED BY <1>4, <3>2
  <2>4. HeldEvents' = (IF k > 0 THEN {} ELSE Range(mail)) \cup Range(sock)
    BY <1>3, <2>3 DEF HeldEvents
  <2>5. routed \cup gone = IF k > 0 THEN Range(mail) ELSE {}
    <3>1. CASE k = 0
      BY <3>1
    <3>2. CASE k > 0
      <4>1. \A j \in 1..k - 1 : j \in 1..Len(mail)
        BY <2>1
      <4>2. \A j \in k..Len(mail) : j \in 1..Len(mail)
        BY <2>1, <3>2
      <4>3. \A j \in 1..Len(mail) : j \in 1..k - 1 \/ j \in k..Len(mail)
        BY <2>1
      <4> QED BY <2>1, <3>2, <4>1, <4>2, <4>3 DEF Range
    <3> QED BY <2>1, <3>1, <3>2
  <2>6. routed \cap gone = {}
    <3>1. \A i \in 1..k - 1, j \in k..Len(mail) : k > 0 => i \in 1..Len(mail) /\ j \in 1..Len(mail) /\ i # j
      BY <2>1
    <3>2. \A i \in 1..k - 1, j \in k..Len(mail) : k > 0 => mail[i] # mail[j]
      BY <1>1, <2>1, <3>1 DEF IsInjective
    <3> QED BY <2>1, <3>2
  <2> HIDE DEF routed, gone
  <2>7. HeldEvents' = HeldEvents \ (routed \cup gone) /\ routed \cup gone \subseteq HeldEvents
    BY <1>1, <1>2, <2>4, <2>5
  <2> QED BY <1>4, <2>2, <2>3, <2>6, <2>7, TickMoves
<1>7. ASSUME NEW k \in 0..(MaxMail + MaxSocket), TickRaises(2, k)
      PROVE  EventInv'
  <2> DEFINE first == {sock[j] : j \in 1..k - 1}
             routed == Range(mail) \cup first
             gone == IF k = 0 THEN {} ELSE {sock[j] : j \in k..Len(sock)}
  <2>0. {AdapterOrder[j] : j \in 1..2 - 1} = {"gmail"} /\ AdapterOrder[2] = "slack"
    <3>1. 1..2 - 1 = {1}
      OBVIOUS
    <3> QED BY <3>1 DEF AdapterOrder
  <2>1. k <= Len(sock) /\ k \in Nat /\ Len(sock) \in Nat /\ DOMAIN sock = 1..Len(sock)
    BY <1>1, <1>4, <1>7, <2>0, InboundAssumption DEF TickRaises
  <2>2. Route(routed) /\ LoseBy("raise", gone)
    <3>1. UNION {Range(queued[b]) : b \in {"gmail"}} = Range(mail)
      BY <1>4
    <3> QED BY <1>4, <1>7, <2>0, <3>1 DEF TickRaises
  <2>3. queued' \in [gmail : {<<>>}, slack : {IF k > 0 THEN <<>> ELSE sock}]
    <3>1. queued' = [b \in {"gmail", "slack"} |->
                        IF b \in {"gmail"} \/ (b = "slack" /\ k > 0) THEN <<>> ELSE queued[b]]
      BY <1>1, <1>7, <2>0 DEF TickRaises
    <3> QED BY <1>4, <3>1
  <2>4. HeldEvents' = IF k > 0 THEN {} ELSE Range(sock)
    BY <1>3, <2>3 DEF HeldEvents
  <2>5. first \cup gone = IF k > 0 THEN Range(sock) ELSE {}
    <3>1. CASE k = 0
      BY <3>1
    <3>2. CASE k > 0
      <4>1. \A j \in 1..k - 1 : j \in 1..Len(sock)
        BY <2>1
      <4>2. \A j \in k..Len(sock) : j \in 1..Len(sock)
        BY <2>1, <3>2
      <4>3. \A j \in 1..Len(sock) : j \in 1..k - 1 \/ j \in k..Len(sock)
        BY <2>1
      <4> QED BY <2>1, <3>2, <4>1, <4>2, <4>3 DEF Range
    <3> QED BY <2>1, <3>1, <3>2
  <2>6. first \cap gone = {}
    <3>1. \A i \in 1..k - 1, j \in k..Len(sock) : k > 0 => i \in 1..Len(sock) /\ j \in 1..Len(sock) /\ i # j
      BY <2>1
    <3>2. \A i \in 1..k - 1, j \in k..Len(sock) : k > 0 => sock[i] # sock[j]
      BY <1>1, <2>1, <3>1 DEF IsInjective
    <3> QED BY <2>1, <3>2
  <2> HIDE DEF first, gone
  <2>7. routed \cap gone = {}
    BY <1>2, <2>5, <2>6
  <2>8. HeldEvents' = HeldEvents \ (routed \cup gone) /\ routed \cup gone \subseteq HeldEvents
    BY <1>1, <1>2, <2>4, <2>5
  <2> HIDE DEF routed
  <2> QED BY <1>4, <2>2, <2>3, <2>7, <2>8, TickMoves
<1>8. DOMAIN AdapterOrder = {1, 2}
  BY DEF AdapterOrder
<1> QED BY <1>5, <1>6, <1>7, <1>8 DEF TickOnce

LEMMA EventStep == EventInv /\ [InboundNext]_inboundVars => EventInv'
<1> SUFFICES ASSUME EventInv, [InboundNext]_inboundVars PROVE EventInv'
  OBVIOUS
<1>1. CASE UNCHANGED <<queued, delivered, unrouted, lostBy, taken, mailVars>>
  <2>1. Top' = Top /\ Top \in Nat
    BY <1>1, InboundAssumption DEF EventInv, MailTypes, Top, mailVars
  <2> QED BY <1>1, <2>1, EventsAlone DEF EventInv, MailTypes, mailVars
<1>2. ASSUME NEW l \in LoopTasks, RunLoop(l) PROVE EventInv'
  <2>1. UNCHANGED <<mailVars, taken>>
    BY <1>2 DEF RunLoop, socketVars
  <2> QED BY <1>1, <1>2, <2>1, TickOnceInv DEF RunLoop
<1>3. ASSUME NEW l \in LoopTasks, Timeout(l) \/ StartLoop(l) PROVE EventInv'
  BY <1>1, <1>3 DEF Timeout, StartLoop, socketVars, routeVars
<1>4. ASSUME NEW s \in Stoppers, BeginStop(s) \/ StopReturns(s) PROVE EventInv'
  BY <1>1, <1>4 DEF BeginStop, StopReturns, socketVars, routeVars
<1>5. CASE StartListener \/ StopListener \/ RegisterHandler \/ UNCHANGED inboundVars
  BY <1>1, <1>5 DEF StartListener, StopListener, RegisterHandler, inboundVars, socketVars, routeVars
<1> QED BY <1>2, <1>3, <1>4, <1>5, MailboxInv, BaselineInv, PollInv, TakePayloadInv
        DEF InboundNext

\* The inbound events: every message that the Gmail cursor has passed and every
\* payload taken off the socket is in exactly one place, and none is handed over
\* twice, for any number of messages, exceptions and polls and any page size.
THEOREM EventsAreAccounted == InboundSpec => []InboundAccounted
<1>1. EventInv => InboundAccounted
  BY Accounted DEF EventInv
<1> QED BY <1>1, EventInitInv, EventStep, PTL DEF InboundSpec

\* What the two invariants leave unsaid of the variables' types: the flags, the
\* listener, and how far the counters go.
LimitInv ==
    /\ stopSet \in BOOLEAN /\ listenerStop \in BOOLEAN
    /\ registered \in BOOLEAN /\ hurried \in BOOLEAN
    /\ listener \in {"none", "running", "done"}
    /\ mailbox <= MaxMail
    /\ taken \in Nat /\ taken <= MaxSocket
    /\ raises \in 0..MaxRaises

LEMMA LimitStep == MailTypes /\ LimitInv /\ [InboundNext]_inboundVars => LimitInv'
<1> SUFFICES ASSUME MailTypes, LimitInv, [InboundNext]_inboundVars PROVE LimitInv'
  OBVIOUS
<1>0. mailbox \in Nat /\ MaxMail \in Nat /\ MaxSocket \in Nat /\ MaxRaises \in Nat
  BY InboundAssumption DEF MailTypes
<1>1. CASE UNCHANGED <<loopVars, taken, listener, listenerStop, registered, raises>>
           /\ (mailbox' = mailbox \/ (mailbox < MaxMail /\ mailbox' = mailbox + 1))
  <2>1. mailbox' <= MaxMail
    BY <1>0, <1>1 DEF LimitInv
  <2> QED BY <1>1, <2>1 DEF LimitInv, loopVars
<1>2. CASE Arrive \/ Expire \/ Baseline \/ DropCursor \/ PollHistory \/ UNCHANGED inboundVars
  <2>1. UNCHANGED <<loopVars, taken, listener, listenerStop, registered, raises>>
    BY <1>2 DEF Arrive, Expire, Baseline, DropCursor, PollHistory, inboundVars, socketVars, routeVars
  <2>2. mailbox' = mailbox \/ (mailbox < MaxMail /\ mailbox' = mailbox + 1)
    BY <1>2 DEF Arrive, Expire, Baseline, DropCursor, PollHistory, inboundVars, mailVars
  <2> QED BY <1>1, <2>1, <2>2
<1>3. CASE StartListener \/ StopListener \/ RegisterHandler
  BY <1>3 DEF StartListener, StopListener, RegisterHandler, LimitInv, loopVars, mailVars,
              socketVars, routeVars
<1>4. CASE TakePayload
  <2>1. taken' \in Nat /\ taken' <= MaxSocket /\ listener' \in {"none", "running", "done"}
    BY <1>0, <1>4 DEF TakePayload, LimitInv
  <2> QED BY <1>4, <2>1 DEF TakePayload, LimitInv, loopVars, mailVars, routeVars
<1>5. ASSUME NEW l \in LoopTasks, RunLoop(l) PROVE LimitInv'
  <2>1. UNCHANGED <<stopSet, hurried, mailVars, socketVars, registered>>
        /\ (raises' = raises \/ TickOnce)
    BY <1>5 DEF RunLoop
  <2>2. raises' = raises \/ (raises < MaxRaises /\ raises' = raises + 1)
    BY <2>1 DEF TickOnce, TickAll, TickRaises
  <2>3. raises' \in 0..MaxRaises
    BY <1>0, <2>2 DEF LimitInv
  <2> QED BY <2>1, <2>3 DEF LimitInv, mailVars, socketVars
<1>6. ASSUME NEW l \in LoopTasks, Timeout(l) PROVE LimitInv'
  BY <1>6 DEF Timeout, LimitInv, mailVars, socketVars, routeVars
<1>7. ASSUME NEW l \in LoopTasks, StartLoop(l) PROVE LimitInv'
  BY <1>7 DEF StartLoop, LimitInv, mailVars, socketVars, routeVars
<1>8. ASSUME NEW s \in Stoppers, BeginStop(s) PROVE LimitInv'
  BY <1>8 DEF BeginStop, LimitInv, mailVars, socketVars, routeVars
<1>9. ASSUME NEW s \in Stoppers, StopReturns(s) PROVE LimitInv'
  BY <1>9 DEF StopReturns, LimitInv, mailVars, socketVars, routeVars
<1> QED BY <1>2, <1>3, <1>4, <1>5, <1>6, <1>7, <1>8, <1>9 DEF InboundNext

LEMMA InboundTypesFromInv == LoopInv /\ EventInv /\ LimitInv => InboundTypeOK
<1> SUFFICES ASSUME LoopInv, EventInv, LimitInv PROVE InboundTypeOK
  OBVIOUS
<1>1. /\ mailbox \in Nat /\ MaxMail \in Nat /\ mailbox <= MaxMail /\ MaxSocket \in Nat
      /\ Top \in Nat /\ Top <= MaxMail
  BY InboundAssumption DEF EventInv, MailTypes, LimitInv, Top
<1>2. Mails(Top) \cup Payloads(taken) \subseteq InboundEvents
  <2>1. Mails(Top) \subseteq Mails(MaxMail) /\ Payloads(taken) \subseteq Payloads(MaxSocket)
    BY <1>1, NamesGrow DEF LimitInv
  <2>2. InboundEvents = Mails(MaxMail) \cup Payloads(MaxSocket)
    BY DEF InboundEvents, Mails, Payloads
  <2> QED BY <2>1, <2>2
<1>3. Seq(Mails(Top)) \subseteq Seq(InboundEvents) /\ Seq(Payloads(taken)) \subseteq Seq(InboundEvents)
  <2>1. Mails(Top) \subseteq InboundEvents /\ Payloads(taken) \subseteq InboundEvents
    BY <1>2
  <2> QED BY <2>1, SeqMonotonic
<1>4. queued \in [gmail : Seq(InboundEvents), slack : Seq(InboundEvents)]
  BY <1>3 DEF EventInv, PlaceInv
<1>5. lostBy \in [Reasons -> SUBSET InboundEvents]
  BY <1>2 DEF EventInv, MailTypes
<1>6. delivered \cup unrouted \subseteq InboundEvents
  BY <1>2 DEF EventInv, PlaceInv, Handed
<1>7. mailbox \in 0..MaxMail /\ taken \in 0..MaxSocket
  BY <1>1 DEF LimitInv
<1>8. {stopSet, listenerStop, registered, hurried} \subseteq BOOLEAN
  BY DEF LimitInv
<1> QED BY <1>4, <1>5, <1>6, <1>7, <1>8 DEF InboundTypeOK, LoopInv, EventInv, MailTypes, LimitInv

\* Every variable of Inbound keeps its type: no event is named that has not arrived.
THEOREM InboundTypes == InboundSpec => []InboundTypeOK
<1>1. ASSUME InboundInit PROVE LimitInv
  <2>1. /\ stopSet = FALSE /\ listenerStop = FALSE /\ registered = FALSE /\ hurried = FALSE
        /\ listener = "none" /\ mailbox = 0 /\ taken = 0 /\ raises = 0
    BY <1>1 DEF InboundInit
  <2>2. mailbox <= MaxMail /\ taken \in Nat /\ taken <= MaxSocket /\ raises \in 0..MaxRaises
    BY <2>1, InboundAssumption
  <2> QED BY <2>1, <2>2 DEF LimitInv
<1>2. EventInv => MailTypes
  BY DEF EventInv
<1> QED BY <1>1, <1>2, InboundInitLoops, LoopStep, EventInitInv, EventStep, LimitStep,
           InboundTypesFromInv, PTL DEF InboundSpec

-----------------------------------------------------------------------------
(* Cron expressions.  The sweep is a loop over the minutes, so no induction *)
(* over data is needed: what it has passed over is not due.                 *)

\* Integer division by a constant of the calendar.
LEMMA Division ==
    ASSUME NEW n \in Nat, NEW k \in Nat \ {0}
    PROVE  n \div k \in Nat /\ n % k \in 0..k - 1 /\ n = k * (n \div k) + (n % k)
OBVIOUS

LEMMA SmallQuotient ==
    ASSUME NEW n \in Nat, NEW k \in Nat \ {0}, NEW m \in Nat, n < m * k
    PROVE  n \div k \in 0..m - 1
<1> DEFINE q == n \div k
           r == n % k
<1>1. q \in Nat /\ r \in 0..k - 1 /\ n = k * q + r
  BY Division
<1> HIDE DEF q, r
<1>2. ASSUME q >= m PROVE FALSE
  <2>1. PICK d \in Nat : q = m + d
    <3>1. q - m \in Nat /\ q = m + (q - m)
      BY <1>1, <1>2
    <3> QED BY <3>1
  <2>2. k * q = m * k + k * d /\ k * d \in Nat /\ m * k \in Nat
    BY <2>1
  <2> QED BY <1>1, <2>2
<1> QED BY <1>1, <1>2 DEF q

\* A multiple has no remainder.
LEMMA NoRemainder ==
    ASSUME NEW j \in Nat, NEW k \in Nat \ {0}
    PROVE  (j * k) % k = 0
<1> DEFINE n == j * k
           q == n \div k
           r == n % k
<1>0. n \in Nat
  OBVIOUS
<1>1. q \in Nat /\ r \in 0..k - 1 /\ j * k = k * q + r
  BY <1>0, Division
<1> HIDE DEF n, q, r
<1>2. ASSUME q < j PROVE r = 0
  <2>1. PICK d \in Nat \ {0} : j = q + d
    <3>1. j - q \in Nat \ {0} /\ j = q + (j - q)
      BY <1>1, <1>2
    <3> QED BY <3>1
  <2>2. j * k = k * q + k * d
    BY <1>1, <2>1
  <2>3. PICK c \in Nat : d = c + 1
    <3>1. d - 1 \in Nat /\ d = (d - 1) + 1
      OBVIOUS
    <3> QED BY <3>1
  <2>4. k * d = k * c + k /\ k * c \in Nat
    BY <2>3
  <2>5. k * q \in Nat
    BY <1>1
  <2> QED BY <1>1, <2>2, <2>4, <2>5
<1>3. ASSUME q > j PROVE FALSE
  <2>1. PICK d \in Nat \ {0} : q = j + d
    <3>1. q - j \in Nat \ {0} /\ q = j + (q - j)
      BY <1>1, <1>3
    <3> QED BY <3>1
  <2>2. k * q = j * k + k * d
    BY <1>1, <2>1
  <2>3. k * d \in Nat \ {0} /\ j * k \in Nat
    OBVIOUS
  <2> QED BY <1>1, <2>2, <2>3
<1>4. ASSUME q = j PROVE r = 0
  <2>1. j * k \in Nat /\ k * q = j * k
    BY <1>4
  <2> QED BY <1>1, <2>1
<1> QED BY <1>1, <1>2, <1>3, <1>4 DEF r, n

LEMMA TimesAtLeast ==
    ASSUME NEW j \in Nat, NEW k \in Nat \ {0}
    PROVE  j <= j * k
<1>1. PICK c \in Nat : k = c + 1
  <2>1. k - 1 \in Nat /\ k = (k - 1) + 1
    OBVIOUS
  <2> QED BY <2>1
<1>2. j * k = j * c + j /\ j * c \in Nat
  BY <1>1
<1> QED BY <1>2

(* What a field stands for. *)

\* Every field has a range of values, which is where a moment's fields lie.
LEMMA FieldIsRange ==
    ASSUME NEW field \in FieldNames
    PROVE  \E lo \in Nat, hi \in Nat : lo <= hi /\ FieldRange[field] = lo..hi
<1>1. ASSUME NEW n \in Nat \ {0}
      PROVE  0 \in Nat /\ 1 \in Nat /\ n - 1 \in Nat /\ 0 <= n - 1 /\ 1 <= n
  OBVIOUS
<1>2. CASE field = "minute"
  <2>1. FieldRange[field] = 0..HourLen - 1
    BY <1>2 DEF FieldRange
  <2> QED BY <1>1, <2>1, CronAssumption
<1>3. CASE field = "hour"
  <2>1. FieldRange[field] = 0..DayLen - 1
    BY <1>3 DEF FieldRange
  <2> QED BY <1>1, <2>1, CronAssumption
<1>4. CASE field = "weekday"
  <2>1. FieldRange[field] = 0..WeekLen - 1
    BY <1>4 DEF FieldRange
  <2> QED BY <1>1, <2>1, CronAssumption
<1>5. CASE field = "day"
  <2>1. FieldRange[field] = 1..LongestMonth
    BY <1>5 DEF FieldRange
  <2> QED BY <1>1, <2>1, CronAssumption
<1>6. CASE field = "month"
  <2>1. FieldRange[field] = 1..MonthCount
    BY <1>6 DEF FieldRange
  <2> QED BY <1>1, <2>1, CronAssumption
<1> QED BY <1>2, <1>3, <1>4, <1>5, <1>6 DEF FieldNames

LEMMA FirstOfRange ==
    ASSUME NEW lo \in Int, NEW hi \in Int, lo <= hi
    PROVE  First(lo..hi) = lo
BY DEF First

\* What a part that is not refused stands for: from where, to where.
LowEnd(part, field) == IF part.base = "all" THEN First(FieldRange[field]) ELSE part.lo

LEMMA PartIsRange ==
    ASSUME NEW text \in Expressions, NEW field \in FieldNames, NEW part \in text[field],
           ~PartRefused(part, field)
    PROVE  /\ part.step \in Nat \ {0} /\ LowEnd(part, field) \in Nat
           /\ First(PartValues(part, field)) = LowEnd(part, field)
           /\ PartValues(part, field) \subseteq FieldRange[field]
           /\ \A v \in FieldRange[field] : v \in Nat /\
                (v \in PartValues(part, field) <=>
                    LowEnd(part, field) <= v /\ (part.base = "all" \/ v <= part.hi))
<1>1. part.lo \in Nat /\ part.hi \in Int /\ part.step \in Int /\ part.step > 0
  <2>1. part.lo \in Nat /\ part.hi \in Int /\ part.step \in Int
    BY CronAssumption
  <2> QED BY <2>1 DEF PartRefused
<1>2. PICK lo \in Nat, hi \in Nat : lo <= hi /\ FieldRange[field] = lo..hi
  BY FieldIsRange
<1>3. PartValues(part, field) # {} /\ PartValues(part, field) \subseteq FieldRange[field]
  BY DEF PartRefused
<1>4. CASE part.base = "all"
  <2>1. PartValues(part, field) = lo..hi /\ LowEnd(part, field) = lo
    BY <1>2, <1>4, FirstOfRange DEF PartValues, LowEnd
  <2> QED BY <1>1, <1>2, <1>4, <2>1, FirstOfRange
<1>5. CASE part.base # "all"
  <2>1. PartValues(part, field) = part.lo..part.hi /\ LowEnd(part, field) = part.lo
    BY <1>5 DEF PartValues, LowEnd
  <2>2. part.lo <= part.hi
    BY <1>1, <1>3, <2>1
  <2> QED BY <1>1, <1>2, <1>3, <1>5, <2>1, <2>2, FirstOfRange
<1> QED BY <1>4, <1>5

\* The parser keeps of a part the values that the expression names.
LEMMA PartMeans ==
    ASSUME NEW text \in Expressions, NEW field \in FieldNames, NEW part \in text[field],
           ~PartRefused(part, field), NEW v \in FieldRange[field]
    PROVE  (v \in PartValues(part, field) /\ Stepped(part, v, field)) <=> Named(part, v, field)
<1> DEFINE lo == LowEnd(part, field)
           step == part.step
<1>1. /\ step \in Nat \ {0} /\ lo \in Nat /\ v \in Nat
      /\ First(PartValues(part, field)) = lo
      /\ v \in PartValues(part, field) <=> lo <= v /\ (part.base = "all" \/ v <= part.hi)
  BY PartIsRange
<1>2. Stepped(part, v, field) <=> (v - lo) % step = 0
  BY <1>1 DEF Stepped
<1>3. Named(part, v, field) <=>
        (part.base = "all" \/ v <= part.hi) /\ \E k \in 0..v : v = lo + k * step
  BY <1>1 DEF Named, LowEnd
<1> HIDE DEF lo, step
<1>4. ASSUME lo <= v, (v - lo) % step = 0 PROVE \E k \in 0..v : v = lo + k * step
  <2> DEFINE n == v - lo
             q == n \div step
  <2>1. n \in Nat /\ v = lo + n /\ n <= v
    BY <1>1, <1>4
  <2>2. q \in Nat /\ n = step * q + (n % step)
    BY <1>1, <2>1, Division
  <2>3. n % step = 0
    BY <1>4
  <2> HIDE DEF n, q
  <2>4. n = q * step
    BY <1>1, <2>1, <2>2, <2>3
  <2>5. q <= n
    BY <1>1, <2>2, <2>4, TimesAtLeast
  <2>6. q \in 0..v
    BY <1>1, <2>1, <2>2, <2>5
  <2> QED BY <2>1, <2>4, <2>6
<1>5. ASSUME NEW k \in 0..v, v = lo + k * step PROVE lo <= v /\ (v - lo) % step = 0
  <2>1. k \in Nat /\ k * step \in Nat
    BY <1>1
  <2>2. v - lo = k * step
    BY <1>1, <1>5, <2>1
  <2>3. (k * step) % step = 0
    BY <1>1, <2>1, NoRemainder
  <2> QED BY <1>1, <1>5, <2>1, <2>2, <2>3
<1> QED BY <1>1, <1>2, <1>3, <1>4, <1>5

LEMMA FieldMeans ==
    ASSUME NEW text \in Expressions, NEW field \in FieldNames,
           \A part \in text[field] : ~PartRefused(part, field)
    PROVE  /\ FieldValues(text[field], field) \subseteq FieldRange[field]
           /\ \A v \in FieldRange[field] :
                v \in FieldValues(text[field], field)
                    <=> \E part \in text[field] : Named(part, v, field)
<1>1. \A part \in text[field] : PartValues(part, field) \subseteq FieldRange[field]
  BY PartIsRange
<1>2. \A v : v \in FieldValues(text[field], field) <=>
        \E part \in text[field] : v \in PartValues(part, field) /\ Stepped(part, v, field)
  BY DEF FieldValues
<1>3. ASSUME NEW part \in text[field], NEW v \in FieldRange[field]
      PROVE  (v \in PartValues(part, field) /\ Stepped(part, v, field)) <=> Named(part, v, field)
  BY PartMeans
<1> QED BY <1>1, <1>2, <1>3

\* The minutes that a sweep can look at are within the calendar.
LEMMA MomentInRange ==
    ASSUME NEW minute \in Nat, minute < Len(Days) * (DayLen * HourLen), NEW field \in FieldNames
    PROVE  Moment(minute)[field] \in FieldRange[field]
<1> DEFINE dayMinutes == HourLen * DayLen
           number == minute \div dayMinutes
<1>1. dayMinutes \in Nat \ {0} /\ dayMinutes = DayLen * HourLen
  <2>1. HourLen \in Nat \ {0} /\ DayLen \in Nat \ {0}
    BY CronAssumption
  <2> QED BY <2>1
<1>2. /\ Len(Days) \in Nat
      /\ \A i \in 1..Len(Days) : Days[i] \in [month : 1..MonthCount, day : 1..LongestMonth]
  <2> DEFINE dates == [month : 1..MonthCount, day : 1..LongestMonth]
  <2>1. Days \in Seq(dates)
    BY CronAssumption
  <2> HIDE DEF dates
  <2>2. Len(Days) \in Nat /\ \A i \in 1..Len(Days) : Days[i] \in dates
    BY <2>1
  <2> QED BY <2>2 DEF dates
<1>3. number \in 0..Len(Days) - 1
  <2> HIDE DEF dayMinutes
  <2> QED BY <1>1, <1>2, SmallQuotient
<1>4. number + 1 \in 1..Len(Days) /\ number \in Nat
  <2> HIDE DEF number
  <2> QED BY <1>2, <1>3
<1>5. Days[number + 1].month \in 1..MonthCount /\ Days[number + 1].day \in 1..LongestMonth
  <2> HIDE DEF number
  <2> QED BY <1>2, <1>4
<1>6. minute % HourLen \in 0..HourLen - 1
  BY CronAssumption, Division
<1>7. (minute \div HourLen) % DayLen \in 0..DayLen - 1
  <2> DEFINE hours == minute \div HourLen
  <2>1. hours \in Nat
    BY CronAssumption, Division
  <2> HIDE DEF hours
  <2>2. hours % DayLen \in 0..DayLen - 1
    BY <2>1, CronAssumption, Division
  <2> QED BY <2>2 DEF hours
<1>8. number % WeekLen \in 0..WeekLen - 1
  <2> HIDE DEF number
  <2> QED BY <1>4, CronAssumption, Division
<1>9. Moment(minute) =
        [minute |-> minute % HourLen, hour |-> (minute \div HourLen) % DayLen,
         day |-> Days[number + 1].day, month |-> Days[number + 1].month,
         weekday |-> number % WeekLen]
  BY DEF Moment
<1> HIDE DEF number
<1>10. CASE field = "minute"
  <2>1. Moment(minute)[field] = minute % HourLen /\ FieldRange[field] = 0..HourLen - 1
    BY <1>9, <1>10 DEF FieldRange
  <2> QED BY <1>6, <2>1
<1>11. CASE field = "hour"
  <2>1. Moment(minute)[field] = (minute \div HourLen) % DayLen /\ FieldRange[field] = 0..DayLen - 1
    BY <1>9, <1>11 DEF FieldRange
  <2> QED BY <1>7, <2>1
<1>12. CASE field = "day"
  <2>1. Moment(minute)[field] = Days[number + 1].day /\ FieldRange[field] = 1..LongestMonth
    BY <1>9, <1>12 DEF FieldRange
  <2> QED BY <1>5, <2>1
<1>13. CASE field = "month"
  <2>1. Moment(minute)[field] = Days[number + 1].month /\ FieldRange[field] = 1..MonthCount
    BY <1>9, <1>13 DEF FieldRange
  <2> QED BY <1>5, <2>1
<1>14. CASE field = "weekday"
  <2>1. Moment(minute)[field] = number % WeekLen /\ FieldRange[field] = 0..WeekLen - 1
    BY <1>9, <1>14 DEF FieldRange
  <2> QED BY <1>8, <2>1
<1> QED BY <1>10, <1>11, <1>12, <1>13, <1>14 DEF FieldNames

(* The sweep. *)

\* What was accepted has been parsed into the values it names.
Accepted ==
    \A field \in FieldNames : \A part \in expression[field] : ~PartRefused(part, field)

ParsedInv ==
    /\ DOMAIN parsed = FieldNames
    /\ IF cronAt \in {"new", "refused"}
       THEN \A field \in FieldNames : parsed[field] = {}
       ELSE Accepted /\ \A field \in FieldNames :
                            parsed[field] = FieldValues(expression[field], field)

\* No minute from a to before b is due.
NoneDue(a, b) == \A minute \in Nat : a <= minute /\ minute < b => ~DueAt(minute)

SweepInv ==
    /\ answered # NoAnswer => cronAt = "idle"
    /\ before # NoAnswer => cronAt \notin {"new", "refused"}
    /\ cronAt \in {"sweeping", "none_found"} =>
        /\ swept <= SweepMinutes
        /\ candidate = FirstCandidate(asked) + swept
        /\ NoneDue(FirstCandidate(asked), candidate)
    /\ cronAt = "none_found" => swept = SweepMinutes

AnswerInv ==
    /\ answered # NoAnswer =>
        /\ FirstCandidate(asked) <= answered
        /\ DueAt(answered) /\ NoneDue(FirstCandidate(asked), answered)
    /\ before # NoAnswer =>
        \A minute \in Nat : FirstCandidate(asked) <= minute /\ DueAt(minute) => before <= minute

CronInv == CronTypeOK /\ ParsedInv /\ SweepInv /\ AnswerInv

LEMMA Halves ==
    ASSUME NEW instant \in Nat
    PROVE  /\ FirstCandidate(instant) \in Nat /\ FirstCandidate(instant) = instant \div 2 + 1
           /\ 2 * FirstCandidate(instant) > instant
           /\ \A later \in Nat : instant <= later => FirstCandidate(instant) <= FirstCandidate(later)
           /\ \A most \in Nat : instant <= most => FirstCandidate(instant) <= most \div 2 + 1
<1>1. ASSUME NEW n \in Nat
      PROVE  n \div 2 \in Nat /\ FirstCandidate(n) = n \div 2 + 1 /\ 2 * (n \div 2) <= n
             /\ n < 2 * (n \div 2) + 2
  <2> DEFINE q == n \div 2
             r == n % 2
             c == (n + 2) \div 2
             b == (n + 2) % 2
  <2>1. q \in Nat /\ r \in 0..1 /\ n = 2 * q + r
    BY Division
  <2>2. n + 2 \in Nat
    OBVIOUS
  <2>3. c \in Nat /\ b \in 0..1 /\ n + 2 = 2 * c + b
    BY <2>2, Division
  <2>4. FirstCandidate(n) = c
    BY DEF FirstCandidate
  <2> HIDE DEF q, r, c, b
  <2>5. c = q + 1 /\ 2 * q <= n /\ n < 2 * q + 2
    BY <2>1, <2>3
  <2> QED BY <2>1, <2>4, <2>5 DEF q
<1>2. ASSUME NEW later \in Nat, instant <= later
      PROVE  FirstCandidate(instant) <= later \div 2 + 1
  <2> DEFINE q == instant \div 2
             p == later \div 2
  <2>1. q \in Nat /\ p \in Nat /\ 2 * q <= instant /\ later < 2 * p + 2
    BY <1>1
  <2>2. FirstCandidate(instant) = q + 1
    BY <1>1
  <2> HIDE DEF q, p
  <2>3. q <= p
    BY <1>2, <2>1
  <2>4. q + 1 <= p + 1
    BY <2>1, <2>3
  <2> QED BY <2>2, <2>4 DEF p
<1>3. FirstCandidate(instant) \in Nat /\ 2 * FirstCandidate(instant) > instant
  <2> DEFINE q == instant \div 2
  <2>1. q \in Nat /\ FirstCandidate(instant) = q + 1 /\ instant < 2 * q + 2
    BY <1>1
  <2> HIDE DEF q
  <2> QED BY <2>1
<1> QED BY <1>1, <1>2, <1>3

\* A minute of the sweep matches if and only if the expression means it.
LEMMA MatchesMeans ==
    ASSUME CronTypeOK, ParsedInv, cronAt = "sweeping", SweepInv, swept < SweepMinutes
    PROVE  MatchesAt(candidate) <=> DueAt(candidate)
<1>1. expression \in Expressions /\ DOMAIN expression = FieldNames /\ DOMAIN parsed = FieldNames
      /\ Accepted /\ \A field \in FieldNames : parsed[field] = FieldValues(expression[field], field)
  BY CronAssumption DEF CronTypeOK, ParsedInv
<1>2. candidate \in Nat /\ candidate < Len(Days) * (DayLen * HourLen)
  <2> DEFINE total == Len(Days) * (DayLen * HourLen)
             half == MaxInstant \div 2
  <2>1. asked \in Nat /\ asked <= MaxInstant /\ MaxInstant \in Nat /\ swept \in Nat
        /\ SweepMinutes \in Nat /\ total > half + SweepMinutes + 2
    BY CronAssumption DEF CronTypeOK
  <2>2. FirstCandidate(asked) \in Nat /\ FirstCandidate(asked) <= half + 1
    BY <2>1, Halves
  <2>3. half \in Nat
    BY <2>1
  <2>4. Len(Days) \in Nat /\ DayLen * HourLen \in Nat
    <3>1. DayLen \in Nat /\ HourLen \in Nat
      BY CronAssumption
    <3> QED BY <3>1, CronAssumption
  <2>5. total \in Nat
    BY <2>4
  <2>6. candidate = FirstCandidate(asked) + swept
    BY DEF SweepInv
  <2> HIDE DEF total, half
  <2>7. candidate \in Nat /\ candidate < total
    BY <2>1, <2>2, <2>3, <2>5, <2>6
  <2> QED BY <2>7 DEF total
<1>3. ASSUME NEW field \in FieldNames
      PROVE  Moment(candidate)[field] \in parsed[field]
                <=> \E part \in expression[field] : Named(part, Moment(candidate)[field], field)
  <2>1. Moment(candidate)[field] \in FieldRange[field]
    BY <1>2, MomentInRange
  <2> QED BY <1>1, <2>1, FieldMeans DEF Accepted
<1> QED BY <1>1, <1>3 DEF MatchesAt, DueAt

LEMMA CronInitInv == CronInit => CronInv
<1> SUFFICES ASSUME CronInit PROVE CronInv
  OBVIOUS
<1>1. expression \in Expressions /\ DOMAIN expression = FieldNames
  BY CronAssumption DEF CronInit
<1>2. DOMAIN parsed = FieldNames /\ \A field \in FieldNames : parsed[field] = {}
  BY <1>1 DEF CronInit
<1>3. CronTypeOK
  BY <1>1, <1>2, CronAssumption DEF CronInit, CronTypeOK
<1> QED BY <1>2, <1>3 DEF CronInit, CronInv, ParsedInv, SweepInv, AnswerInv

\* What a minute stands for does not change.
LEMMA DueKept ==
    ASSUME UNCHANGED expression, NEW minute
    PROVE  DueAt(minute)' <=> DueAt(minute)
BY DEF DueAt

LEMMA NoneDueKept ==
    ASSUME UNCHANGED expression, NEW a, NEW b
    PROVE  NoneDue(a, b)' <=> NoneDue(a, b)
BY DEF NoneDue, DueAt

LEMMA ParseInv == CronInv /\ Parse => CronInv'
<1> SUFFICES ASSUME CronInv, Parse PROVE CronInv'
  OBVIOUS
<1>1. /\ expression \in Expressions /\ DOMAIN expression = FieldNames
      /\ cronAt = "new" /\ answered = NoAnswer /\ before = NoAnswer
      /\ UNCHANGED <<expression, asked, candidate, swept, answered, before>>
  BY CronAssumption DEF CronInv, CronTypeOK, SweepInv, Parse
<1>2. CASE cronAt' = "refused" /\ UNCHANGED parsed
  BY <1>1, <1>2 DEF CronInv, CronTypeOK, ParsedInv, SweepInv, AnswerInv
<1>3. CASE /\ \A field \in DOMAIN expression :
                \A part \in expression[field] : ~PartRefused(part, field)
           /\ cronAt' = "idle"
           /\ parsed' = [field \in DOMAIN expression |-> FieldValues(expression[field], field)]
  <2>1. DOMAIN parsed' = FieldNames
        /\ \A field \in FieldNames : parsed'[field] = FieldValues(expression[field], field)
    BY <1>1, <1>3
  <2>2. ASSUME NEW field \in FieldNames PROVE parsed'[field] \subseteq FieldRange[field]
    <3>1. \A part \in expression[field] : ~PartRefused(part, field)
      BY <1>1, <1>3
    <3> QED BY <1>1, <2>1, <3>1, FieldMeans
  <2>3. CronTypeOK'
    BY <1>1, <1>3, <2>1, <2>2 DEF CronInv, CronTypeOK
  <2>4. ParsedInv'
    BY <1>1, <1>3, <2>1 DEF ParsedInv, Accepted
  <2> QED BY <1>1, <1>3, <2>3, <2>4 DEF CronInv, SweepInv, AnswerInv
<1> QED BY <1>2, <1>3 DEF Parse

LEMMA AskInv ==
    ASSUME CronInv, NEW pause \in 0..MaxPause, asked + pause <= MaxInstant, Ask(asked + pause)
    PROVE  CronInv'
<1>1. /\ asked \in Nat /\ MaxPause \in Nat /\ MaxInstant \in Nat /\ pause \in Nat
      /\ expression \in Expressions
  BY CronAssumption DEF CronInv, CronTypeOK
<1>2. /\ cronAt = "idle" /\ asked' = asked + pause /\ candidate' = FirstCandidate(asked')
      /\ swept' = 0 /\ cronAt' = "sweeping" /\ answered' = NoAnswer
      /\ before' = (IF answered = NoAnswer THEN before ELSE answered)
      /\ UNCHANGED <<expression, parsed>>
  BY DEF Ask
<1>3. /\ asked' \in Nat /\ asked <= asked' /\ asked' \in 0..MaxInstant
  BY <1>1, <1>2
<1>4. FirstCandidate(asked) \in Nat /\ FirstCandidate(asked') \in Nat
      /\ FirstCandidate(asked) <= FirstCandidate(asked')
  BY <1>1, <1>3, Halves
<1>5. CronTypeOK'
  BY <1>2, <1>3, <1>4 DEF CronInv, CronTypeOK
<1>6. ParsedInv'
  BY <1>2 DEF CronInv, ParsedInv, Accepted
<1>7. SweepInv'
  <2>1. NoneDue(FirstCandidate(asked'), candidate')
    BY <1>2, <1>4 DEF NoneDue
  <2>2. NoneDue(FirstCandidate(asked), candidate)'
    BY <1>2, <2>1 DEF NoneDue, DueAt, FirstCandidate
  <2>3. swept' <= SweepMinutes /\ candidate' = FirstCandidate(asked') + swept'
    BY <1>2, <1>4, CronAssumption
  <2> QED BY <1>2, <2>2, <2>3 DEF SweepInv, FirstCandidate
<1>8. AnswerInv'
  <2> SUFFICES ASSUME before' # NoAnswer, NEW minute \in Nat,
                      FirstCandidate(asked') <= minute, DueAt(minute)
               PROVE  before' <= minute
    BY <1>2 DEF AnswerInv, DueAt, FirstCandidate
  <2>1. FirstCandidate(asked) <= minute
    BY <1>4
  <2>2. CASE answered = NoAnswer
    BY <1>2, <2>1, <2>2 DEF CronInv, AnswerInv
  <2>3. CASE answered # NoAnswer
    <3>1. answered \in Nat /\ NoneDue(FirstCandidate(asked), answered)
      BY <2>3 DEF CronInv, CronTypeOK, AnswerInv
    <3>2. ~(minute < answered)
      BY <2>1, <3>1 DEF NoneDue
    <3> QED BY <1>2, <2>3, <3>1, <3>2
  <2> QED BY <2>2, <2>3
<1> QED BY <1>5, <1>6, <1>7, <1>8 DEF CronInv

LEMMA SweepStepInv == CronInv /\ Sweep => CronInv'
<1> SUFFICES ASSUME CronInv, Sweep PROVE CronInv'
  OBVIOUS
<1>1. /\ cronAt = "sweeping" /\ swept \in Nat /\ SweepMinutes \in Nat /\ swept <= SweepMinutes
      /\ candidate \in Nat /\ asked \in Nat /\ answered = NoAnswer
      /\ candidate = FirstCandidate(asked) + swept /\ FirstCandidate(asked) \in Nat
      /\ NoneDue(FirstCandidate(asked), candidate)
      /\ UNCHANGED <<expression, parsed, asked, before>>
  BY CronAssumption, Halves DEF CronInv, CronTypeOK, SweepInv, Sweep
<1>2. (FirstCandidate(asked))' = FirstCandidate(asked)
  BY <1>1 DEF FirstCandidate
<1>3. ASSUME cronAt' # "new", cronAt' # "refused" PROVE ParsedInv'
  BY <1>1, <1>3 DEF CronInv, ParsedInv, Accepted
<1>4. CASE /\ swept < SweepMinutes /\ MatchesAt(candidate) /\ answered' = candidate
           /\ cronAt' = "idle" /\ UNCHANGED <<candidate, swept>>
  <2>1. DueAt(candidate)
    BY <1>1, <1>4, MatchesMeans DEF CronInv
  <2>2. CronTypeOK'
    BY <1>1, <1>4 DEF CronInv, CronTypeOK
  <2>3. SweepInv'
    BY <1>1, <1>4 DEF CronInv, SweepInv
  <2>4. DueAt(answered)' /\ NoneDue(FirstCandidate(asked), answered)'
    BY <1>1, <1>2, <1>4, <2>1 DEF DueAt, NoneDue
  <2>5. FirstCandidate(asked) <= candidate
    BY <1>1
  <2>6. AnswerInv'
    BY <1>1, <1>2, <1>4, <2>4, <2>5 DEF CronInv, AnswerInv, DueAt
  <2> QED BY <1>3, <1>4, <2>2, <2>3, <2>6 DEF CronInv
<1>5. CASE /\ swept < SweepMinutes /\ ~MatchesAt(candidate) /\ candidate' = candidate + 1
           /\ swept' = swept + 1 /\ UNCHANGED <<answered, cronAt>>
  <2>1. ~DueAt(candidate)
    BY <1>1, <1>5, MatchesMeans DEF CronInv
  <2>2. CronTypeOK'
    BY <1>1, <1>5 DEF CronInv, CronTypeOK
  <2>3. NoneDue(FirstCandidate(asked), candidate + 1)
    <3> SUFFICES ASSUME NEW minute \in Nat, FirstCandidate(asked) <= minute, minute < candidate + 1
                 PROVE  ~DueAt(minute)
      BY DEF NoneDue
    <3>1. minute < candidate \/ minute = candidate
      BY <1>1
    <3> QED BY <1>1, <2>1, <3>1 DEF NoneDue
  <2>4. NoneDue(FirstCandidate(asked), candidate)'
    BY <1>1, <1>2, <1>5, <2>3 DEF NoneDue, DueAt
  <2>5. swept' <= SweepMinutes /\ candidate' = FirstCandidate(asked) + swept'
    BY <1>1, <1>5
  <2>6. SweepInv'
    BY <1>1, <1>2, <1>5, <2>4, <2>5 DEF CronInv, SweepInv
  <2>7. AnswerInv'
    BY <1>1, <1>2, <1>5 DEF CronInv, AnswerInv, DueAt
  <2> QED BY <1>1, <1>3, <1>5, <2>2, <2>6, <2>7 DEF CronInv
<1>6. CASE swept = SweepMinutes /\ cronAt' = "none_found" /\ UNCHANGED <<candidate, swept, answered>>
  <2>1. CronTypeOK'
    BY <1>1, <1>6 DEF CronInv, CronTypeOK
  <2>2. NoneDue(FirstCandidate(asked), candidate)'
    BY <1>1, <1>2, <1>6 DEF NoneDue, DueAt
  <2>3. SweepInv'
    BY <1>1, <1>2, <1>6, <2>2 DEF CronInv, SweepInv
  <2>4. AnswerInv'
    BY <1>1, <1>2, <1>6 DEF CronInv, AnswerInv, DueAt
  <2> QED BY <1>3, <1>6, <2>1, <2>3, <2>4 DEF CronInv
<1> QED BY <1>4, <1>5, <1>6 DEF Sweep

LEMMA CronStep == CronInv /\ [CronNext]_cronVars => CronInv'
<1> SUFFICES ASSUME CronInv, [CronNext]_cronVars PROVE CronInv'
  OBVIOUS
<1>1. CASE UNCHANGED cronVars
  <2>1. UNCHANGED <<expression, parsed, cronAt, asked, candidate, swept, answered, before>>
    BY <1>1 DEF cronVars
  <2>2. CronTypeOK' /\ ParsedInv'
    BY <2>1 DEF CronInv, CronTypeOK, ParsedInv, Accepted
  <2>3. SweepInv'
    BY <2>1 DEF CronInv, SweepInv, NoneDue, DueAt, FirstCandidate
  <2>4. AnswerInv'
    BY <2>1 DEF CronInv, AnswerInv, NoneDue, DueAt, FirstCandidate
  <2> QED BY <2>2, <2>3, <2>4 DEF CronInv
<1> QED BY <1>1, ParseInv, AskInv, SweepStepInv DEF CronNext

LEMMA NextFireFromInv == CronInv => NextFireRight
<1> SUFFICES ASSUME CronInv PROVE NextFireRight
  OBVIOUS
<1> DEFINE first == asked \div 2 + 1
<1>1. asked \in Nat /\ first = FirstCandidate(asked) /\ first \in Nat /\ 2 * first > asked
  BY Halves, CronAssumption DEF CronInv, CronTypeOK
<1>2. ASSUME answered # NoAnswer
      PROVE  /\ 2 * answered > asked
             /\ DueWithin(first, answered) = {answered}
             /\ before # NoAnswer => before <= answered
  <2>1. answered \in Nat /\ first <= answered /\ DueAt(answered) /\ NoneDue(first, answered)
    BY <1>1, <1>2 DEF CronInv, CronTypeOK, AnswerInv
  <2> HIDE DEF first
  <2>2. 2 * answered > asked
    BY <1>1, <2>1
  <2>3. DueWithin(first, answered) = {answered}
    <3>1. ASSUME NEW minute \in first..answered, DueAt(minute) PROVE minute = answered
      <4>1. minute \in Nat /\ first <= minute /\ ~(minute < answered)
        BY <1>1, <2>1, <3>1 DEF NoneDue
      <4> QED BY <2>1, <4>1
    <3>2. answered \in first..answered
      BY <1>1, <2>1
    <3> QED BY <2>1, <3>1, <3>2 DEF DueWithin
  <2>4. before # NoAnswer => before <= answered
    BY <1>1, <2>1 DEF CronInv, AnswerInv
  <2> QED BY <2>2, <2>3, <2>4
<1>3. ASSUME cronAt = "none_found"
      PROVE  DueWithin(first, asked \div 2 + SweepMinutes) = {}
  <2>1. /\ candidate = first + SweepMinutes /\ NoneDue(first, candidate) /\ SweepMinutes \in Nat
    BY <1>1, <1>3, CronAssumption DEF CronInv, SweepInv
  <2>2. asked \div 2 \in Nat
    BY <1>1, Division
  <2>3. ASSUME NEW minute \in first..asked \div 2 + SweepMinutes PROVE ~DueAt(minute)
    <3> DEFINE half == asked \div 2
    <3>1. half \in Nat /\ first = half + 1 /\ minute \in first..half + SweepMinutes
      BY <2>2, <2>3
    <3> HIDE DEF half, first
    <3>2. minute \in Nat /\ first <= minute /\ minute < candidate
      BY <1>1, <2>1, <3>1
    <3> QED BY <2>1, <3>2 DEF NoneDue
  <2> QED BY <2>3 DEF DueWithin
<1> QED BY <1>2, <1>3 DEF NextFireRight

\* Every variable of Cron keeps its type: what a field means is in its range.
THEOREM CronTypes == CronSpec => []CronTypeOK
<1>1. CronInv => CronTypeOK
  BY DEF CronInv
<1> QED BY <1>1, CronInitInv, CronStep, PTL DEF CronSpec

\* next_after, for any calendar, any expression and any sequence of questions: the
\* answer is the first minute that the expression means after the instant asked for,
\* a later question has no earlier answer, and giving up means there was none.
THEOREM NextFireIsRight == CronSpec => []NextFireRight
BY CronInitInv, CronStep, NextFireFromInv, PTL DEF CronSpec

=============================================================================
