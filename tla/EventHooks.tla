------------------------------ MODULE EventHooks ------------------------------
(***************************************************************************)
(* The event hooks of the Scheduler (src/ota_core/automation/scheduler.py): *)
(* fire_event takes the time once, goes through the hooks that are          *)
(* registered at that moment, tests each one's debounce, awaits its         *)
(* callback and notes the time afterwards.  While a callback is awaited     *)
(* other events are fired and hooks come and go.                            *)
(*                                                                          *)
(* A hook is an object: one that is registered again under the same id is   *)
(* another.  All hooks of the model listen to the event that is fired.      *)
(***************************************************************************)
EXTENDS Integers, Sequences, SequencesExt, FiniteSets

CONSTANTS
    HookIds,        \* hook ids
    Hooks,          \* hook objects ...
    IdOf,           \* ... and the id of each
    Debounce,       \* debounce of each hook, 0 when it has none
    Events,         \* calls of fire_event
    NoHook,         \* no hook is registered under this id
    NoFiring,       \* last_fire_at is None
    MaxClock,       \* bound: the clock stops here
    MaxHookFaults   \* bound: callbacks and writes that raise

ASSUME EventHooksAssumption ==
    /\ IdOf \in [Hooks -> HookIds]
    /\ Debounce \in [Hooks -> Nat]
    /\ NoHook \notin Hooks
    /\ NoFiring \notin Nat
    /\ {MaxClock, MaxHookFaults} \subseteq Nat

VARIABLES
    clock,      \* _clock()
    order,      \* _events: the registered hooks in the order of the dict
    hookRows,   \* event_hooks: per id, last_fire_at of its row, NoHook without a row
    lastFire,   \* last_fire_at of each object
    eventAt,    \* where each call of fire_event is
    eventNow,   \* the time it has taken
    snapshot,   \* the hooks it has still to look at
    known,      \* hooks that have been registered once
    hookFaults,
    \* History, for the properties only:
    firings,    \* per hook with a debounce, the times noted for the callbacks that returned
    tooClose,   \* hooks that were fired twice within their debounce
    overlapped  \* hooks whose callback was started while it was awaited

hookVars == <<clock, order, hookRows, lastFire, eventAt, eventNow, snapshot, known,
              hookFaults, firings, tooClose, overlapped>>
firingHistory == <<firings, tooClose, overlapped>>
callers == <<eventAt, eventNow, snapshot>>

\* A call of fire_event ends.
Leaves(e) ==
    /\ eventAt' = [eventAt EXCEPT ![e] = "out"]
    /\ eventNow' = [eventNow EXCEPT ![e] = 0]
    /\ snapshot' = [snapshot EXCEPT ![e] = <<>>]

EventHooksInit ==
    /\ clock = 0
    /\ order = <<>>
    /\ hookRows = [id \in HookIds |-> NoHook]
    /\ lastFire = [h \in Hooks |-> NoFiring]
    /\ eventAt = [e \in Events |-> "out"]
    /\ eventNow = [e \in Events |-> 0]
    /\ snapshot = [e \in Events |-> <<>>]
    /\ known = {}
    /\ hookFaults = 0
    /\ firings = [h \in Hooks |-> {}]
    /\ tooClose = {}
    /\ overlapped = {}

ClockTicks ==
    /\ clock < MaxClock
    /\ clock' = clock + 1
    /\ UNCHANGED <<order, hookRows, lastFire, callers, known, hookFaults, firingHistory>>

HookFaultCounted == hookFaults < MaxHookFaults /\ hookFaults' = hookFaults + 1

RegisteredIds == {IdOf[h] : h \in Range(order)}

\* The hook is in memory before its row is written; a write that raises leaves it
\* there.
RegisterHook(h) ==
    /\ IdOf[h] \notin RegisteredIds
    /\ h \notin known
    /\ known' = known \cup {h}
    /\ order' = Append(order, h)
    /\ \/ hookRows' = [hookRows EXCEPT ![IdOf[h]] = NoFiring] /\ UNCHANGED hookFaults
       \/ HookFaultCounted /\ UNCHANGED hookRows
    /\ UNCHANGED <<clock, lastFire, callers, firingHistory>>

DeregisterHook(h) ==
    /\ \E i \in DOMAIN order : order[i] = h /\ order' = RemoveAt(order, i)
    /\ \/ hookRows' = [hookRows EXCEPT ![IdOf[h]] = NoHook] /\ UNCHANGED hookFaults
       \/ HookFaultCounted /\ UNCHANGED hookRows
    /\ UNCHANGED <<clock, lastFire, callers, known, firingHistory>>

FireEvent(e) ==
    /\ eventAt[e] = "out"
    /\ eventNow' = [eventNow EXCEPT ![e] = clock]
    /\ snapshot' = [snapshot EXCEPT ![e] = order]
    /\ eventAt' = [eventAt EXCEPT ![e] = "looking"]
    /\ UNCHANGED <<clock, order, hookRows, lastFire, known, hookFaults, firingHistory>>

\* The debounce lets a hook through.  (With no debounce an event that took its time
\* before the last firing passes as well.)
Passes(h, time) ==
    Debounce[h] # 0 /\ lastFire[h] # NoFiring => time - lastFire[h] >= Debounce[h]

Awaiting(h) == {e \in Events : eventAt[e] = "awaiting" /\ Head(snapshot[e]) = h}

\* The next hook is tested; its callback is called and awaited.
StartCallback(e) ==
    LET h == Head(snapshot[e])
    IN  /\ eventAt[e] = "looking"
        /\ snapshot[e] # <<>>
        /\ Passes(h, eventNow[e])
        /\ eventAt' = [eventAt EXCEPT ![e] = "awaiting"]
        /\ overlapped' = IF Awaiting(h) = {} THEN overlapped ELSE overlapped \cup {h}
        /\ UNCHANGED <<clock, order, hookRows, lastFire, eventNow, snapshot, known,
                       hookFaults, firings, tooClose>>

SkipHook(e) ==
    /\ eventAt[e] = "looking"
    /\ snapshot[e] # <<>>
    /\ ~Passes(Head(snapshot[e]), eventNow[e])
    /\ snapshot' = [snapshot EXCEPT ![e] = Tail(@)]
    /\ UNCHANGED <<clock, order, hookRows, lastFire, eventAt, eventNow, known, hookFaults,
                   firingHistory>>

\* Faulty variant: the time is not noted.
NotedNothing(h, time) == lastFire[h]

\* last_fire_at after a firing for an event of this time.
NotedTime(h, time) == time

Distance(a, b) == IF a > b THEN a - b ELSE b - a

\* The callback returns: the time is noted on the object, then in the row of its id
\* if there is one.  A write that raises ends the call of fire_event.
CallbackReturns(e) ==
    LET h == Head(snapshot[e])
        time == eventNow[e]
    IN  /\ eventAt[e] = "awaiting"
        /\ lastFire' = [lastFire EXCEPT ![h] = NotedTime(h, time)]
        /\ \/ /\ IF hookRows[IdOf[h]] = NoHook THEN UNCHANGED hookRows
                 ELSE hookRows' = [hookRows EXCEPT ![IdOf[h]] = time]
              /\ eventAt' = [eventAt EXCEPT ![e] = "looking"]
              /\ snapshot' = [snapshot EXCEPT ![e] = Tail(@)]
              /\ UNCHANGED <<eventNow, hookFaults>>
           \/ /\ HookFaultCounted
              /\ Leaves(e)
              /\ UNCHANGED hookRows
        /\ firings' = [firings EXCEPT ![h] = IF Debounce[h] = 0 THEN @ ELSE @ \cup {time}]
        /\ tooClose' = IF \E other \in firings[h] : Distance(time, other) < Debounce[h]
                       THEN tooClose \cup {h} ELSE tooClose
        /\ UNCHANGED <<clock, order, known, overlapped>>

\* The callback raises: fire_event raises, no time is noted, later hooks are not
\* looked at.
CallbackRaises(e) ==
    /\ eventAt[e] = "awaiting"
    /\ HookFaultCounted
    /\ Leaves(e)
    /\ UNCHANGED <<clock, order, hookRows, lastFire, known, firingHistory>>

EventDone(e) ==
    /\ eventAt[e] = "looking"
    /\ snapshot[e] = <<>>
    /\ Leaves(e)
    /\ UNCHANGED <<clock, order, hookRows, lastFire, known, hookFaults, firingHistory>>

EventHooksNext ==
    \/ ClockTicks
    \/ \E h \in Hooks : RegisterHook(h) \/ DeregisterHook(h)
    \/ \E e \in Events :
        \/ FireEvent(e) \/ StartCallback(e) \/ SkipHook(e)
        \/ CallbackReturns(e) \/ CallbackRaises(e) \/ EventDone(e)

EventHooksSpec == EventHooksInit /\ [][EventHooksNext]_hookVars

-----------------------------------------------------------------------------
(* Properties. *)

\* Every variable has its type.
EventHooksTypeOK ==
    /\ clock \in 0..MaxClock
    /\ order \in Seq(known) /\ known \subseteq Hooks
    /\ hookRows \in [HookIds -> Nat \cup {NoFiring, NoHook}]
    /\ lastFire \in [Hooks -> Nat \cup {NoFiring}]
    /\ eventAt \in [Events -> {"out", "looking", "awaiting"}]
    /\ eventNow \in [Events -> 0..clock]
    /\ snapshot \in [Events -> Seq(known)]
    /\ hookFaults \in 0..MaxHookFaults
    /\ firings \in [Hooks -> SUBSET (0..clock)]
    /\ tooClose \cup overlapped \subseteq known

\* A hook whose callback was never called again while it was awaited has no two
\* firings within its debounce, whatever order the events were taken, fired and
\* written in.  Where calls did overlap the debounce holds nothing off: both
\* events have passed the test before either time is noted, and the earlier time
\* may be the one that is noted last.
DebounceHolds == tooClose \subseteq overlapped

=============================================================================
