------------------------------ MODULE AuditLog -------------------------------
(***************************************************************************)
(* The audit log: FileAuditSink (src/ota_core/audit/sink.py) appends each   *)
(* event as a line to a file per month, FileAuditReader (reader.py) scans   *)
(* the files of a time range.  Emitters are threads; a write may fail, with *)
(* a part of the line on disk and the rest in the file object's buffer, and *)
(* the process may restart at any moment.                                   *)
(*                                                                          *)
(* Time is a number, a month is MonthLen of it, a timezone is its offset.   *)
(* A file is the sequence of its readable events, whether it ends in an     *)
(* incomplete line, and whether it holds the beginning of a character whose *)
(* end never came (a line holds any UTF-8 text).                            *)
(***************************************************************************)
EXTENDS Integers, Sequences, SequencesExt, FiniteSets

CONSTANTS
    Emitters,       \* threads that emit
    MonthLen,       \* moments in a month
    NoEvent,        \* nothing stamped
    NoMonth,        \* no file is open
    Offsets,        \* timezones of the bounds of a query, as offsets from UTC
    MaxMoment,      \* bound: the clock stops here
    MaxEvents,      \* bound: events
    MaxWriteFaults, \* bound: file operations that raise
    MaxRestarts     \* bound: restarts of the process

ASSUME AuditLogAssumption ==
    /\ MonthLen \in Nat \ {0}
    /\ {MaxMoment, MaxEvents, MaxWriteFaults, MaxRestarts} \subseteq Nat
    /\ NoMonth \notin Nat
    /\ Offsets \subseteq Int

Month(t) == t \div MonthLen
Months == 0..Month(MaxMoment)

VARIABLES
    moment,     \* the clock
    stamped,    \* each thread's event between its timestamp and the lock
    logged,     \* month -> readable events of its file, in file order
    torn,       \* month -> the closed file ends in an incomplete line
    garbled,    \* month -> the file holds a character that was cut off
    open,       \* the month of _file, NoMonth when it is None
    buffer,     \* events that _file has accepted and not written out
    partial,    \* the first of them is partly on disk
    split,      \* ... as far as the middle of a character
    dead,       \* _file was closed by a close that raised
    merges,     \* _file was opened behind an incomplete line and has not ended it
    emitted,    \* events made
    acked,      \* events whose emit has returned
    swallowed,  \* history: events that ended up on an incomplete line
    tears,      \* history: incomplete lines left behind
    writeFaults,
    restarts

handleVars == <<open, dead, buffer, partial, split, merges>>
auditLogVars == <<moment, stamped, logged, torn, garbled, handleVars, emitted, acked, swallowed,
                  tears, writeFaults, restarts>>

Logged == [id : 1..MaxEvents, time : 0..MaxMoment]

AuditLogInit ==
    /\ moment = 0
    /\ stamped = [e \in Emitters |-> NoEvent]
    /\ logged = [m \in Months |-> <<>>]
    /\ torn = [m \in Months |-> FALSE] /\ garbled = [m \in Months |-> FALSE]
    /\ open = NoMonth
    /\ buffer = <<>>
    /\ dead = FALSE
    /\ partial = FALSE /\ split = FALSE
    /\ merges = FALSE
    /\ emitted = 0
    /\ acked = {}
    /\ swallowed = {}
    /\ tears = 0
    /\ writeFaults = 0
    /\ restarts = 0

Clock ==
    /\ moment < MaxMoment
    /\ moment' = moment + 1
    /\ UNCHANGED <<stamped, logged, torn, garbled, handleVars, emitted, acked, swallowed, tears,
                   writeFaults, restarts>>

\* emit takes the timestamp before it waits for the lock.
Stamp(e) ==
    /\ stamped[e] = NoEvent
    /\ emitted < MaxEvents
    /\ emitted' = emitted + 1
    /\ stamped' = [stamped EXCEPT ![e] = [id |-> emitted + 1, time |-> moment]]
    /\ UNCHANGED <<moment, logged, torn, garbled, handleVars, acked, swallowed, tears,
                   writeFaults, restarts>>

FaultCounted == writeFaults < MaxWriteFaults /\ writeFaults' = writeFaults + 1

-----------------------------------------------------------------------------
(* _write, with the lock held. *)

\* What a file gains when these events are written out: an event that continues an
\* incomplete line cannot be read.
Readable(events) == IF merges /\ events # <<>> THEN Tail(events) ELSE events
Spoilt(events) == IF merges /\ events # <<>> THEN {Head(events)} ELSE {}

\* Nothing is left in the file object.
BufferGone == buffer' = <<>> /\ partial' = FALSE /\ split' = FALSE /\ merges' = FALSE

\* The month's file is open already: write and flush succeed.
WriteLine(e) ==
    LET event == stamped[e]
        all == Append(buffer, event)
    IN  /\ event # NoEvent
        /\ open = Month(event.time) /\ ~dead
        /\ logged' = [logged EXCEPT ![open] = @ \o Readable(all)]
        /\ swallowed' = swallowed \cup Spoilt(all)
        /\ BufferGone
        /\ acked' = acked \cup {event}
        /\ stamped' = [stamped EXCEPT ![e] = NoEvent]
        /\ UNCHANGED <<moment, torn, garbled, open, dead, emitted, tears, writeFaults, restarts>>

\* flush raises, with a part of the buffer written or none: AuditSinkError, and the
\* file object keeps the event for its next flush.
WriteFault(e) ==
    LET event == stamped[e]
    IN  /\ event # NoEvent
        /\ open = Month(event.time) /\ ~dead
        /\ FaultCounted
        /\ buffer' = Append(buffer, event)
        /\ partial' \in {partial, TRUE}
        /\ split' \in BOOLEAN /\ (split' => partial')
        /\ stamped' = [stamped EXCEPT ![e] = NoEvent]
        /\ UNCHANGED <<moment, logged, torn, garbled, open, dead, merges, emitted, acked, swallowed,
                       tears, restarts>>

\* A write to a file object that is closed raises ValueError.
WriteDead(e) ==
    /\ stamped[e] # NoEvent
    /\ open = Month(stamped[e].time) /\ dead
    /\ stamped' = [stamped EXCEPT ![e] = NoEvent]
    /\ UNCHANGED <<moment, logged, torn, garbled, handleVars, emitted, acked, swallowed, tears,
                   writeFaults, restarts>>

\* The open file is left as it is: what its buffer holds is lost, some of it may be
\* on disk, and the cut may be in the middle of a character.
Abandon(some, cut) ==
    /\ BufferGone
    /\ IF open = NoMonth \/ dead
       THEN UNCHANGED <<torn, garbled>>
       ELSE /\ torn' = [torn EXCEPT ![open] = merges \/ some]
            /\ garbled' = [garbled EXCEPT ![open] = @ \/ (some /\ cut)]
    /\ tears' = tears + (IF some /\ ~merges THEN 1 ELSE 0)

\* The file that is open, if any, is closed and its buffer written out.
CloseFile ==
    IF open = NoMonth \/ dead THEN UNCHANGED <<logged, swallowed, torn>>
    ELSE /\ logged' = [logged EXCEPT ![open] = @ \o Readable(buffer)]
         /\ swallowed' = swallowed \cup Spoilt(buffer)
         /\ torn' = [torn EXCEPT ![open] = merges /\ buffer = <<>>]

\* _rotate_if_needed closes the file of another month and opens this one; the write
\* follows as WriteLine or WriteFault, with the lock held all along: emitters and
\* restarts that come between do not see the difference.
Rotate(e) ==
    LET event == stamped[e]
        month == Month(event.time)
    IN  /\ event # NoEvent
        /\ open # month
        /\ CloseFile
        /\ merges' = torn[month]
        /\ open' = month /\ dead' = FALSE
        /\ buffer' = <<>> /\ partial' = FALSE /\ split' = FALSE
        /\ UNCHANGED <<moment, stamped, garbled, emitted, acked, tears, writeFaults, restarts>>

\* The close, which flushes, or the open raises, the event is not written.  After a
\* failed close _file and _current_month still name the old month.
RotateFault(e) ==
    LET event == stamped[e]
    IN  /\ event # NoEvent
        /\ open # Month(event.time)
        /\ FaultCounted
        /\ \/ /\ open # NoMonth /\ ~dead
              /\ \/ Abandon(partial, split)
                 \/ buffer # <<>> /\ \E cut \in BOOLEAN : Abandon(TRUE, cut)
              /\ dead' = TRUE
              /\ UNCHANGED <<open, logged, swallowed>>
           \/ /\ CloseFile
              /\ open' = NoMonth /\ dead' = FALSE
              /\ BufferGone
              /\ UNCHANGED <<garbled, tears>>
        /\ stamped' = [stamped EXCEPT ![e] = NoEvent]
        /\ UNCHANGED <<moment, emitted, acked, restarts>>

\* close() at shutdown.
CloseSink ==
    /\ open # NoMonth
    /\ CloseFile
    /\ open' = NoMonth /\ dead' = FALSE
    /\ BufferGone
    /\ UNCHANGED <<moment, stamped, garbled, emitted, acked, tears, writeFaults, restarts>>

\* The process dies, at a write perhaps, and starts again.
RestartSink ==
    /\ restarts < MaxRestarts
    /\ restarts' = restarts + 1
    /\ \/ Abandon(partial, split)
       \/ /\ ~dead
          /\ \E e \in Emitters : stamped[e] # NoEvent /\ open = Month(stamped[e].time)
          /\ \E cut \in BOOLEAN : Abandon(TRUE, cut)
    /\ open' = NoMonth /\ dead' = FALSE
    /\ stamped' = [e \in Emitters |-> NoEvent]
    /\ UNCHANGED <<moment, logged, emitted, acked, swallowed, writeFaults>>

AuditLogNext ==
    \/ Clock \/ CloseSink \/ RestartSink
    \/ \E e \in Emitters :
        Stamp(e) \/ WriteLine(e) \/ WriteFault(e) \/ WriteDead(e) \/ Rotate(e) \/ RotateFault(e)

AuditLogSpec == AuditLogInit /\ [][AuditLogNext]_auditLogVars

-----------------------------------------------------------------------------
(* The reader. *)

\* Faulty variant: the month of the end is left out.
FilesBefore(start, end, so, eo) ==
    {m \in Months : Month(start + so) <= m /\ m < Month(end + eo)}

\* _files_in_range compares the file's month, which is UTC, with the month of the
\* bounds in the timezone that the caller gave them (so and eo are their offsets).
FilesInRange(start, end, so, eo) ==
    {m \in Months : Month(start + so) <= m /\ m <= Month(end + eo)}

\* Iterating over a file decodes it: one with a character cut off raises, outside the
\* try that skips a line which is no event, and the scan ends there.
Unreadable == {m \in Months : garbled[m] \/ (split /\ m = open)}

ScanRaises(start, end, so, eo) == FilesInRange(start, end, so, eo) \cap Unreadable # {}

\* AuditFilter.matches compares instants, whatever the timezones.
Matches(event, start, end) == start <= event.time /\ event.time <= end

\* What a caller that reads the scan to its end is given.
Scan(start, end, so, eo) ==
    IF ScanRaises(start, end, so, eo) THEN {}
    ELSE {event \in UNION {Range(logged[m]) : m \in FilesInRange(start, end, so, eo)} :
             Matches(event, start, end)}

-----------------------------------------------------------------------------
(* Properties. *)

\* Every variable has its type.
AuditLogTypeOK ==
    /\ moment \in 0..MaxMoment
    /\ stamped \in [Emitters -> Logged \cup {NoEvent}]
    /\ logged \in [Months -> Seq(Logged)]
    /\ torn \in [Months -> BOOLEAN] /\ garbled \in [Months -> BOOLEAN]
    /\ open \in Months \cup {NoMonth}
    /\ buffer \in Seq(Logged)
    /\ dead \in BOOLEAN /\ partial \in BOOLEAN /\ split \in BOOLEAN /\ merges \in BOOLEAN
    /\ acked \cup swallowed \subseteq Logged
    /\ emitted \in 0..MaxEvents
    /\ {tears, writeFaults, restarts} \subseteq Nat

\* The months that a query's bounds name in their own timezones reach as far as the
\* months they are in.  A start ahead of UTC late in a month names the next one, an end
\* behind UTC early in a month the one before: _files_in_range then skips the file
\* that holds events of the range.
ReachesItsMonths(start, end, so, eo) ==
    Month(start + so) <= Month(start) /\ Month(end) <= Month(end + eo)

\* Every event whose emit returned is found, once, by every query over its time whose
\* bounds reach their months (reader.py:120-123), whatever months the emitters' threads
\* rotate between, with two exceptions.  An event written behind an incomplete line,
\* which a failed write and a restart (or a failed close) had left, is lost with it,
\* one per line.  And a query whose files include one with a character cut off raises
\* (reader.py:132-133): no more files than there are incomplete lines, left behind or
\* still being written.
AckedIsRead ==
    /\ \A event \in acked \ swallowed :
        \A start \in 0..event.time, end \in event.time..MaxMoment, so, eo \in Offsets :
            ReachesItsMonths(start, end, so, eo)
              => ScanRaises(start, end, so, eo) \/ event \in Scan(start, end, so, eo)
    /\ \A m \in Months : IsInjective(logged[m])
    /\ Cardinality(swallowed) <= tears
    /\ Cardinality(Unreadable) <= tears + (IF partial THEN 1 ELSE 0)

=============================================================================
