--------------------------------- MODULE Cron ---------------------------------
(***************************************************************************)
(* CronExpression (src/ota_core/automation/cron.py): the parser of a        *)
(* five-field expression and the search for the next matching minute, which *)
(* the scheduler takes for granted (NextAfter in Scheduler.tla).            *)
(*                                                                          *)
(* The calendar is a constant: the length of an hour, a day and a week, and *)
(* the days one after the other with their dates, so that a short one shows *)
(* what the real one does (leap days, months of different lengths).         *)
(* Minutes are numbered from 0; an instant is a whole or a half minute.     *)
(***************************************************************************)
EXTENDS Integers, Sequences

CONSTANTS
    HourLen,        \* minutes of an hour
    DayLen,         \* hours of a day
    WeekLen,        \* days of a week
    LongestMonth,   \* days of the longest month
    MonthCount,     \* months of a year
    Days,           \* the days of the calendar: of each its month and its day of the month
    SweepMinutes,   \* minutes that next_after looks at (4 * 366 * 24 * 60)
    Expressions,    \* expressions: per field, its comma-separated parts
    MaxInstant,     \* bound: the last instant asked for ...
    MaxPause,       \* ... and the instants between two questions
    NoAnswer        \* next_after has not returned

VARIABLES
    expression, \* the text of the expression
    parsed,     \* the field values it stands for
    cronAt,     \* where the caller is
    asked,      \* the instant that next_after was given
    candidate,  \* the minute looked at
    swept,      \* how many have been looked at
    answered,   \* what next_after has returned
    before      \* history: the answer to an earlier question

cronVars == <<expression, parsed, cronAt, asked, candidate, swept, answered, before>>

-----------------------------------------------------------------------------
(* The calendar (external: datetime). *)

Moment(minute) ==
    LET number == minute \div (HourLen * DayLen)
    IN  [minute |-> minute % HourLen, hour |-> (minute \div HourLen) % DayLen,
         day |-> Days[number + 1].day, month |-> Days[number + 1].month,
         weekday |-> number % WeekLen]

FieldNames == {"minute", "hour", "day", "month", "weekday"}

ASSUME CronAssumption ==
    /\ {HourLen, DayLen, WeekLen, LongestMonth, MonthCount, SweepMinutes} \subseteq Nat \ {0}
    /\ {MaxInstant, MaxPause} \subseteq Nat
    /\ NoAnswer \notin Nat
    \* Every date is within the bounds of _FIELD_RANGES.
    /\ Days \in Seq([month : 1..MonthCount, day : 1..LongestMonth])
    \* The calendar is long enough for every sweep.
    /\ Len(Days) * (DayLen * HourLen) > MaxInstant \div 2 + SweepMinutes + 2
    \* A lower bound is read without its sign, which separates it from the upper one.
    /\ \A text \in Expressions :
        /\ DOMAIN text = FieldNames
        /\ \A field \in FieldNames : \A part \in text[field] :
            /\ part.base \in {"all", "range"}
            /\ part.lo \in Nat /\ {part.hi, part.step} \subseteq Int

-----------------------------------------------------------------------------
(* Parsing. *)

\* _FIELD_RANGES
FieldRange ==
    [minute |-> 0..HourLen - 1, hour |-> 0..DayLen - 1, day |-> 1..LongestMonth,
     month |-> 1..MonthCount, weekday |-> 0..WeekLen - 1]

First(values) == CHOOSE v \in values : \A w \in values : v <= w

\* A part is all values or a range (one value: from itself to itself), with a step.
PartValues(part, field) == IF part.base = "all" THEN FieldRange[field] ELSE part.lo..part.hi

\* Faulty variant: the bounds of the field are not checked.
PartRefusedUnbounded(part, field) == part.step <= 0 \/ PartValues(part, field) = {}

PartRefused(part, field) ==
    \/ part.step <= 0
    \/ PartValues(part, field) = {}
    \/ ~(PartValues(part, field) \subseteq FieldRange[field])

\* The step counts from the first value of the part.
Stepped(part, v, field) == (v - First(PartValues(part, field))) % part.step = 0

FieldValues(parts, field) ==
    UNION {{v \in PartValues(part, field) : Stepped(part, v, field)} : part \in parts}

\* CronExpression.parse, or CronParseError.
Parse ==
    /\ cronAt = "new"
    /\ \/ /\ \E field \in DOMAIN expression :
               \E part \in expression[field] : PartRefused(part, field)
          /\ cronAt' = "refused"
          /\ UNCHANGED parsed
       \/ /\ \A field \in DOMAIN expression :
               \A part \in expression[field] : ~PartRefused(part, field)
          /\ cronAt' = "idle"
          /\ parsed' = [field \in DOMAIN expression |-> FieldValues(expression[field], field)]
    /\ UNCHANGED <<expression, asked, candidate, swept, answered, before>>

-----------------------------------------------------------------------------
(* next_after. *)

\* Every field has to match, the day of the month and the weekday as well.
MatchesAt(minute) == \A field \in DOMAIN parsed : Moment(minute)[field] \in parsed[field]

\* Faulty variant: the minute of the question itself is looked at first.
FirstCandidateNow(instant) == instant \div 2

\* (dt + 1 minute) with its seconds cut off.
FirstCandidate(instant) == (instant + 2) \div 2

Ask(instant) ==
    /\ cronAt = "idle"
    /\ asked' = instant
    /\ candidate' = FirstCandidate(instant)
    /\ swept' = 0
    /\ cronAt' = "sweeping"
    /\ before' = IF answered = NoAnswer THEN before ELSE answered
    /\ answered' = NoAnswer
    /\ UNCHANGED <<expression, parsed>>

Sweep ==
    /\ cronAt = "sweeping"
    /\ \/ /\ swept < SweepMinutes
          /\ MatchesAt(candidate)
          /\ answered' = candidate
          /\ cronAt' = "idle"
          /\ UNCHANGED <<candidate, swept>>
       \/ /\ swept < SweepMinutes
          /\ ~MatchesAt(candidate)
          /\ candidate' = candidate + 1
          /\ swept' = swept + 1
          /\ UNCHANGED <<answered, cronAt>>
       \/ /\ swept = SweepMinutes
          /\ cronAt' = "none_found"
          /\ UNCHANGED <<candidate, swept, answered>>
    /\ UNCHANGED <<expression, parsed, asked, before>>

CronInit ==
    /\ expression \in Expressions
    /\ parsed = [field \in DOMAIN expression |-> {}]
    /\ cronAt = "new"
    /\ asked = 0
    /\ candidate = 0
    /\ swept = 0
    /\ answered = NoAnswer
    /\ before = NoAnswer

CronNext ==
    \/ Parse \/ Sweep
    \/ \E pause \in 0..MaxPause : asked + pause <= MaxInstant /\ Ask(asked + pause)

CronSpec == CronInit /\ [][CronNext]_cronVars

-----------------------------------------------------------------------------
(* Properties. *)

\* Every variable has its type.
CronTypeOK ==
    /\ expression \in Expressions
    /\ \A field \in DOMAIN parsed : parsed[field] \subseteq FieldRange[field]
    /\ cronAt \in {"new", "refused", "idle", "sweeping", "none_found"}
    /\ asked \in 0..MaxInstant
    /\ {candidate, swept} \subseteq Nat
    /\ {answered, before} \subseteq Nat \cup {NoAnswer}

\* What an expression means, without parsing or searching: the minutes whose every
\* field is lo, lo + step, lo + 2 * step ... of a part.
Named(part, value, field) ==
    LET lo == IF part.base = "all" THEN First(FieldRange[field]) ELSE part.lo
        hi == IF part.base = "all" THEN value ELSE part.hi
    IN  value <= hi /\ \E k \in 0..value : value = lo + k * part.step

DueAt(minute) ==
    \A field \in DOMAIN expression :
        \E part \in expression[field] : Named(part, Moment(minute)[field], field)

DueWithin(from, to) == {minute \in from..to : DueAt(minute)}

\* next_after returns the first minute that the expression means and that begins
\* strictly after the instant it was given, over month ends and leap days; of two
\* questions the later one is never answered with an earlier minute; and it gives
\* up only if there is no such minute in the whole sweep.
NextFireRight ==
    /\ (cronAt = "idle" /\ answered # NoAnswer) =>
        /\ 2 * answered > asked
        /\ DueWithin(asked \div 2 + 1, answered) = {answered}
        /\ before # NoAnswer => before <= answered
    /\ cronAt = "none_found" =>
        DueWithin(asked \div 2 + 1, asked \div 2 + SweepMinutes) = {}

=============================================================================
