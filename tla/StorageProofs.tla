-------------------------- MODULE StorageProofs -----------------------------
(***************************************************************************)
(* Proofs about the audit log and migrations, for any number of emitters,   *)
(* processes, months and lists of migrations.                               *)
(***************************************************************************)
EXTENDS AuditLog, Migrations, FiniteSetTheorems, SequenceTheorems, TLAPS

-----------------------------------------------------------------------------
(* The audit log.  An event is in one place at most; one whose emit has      *)
(* returned is readable in its month's file or swallowed; and each event     *)
(* swallowed, each incomplete line at the end of a closed file and the one   *)
(* that the open file still continues has a line of its own left behind; so  *)
(* has each file that ends in such a line or holds a character cut off.      *)

Torn == {m \in Months : torn[m]}
TornClosed == {m \in Torn : m # open \/ dead}
Owing == IF merges THEN 1 ELSE 0

Numbered(events) == \A event \in events : event.id <= emitted

LinesInv ==
    /\ \A m \in Months : IsInjective(logged[m]) /\ Numbered(Range(logged[m]))
    /\ IsInjective(buffer) /\ Numbered(Range(buffer))
    /\ \A m \in Months : Range(logged[m]) \cap Range(buffer) = {}

WaitingInv ==
    /\ \A e \in Emitters : stamped[e] # NoEvent =>
        /\ stamped[e].id <= emitted
        /\ stamped[e] \notin Range(buffer)
        /\ \A m \in Months : stamped[e] \notin Range(logged[m])
    /\ \A e, f \in Emitters : e # f /\ stamped[e] # NoEvent => stamped[e] # stamped[f]

FoundInv == \A event \in acked : event \in swallowed \/ event \in Range(logged[Month(event.time)])

TornInv == IsFiniteSet(swallowed) /\ Cardinality(swallowed) + Cardinality(TornClosed) + Owing <= tears

Damaged == {m \in Months : garbled[m] \/ torn[m]}

DamagedInv ==
    /\ split => partial
    /\ merges => open \in Months /\ torn[open]
    /\ Cardinality(Damaged) <= tears

AuditLogInv == AuditLogTypeOK /\ LinesInv /\ WaitingInv /\ FoundInv /\ TornInv /\ DamagedInv

LEMMA MonthsInOrder ==
    ASSUME NEW a \in Int, NEW b \in Int, a <= b
    PROVE  Month(a) <= Month(b) /\ Month(a) \in Int
BY AuditLogAssumption DEF Month

LEMMA MonthsAreInt == ASSUME NEW a \in Int PROVE Month(a) \in Int
BY AuditLogAssumption DEF Month

LEMMA MonthTypes ==
    ASSUME NEW event \in Logged
    PROVE  event.time \in 0..MaxMoment /\ event.id \in 1..MaxEvents /\ Month(event.time) \in Months
<1>1. event.time \in 0..MaxMoment /\ event.id \in 1..MaxEvents /\ MaxMoment \in Nat
  BY AuditLogAssumption DEF Logged
<1>2. Month(event.time) \in Nat /\ Month(MaxMoment) \in Nat
  BY <1>1, AuditLogAssumption DEF Month
<1>3. Month(event.time) <= Month(MaxMoment)
  BY <1>1, MonthsInOrder
<1> QED BY <1>1, <1>2, <1>3 DEF Months

LEMMA MonthsFinite ==
    /\ IsFiniteSet(Months) /\ NoMonth \notin Months
    /\ \A S \in SUBSET Months : IsFiniteSet(S) /\ Cardinality(S) \in Nat
<1>1. Month(MaxMoment) \in Nat
  BY AuditLogAssumption DEF Month
<1>2. IsFiniteSet(Months)
  BY <1>1, FS_Interval DEF Months
<1>3. NoMonth \notin Months
  BY <1>1, AuditLogAssumption DEF Months
<1> QED BY <1>2, <1>3, FS_Subset, FS_CardinalityType

\* No more files raise than there are incomplete lines: the open one, at most, more than
\* the damaged ones.
LEMMA UnreadableFew ==
    ASSUME AuditLogTypeOK, DamagedInv
    PROVE  Cardinality(Unreadable) <= tears + (IF partial THEN 1 ELSE 0)
<1>1. /\ IsFiniteSet(Damaged) /\ Cardinality(Damaged) \in Nat /\ tears \in Nat
      /\ Cardinality(Damaged) <= tears /\ Cardinality(Unreadable) \in Nat
  BY MonthsFinite DEF Damaged, Unreadable, AuditLogTypeOK, DamagedInv
<1>2. CASE split
  <2>1. Unreadable \subseteq Damaged \cup {open}
    BY DEF Unreadable, Damaged
  <2>2. /\ IsFiniteSet(Damaged \cup {open})
        /\ Cardinality(Damaged \cup {open}) =
             IF open \in Damaged THEN Cardinality(Damaged) ELSE Cardinality(Damaged) + 1
    BY <1>1, FS_AddElement
  <2>3. Cardinality(Unreadable) <= Cardinality(Damaged \cup {open})
    BY <2>1, <2>2, FS_Subset
  <2> QED BY <1>1, <1>2, <2>2, <2>3 DEF DamagedInv
<1>3. CASE ~split
  <2>1. Unreadable \subseteq Damaged
    BY <1>3 DEF Unreadable, Damaged
  <2>2. Cardinality(Unreadable) <= Cardinality(Damaged)
    BY <1>1, <2>1, FS_Subset
  <2> QED BY <1>1, <2>2
<1> QED BY <1>2, <1>3

\* A step that damages no file, or one for a line it leaves behind.
LEMMA DamageCounts ==
    ASSUME DamagedInv, tears \in Nat, tears' \in Nat, NEW m \in Months,
           \/ Damaged' \subseteq Damaged /\ tears <= tears'
           \/ Damaged' \subseteq Damaged \cup {m} /\ tears' = tears + 1
    PROVE  Cardinality(Damaged') <= tears'
<1>1. /\ IsFiniteSet(Damaged) /\ Cardinality(Damaged) \in Nat /\ Cardinality(Damaged) <= tears
      /\ Cardinality(Damaged') \in Nat
  BY MonthsFinite DEF Damaged, DamagedInv
<1>2. CASE Damaged' \subseteq Damaged /\ tears <= tears'
  <2>1. Cardinality(Damaged') <= Cardinality(Damaged)
    BY <1>1, <1>2, FS_Subset
  <2> QED BY <1>1, <1>2, <2>1
<1>3. CASE Damaged' \subseteq Damaged \cup {m} /\ tears' = tears + 1
  <2>1. /\ IsFiniteSet(Damaged \cup {m})
        /\ Cardinality(Damaged \cup {m}) =
             IF m \in Damaged THEN Cardinality(Damaged) ELSE Cardinality(Damaged) + 1
    BY <1>1, FS_AddElement
  <2>2. Cardinality(Damaged') <= Cardinality(Damaged \cup {m})
    BY <1>3, <2>1, FS_Subset
  <2> QED BY <1>1, <1>3, <2>1, <2>2
<1> QED BY <1>2, <1>3

\* The query of any reader finds what is in the file of its month.
LEMMA ReadFromInv == AuditLogInv => AckedIsRead
<1> SUFFICES ASSUME AuditLogInv PROVE AckedIsRead
  OBVIOUS
<1>1. ASSUME NEW event \in acked \ swallowed,
             NEW start \in 0..event.time, NEW end \in event.time..MaxMoment,
             NEW so \in Offsets, NEW eo \in Offsets,
             ReachesItsMonths(start, end, so, eo), ~ScanRaises(start, end, so, eo)
      PROVE  event \in Scan(start, end, so, eo)
  <2>1. event \in Logged
    BY DEF AuditLogInv, AuditLogTypeOK
  <2>2. event.time \in 0..MaxMoment /\ Month(event.time) \in Months /\ MaxMoment \in Nat
    BY <2>1, MonthTypes, AuditLogAssumption
  <2>3. /\ start \in Int /\ end \in Int /\ so \in Int /\ eo \in Int
        /\ start <= event.time /\ event.time <= end
    BY <2>2, AuditLogAssumption
  <2>4. Month(start + so) <= Month(event.time) /\ Month(event.time) <= Month(end + eo)
    <3>1. Month(start) <= Month(event.time) /\ Month(event.time) <= Month(end)
      BY <2>2, <2>3, MonthsInOrder
    <3>2. /\ Month(start) \in Int /\ Month(end) \in Int /\ Month(event.time) \in Int
          /\ Month(start + so) \in Int /\ Month(end + eo) \in Int
      <4>1. start + so \in Int /\ end + eo \in Int /\ event.time \in Int
        BY <2>2, <2>3
      <4> QED BY <2>3, <4>1, MonthsAreInt
    <3> QED BY <1>1, <3>1, <3>2 DEF ReachesItsMonths
  <2>5. Month(event.time) \in FilesInRange(start, end, so, eo)
    BY <2>2, <2>4 DEF FilesInRange
  <2>6. event \in Range(logged[Month(event.time)])
    BY DEF AuditLogInv, FoundInv
  <2>7. Matches(event, start, end)
    BY <2>3 DEF Matches
  <2> QED BY <1>1, <2>5, <2>6, <2>7 DEF Scan
<1>2. Cardinality(swallowed) <= tears
  <2>1. Cardinality(TornClosed) \in Nat /\ Owing \in Nat
    BY MonthsFinite DEF TornClosed, Torn, Owing
  <2>2. Cardinality(swallowed) \in Nat /\ tears \in Nat
    BY FS_CardinalityType DEF AuditLogInv, TornInv, AuditLogTypeOK
  <2> QED BY <2>1, <2>2 DEF AuditLogInv, TornInv
<1>3. Cardinality(Unreadable) <= tears + (IF partial THEN 1 ELSE 0)
  BY UnreadableFew DEF AuditLogInv
<1> QED BY <1>1, <1>2, <1>3 DEF AckedIsRead, AuditLogInv, LinesInv

LEMMA AuditLogInitInv == AuditLogInit => AuditLogInv
<1> SUFFICES ASSUME AuditLogInit PROVE AuditLogInv
  OBVIOUS
<1>1. 0 \in 0..MaxMoment /\ 0 \in 0..MaxEvents
  BY AuditLogAssumption
<1>2. logged \in [Months -> Seq(Logged)] /\ buffer \in Seq(Logged) /\ Range(<<>>) = {}
  BY DEF AuditLogInit, Range
<1>3. AuditLogTypeOK
  <2>1. torn \in [Months -> BOOLEAN] /\ garbled \in [Months -> BOOLEAN]
    BY DEF AuditLogInit
  <2>2. dead \in BOOLEAN /\ partial \in BOOLEAN /\ split \in BOOLEAN /\ merges \in BOOLEAN
    BY DEF AuditLogInit
  <2> QED BY <1>1, <1>2, <2>1, <2>2 DEF AuditLogInit, AuditLogTypeOK
<1>4. IsInjective(<<>>)
  BY DEF IsInjective
<1>5. LinesInv
  BY <1>2, <1>4 DEF AuditLogInit, LinesInv, Numbered
<1>6. TornClosed = {}
  BY DEF AuditLogInit, TornClosed, Torn
<1>7. TornInv
  BY <1>6, FS_EmptySet DEF AuditLogInit, TornInv, Owing
<1>8. DamagedInv
  <2>1. Damaged = {}
    BY DEF AuditLogInit, Damaged
  <2> QED BY <2>1, FS_EmptySet DEF AuditLogInit, DamagedInv
<1> QED BY <1>3, <1>5, <1>7, <1>8 DEF AuditLogInit, AuditLogInv, WaitingInv, FoundInv

\* A file with more lines of events that are not in it, each once.
LEMMA Concatenated ==
    ASSUME NEW S, NEW q \in Seq(S), NEW more \in Seq(S), IsInjective(q), IsInjective(more),
           Range(q) \cap Range(more) = {}
    PROVE  /\ q \o more \in Seq(S) /\ IsInjective(q \o more)
           /\ Range(q \o more) = Range(q) \cup Range(more)
<1> DEFINE both == q \o more
<1>1. /\ both \in Seq(S) /\ Len(both) = Len(q) + Len(more)
      /\ \A i \in 1..Len(q) + Len(more) :
            both[i] = IF i <= Len(q) THEN q[i] ELSE more[i - Len(q)]
  BY ConcatProperties
<1>2. DOMAIN both = 1..Len(q) + Len(more) /\ DOMAIN q = 1..Len(q) /\ DOMAIN more = 1..Len(more)
      /\ Len(q) \in Nat /\ Len(more) \in Nat
  BY <1>1
<1>3. \A i \in 1..Len(q) : i \in DOMAIN both /\ both[i] = q[i] /\ both[i] \in Range(q)
  BY <1>1, <1>2 DEF Range
<1>4. \A i \in 1..Len(more) : Len(q) + i \in DOMAIN both /\ both[Len(q) + i] = more[i]
                              /\ more[i] \in Range(more)
  <2> SUFFICES ASSUME NEW i \in 1..Len(more)
               PROVE  Len(q) + i \in DOMAIN both /\ both[Len(q) + i] = more[i]
                      /\ more[i] \in Range(more)
    OBVIOUS
  <2>1. Len(q) + i \in 1..Len(q) + Len(more) /\ ~(Len(q) + i <= Len(q))
        /\ (Len(q) + i) - Len(q) = i
    BY <1>2
  <2> QED BY <1>1, <1>2, <2>1 DEF Range
<1>5. \A i \in DOMAIN both : i \in 1..Len(q) \/ \E j \in 1..Len(more) : i = Len(q) + j
  <2> SUFFICES ASSUME NEW i \in DOMAIN both, i \notin 1..Len(q)
               PROVE  \E j \in 1..Len(more) : i = Len(q) + j
    OBVIOUS
  <2>1. i - Len(q) \in 1..Len(more) /\ i = Len(q) + (i - Len(q))
    BY <1>2
  <2> QED BY <2>1
<1> HIDE DEF both
<1>6. Range(both) = Range(q) \cup Range(more)
  <2>1. \A i \in DOMAIN both : both[i] \in Range(q) \cup Range(more)
    BY <1>3, <1>4, <1>5
  <2>2. \A e \in Range(q) : \E i \in DOMAIN both : both[i] = e
    BY <1>2, <1>3 DEF Range
  <2>3. \A e \in Range(more) : \E i \in DOMAIN both : both[i] = e
    BY <1>2, <1>4 DEF Range
  <2>4. \A e : e \in Range(both) <=> \E i \in DOMAIN both : both[i] = e
    BY DEF Range
  <2> QED BY <2>1, <2>2, <2>3, <2>4
<1>7. IsInjective(both)
  <2> SUFFICES ASSUME NEW i \in DOMAIN both, NEW j \in DOMAIN both, both[i] = both[j]
               PROVE  i = j
    BY DEF IsInjective
  <2>1. CASE i \in 1..Len(q) /\ j \in 1..Len(q)
    BY <1>2, <1>3, <2>1 DEF IsInjective
  <2>2. CASE i \notin 1..Len(q) /\ j \notin 1..Len(q)
    <3>1. PICK m \in 1..Len(more) : i = Len(q) + m
      BY <1>5, <2>2
    <3>2. PICK n \in 1..Len(more) : j = Len(q) + n
      BY <1>5, <2>2
    <3>3. more[m] = more[n]
      BY <1>4, <3>1, <3>2
    <3> QED BY <1>2, <3>1, <3>2, <3>3 DEF IsInjective
  <2>3. CASE i \in 1..Len(q) /\ j \notin 1..Len(q)
    BY <1>3, <1>4, <1>5, <2>3
  <2>4. CASE i \notin 1..Len(q) /\ j \in 1..Len(q)
    BY <1>3, <1>4, <1>5, <2>4
  <2> QED BY <2>1, <2>2, <2>3, <2>4
<1> QED BY <1>1, <1>6, <1>7 DEF both

\* Writing out: the events go to the open file, but for the one that continues an
\* incomplete line.
LEMMA WrittenOut ==
    ASSUME AuditLogTypeOK, LinesInv, IsFiniteSet(swallowed), open \in Months,
           NEW events \in Seq(Logged), IsInjective(events), Numbered(Range(events)),
           \A m \in Months : Range(logged[m]) \cap Range(events) = {},
           logged' = [logged EXCEPT ![open] = @ \o Readable(events)],
           swallowed' = swallowed \cup Spoilt(events)
    PROVE  /\ logged' \in [Months -> Seq(Logged)] /\ swallowed' \subseteq Logged
           /\ \A m \in Months : IsInjective(logged'[m]) /\ Numbered(Range(logged'[m]))
           /\ \A m \in Months : /\ Range(logged[m]) \subseteq Range(logged'[m])
                                /\ Range(logged'[m]) \subseteq Range(logged[m]) \cup Range(events)
           /\ swallowed \subseteq swallowed'
           /\ Range(events) \subseteq Range(logged'[open]) \cup swallowed'
           /\ IsFiniteSet(swallowed')
           /\ Cardinality(swallowed')
                <= Cardinality(swallowed) + (IF merges /\ events # <<>> THEN 1 ELSE 0)
<1> DEFINE more == Readable(events)
<1>0. /\ logged \in [Months -> Seq(Logged)] /\ swallowed \subseteq Logged
      /\ \A m \in Months : IsInjective(logged[m]) /\ Numbered(Range(logged[m]))
  BY DEF AuditLogTypeOK, LinesInv
<1>1. Cardinality(swallowed) \in Nat
  BY FS_CardinalityType
<1>2. /\ more \in Seq(Logged) /\ IsInjective(more)
      /\ Range(events) = Range(more) \cup Spoilt(events)
      /\ Spoilt(events) \subseteq Logged
      /\ IsFiniteSet(swallowed \cup Spoilt(events))
      /\ Cardinality(swallowed \cup Spoilt(events))
            <= Cardinality(swallowed) + (IF merges /\ events # <<>> THEN 1 ELSE 0)
  <2>1. CASE merges /\ events # <<>>
    <3>1. more = Tail(events) /\ Spoilt(events) = {Head(events)}
      BY <2>1 DEF Readable, Spoilt
    <3>2. /\ Head(events) \in Logged /\ Tail(events) \in Seq(Logged)
          /\ Len(Tail(events)) = Len(events) - 1
          /\ \A i \in 1..Len(Tail(events)) : Tail(events)[i] = events[i + 1]
      BY <2>1, HeadTailProperties
    <3>3. /\ Len(events) \in Nat \ {0} /\ DOMAIN events = 1..Len(events)
          /\ DOMAIN Tail(events) = 1..Len(events) - 1 /\ Head(events) = events[1]
      BY <2>1, <3>2
    <3>4. IsInjective(Tail(events))
      <4> SUFFICES ASSUME NEW i \in 1..Len(events) - 1, NEW j \in 1..Len(events) - 1,
                          Tail(events)[i] = Tail(events)[j]
                   PROVE  i = j
        BY <3>3 DEF IsInjective
      <4>1. i + 1 \in DOMAIN events /\ j + 1 \in DOMAIN events /\ events[i + 1] = events[j + 1]
        BY <3>2, <3>3
      <4>2. i + 1 = j + 1
        BY <4>1 DEF IsInjective
      <4> QED BY <3>3, <4>2
    <3>5. Range(events) = Range(Tail(events)) \cup {Head(events)}
      <4>1. ASSUME NEW i \in DOMAIN events
            PROVE  events[i] \in Range(Tail(events)) \cup {Head(events)}
        <5>1. CASE i = 1
          BY <3>3, <5>1
        <5>2. CASE i # 1
          <6>1. i - 1 \in DOMAIN Tail(events) /\ (i - 1) + 1 = i
            BY <3>3, <5>2
          <6>2. Tail(events)[i - 1] = events[i]
            BY <3>2, <3>3, <6>1
          <6> QED BY <6>1, <6>2 DEF Range
        <5> QED BY <5>1, <5>2
      <4>2. ASSUME NEW i \in DOMAIN Tail(events) PROVE Tail(events)[i] \in Range(events)
        <5>1. i + 1 \in DOMAIN events /\ Tail(events)[i] = events[i + 1]
          BY <3>2, <3>3
        <5> QED BY <5>1 DEF Range
      <4>3. Head(events) \in Range(events)
        BY <3>3 DEF Range
      <4> QED BY <4>1, <4>2, <4>3 DEF Range
    <3>6. /\ IsFiniteSet(swallowed \cup {Head(events)})
          /\ Cardinality(swallowed \cup {Head(events)}) <= Cardinality(swallowed) + 1
      <4> DEFINE first == Head(events)
      <4> HIDE DEF first
      <4>1. /\ IsFiniteSet(swallowed \cup {first})
            /\ Cardinality(swallowed \cup {first}) =
                  IF first \in swallowed THEN Cardinality(swallowed) ELSE Cardinality(swallowed) + 1
        BY FS_AddElement
      <4> QED BY <1>1, <4>1 DEF first
    <3>7. (IF merges /\ events # <<>> THEN 1 ELSE 0) = 1
      BY <2>1
    <3> HIDE DEF more
    <3>8. more \in Seq(Logged) /\ IsInjective(more)
      BY <3>1, <3>2, <3>4
    <3>9. Range(events) = Range(more) \cup Spoilt(events) /\ Spoilt(events) \subseteq Logged
      BY <3>1, <3>2, <3>5
    <3> QED BY <3>1, <3>6, <3>7, <3>8, <3>9
  <2>2. CASE ~(merges /\ events # <<>>)
    <3>1. more = events /\ Spoilt(events) = {}
      BY <2>2 DEF Readable, Spoilt
    <3> QED BY <1>1, <2>2, <3>1
  <2> QED BY <2>1, <2>2
<1>3. Range(logged[open]) \cap Range(more) = {}
  BY <1>2
<1> HIDE DEF more
<1>4. /\ logged[open] \o more \in Seq(Logged) /\ IsInjective(logged[open] \o more)
      /\ Range(logged[open] \o more) = Range(logged[open]) \cup Range(more)
  BY <1>0, <1>2, <1>3, Concatenated
<1>5. /\ logged' \in [Months -> Seq(Logged)] /\ logged'[open] = logged[open] \o more
      /\ \A m \in Months \ {open} : logged'[m] = logged[m]
  BY <1>0, <1>4 DEF more
<1>6. \A m \in Months : IsInjective(logged'[m])
                        /\ Range(logged[m]) \subseteq Range(logged'[m])
                        /\ Range(logged'[m]) \subseteq Range(logged[m]) \cup Range(events)
  BY <1>0, <1>2, <1>4, <1>5
<1>7. \A m \in Months : Numbered(Range(logged'[m]))
  BY <1>0, <1>6 DEF Numbered
<1>8. Range(events) \subseteq Range(logged'[open]) \cup swallowed'
  BY <1>2, <1>4, <1>5
<1> QED BY <1>0, <1>2, <1>5, <1>6, <1>7, <1>8

\* One more event at the end.
LEMMA Appended ==
    ASSUME NEW q \in Seq(Logged), NEW x \in Logged, IsInjective(q), x \notin Range(q)
    PROVE  /\ Append(q, x) \in Seq(Logged) /\ IsInjective(Append(q, x))
           /\ Range(Append(q, x)) = Range(q) \cup {x} /\ Append(q, x) # <<>>
<1> DEFINE one == <<x>>
           longer == Append(q, x)
<1>1. one \in Seq(Logged) /\ Range(one) = {x} /\ IsInjective(one)
  BY DEF Range, IsInjective
<1>2. longer = q \o one /\ longer # <<>>
  BY AppendIsConcat, AppendProperties
<1>3. Range(q) \cap Range(one) = {}
  BY <1>1
<1> HIDE DEF one, longer
<1>4. q \o one \in Seq(Logged) /\ IsInjective(q \o one) /\ Range(q \o one) = Range(q) \cup Range(one)
  BY <1>1, <1>3, Concatenated
<1>5. longer \in Seq(Logged) /\ IsInjective(longer) /\ Range(longer) = Range(q) \cup {x}
  BY <1>1, <1>2, <1>4
<1> QED BY <1>2, <1>5 DEF longer

\* The open file is closed, with a line left incomplete or without.
LEMMA OneMoreTorn ==
    ASSUME AuditLogTypeOK, open # NoMonth, ~dead, NEW b \in BOOLEAN,
           torn' = [torn EXCEPT ![open] = b]
    PROVE  /\ torn' \in [Months -> BOOLEAN] /\ \A m \in Months \ {open} : torn'[m] = torn[m]
           /\ Cardinality(Torn') = Cardinality(TornClosed) + (IF b THEN 1 ELSE 0)
<1>1. open \in Months /\ torn \in [Months -> BOOLEAN]
  BY DEF AuditLogTypeOK
<1>2. /\ torn' \in [Months -> BOOLEAN] /\ torn'[open] = b
      /\ \A m \in Months \ {open} : torn'[m] = torn[m]
  BY <1>1
<1>3. TornClosed = {m \in Months : torn[m] /\ m # open}
  BY DEF TornClosed, Torn
<1>4. IsFiniteSet(TornClosed) /\ Cardinality(TornClosed) \in Nat /\ open \notin TornClosed
  BY <1>3, MonthsFinite
<1>5. CASE b
  <2>1. Torn' = TornClosed \cup {open}
    BY <1>1, <1>2, <1>3, <1>5 DEF Torn
  <2>2. Cardinality(TornClosed \cup {open}) =
           IF open \in TornClosed THEN Cardinality(TornClosed) ELSE Cardinality(TornClosed) + 1
    BY <1>4, FS_AddElement
  <2> QED BY <1>2, <1>4, <1>5, <2>1, <2>2
<1>6. CASE ~b
  <2>1. Torn' = TornClosed
    BY <1>1, <1>2, <1>3, <1>6 DEF Torn
  <2> QED BY <1>2, <1>4, <1>6, <2>1
<1> QED BY <1>5, <1>6

LEMMA TornCounts ==
    ASSUME AuditLogInv
    PROVE  /\ Cardinality(swallowed) \in Nat /\ Cardinality(TornClosed) \in Nat /\ tears \in Nat
           /\ Cardinality(swallowed) + Cardinality(TornClosed) + Owing <= tears
           /\ Owing = IF merges THEN 1 ELSE 0
           /\ open = NoMonth \/ dead => TornClosed = Torn
<1>1. Cardinality(TornClosed) \in Nat
  BY MonthsFinite DEF TornClosed, Torn
<1>2. Cardinality(swallowed) \in Nat
  BY FS_CardinalityType DEF AuditLogInv, TornInv
<1>3. open = NoMonth \/ dead => TornClosed = Torn
  BY MonthsFinite DEF TornClosed, Torn
<1> QED BY <1>1, <1>2, <1>3 DEF AuditLogInv, AuditLogTypeOK, TornInv, Owing

LEMMA ClosedFile ==
    ASSUME AuditLogInv, CloseFile
    PROVE  /\ logged' \in [Months -> Seq(Logged)] /\ swallowed' \subseteq Logged
           /\ torn' \in [Months -> BOOLEAN] /\ \A m \in Months \ {open} : torn'[m] = torn[m]
           /\ \A m \in Months : IsInjective(logged'[m]) /\ Numbered(Range(logged'[m]))
           /\ \A m \in Months : /\ Range(logged[m]) \subseteq Range(logged'[m])
                                /\ Range(logged'[m]) \subseteq Range(logged[m]) \cup Range(buffer)
           /\ swallowed \subseteq swallowed' /\ IsFiniteSet(swallowed')
           /\ Cardinality(swallowed') + Cardinality(Torn') <= tears
<1>1. AuditLogTypeOK /\ LinesInv /\ IsFiniteSet(swallowed)
  BY DEF AuditLogInv, TornInv
<1>2. CASE open = NoMonth \/ dead
  <2>1. UNCHANGED <<logged, swallowed, torn>>
    BY <1>2 DEF CloseFile
  <2>2. Torn' = Torn /\ TornClosed = Torn
    BY <1>2, <2>1, TornCounts DEF Torn
  <2>3. Cardinality(swallowed') + Cardinality(Torn') <= tears
    BY <2>1, <2>2, TornCounts
  <2> QED BY <1>1, <2>1, <2>3 DEF AuditLogTypeOK, LinesInv
<1>3. CASE open # NoMonth /\ ~dead
  <2>1. /\ logged' = [logged EXCEPT ![open] = @ \o Readable(buffer)]
        /\ swallowed' = swallowed \cup Spoilt(buffer)
        /\ torn' = [torn EXCEPT ![open] = merges /\ buffer = <<>>]
    BY <1>3 DEF CloseFile
  <2>2. open \in Months /\ buffer \in Seq(Logged)
    BY <1>1, <1>3 DEF AuditLogTypeOK
  <2>3. /\ IsInjective(buffer) /\ Numbered(Range(buffer))
        /\ \A m \in Months : Range(logged[m]) \cap Range(buffer) = {}
    BY <1>1 DEF LinesInv
  <2>4. /\ logged' \in [Months -> Seq(Logged)] /\ swallowed' \subseteq Logged
        /\ \A m \in Months : IsInjective(logged'[m]) /\ Numbered(Range(logged'[m]))
        /\ \A m \in Months : /\ Range(logged[m]) \subseteq Range(logged'[m])
                             /\ Range(logged'[m]) \subseteq Range(logged[m]) \cup Range(buffer)
        /\ swallowed \subseteq swallowed' /\ IsFiniteSet(swallowed')
        /\ Cardinality(swallowed')
             <= Cardinality(swallowed) + (IF merges /\ buffer # <<>> THEN 1 ELSE 0)
    BY <1>1, <2>1, <2>2, <2>3, WrittenOut
  <2> DEFINE b == merges /\ buffer = <<>>
  <2>5. b \in BOOLEAN /\ torn' = [torn EXCEPT ![open] = b]
    BY <2>1
  <2> HIDE DEF b
  <2>6. /\ torn' \in [Months -> BOOLEAN] /\ \A m \in Months \ {open} : torn'[m] = torn[m]
        /\ Cardinality(Torn') = Cardinality(TornClosed) + (IF b THEN 1 ELSE 0)
    BY <1>1, <1>3, <2>5, OneMoreTorn
  <2>7. Cardinality(swallowed') \in Nat
    BY <2>4, FS_CardinalityType
  <2>8. Cardinality(swallowed') + Cardinality(Torn') <= tears
    BY <2>4, <2>6, <2>7, TornCounts DEF b
  <2> QED BY <2>4, <2>6, <2>8
<1> QED BY <1>2, <1>3

\* A file that is closed is damaged no further.
LEMMA CloseDamage ==
    ASSUME AuditLogInv, CloseFile, UNCHANGED <<garbled, tears>>
    PROVE  Damaged' \subseteq Damaged /\ Cardinality(Damaged') <= tears'
<1>1. AuditLogTypeOK /\ DamagedInv /\ tears \in Nat
  BY DEF AuditLogInv, AuditLogTypeOK
<1>2. ASSUME NEW m \in Months, torn'[m] PROVE torn[m]
  BY <1>1, <1>2 DEF CloseFile, AuditLogTypeOK, DamagedInv
<1>3. Damaged' \subseteq Damaged
  BY <1>2 DEF Damaged
<1>4. PICK m \in Months : TRUE
  BY AuditLogAssumption DEF Months, Month
<1> QED BY <1>1, <1>3, <1>4, DamageCounts

LEMMA Abandoned ==
    ASSUME AuditLogInv, NEW some \in BOOLEAN, NEW cut \in BOOLEAN, Abandon(some, cut)
    PROVE  /\ torn' \in [Months -> BOOLEAN] /\ garbled' \in [Months -> BOOLEAN] /\ tears' \in Nat
           /\ Cardinality(swallowed) + Cardinality(Torn') <= tears'
           /\ Cardinality(Damaged') <= tears'
<1>1. /\ AuditLogTypeOK /\ DamagedInv /\ tears \in Nat /\ tears' \in Nat
      /\ tears' = tears + (IF some /\ ~merges THEN 1 ELSE 0)
  BY DEF AuditLogInv, AuditLogTypeOK, Abandon
<1>2. CASE open = NoMonth \/ dead
  <2>1. torn' = torn /\ garbled' = garbled
    BY <1>2 DEF Abandon
  <2>2. Torn' = Torn /\ TornClosed = Torn /\ Damaged' = Damaged
    BY <1>2, <2>1, TornCounts DEF Torn, Damaged
  <2>3. tears <= tears' /\ Cardinality(Damaged) <= tears /\ Cardinality(Damaged) \in Nat
    BY <1>1, MonthsFinite DEF DamagedInv, Damaged
  <2> QED BY <1>1, <2>1, <2>2, <2>3, TornCounts DEF AuditLogTypeOK
<1>3. CASE open # NoMonth /\ ~dead
  <2> DEFINE b == merges \/ some
  <2>1. b \in BOOLEAN /\ torn' = [torn EXCEPT ![open] = b] /\ open \in Months
    BY <1>1, <1>3 DEF Abandon, AuditLogTypeOK
  <2>2. /\ garbled' \in [Months -> BOOLEAN]
        /\ \A m \in Months \ {open} : garbled'[m] = garbled[m] /\ torn'[m] = torn[m]
        /\ ~some => garbled' = garbled
        /\ torn'[open] = b
    <3>1. garbled' = [garbled EXCEPT ![open] = @ \/ (some /\ cut)]
      BY <1>3 DEF Abandon
    <3>2. torn \in [Months -> BOOLEAN] /\ garbled \in [Months -> BOOLEAN]
      BY <1>1 DEF AuditLogTypeOK
    <3> HIDE DEF b
    <3>3. garbled' \in [Months -> BOOLEAN]
      BY <2>1, <3>1, <3>2
    <3>4. \A m \in Months \ {open} : garbled'[m] = garbled[m] /\ torn'[m] = torn[m]
      BY <2>1, <3>1, <3>2
    <3>5. ~some => garbled' = garbled
      BY <2>1, <3>1, <3>2
    <3>6. torn'[open] = b
      BY <2>1, <3>2
    <3> QED BY <3>3, <3>4, <3>5, <3>6
  <2>3. \/ Damaged' \subseteq Damaged /\ tears <= tears'
        \/ Damaged' \subseteq Damaged \cup {open} /\ tears' = tears + 1
    <3>1. CASE some /\ ~merges
      BY <1>1, <2>2, <3>1 DEF Damaged
    <3>2. CASE merges
      <4>1. torn[open]
        BY <1>1, <3>2 DEF DamagedInv
      <4> QED BY <1>1, <2>1, <2>2, <3>2, <4>1 DEF Damaged
    <3>3. CASE ~some /\ ~merges
      <4>1. garbled' = garbled /\ ~torn'[open]
        BY <2>2, <3>3
      <4> QED BY <1>1, <2>1, <2>2, <3>3, <4>1 DEF Damaged
    <3> QED BY <3>1, <3>2, <3>3
  <2>4. Cardinality(Damaged') <= tears'
    BY <1>1, <2>1, <2>3, DamageCounts
  <2> HIDE DEF b
  <2>5. /\ torn' \in [Months -> BOOLEAN]
        /\ Cardinality(Torn') = Cardinality(TornClosed) + (IF b THEN 1 ELSE 0)
    BY <1>1, <1>3, <2>1, OneMoreTorn
  <2> QED BY <1>1, <2>2, <2>4, <2>5, TornCounts DEF b
<1> QED BY <1>2, <1>3

\* The file object is gone: its events are written out or lost.
LEMMA HandleGone ==
    ASSUME AuditLogInv, AuditLogTypeOK', TornInv', DamagedInv',
           \A m \in Months : IsInjective(logged'[m]) /\ Numbered(Range(logged'[m])),
           \A m \in Months : /\ Range(logged[m]) \subseteq Range(logged'[m])
                             /\ Range(logged'[m]) \subseteq Range(logged[m]) \cup Range(buffer),
           swallowed \subseteq swallowed', buffer' = <<>>, UNCHANGED <<emitted, acked>>,
           \A e \in Emitters : stamped'[e] = stamped[e] \/ stamped'[e] = NoEvent
    PROVE  AuditLogInv'
<1>1. Range(buffer') = {} /\ IsInjective(buffer')
  BY DEF Range, IsInjective
<1>2. LinesInv'
  BY <1>1 DEF LinesInv, Numbered
<1>3. WaitingInv'
  <2>1. WaitingInv
    BY DEF AuditLogInv
  <2> QED BY <1>1, <2>1 DEF WaitingInv
<1>4. FoundInv'
  <2>1. \A event \in acked : Month(event.time) \in Months
    BY MonthTypes DEF AuditLogInv, AuditLogTypeOK
  <2> QED BY <2>1 DEF AuditLogInv, FoundInv
<1> QED BY <1>2, <1>3, <1>4 DEF AuditLogInv

LEMMA RotateInv ==
    ASSUME AuditLogInv, NEW e \in Emitters, Rotate(e)
    PROVE  AuditLogInv'
<1> DEFINE month == Month(stamped[e].time)
<1>1. /\ stamped[e] # NoEvent /\ open # month /\ CloseFile /\ merges' = torn[month]
      /\ open' = month /\ dead' = FALSE
      /\ buffer' = <<>> /\ partial' = FALSE /\ split' = FALSE
      /\ UNCHANGED <<moment, stamped, garbled, emitted, acked, tears, writeFaults, restarts>>
  BY DEF Rotate
<1>2. month \in Months
  BY <1>1, MonthTypes DEF AuditLogInv, AuditLogTypeOK
<1> HIDE DEF month
<1>3. AuditLogTypeOK /\ torn[month] \in BOOLEAN /\ buffer' \in Seq(Logged)
  BY <1>1, <1>2 DEF AuditLogInv, AuditLogTypeOK
<1>4. AuditLogTypeOK'
  <2>1. logged' \in [Months -> Seq(Logged)] /\ swallowed' \subseteq Logged /\ torn' \in [Months -> BOOLEAN]
    BY <1>1, ClosedFile
  <2>2. dead' \in BOOLEAN /\ partial' \in BOOLEAN /\ split' \in BOOLEAN /\ merges' \in BOOLEAN
    BY <1>1, <1>3
  <2> QED BY <1>1, <1>2, <1>3, <2>1, <2>2 DEF AuditLogTypeOK
<1>5. TornInv'
  <2>1. TornClosed' = Torn' \ {month} /\ torn'[month] = torn[month]
    BY <1>1, <1>2, ClosedFile DEF TornClosed
  <2>2. IsFiniteSet(Torn') /\ Cardinality(Torn') \in Nat
    BY MonthsFinite DEF Torn
  <2>3. Cardinality(Torn' \ {month}) =
           IF month \in Torn' THEN Cardinality(Torn') - 1 ELSE Cardinality(Torn')
    BY <2>2, FS_RemoveElement
  <2>4. month \in Torn' <=> merges'
    BY <1>1, <1>2, <2>1 DEF Torn
  <2>5. Cardinality(Torn' \ {month}) + Owing' <= Cardinality(Torn')
    BY <2>2, <2>3, <2>4 DEF Owing
  <2>6. /\ IsFiniteSet(swallowed') /\ Cardinality(swallowed') \in Nat
        /\ Cardinality(swallowed') + Cardinality(Torn') <= tears
    BY <1>1, ClosedFile, FS_CardinalityType
  <2>7. Cardinality(Torn' \ {month}) \in Nat /\ Owing' \in Nat
    BY <2>2, <2>1, MonthsFinite DEF Owing, TornClosed, Torn
  <2> QED BY <1>1, <1>3, <2>1, <2>2, <2>5, <2>6, <2>7 DEF TornInv, AuditLogTypeOK
<1>6. DamagedInv'
  <2>1. merges' => torn'[month]
    BY <1>1, <1>2, ClosedFile
  <2> QED BY <1>1, <1>2, <2>1, CloseDamage DEF DamagedInv
<1> QED BY <1>1, <1>4, <1>5, <1>6, ClosedFile, HandleGone

\* No file is open, or the open one can no longer be written.
LEMMA NothingOwed ==
    ASSUME AuditLogInv, open' = NoMonth \/ dead', merges' = FALSE, tears' \in Nat,
           IsFiniteSet(swallowed'), Cardinality(swallowed') + Cardinality(Torn') <= tears'
    PROVE  TornInv'
<1>1. TornClosed' = Torn'
  BY MonthsFinite DEF TornClosed, Torn
<1>2. Cardinality(Torn') \in Nat /\ Cardinality(swallowed') \in Nat
  BY MonthsFinite, FS_CardinalityType DEF Torn
<1> QED BY <1>1, <1>2 DEF TornInv, Owing

LEMMA CloseSinkInv ==
    ASSUME AuditLogInv, CloseFile, BufferGone, open' = NoMonth, dead' = FALSE,
           UNCHANGED <<moment, garbled, emitted, acked, tears, restarts>>,
           writeFaults' \in Nat, stamped' \in [Emitters -> Logged \cup {NoEvent}],
           \A e \in Emitters : stamped'[e] = stamped[e] \/ stamped'[e] = NoEvent
    PROVE  AuditLogInv'
<1>1. AuditLogTypeOK /\ tears' \in Nat
  BY DEF AuditLogInv, AuditLogTypeOK
<1>2. AuditLogTypeOK'
  <2>1. logged' \in [Months -> Seq(Logged)] /\ swallowed' \subseteq Logged /\ torn' \in [Months -> BOOLEAN]
    BY ClosedFile
  <2>2. dead' \in BOOLEAN /\ partial' \in BOOLEAN /\ split' \in BOOLEAN /\ merges' \in BOOLEAN
    BY DEF BufferGone
  <2>3. buffer' \in Seq(Logged)
    BY DEF BufferGone
  <2> QED BY <1>1, <2>1, <2>2, <2>3 DEF AuditLogTypeOK
<1>3. TornInv'
  BY <1>1, ClosedFile, NothingOwed DEF BufferGone
<1>4. DamagedInv'
  BY CloseDamage DEF BufferGone, DamagedInv
<1> QED BY <1>2, <1>3, <1>4, ClosedFile, HandleGone DEF BufferGone

LEMMA AbandonInv ==
    ASSUME AuditLogInv, NEW some \in BOOLEAN, NEW cut \in BOOLEAN, Abandon(some, cut),
           open' = NoMonth \/ (open' = open /\ dead'), dead' \in BOOLEAN,
           UNCHANGED <<moment, logged, emitted, acked, swallowed>>,
           writeFaults' \in Nat, restarts' \in Nat, stamped' \in [Emitters -> Logged \cup {NoEvent}],
           \A e \in Emitters : stamped'[e] = stamped[e] \/ stamped'[e] = NoEvent
    PROVE  AuditLogInv'
<1>1. /\ AuditLogTypeOK /\ LinesInv
      /\ buffer' = <<>> /\ partial' = FALSE /\ split' = FALSE /\ merges' = FALSE
  BY DEF AuditLogInv, Abandon, BufferGone
<1>2. AuditLogTypeOK'
  <2>1. torn' \in [Months -> BOOLEAN] /\ garbled' \in [Months -> BOOLEAN] /\ tears' \in Nat
    BY Abandoned
  <2>2. partial' \in BOOLEAN /\ split' \in BOOLEAN /\ merges' \in BOOLEAN
    BY <1>1
  <2>3. buffer' \in Seq(Logged)
    BY <1>1
  <2> QED BY <1>1, <2>1, <2>2, <2>3 DEF AuditLogTypeOK
<1>3. TornInv'
  BY <1>1, Abandoned, NothingOwed DEF AuditLogInv, TornInv
<1>4. DamagedInv'
  BY <1>1, Abandoned DEF DamagedInv
<1> QED BY <1>1, <1>2, <1>3, <1>4, HandleGone DEF LinesInv

LEMMA WriteLineInv ==
    ASSUME AuditLogInv, NEW e \in Emitters, WriteLine(e)
    PROVE  AuditLogInv'
<1> DEFINE event == stamped[e]
           all == Append(buffer, event)
<1>0. AuditLogTypeOK /\ LinesInv /\ WaitingInv /\ IsFiniteSet(swallowed) /\ FoundInv
  BY DEF AuditLogInv, TornInv
<1>1. /\ event # NoEvent /\ open = Month(event.time)
      /\ logged' = [logged EXCEPT ![open] = @ \o Readable(all)]
      /\ swallowed' = swallowed \cup Spoilt(all)
      /\ buffer' = <<>> /\ partial' = FALSE /\ split' = FALSE /\ merges' = FALSE
      /\ acked' = acked \cup {event}
      /\ stamped' = [stamped EXCEPT ![e] = NoEvent]
      /\ UNCHANGED <<moment, torn, garbled, open, dead, emitted, tears, writeFaults, restarts>>
  BY DEF WriteLine, BufferGone
<1>2. event \in Logged /\ open \in Months
  BY <1>0, <1>1, MonthTypes DEF AuditLogTypeOK
<1>3. /\ event.id <= emitted /\ event \notin Range(buffer)
      /\ \A m \in Months : event \notin Range(logged[m])
  BY <1>0, <1>1 DEF WaitingInv
<1>4. all \in Seq(Logged) /\ IsInjective(all) /\ Range(all) = Range(buffer) \cup {event} /\ all # <<>>
  BY <1>0, <1>2, <1>3, Appended DEF AuditLogTypeOK, LinesInv
<1>5. Numbered(Range(all)) /\ \A m \in Months : Range(logged[m]) \cap Range(all) = {}
  BY <1>0, <1>3, <1>4 DEF Numbered, LinesInv
<1>6. event \in Range(all)
  BY <1>4
<1> HIDE DEF all
<1>7. /\ logged' \in [Months -> Seq(Logged)] /\ swallowed' \subseteq Logged
      /\ \A m \in Months : IsInjective(logged'[m]) /\ Numbered(Range(logged'[m]))
      /\ \A m \in Months : /\ Range(logged[m]) \subseteq Range(logged'[m])
                           /\ Range(logged'[m]) \subseteq Range(logged[m]) \cup Range(all)
      /\ swallowed \subseteq swallowed'
      /\ Range(all) \subseteq Range(logged'[open]) \cup swallowed'
      /\ IsFiniteSet(swallowed')
      /\ Cardinality(swallowed')
           <= Cardinality(swallowed) + (IF merges /\ all # <<>> THEN 1 ELSE 0)
  BY <1>0, <1>1, <1>2, <1>4, <1>5, WrittenOut
<1>8. Range(buffer') = {} /\ IsInjective(buffer') /\ buffer' \in Seq(Logged)
  BY <1>1 DEF Range, IsInjective
<1> HIDE DEF event
<1>9. stamped' \in [Emitters -> Logged \cup {NoEvent}]
      /\ \A f \in Emitters : stamped'[f] = IF f = e THEN NoEvent ELSE stamped[f]
  BY <1>0, <1>1 DEF AuditLogTypeOK
<1>10. AuditLogTypeOK'
  <2>1. partial' \in BOOLEAN /\ split' \in BOOLEAN /\ merges' \in BOOLEAN
    BY <1>1
  <2>2. acked' \subseteq Logged
    BY <1>0, <1>1, <1>2 DEF AuditLogTypeOK
  <2> QED BY <1>0, <1>1, <1>7, <1>8, <1>9, <2>1, <2>2 DEF AuditLogTypeOK
<1>11. LinesInv'
  BY <1>1, <1>7, <1>8 DEF LinesInv, Numbered
<1>12. WaitingInv'
  <2> SUFFICES ASSUME NEW f \in Emitters, stamped'[f] # NoEvent
               PROVE  /\ stamped'[f].id <= emitted'
                      /\ stamped'[f] \notin Range(buffer')
                      /\ \A m \in Months : stamped'[f] \notin Range(logged'[m])
                      /\ \A g \in Emitters : f # g => stamped'[f] # stamped'[g]
    BY DEF WaitingInv
  <2>1. f # e /\ stamped'[f] = stamped[f]
    BY <1>9
  <2>2. stamped[f] # event /\ stamped[f] \notin Range(buffer)
    BY <1>0, <2>1 DEF WaitingInv, event
  <2>3. stamped[f] \notin Range(all)
    BY <1>4, <2>2
  <2> QED BY <1>0, <1>1, <1>7, <1>8, <1>9, <2>1, <2>3 DEF WaitingInv
<1>13. FoundInv'
  <2>1. ASSUME NEW x \in acked PROVE x \in swallowed' \/ x \in Range(logged'[Month(x.time)])
    <3>1. Month(x.time) \in Months
      BY <1>0, MonthTypes DEF AuditLogTypeOK
    <3> QED BY <1>0, <1>7, <3>1 DEF FoundInv
  <2>2. event \in swallowed' \/ event \in Range(logged'[Month(event.time)])
    BY <1>1, <1>6, <1>7
  <2> QED BY <1>1, <2>1, <2>2 DEF FoundInv
<1>14. TornInv'
  <2>1. TornClosed' = TornClosed
    BY <1>1 DEF TornClosed, Torn
  <2>2. Cardinality(swallowed') \in Nat
    BY <1>7, FS_CardinalityType
  <2> QED BY <1>1, <1>4, <1>7, <2>1, <2>2, TornCounts DEF TornInv, Owing
<1>15. DamagedInv'
  BY <1>1 DEF AuditLogInv, DamagedInv, Damaged
<1> QED BY <1>10, <1>11, <1>12, <1>13, <1>14, <1>15 DEF AuditLogInv

LEMMA WriteFaultInv ==
    ASSUME AuditLogInv, NEW e \in Emitters, WriteFault(e)
    PROVE  AuditLogInv'
<1> DEFINE event == stamped[e]
<1>0. AuditLogTypeOK /\ LinesInv /\ WaitingInv /\ FoundInv /\ TornInv /\ DamagedInv
  BY DEF AuditLogInv
<1>1. /\ event # NoEvent /\ buffer' = Append(buffer, event) /\ partial' \in {partial, TRUE}
      /\ split' \in BOOLEAN /\ (split' => partial')
      /\ stamped' = [stamped EXCEPT ![e] = NoEvent] /\ writeFaults' = writeFaults + 1
      /\ UNCHANGED <<moment, logged, torn, garbled, open, dead, merges, emitted, acked, swallowed,
                     tears, restarts>>
  BY DEF WriteFault, FaultCounted
<1>2. event \in Logged
  BY <1>0, <1>1 DEF AuditLogTypeOK
<1>3. /\ event.id <= emitted /\ event \notin Range(buffer)
      /\ \A m \in Months : event \notin Range(logged[m])
  BY <1>0, <1>1 DEF WaitingInv
<1>4. buffer' \in Seq(Logged) /\ IsInjective(buffer') /\ Range(buffer') = Range(buffer) \cup {event}
  BY <1>0, <1>1, <1>2, <1>3, Appended DEF AuditLogTypeOK, LinesInv
<1>5. stamped' \in [Emitters -> Logged \cup {NoEvent}]
      /\ \A f \in Emitters : stamped'[f] = IF f = e THEN NoEvent ELSE stamped[f]
  BY <1>0, <1>1 DEF AuditLogTypeOK
<1>6. AuditLogTypeOK'
  <2>1. partial' \in BOOLEAN /\ split' \in BOOLEAN
    BY <1>0, <1>1 DEF AuditLogTypeOK
  <2>2. writeFaults' \in Nat
    BY <1>0, <1>1 DEF AuditLogTypeOK
  <2> QED BY <1>0, <1>1, <1>4, <1>5, <2>1, <2>2 DEF AuditLogTypeOK
<1>7. LinesInv'
  BY <1>0, <1>1, <1>3, <1>4 DEF LinesInv, Numbered
<1>8. WaitingInv'
  <2>1. ASSUME NEW f \in Emitters, stamped'[f] # NoEvent PROVE stamped[f] # event /\ f # e
    BY <1>0, <1>5, <2>1 DEF WaitingInv
  <2> QED BY <1>0, <1>1, <1>4, <1>5, <2>1 DEF WaitingInv
<1>9. FoundInv' /\ TornInv' /\ DamagedInv'
  BY <1>0, <1>1 DEF FoundInv, TornInv, TornClosed, Torn, Owing, DamagedInv, Damaged
<1> QED BY <1>6, <1>7, <1>8, <1>9 DEF AuditLogInv

LEMMA StampInv ==
    ASSUME AuditLogInv, NEW e \in Emitters, Stamp(e)
    PROVE  AuditLogInv'
<1> DEFINE event == [id |-> emitted + 1, time |-> moment]
<1>0. AuditLogTypeOK /\ LinesInv /\ WaitingInv /\ FoundInv /\ TornInv /\ DamagedInv
  BY DEF AuditLogInv
<1>1. /\ emitted < MaxEvents /\ emitted' = emitted + 1
      /\ stamped' = [stamped EXCEPT ![e] = event]
      /\ UNCHANGED <<moment, logged, torn, garbled, handleVars, acked, swallowed, tears, writeFaults, restarts>>
  BY DEF Stamp
<1>2. emitted \in 0..MaxEvents /\ MaxEvents \in Nat /\ moment \in 0..MaxMoment
  BY <1>0, AuditLogAssumption DEF AuditLogTypeOK
<1>3. event \in Logged /\ event.id = emitted + 1 /\ emitted' \in 0..MaxEvents
  BY <1>1, <1>2 DEF Logged
<1> HIDE DEF event
<1>4. stamped' \in [Emitters -> Logged \cup {NoEvent}]
      /\ \A f \in Emitters : stamped'[f] = IF f = e THEN event ELSE stamped[f]
  BY <1>0, <1>1, <1>3 DEF AuditLogTypeOK
<1>5. AuditLogTypeOK'
  BY <1>0, <1>1, <1>3, <1>4 DEF AuditLogTypeOK, handleVars
<1>6. \A x \in Logged : x.id \in Nat /\ (x.id <= emitted => x.id <= emitted' /\ x # event)
  <2> SUFFICES ASSUME NEW x \in Logged
               PROVE  x.id \in Nat /\ (x.id <= emitted => x.id <= emitted' /\ x # event)
    OBVIOUS
  <2>1. x.id \in 1..MaxEvents
    BY MonthTypes
  <2> QED BY <1>1, <1>2, <1>3, <2>1
<1>7. /\ \A m \in Months : Range(logged[m]) \subseteq Logged
      /\ Range(buffer) \subseteq Logged
  BY <1>0 DEF AuditLogTypeOK, Range
<1>8. LinesInv'
  BY <1>0, <1>1, <1>6, <1>7 DEF LinesInv, Numbered, handleVars
<1>9. WaitingInv'
  <2>1. event \notin Range(buffer) /\ \A m \in Months : event \notin Range(logged[m])
    BY <1>0, <1>6, <1>7 DEF LinesInv, Numbered
  <2>2. ASSUME NEW f \in Emitters, stamped[f] # NoEvent
        PROVE  stamped[f] # event /\ stamped[f].id <= emitted'
    BY <1>0, <1>6, <2>2 DEF WaitingInv, AuditLogTypeOK
  <2>3. event.id <= emitted'
    BY <1>1, <1>2, <1>3
  <2> SUFFICES ASSUME NEW f \in Emitters, stamped'[f] # NoEvent
               PROVE  /\ stamped'[f].id <= emitted'
                      /\ stamped'[f] \notin Range(buffer')
                      /\ \A m \in Months : stamped'[f] \notin Range(logged'[m])
                      /\ \A g \in Emitters : f # g => stamped'[f] # stamped'[g]
    BY DEF WaitingInv
  <2>4. CASE f = e
    <3>1. stamped'[f] = event
      BY <1>4, <2>4
    <3>2. \A g \in Emitters : f # g => stamped'[f] # stamped'[g]
      BY <1>4, <2>2, <2>4, <3>1
    <3> QED BY <1>1, <2>1, <2>3, <3>1, <3>2 DEF handleVars
  <2>5. CASE f # e
    <3>1. stamped'[f] = stamped[f]
      BY <1>4, <2>5
    <3> QED BY <1>0, <1>1, <1>4, <2>2, <2>5, <3>1 DEF WaitingInv, handleVars
  <2> QED BY <2>4, <2>5
<1>10. FoundInv' /\ TornInv' /\ DamagedInv'
  BY <1>0, <1>1
  DEF FoundInv, TornInv, TornClosed, Torn, Owing, DamagedInv, Damaged, handleVars
<1> QED BY <1>5, <1>8, <1>9, <1>10 DEF AuditLogInv

LEMMA AuditLogStep == AuditLogInv /\ [AuditLogNext]_auditLogVars => AuditLogInv'
<1> SUFFICES ASSUME AuditLogInv, [AuditLogNext]_auditLogVars PROVE AuditLogInv'
  OBVIOUS
<1>0. AuditLogTypeOK /\ LinesInv /\ WaitingInv /\ FoundInv /\ TornInv /\ DamagedInv
  BY DEF AuditLogInv
<1>1. CASE UNCHANGED auditLogVars \/ Clock
  <2>1. UNCHANGED <<logged, torn, garbled, handleVars, stamped, emitted, acked, swallowed, tears, writeFaults,
                    restarts>>
    BY <1>1 DEF auditLogVars, Clock
  <2>2. moment' \in 0..MaxMoment
    BY <1>0, <1>1, AuditLogAssumption DEF auditLogVars, Clock, AuditLogTypeOK
  <2>3. AuditLogTypeOK'
    BY <1>0, <2>1, <2>2 DEF AuditLogTypeOK, handleVars
  <2>4. LinesInv' /\ WaitingInv' /\ FoundInv' /\ TornInv' /\ DamagedInv'
    BY <1>0, <2>1
    DEF LinesInv, Numbered, WaitingInv, FoundInv, TornInv, TornClosed, Torn, Owing,
                      DamagedInv, Damaged, handleVars
  <2> QED BY <2>3, <2>4 DEF AuditLogInv
<1>2. CASE CloseSink
  BY <1>0, <1>2, CloseSinkInv DEF CloseSink, AuditLogTypeOK
<1>3. CASE RestartSink
  <2>1. stamped' \in [Emitters -> Logged \cup {NoEvent}] /\ \A e \in Emitters : stamped'[e] = NoEvent
    BY <1>3 DEF RestartSink
  <2>2. writeFaults' \in Nat /\ restarts' \in Nat
    BY <1>0, <1>3 DEF RestartSink, AuditLogTypeOK
  <2>3. open' = NoMonth /\ dead' = FALSE
    BY <1>3 DEF RestartSink
  <2>4. dead' \in BOOLEAN
    BY <2>3
  <2>5. PICK some \in BOOLEAN, cut \in BOOLEAN : Abandon(some, cut)
    BY <1>0, <1>3 DEF RestartSink, AuditLogTypeOK
  <2> QED BY <1>3, <2>1, <2>2, <2>3, <2>4, <2>5, AbandonInv DEF RestartSink
<1>4. ASSUME NEW e \in Emitters, WriteDead(e) PROVE AuditLogInv'
  <2>1. /\ stamped' = [stamped EXCEPT ![e] = NoEvent]
        /\ UNCHANGED <<moment, logged, torn, garbled, handleVars, emitted, acked, swallowed, tears, writeFaults,
                       restarts>>
    BY <1>4 DEF WriteDead
  <2>2. stamped' \in [Emitters -> Logged \cup {NoEvent}]
        /\ \A f \in Emitters : stamped'[f] = IF f = e THEN NoEvent ELSE stamped[f]
    BY <1>0, <2>1 DEF AuditLogTypeOK
  <2>3. AuditLogTypeOK'
    BY <1>0, <2>1, <2>2 DEF AuditLogTypeOK, handleVars
  <2>4. WaitingInv'
    BY <1>0, <2>1, <2>2 DEF WaitingInv, handleVars
  <2>5. LinesInv' /\ FoundInv' /\ TornInv' /\ DamagedInv'
    BY <1>0, <2>1
    DEF LinesInv, Numbered, FoundInv, TornInv, TornClosed, Torn, Owing, DamagedInv,
                      Damaged, handleVars
  <2> QED BY <2>3, <2>4, <2>5 DEF AuditLogInv
<1>5. ASSUME NEW e \in Emitters, RotateFault(e) PROVE AuditLogInv'
  <2>1. /\ writeFaults' \in Nat /\ stamped' = [stamped EXCEPT ![e] = NoEvent]
        /\ UNCHANGED <<moment, emitted, acked, restarts>> /\ restarts' \in Nat
    BY <1>0, <1>5 DEF RotateFault, FaultCounted, AuditLogTypeOK
  <2>2. stamped' \in [Emitters -> Logged \cup {NoEvent}]
        /\ \A f \in Emitters : stamped'[f] = stamped[f] \/ stamped'[f] = NoEvent
    BY <1>0, <2>1 DEF AuditLogTypeOK
  <2>3. ASSUME NEW some \in BOOLEAN, NEW cut \in BOOLEAN, Abandon(some, cut), dead' = TRUE,
               UNCHANGED <<open, logged, swallowed>>
        PROVE  AuditLogInv'
    <3>1. dead' \in BOOLEAN /\ dead'
      BY <2>3
    <3> QED BY <2>1, <2>2, <2>3, <3>1, AbandonInv
  <2>4. CASE /\ CloseFile /\ open' = NoMonth /\ dead' = FALSE
             /\ BufferGone /\ UNCHANGED <<garbled, tears>>
    BY <2>1, <2>2, <2>4, CloseSinkInv
  <2> QED BY <1>0, <1>5, <2>3, <2>4 DEF RotateFault, AuditLogTypeOK
<1> QED BY <1>1, <1>2, <1>3, <1>4, <1>5, StampInv, WriteLineInv, WriteFaultInv, RotateInv DEF AuditLogNext

\* Every variable of AuditLog keeps its type.
THEOREM AuditLogTypes == AuditLogSpec => []AuditLogTypeOK
<1>1. AuditLogInv => AuditLogTypeOK
  BY DEF AuditLogInv
<1> QED BY <1>1, AuditLogInitInv, AuditLogStep, PTL DEF AuditLogSpec

\* The audit file: an event whose emit has returned is found once by every query over
\* its time whose bounds reach the months they are in, unless an incomplete line
\* swallowed it, one per line, or the query raises on a file with a character cut off,
\* of which there are no more than incomplete lines; for any number of emitters, months,
\* timezones, failing operations and restarts.
THEOREM AckedEventsAreRead == AuditLogSpec => []AckedIsRead
BY AuditLogInitInv, AuditLogStep, ReadFromInv, PTL DEF AuditLogSpec

-----------------------------------------------------------------------------
(* Migrations.  Only the holder of the write lock has anything uncommitted,  *)
(* and what a process has behind it of its list is tracked, though it read   *)
(* the names before others applied theirs.                                   *)

List(p) == MigrationsOf[component[p]]

\* The first n migrations of p's list are behind it.
Behind(p, n) ==
    /\ todo[p] = SubSeq(List(p), n + 1, Len(List(p)))
    /\ \A i \in 1..n : List(p)[i] \in tracked

PlaceOf(p) ==
    /\ applyAt[p] \in {"begun", "ran"} <=> writer = p /\ ~poisoned[p]
    /\ applyAt[p] \in {"begun", "ran"} => todo[p] # <<>>
    /\ applyAt[p] = "ran" => uncommitted = Head(todo[p]) /\ uncommitted \notin tracked
    /\ poisoned[p] => applyAt[p] = "out" /\ writer = p /\ uncommitted \notin tracked
    /\ already[p] \subseteq tracked
    /\ applyAt[p] \in {"loop", "begun", "ran"} => \E n \in 0..Len(List(p)) : Behind(p, n)

\* A first part of each list has been applied.
Applied(c, n) == \A i \in 1..Len(MigrationsOf[c]) : MigrationsOf[c][i] \in tracked <=> i <= n

MigrationsInv ==
    /\ MigrationsTypeOK
    /\ \A p \in Processes : PlaceOf(p)
    /\ \A n \in Names : ran[n] = IF n \in tracked THEN 1 ELSE 0
    /\ \A c \in Components : \E n \in 0..Len(MigrationsOf[c]) : Applied(c, n)

LEMMA ListTypes ==
    ASSUME NEW c \in Components
    PROVE  /\ MigrationsOf[c] \in Seq(Names) /\ Len(MigrationsOf[c]) \in Nat
           /\ DOMAIN MigrationsOf[c] = 1..Len(MigrationsOf[c])
           /\ \A i, j \in 1..Len(MigrationsOf[c]) :
                MigrationsOf[c][i] = MigrationsOf[c][j] => i = j
<1>1. MigrationsOf[c] \in Seq(Range(MigrationsOf[c])) /\ IsInjective(MigrationsOf[c])
  BY MigrationsAssumption
<1>2. Range(MigrationsOf[c]) \subseteq Names
  BY DEF Names
<1>3. MigrationsOf[c] \in Seq(Names)
  BY <1>1, <1>2, SeqMonotonic
<1> QED BY <1>1, <1>3 DEF IsInjective

LEMMA OnceFromInv == MigrationsInv => MigratedOnce
<1> SUFFICES ASSUME MigrationsInv PROVE MigratedOnce
  OBVIOUS
<1>1. ASSUME NEW c \in Components PROVE Owed(c) = 1..Cardinality(Owed(c))
  <2>1. PICK n \in 0..Len(MigrationsOf[c]) : Applied(c, n)
    BY DEF MigrationsInv
  <2>2. n \in Nat /\ Owed(c) = 1..n
    BY <2>1, ListTypes DEF Applied, Owed
  <2>3. Cardinality(1..n) = n
    <3>1. Cardinality(1..n) = IF 1 > n THEN 0 ELSE n - 1 + 1
      BY <2>2, FS_Interval
    <3> QED BY <2>2, <3>1
  <2> QED BY <2>2, <2>3
<1>2. \A p \in Processes : poisoned[p] => writer = p /\ uncommitted \notin tracked
  BY DEF MigrationsInv, PlaceOf
<1> QED BY <1>1, <1>2 DEF MigrationsInv, MigratedOnce

LEMMA MigrationsInitInv == MigrationsInit => MigrationsInv
<1> SUFFICES ASSUME MigrationsInit PROVE MigrationsInv
  OBVIOUS
<1>1. applies \in 0..MaxApplies /\ dbFaults \in 0..MaxDbFaults
  <2>1. MaxApplies \in Nat /\ MaxDbFaults \in Nat
    BY MigrationsAssumption
  <2> QED BY <2>1 DEF MigrationsInit
<1>2. todo \in [Processes -> Seq(Names)] /\ ran \in [Names -> Nat]
  BY DEF MigrationsInit
<1>3. MigrationsTypeOK
  BY <1>1, <1>2 DEF MigrationsInit, MigrationsTypeOK
<1>4. \A p \in Processes : PlaceOf(p)
  BY MigrationsAssumption DEF MigrationsInit, PlaceOf
<1>5. \A c \in Components : Applied(c, 0) /\ 0 \in 0..Len(MigrationsOf[c])
  BY ListTypes DEF MigrationsInit, Applied
<1>6. \A n \in Names : ran[n] = IF n \in tracked THEN 1 ELSE 0
  BY DEF MigrationsInit
<1> QED BY <1>3, <1>4, <1>5, <1>6 DEF MigrationsInv

\* Steps that commit nothing keep what is said of the data, and need the types and
\* the places only.
LEMMA DataAlone ==
    ASSUME MigrationsInv, UNCHANGED dataVars, MigrationsTypeOK',
           \A p \in Processes : PlaceOf(p)'
    PROVE  MigrationsInv'
BY DEF MigrationsInv, dataVars, Applied

\* A step of p that takes no lock, gives none up and commits nothing.
LEMMA OthersKept ==
    ASSUME MigrationsInv, NEW p \in Processes, NEW q \in Processes \ {p},
           UNCHANGED dataVars,
           applyAt'[q] = applyAt[q], component'[q] = component[q], already'[q] = already[q],
           todo'[q] = todo[q], poisoned'[q] = poisoned[q],
           writer' = q <=> writer = q,
           writer = q => uncommitted' = uncommitted
    PROVE  PlaceOf(q)'
<1>1. PlaceOf(q)
  BY DEF MigrationsInv
<1>2. \A n : Behind(q, n) => Behind(q, n)'
  BY DEF Behind, List, dataVars
<1>3. List(q)' = List(q)
  BY DEF List
<1> QED BY <1>1, <1>2, <1>3 DEF PlaceOf, dataVars

LEMMA TodoTypes ==
    ASSUME MigrationsTypeOK, NEW p \in Processes, todo[p] # <<>>
    PROVE  /\ Head(todo[p]) \in Names /\ Tail(todo[p]) \in Seq(Names)
           /\ Head(todo[p]) # NoMigration
<1>1. todo[p] \in Seq(Names)
  BY DEF MigrationsTypeOK
<1>2. Head(todo[p]) \in Names /\ Tail(todo[p]) \in Seq(Names)
  BY <1>1, HeadTailProperties
<1>3. NoMigration \notin Names
  BY MigrationsAssumption DEF Names
<1> QED BY <1>2, <1>3

LEMMA FaultTypes ==
    ASSUME MigrationsTypeOK, DbFaultCounted
    PROVE  dbFaults' \in 0..MaxDbFaults
<1>1. MaxDbFaults \in Nat /\ dbFaults \in 0..MaxDbFaults
  BY MigrationsAssumption DEF MigrationsTypeOK
<1> QED BY <1>1 DEF DbFaultCounted

LEMMA AppliesTypes ==
    ASSUME MigrationsTypeOK, applies < MaxApplies, applies' = applies + 1
    PROVE  applies' \in 0..MaxApplies
<1>1. MaxApplies \in Nat /\ applies \in 0..MaxApplies
  BY MigrationsAssumption DEF MigrationsTypeOK
<1> QED BY <1>1

\* What is behind a process when it passes the head of its list.
LEMMA OneFurther ==
    ASSUME MigrationsInv, NEW p \in Processes, NEW n \in 0..Len(List(p)),
           Behind(p, n), todo[p] # <<>>
    PROVE  /\ n + 1 \in 0..Len(List(p)) /\ n + 1 \in 1..Len(List(p))
           /\ Head(todo[p]) = List(p)[n + 1]
           /\ Tail(todo[p]) = SubSeq(List(p), (n + 1) + 1, Len(List(p)))
<1> DEFINE list == List(p)
<1>1. list \in Seq(Names) /\ Len(list) \in Nat /\ n \in 0..Len(list)
  <2>1. component[p] \in Components
    BY DEF MigrationsInv, MigrationsTypeOK
  <2> QED BY <2>1, ListTypes DEF List
<1>2. todo[p] = SubSeq(list, n + 1, Len(list))
  BY DEF Behind
<1> HIDE DEF list
<1>3. n < Len(list)
  <2> SUFFICES ASSUME n = Len(list) PROVE FALSE
    BY <1>1
  <2>1. SubSeq(list, n + 1, Len(list)) = <<>>
    BY <1>1
  <2> QED BY <1>2, <2>1
<1>4. n + 1 \in 1..Len(list) /\ Len(list) \in (n + 1)..Len(list)
  BY <1>1, <1>3
<1>5. /\ Head(SubSeq(list, n + 1, Len(list))) = list[n + 1]
      /\ Tail(SubSeq(list, n + 1, Len(list))) = SubSeq(list, (n + 1) + 1, Len(list))
  BY <1>1, <1>4, HeadTailOfSubSeq
<1>6. n + 1 \in 0..Len(list)
  BY <1>1, <1>4
<1> QED BY <1>2, <1>4, <1>5, <1>6 DEF list

LEMMA ListReadInv ==
    ASSUME MigrationsInv, NEW p \in Processes, NEW c \in Components,
           EnsureTable(p, c) \/ ReadApplied(p) \/ Return(p) \/ BeginRaises(p)
    PROVE  MigrationsInv'
<1>0. MigrationsTypeOK /\ PlaceOf(p)
  BY DEF MigrationsInv
<1>1. UNCHANGED <<dataVars, writer, uncommitted, poisoned, dbFaults>>
  BY DEF EnsureTable, ReadApplied, Return, BeginRaises
<1>2. applyAt' \in [Processes -> {"out", "read", "loop", "begun", "ran"}]
      /\ \A q \in Processes \ {p} : applyAt'[q] = applyAt[q]
  BY <1>0 DEF EnsureTable, ReadApplied, Return, BeginRaises, MovesOn, MigrationsTypeOK
<1>3. component' \in [Processes -> Components]
      /\ \A q \in Processes \ {p} : component'[q] = component[q]
  BY <1>0 DEF EnsureTable, ReadApplied, Return, BeginRaises, MigrationsTypeOK
<1>4. already' \in [Processes -> SUBSET Names]
      /\ \A q \in Processes \ {p} : already'[q] = already[q]
  BY <1>0 DEF EnsureTable, ReadApplied, Return, BeginRaises, MigrationsTypeOK
<1>5. todo' \in [Processes -> Seq(Names)] /\ \A q \in Processes \ {p} : todo'[q] = todo[q]
  <2>1. MigrationsOf[component[p]] \in Seq(Names)
    BY <1>0, ListTypes DEF MigrationsTypeOK
  <2> QED BY <1>0, <2>1 DEF EnsureTable, ReadApplied, Return, BeginRaises, MigrationsTypeOK
<1>6. applies' \in 0..MaxApplies
  BY <1>0, AppliesTypes DEF EnsureTable, ReadApplied, Return, BeginRaises, MigrationsTypeOK
<1>7. MigrationsTypeOK'
  BY <1>0, <1>1, <1>2, <1>3, <1>4, <1>5, <1>6 DEF MigrationsTypeOK, dataVars
<1>8. \A q \in Processes \ {p} : PlaceOf(q)'
  BY <1>1, <1>2, <1>3, <1>4, <1>5, OthersKept
<1>9. PlaceOf(p)'
  <2>1. CASE EnsureTable(p, c)
    <3>1. applyAt'[p] = "read" /\ applyAt[p] = "out" /\ writer = Nobody /\ ~poisoned[p]
          /\ UNCHANGED already
      BY <1>0, <2>1 DEF EnsureTable, MovesOn, CanBegin, MigrationsTypeOK
    <3> QED BY <1>0, <1>1, <3>1, MigrationsAssumption DEF PlaceOf, dataVars
  <2>2. CASE ReadApplied(p)
    <3>1. applyAt'[p] = "loop" /\ writer = Nobody /\ ~poisoned[p] /\ already'[p] = tracked
          /\ todo'[p] = List(p) /\ component' = component
      BY <1>0, <2>2 DEF ReadApplied, MovesOn, CanBegin, MigrationsTypeOK, List
    <3>2. List(p) \in Seq(Names) /\ Len(List(p)) \in Nat
      BY <1>0, ListTypes DEF MigrationsTypeOK, List
    <3>3. SubSeq(List(p), 0 + 1, Len(List(p))) = List(p)
      BY <3>2, SubSeqFull
    <3>4. List(p)' = List(p)
      BY <3>1 DEF List
    <3>5. Behind(p, 0)' /\ 0 \in 0..Len(List(p)')
      BY <3>1, <3>2, <3>3, <3>4 DEF Behind
    <3> QED BY <1>0, <1>1, <3>1, <3>5, MigrationsAssumption DEF PlaceOf, dataVars
  <2>3. CASE Return(p) \/ BeginRaises(p)
    <3>1. applyAt'[p] = "out" /\ applyAt[p] \in {"out", "read", "loop"} /\ UNCHANGED already
      BY <1>0, <2>3 DEF Return, BeginRaises, MovesOn, MigrationsTypeOK
    <3> QED BY <1>0, <1>1, <3>1 DEF PlaceOf, dataVars
  <2> QED BY <2>1, <2>2, <2>3
<1> QED BY <1>1, <1>7, <1>8, <1>9, DataAlone

LEMMA TransactionInv ==
    ASSUME MigrationsInv, NEW p \in Processes,
           \/ PassOver(p) \/ BeginMigration(p) \/ RunStatements(p) \/ StatementRaises(p)
           \/ CommitRaises(p) \/ CloseOrDie(p)
    PROVE  MigrationsInv'
<1>0. MigrationsTypeOK /\ PlaceOf(p)
  BY DEF MigrationsInv
<1>1. UNCHANGED <<dataVars, component, already, applies>>
  BY DEF PassOver, BeginMigration, RunStatements, StatementRaises, CommitRaises, CloseOrDie
<1>2. applyAt' \in [Processes -> {"out", "read", "loop", "begun", "ran"}]
      /\ \A q \in Processes \ {p} : applyAt'[q] = applyAt[q]
  BY <1>0 DEF PassOver, BeginMigration, RunStatements, StatementRaises, CommitRaises,
              CloseOrDie, MovesOn, MigrationsTypeOK
<1>3. todo' \in [Processes -> Seq(Names)] /\ \A q \in Processes \ {p} : todo'[q] = todo[q]
  BY <1>0, TodoTypes DEF PassOver, BeginMigration, RunStatements, StatementRaises,
              CommitRaises, CloseOrDie, MigrationsTypeOK
<1>4. poisoned' \in [Processes -> BOOLEAN]
      /\ \A q \in Processes \ {p} : poisoned'[q] = poisoned[q]
  BY <1>0 DEF PassOver, BeginMigration, RunStatements, StatementRaises, CommitRaises,
              CloseOrDie, MigrationsTypeOK
<1>5. writer' \in Processes \cup {Nobody} /\ uncommitted' \in Names \cup {NoMigration}
  BY <1>0, TodoTypes DEF PassOver, BeginMigration, RunStatements, StatementRaises,
              CommitRaises, CloseOrDie, MovesOn, MigrationsTypeOK, PlaceOf
<1>6. dbFaults' \in 0..MaxDbFaults
  BY <1>0, FaultTypes DEF PassOver, BeginMigration, RunStatements, StatementRaises,
              CommitRaises, CloseOrDie, MigrationsTypeOK
<1>7. MigrationsTypeOK'
  BY <1>0, <1>1, <1>2, <1>3, <1>4, <1>5, <1>6 DEF MigrationsTypeOK, dataVars
<1>8. \A q \in Processes \ {p} : (writer' = q <=> writer = q) /\ (writer = q => uncommitted' = uncommitted)
  BY <1>0, MigrationsAssumption
     DEF PassOver, BeginMigration, RunStatements, StatementRaises, CommitRaises, CloseOrDie,
         CanBegin, MovesOn, PlaceOf
<1>9. \A q \in Processes \ {p} : PlaceOf(q)'
  BY <1>1, <1>2, <1>3, <1>4, <1>8, OthersKept
<1>10. List(p)' = List(p)
  BY <1>1 DEF List
<1>11. \A n : Behind(p, n) /\ todo'[p] = todo[p] => Behind(p, n)'
  BY <1>1, <1>10 DEF Behind, dataVars
<1>12. PlaceOf(p)'
  <2>1. CASE PassOver(p)
    <3>1. /\ applyAt[p] = "loop" /\ todo[p] # <<>> /\ Head(todo[p]) \in already[p]
          /\ todo'[p] = Tail(todo[p])
          /\ UNCHANGED <<writer, uncommitted, applyAt, poisoned>>
      BY <1>0, <2>1 DEF PassOver, MigrationsTypeOK
    <3>2. PICK n \in 0..Len(List(p)) : Behind(p, n)
      BY <1>0, <3>1 DEF PlaceOf
    <3>3. n + 1 \in 0..Len(List(p)) /\ Head(todo[p]) = List(p)[n + 1]
          /\ Tail(todo[p]) = SubSeq(List(p), (n + 1) + 1, Len(List(p)))
      BY <3>1, <3>2, OneFurther
    <3>4. \A i \in 1..n + 1 : List(p)[i] \in tracked
      <4>1. \A i \in 1..n + 1 : i \in 1..n \/ i = n + 1
        OBVIOUS
      <4> QED BY <1>0, <3>1, <3>2, <3>3, <4>1 DEF Behind, PlaceOf
    <3>5. Behind(p, n + 1)'
      BY <1>1, <1>10, <3>1, <3>3, <3>4 DEF Behind, dataVars
    <3> QED BY <1>0, <1>1, <1>10, <3>1, <3>3, <3>5 DEF PlaceOf, dataVars
  <2>2. CASE BeginMigration(p)
    <3>1. /\ applyAt[p] = "loop" /\ applyAt'[p] = "begun" /\ writer' = p /\ ~poisoned[p]
          /\ todo[p] # <<>> /\ UNCHANGED <<todo, uncommitted, poisoned>>
      BY <1>0, <2>2 DEF BeginMigration, Pending, MovesOn, CanBegin, MigrationsTypeOK
    <3> QED BY <1>0, <1>1, <1>10, <1>11, <3>1 DEF PlaceOf, dataVars
  <2>3. CASE RunStatements(p)
    <3>1. /\ applyAt[p] = "begun" /\ applyAt'[p] = "ran" /\ Head(todo[p]) \notin tracked
          /\ uncommitted' = Head(todo[p]) /\ UNCHANGED <<todo, writer, poisoned>>
      BY <1>0, <2>3 DEF RunStatements, MovesOn, NameTaken, MigrationsTypeOK
    <3> QED BY <1>0, <1>1, <1>10, <1>11, <3>1 DEF PlaceOf, dataVars
  <2>4. CASE StatementRaises(p)
    <3>1. applyAt[p] = "begun" /\ applyAt'[p] = "out" /\ writer' = Nobody /\ UNCHANGED poisoned
      BY <1>0, <2>4 DEF StatementRaises, MovesOn, MigrationsTypeOK
    <3> QED BY <1>0, <1>1, <3>1, MigrationsAssumption DEF PlaceOf, dataVars
  <2>5. CASE CommitRaises(p)
    <3>1. applyAt[p] = "ran" /\ applyAt'[p] = "out" /\ poisoned'[p] = TRUE
          /\ UNCHANGED <<writer, uncommitted>>
      BY <1>0, <2>5 DEF CommitRaises, MovesOn, MigrationsTypeOK
    <3> QED BY <1>0, <1>1, <3>1 DEF PlaceOf, dataVars
  <2>6. CASE CloseOrDie(p)
    <3>1. applyAt'[p] = "out" /\ poisoned'[p] = FALSE /\ writer' # p
      BY <1>0, <2>6, MigrationsAssumption DEF CloseOrDie, MigrationsTypeOK
    <3> QED BY <1>0, <1>1, <3>1 DEF PlaceOf, dataVars
  <2> QED BY <2>1, <2>2, <2>3, <2>4, <2>5, <2>6
<1> QED BY <1>1, <1>7, <1>9, <1>12, DataAlone

\* The committed migration is the one after those that its list's first part holds,
\* and of the other lists nothing.
LEMMA CommittedIsNext ==
    ASSUME MigrationsInv, NEW p \in Processes, NEW c \in Components,
           CommitMigration(p), NEW k \in 0..Len(MigrationsOf[c]), Applied(c, k)
    PROVE  \E n \in 0..Len(MigrationsOf[c]) : Applied(c, n)'
<1>0. MigrationsTypeOK /\ PlaceOf(p)
  BY DEF MigrationsInv
<1>1. applyAt[p] = "ran" /\ tracked' = tracked \cup {uncommitted}
  BY DEF CommitMigration, MovesOn
<1>2. todo[p] # <<>> /\ uncommitted = Head(todo[p]) /\ uncommitted \notin tracked
  BY <1>0, <1>1 DEF PlaceOf
<1>3. PICK n \in 0..Len(List(p)) : Behind(p, n)
  BY <1>0, <1>1 DEF PlaceOf
<1>4. n + 1 \in 1..Len(List(p)) /\ uncommitted = List(p)[n + 1]
  BY <1>2, <1>3, OneFurther
<1>5. component[p] \in Components
  BY <1>0 DEF MigrationsTypeOK
<1>6. CASE c = component[p]
  <2> DEFINE list == MigrationsOf[c]
  <2>1. List(p) = list
    BY <1>6 DEF List
  <2>2. /\ Len(list) \in Nat
        /\ \A i, j \in 1..Len(list) : list[i] = list[j] => i = j
    BY ListTypes
  <2>3. n \in 0..Len(list) /\ n + 1 \in 1..Len(list) /\ uncommitted = list[n + 1]
    BY <1>3, <1>4, <2>1
  <2>4. \A i \in 1..n : list[i] \in tracked
    BY <1>3, <2>1 DEF Behind
  <2>5. \A i \in 1..Len(list) : list[i] \in tracked <=> i <= k
    BY DEF Applied
  <2> HIDE DEF list
  <2>6. ~(n + 1 <= k)
    BY <1>2, <2>3, <2>5
  <2>7. n <= k
    <3>1. CASE n = 0
      BY <3>1 DEF list
    <3>2. CASE n # 0
      <4>1. n \in 1..n /\ n \in 1..Len(list)
        BY <2>2, <2>3, <3>2
      <4> QED BY <2>4, <2>5, <4>1
    <3> QED BY <3>1, <3>2
  <2>8. n = k
    BY <2>2, <2>3, <2>6, <2>7 DEF list
  <2>9. \A i \in 1..Len(list) : list[i] \in tracked' <=> i <= k + 1
    <3> SUFFICES ASSUME NEW i \in 1..Len(list)
                 PROVE  list[i] \in tracked' <=> i <= k + 1
      OBVIOUS
    <3>1. list[i] = uncommitted <=> i = k + 1
      BY <2>2, <2>3, <2>8
    <3>2. i <= k + 1 <=> i <= k \/ i = k + 1
      BY <2>2, <2>3, <2>8
    <3> QED BY <1>1, <2>5, <3>1, <3>2
  <2>10. k + 1 \in 0..Len(list)
    BY <2>2, <2>3, <2>8
  <2> QED BY <2>9, <2>10 DEF Applied, list
<1>7. CASE c # component[p]
  <2>1. uncommitted \in Range(List(p))
    BY <1>4, <1>5, ListTypes DEF List, Range
  <2>2. Range(MigrationsOf[c]) \cap Range(List(p)) = {}
    BY <1>5, <1>7, MigrationsAssumption DEF List
  <2>3. \A i \in 1..Len(MigrationsOf[c]) : MigrationsOf[c][i] \in Range(MigrationsOf[c])
    BY ListTypes DEF Range
  <2>4. \A i \in 1..Len(MigrationsOf[c]) : MigrationsOf[c][i] # uncommitted
    BY <2>1, <2>2, <2>3
  <2>5. Applied(c, k)'
    BY <1>1, <2>4 DEF Applied
  <2> QED BY <2>5
<1> QED BY <1>6, <1>7

LEMMA CommitMigrationInv ==
    ASSUME MigrationsInv, NEW p \in Processes, CommitMigration(p)
    PROVE  MigrationsInv'
<1>0. MigrationsTypeOK /\ PlaceOf(p)
  BY DEF MigrationsInv
<1>1. /\ applyAt[p] = "ran" /\ tracked' = tracked \cup {uncommitted}
      /\ ran' = [ran EXCEPT ![uncommitted] = @ + 1]
      /\ writer' = Nobody /\ uncommitted' = NoMigration
      /\ UNCHANGED <<component, already, poisoned, applies, dbFaults>>
  BY DEF CommitMigration, MovesOn
<1>2. /\ applyAt' \in [Processes -> {"out", "read", "loop", "begun", "ran"}]
      /\ applyAt'[p] = "loop" /\ \A q \in Processes \ {p} : applyAt'[q] = applyAt[q]
  BY <1>0 DEF CommitMigration, MovesOn, MigrationsTypeOK
<1>3. /\ todo[p] # <<>> /\ uncommitted = Head(todo[p]) /\ uncommitted \notin tracked
      /\ writer = p /\ ~poisoned[p]
  BY <1>0, <1>1 DEF PlaceOf
<1>4. /\ todo' \in [Processes -> Seq(Names)] /\ todo'[p] = Tail(todo[p])
      /\ \A q \in Processes \ {p} : todo'[q] = todo[q]
  BY <1>0, <1>3, TodoTypes DEF CommitMigration, MigrationsTypeOK
<1>5. uncommitted \in Names
  BY <1>0, <1>3, TodoTypes
<1>6. ran' \in [Names -> Nat] /\ \A n \in Names : ran'[n] = IF n \in tracked' THEN 1 ELSE 0
  <2>1. ran \in [Names -> Nat] /\ \A n \in Names : ran[n] = IF n \in tracked THEN 1 ELSE 0
    BY <1>0 DEF MigrationsInv, MigrationsTypeOK
  <2> QED BY <1>1, <1>3, <1>5, <2>1
<1>7. MigrationsTypeOK'
  BY <1>0, <1>1, <1>2, <1>4, <1>5, <1>6 DEF MigrationsTypeOK
<1>8. \A q \in Processes : List(q)' = List(q)
  BY <1>1 DEF List
<1>9. ASSUME NEW q \in Processes \ {p} PROVE PlaceOf(q)'
  <2>1. PlaceOf(q)
    BY DEF MigrationsInv
  <2>2. applyAt[q] \notin {"begun", "ran"} /\ ~poisoned[q]
    BY <1>3, <2>1 DEF PlaceOf
  <2>3. \A n : Behind(q, n) => Behind(q, n)'
    BY <1>1, <1>4, <1>8 DEF Behind
  <2> QED BY <1>1, <1>2, <1>8, <2>1, <2>2, <2>3, MigrationsAssumption DEF PlaceOf
<1>10. PlaceOf(p)'
  <2>1. PICK n \in 0..Len(List(p)) : Behind(p, n)
    BY <1>0, <1>1 DEF PlaceOf
  <2>2. n + 1 \in 0..Len(List(p)) /\ uncommitted = List(p)[n + 1]
        /\ Tail(todo[p]) = SubSeq(List(p), (n + 1) + 1, Len(List(p)))
    BY <1>3, <2>1, OneFurther
  <2>3. \A i \in 1..n + 1 : List(p)[i] \in tracked'
    <3>1. \A i \in 1..n + 1 : i \in 1..n \/ i = n + 1
      OBVIOUS
    <3> QED BY <1>1, <2>1, <2>2, <3>1 DEF Behind
  <2>4. Behind(p, n + 1)'
    BY <1>4, <1>8, <2>2, <2>3 DEF Behind
  <2>5. already'[p] \subseteq tracked'
    BY <1>0, <1>1 DEF PlaceOf
  <2> QED BY <1>1, <1>2, <1>3, <1>8, <2>2, <2>4, <2>5, MigrationsAssumption DEF PlaceOf
<1>11. \A c \in Components : \E n \in 0..Len(MigrationsOf[c]) : Applied(c, n)'
  BY CommittedIsNext DEF MigrationsInv
<1> QED BY <1>6, <1>7, <1>9, <1>10, <1>11 DEF MigrationsInv

LEMMA MigrationsStep == MigrationsInv /\ [MigrationsNext]_migrationVars => MigrationsInv'
<1> SUFFICES ASSUME MigrationsInv, [MigrationsNext]_migrationVars PROVE MigrationsInv'
  OBVIOUS
<1>1. CASE UNCHANGED migrationVars
  BY <1>1
  DEF MigrationsInv, migrationVars, dataVars, MigrationsTypeOK, PlaceOf, Behind, List,
              Applied
<1> QED BY <1>1, ListReadInv, TransactionInv, CommitMigrationInv DEF MigrationsNext, MigrationsTypeOK,
        MigrationsInv

\* A COMMIT applies the migration that follows those behind its process.
LEMMA CommitIsHistory ==
    ASSUME MigrationsInv, NEW p \in Processes, CommitMigration(p)
    PROVE  History!HistoryNext
<1>0. MigrationsTypeOK /\ PlaceOf(p) /\ component[p] \in Components
  BY DEF MigrationsInv, MigrationsTypeOK
<1>1. /\ applyAt[p] = "ran" /\ tracked' = tracked \cup {uncommitted}
      /\ ran' = [ran EXCEPT ![uncommitted] = @ + 1]
  BY DEF CommitMigration, MovesOn
<1>2. todo[p] # <<>> /\ uncommitted = Head(todo[p]) /\ uncommitted \notin tracked
  BY <1>0, <1>1 DEF PlaceOf
<1>3. PICK n \in 0..Len(List(p)) : Behind(p, n)
  BY <1>0, <1>1 DEF PlaceOf
<1>4. n + 1 \in 1..Len(List(p)) /\ uncommitted = List(p)[n + 1]
  BY <1>2, <1>3, OneFurther
<1>5. \A j \in 1..(n + 1) - 1 : List(p)[j] \in tracked
  <2>1. (n + 1) - 1 = n
    OBVIOUS
  <2> QED BY <1>3, <2>1 DEF Behind
<1>6. History!Apply(component[p], n + 1)
  BY <1>1, <1>2, <1>4, <1>5 DEF History!Apply, List
<1> QED BY <1>0, <1>4, <1>6 DEF History!HistoryNext, List

\* apply_pending implements the history of one applier that applies each migration as
\* a whole, once and in order, for any number of processes, lists, failures and deaths.
THEOREM ProcessesImplementHistory == MigrationsSpec => ImplementsHistory
<1>1. MigrationsInit => History!HistoryInit
  BY DEF MigrationsInit, History!HistoryInit
<1>2. ASSUME MigrationsInv, [MigrationsNext]_migrationVars
      PROVE  [History!HistoryNext]_History!historyVars
  <2>1. ASSUME NEW p \in Processes, NEW c \in Components,
               \/ EnsureTable(p, c) \/ ReadApplied(p) \/ PassOver(p) \/ BeginMigration(p)
               \/ RunStatements(p) \/ StatementRaises(p) \/ CommitRaises(p) \/ BeginRaises(p)
               \/ Return(p) \/ CloseOrDie(p)
        PROVE  UNCHANGED History!historyVars
    BY <2>1 DEF EnsureTable, ReadApplied, PassOver, BeginMigration, RunStatements,
                StatementRaises, CommitRaises, BeginRaises, Return, CloseOrDie, dataVars,
                History!historyVars
  <2>2. CASE UNCHANGED migrationVars
    BY <2>2 DEF migrationVars, dataVars, History!historyVars
  <2>3. \A p \in Processes : component[p] \in Components
    BY <1>2 DEF MigrationsInv, MigrationsTypeOK
  <2> QED BY <1>2, <2>1, <2>2, <2>3, CommitIsHistory DEF MigrationsNext
<1> QED BY <1>1, <1>2, MigrationsInitInv, MigrationsStep, PTL
        DEF MigrationsSpec, ImplementsHistory, History!HistorySpec

\* Every variable of Migrations keeps its type.
THEOREM MigrationsTypes == MigrationsSpec => []MigrationsTypeOK
<1>1. MigrationsInv => MigrationsTypeOK
  BY DEF MigrationsInv
<1> QED BY <1>1, MigrationsInitInv, MigrationsStep, PTL DEF MigrationsSpec

\* apply_pending: a tracked migration's statements are in the data once and no other's
\* are, a first part of each list is applied, and a COMMIT that raised leaves nothing
\* behind, for any number of processes, lists, failures and deaths.
THEOREM MigrationsRunOnce == MigrationsSpec => []MigratedOnce
BY MigrationsInitInv, MigrationsStep, OnceFromInv, PTL DEF MigrationsSpec

=============================================================================
