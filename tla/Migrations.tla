------------------------------ MODULE Migrations ------------------------------
(***************************************************************************)
(* apply_pending (src/ota_core/storage/schema.py) in several processes that *)
(* share one SQLite file, each through the one connection of its Database   *)
(* (src/ota_core/storage/database.py).  A migration's statements and its    *)
(* row in _schema_migrations are written in one transaction, but what has   *)
(* been applied is read before the first transaction begins.                *)
(*                                                                          *)
(* SQLite is external: one writer at a time, others wait and then give up,  *)
(* a transaction that was not committed leaves nothing.                     *)
(***************************************************************************)
EXTENDS Naturals, Sequences, SequencesExt, FiniteSets

CONSTANTS
    Processes,      \* processes that open the file
    Components,     \* lists of migrations that are applied together ...
    MigrationsOf,   \* ... and each one's list of names
    Nobody,         \* nobody writes
    NoMigration,    \* no migration is being applied
    MaxApplies,     \* bound: calls of apply_pending
    MaxDbFaults     \* bound: statements and commits that raise, processes that die

ASSUME MigrationsAssumption ==
    /\ \A c \in Components :
        MigrationsOf[c] \in Seq(Range(MigrationsOf[c])) /\ IsInjective(MigrationsOf[c])
    /\ \A c, d \in Components :
        c # d => Range(MigrationsOf[c]) \cap Range(MigrationsOf[d]) = {}
    /\ Nobody \notin Processes
    /\ NoMigration \notin UNION {Range(MigrationsOf[c]) : c \in Components}
    /\ {MaxApplies, MaxDbFaults} \subseteq Nat

Names == UNION {Range(MigrationsOf[c]) : c \in Components}

VARIABLES
    tracked,    \* committed rows of _schema_migrations
    ran,        \* how often each migration's statements are in the committed data
    writer,     \* whose transaction holds SQLite's write lock
    uncommitted, \* the migration that this transaction has applied
    applyAt,    \* where each process is in apply_pending
    component,  \* the list it applies
    already,    \* the names it has read
    todo,       \* the migrations it has still to look at
    poisoned,   \* its connection has a transaction that COMMIT left open
    applies,    \* calls of apply_pending
    dbFaults    \* faults so far

migrationVars == <<tracked, ran, writer, uncommitted, applyAt, component, already, todo,
                   poisoned, applies, dbFaults>>
dataVars == <<tracked, ran>>

MigrationsInit ==
    /\ tracked = {}
    /\ ran = [n \in Names |-> 0]
    /\ writer = Nobody
    /\ uncommitted = NoMigration
    /\ applyAt = [p \in Processes |-> "out"]
    /\ component \in [Processes -> Components]
    /\ already = [p \in Processes |-> {}]
    /\ todo = [p \in Processes |-> <<>>]
    /\ poisoned = [p \in Processes |-> FALSE]
    /\ applies = 0
    /\ dbFaults = 0

DbFaultCounted == dbFaults < MaxDbFaults /\ dbFaults' = dbFaults + 1

MovesOn(p, from, to) == applyAt[p] = from /\ applyAt' = [applyAt EXCEPT ![p] = to]

\* BEGIN IMMEDIATE succeeds: nobody else writes and the connection has no open one.
CanBegin(p) == writer = Nobody /\ ~poisoned[p]

\* _ensure_tracking_table, a transaction of its own that writes what is there
\* already or an empty table.
EnsureTable(p, c) ==
    /\ applies < MaxApplies
    /\ applies' = applies + 1
    /\ CanBegin(p)
    /\ MovesOn(p, "out", "read")
    /\ component' = [component EXCEPT ![p] = c]
    /\ UNCHANGED <<dataVars, writer, uncommitted, already, todo, poisoned, dbFaults>>

\* applied_migrations: the table is ensured once more, then the committed names are
\* read.
ReadApplied(p) ==
    /\ CanBegin(p)
    /\ MovesOn(p, "read", "loop")
    /\ already' = [already EXCEPT ![p] = tracked]
    /\ todo' = [todo EXCEPT ![p] = MigrationsOf[component[p]]]
    /\ UNCHANGED <<dataVars, writer, uncommitted, component, poisoned, applies, dbFaults>>

\* A migration that was there when the names were read is passed over.
PassOver(p) ==
    /\ applyAt[p] = "loop"
    /\ todo[p] # <<>>
    /\ Head(todo[p]) \in already[p]
    /\ todo' = [todo EXCEPT ![p] = Tail(@)]
    /\ UNCHANGED <<dataVars, writer, uncommitted, applyAt, component, already, poisoned, applies, dbFaults>>

Pending(p) == todo[p] # <<>> /\ Head(todo[p]) \notin already[p]

BeginMigration(p) ==
    /\ Pending(p)
    /\ CanBegin(p)
    /\ MovesOn(p, "loop", "begun")
    /\ writer' = p
    /\ UNCHANGED <<dataVars, uncommitted, component, already, todo, poisoned, applies, dbFaults>>

\* Faulty variant: INSERT OR IGNORE.
NameIgnored(n) == FALSE

\* The name is the primary key of the tracking table.
NameTaken(n) == n \in tracked

\* The statements and the row of the tracking table succeed.
RunStatements(p) ==
    /\ MovesOn(p, "begun", "ran")
    /\ ~NameTaken(Head(todo[p]))
    /\ uncommitted' = Head(todo[p])
    /\ UNCHANGED <<dataVars, writer, component, already, todo, poisoned, applies, dbFaults>>

\* Faulty variant: what ran before the one that raises stays.
StatementRaisesHalfway(p) ==
    /\ MovesOn(p, "begun", "out")
    /\ IF NameTaken(Head(todo[p])) THEN UNCHANGED dbFaults ELSE DbFaultCounted
    /\ ran' = [ran EXCEPT ![Head(todo[p])] = @ + 1]
    /\ writer' = Nobody
    /\ UNCHANGED <<tracked, uncommitted, component, already, todo, poisoned, applies>>

\* One of them raises, because the migration is there by now or for a reason of its
\* own: ROLLBACK, and apply_pending raises.
StatementRaises(p) ==
    /\ MovesOn(p, "begun", "out")
    /\ IF NameTaken(Head(todo[p])) THEN UNCHANGED dbFaults ELSE DbFaultCounted
    /\ writer' = Nobody
    /\ UNCHANGED <<dataVars, uncommitted, component, already, todo, poisoned, applies>>

CommitMigration(p) ==
    /\ MovesOn(p, "ran", "loop")
    /\ tracked' = tracked \cup {uncommitted}
    /\ ran' = [ran EXCEPT ![uncommitted] = @ + 1]
    /\ writer' = Nobody
    /\ uncommitted' = NoMigration
    /\ todo' = [todo EXCEPT ![p] = Tail(@)]
    /\ UNCHANGED <<component, already, poisoned, applies, dbFaults>>

\* COMMIT raises: it is in the else branch, so nothing is rolled back, and the
\* transaction stays open with its lock.
CommitRaises(p) ==
    /\ MovesOn(p, "ran", "out")
    /\ DbFaultCounted
    /\ poisoned' = [poisoned EXCEPT ![p] = TRUE]
    /\ UNCHANGED <<dataVars, writer, uncommitted, component, already, todo, applies>>

\* BEGIN raises: the busy timeout is over, or the connection has a transaction open.
BeginRaises(p) ==
    /\ ~CanBegin(p)
    /\ \/ applyAt[p] = "out" /\ applies < MaxApplies /\ applies' = applies + 1
       \/ applyAt[p] = "read" /\ UNCHANGED applies
       \/ applyAt[p] = "loop" /\ Pending(p) /\ UNCHANGED applies
    /\ applyAt' = [applyAt EXCEPT ![p] = "out"]
    /\ UNCHANGED <<dataVars, writer, uncommitted, component, already, todo, poisoned, dbFaults>>

Return(p) ==
    /\ MovesOn(p, "loop", "out")
    /\ todo[p] = <<>>
    /\ UNCHANGED <<dataVars, writer, uncommitted, component, already, todo, poisoned, applies, dbFaults>>

\* The connection is closed or its process dies: SQLite rolls back.
CloseOrDie(p) ==
    /\ \/ poisoned[p] /\ UNCHANGED dbFaults
       \/ ~poisoned[p] /\ applyAt[p] # "out" /\ DbFaultCounted
    /\ poisoned' = [poisoned EXCEPT ![p] = FALSE]
    /\ applyAt' = [applyAt EXCEPT ![p] = "out"]
    /\ \/ writer = p /\ writer' = Nobody /\ uncommitted' = NoMigration
       \/ writer # p /\ UNCHANGED <<writer, uncommitted>>
    /\ UNCHANGED <<dataVars, component, already, todo, applies>>

MigrationsNext ==
    \E p \in Processes :
        \/ \E c \in Components : EnsureTable(p, c)
        \/ ReadApplied(p) \/ PassOver(p) \/ BeginMigration(p) \/ RunStatements(p)
        \/ StatementRaises(p) \/ CommitMigration(p) \/ CommitRaises(p) \/ BeginRaises(p)
        \/ Return(p) \/ CloseOrDie(p)

MigrationsSpec == MigrationsInit /\ [][MigrationsNext]_migrationVars

-----------------------------------------------------------------------------
(* Properties. *)

\* Every variable has its type.
MigrationsTypeOK ==
    /\ tracked \subseteq Names
    /\ ran \in [Names -> Nat]
    /\ writer \in Processes \cup {Nobody}
    /\ uncommitted \in Names \cup {NoMigration}
    /\ applyAt \in [Processes -> {"out", "read", "loop", "begun", "ran"}]
    /\ component \in [Processes -> Components]
    /\ already \in [Processes -> SUBSET Names]
    /\ todo \in [Processes -> Seq(Names)]
    /\ poisoned \in [Processes -> BOOLEAN]
    /\ applies \in 0..MaxApplies
    /\ dbFaults \in 0..MaxDbFaults

Owed(c) == {i \in DOMAIN MigrationsOf[c] : MigrationsOf[c][i] \in tracked}

\* However processes, failures and deaths interleave, the statements of a migration
\* are in the data exactly once if it is in the tracking table and not at all if it
\* is not; of each component's list a first part is applied; and a COMMIT that
\* raised holds the write lock until its connection is closed, with nothing of it in
\* the data.
MigratedOnce ==
    /\ \A n \in Names : ran[n] = IF n \in tracked THEN 1 ELSE 0
    /\ \A c \in Components : Owed(c) = 1..Cardinality(Owed(c))
    /\ \A p \in Processes : poisoned[p] => writer = p /\ uncommitted \notin tracked

History == INSTANCE SchemaHistory WITH applied <- tracked, effects <- ran

\* Seen in the committed data, every step of apply_pending, of any process, is the
\* whole application of the next migration of one list or nothing: a failing
\* statement, a COMMIT that raises and a death leave no part of one, although each
\* process decides what is pending on names it read before it had the write lock.
ImplementsHistory == History!HistorySpec

=============================================================================
