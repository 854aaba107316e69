---------------------------- MODULE SchemaHistory ----------------------------
(***************************************************************************)
(* What apply_pending promises to whoever opens the database: however many  *)
(* processes apply their lists at once, the data is as if one had applied   *)
(* the migrations alone, each as a whole, once, and each component's in the *)
(* order of its list.  Migrations.tla is shown to implement this.           *)
(***************************************************************************)
EXTENDS Naturals, Sequences

CONSTANTS
    Components,     \* lists of migrations ...
    MigrationsOf,   \* ... and each one's names
    Names           \* all of them

VARIABLES
    applied,    \* the migrations on record
    effects     \* how often each one's statements are in the data

historyVars == <<applied, effects>>

HistoryInit ==
    /\ applied = {}
    /\ effects = [n \in Names |-> 0]

\* The next migration of a list: its statements and its record, together.
Apply(c, i) ==
    /\ \A j \in 1..i - 1 : MigrationsOf[c][j] \in applied
    /\ MigrationsOf[c][i] \notin applied
    /\ applied' = applied \cup {MigrationsOf[c][i]}
    /\ effects' = [effects EXCEPT ![MigrationsOf[c][i]] = @ + 1]

HistoryNext == \E c \in Components : \E i \in 1..Len(MigrationsOf[c]) : Apply(c, i)

HistorySpec == HistoryInit /\ [][HistoryNext]_historyVars
=============================================================================
