------------------------------- MODULE GateBook -------------------------------
(***************************************************************************)
(* What the gates promise to whoever reads the table or the audit file: a  *)
(* book to which whole proposals and whole decisions are added, one gate   *)
(* at a time, and a trail of events, each of something that is in the book *)
(* already.  Nothing is taken out of either, by a race or by a crash.  The *)
(* book does not promise one decision per gate: two callers may both have  *)
(* found it open.  Gates.tla is shown to implement this.                   *)
(***************************************************************************)
CONSTANTS
  GateIds,    (* the gates                                                 *)
  Verdicts,   (* the decisions, each with its caller, status and mode      *)
  Undecided   (* what the event of a proposal records                      *)

VARIABLES
  book,       (* per gate its status and the decisions ever written to it  *)
  trail       (* per gate the events on file                               *)

bookVars == <<book, trail>>

Absent == [status |-> "absent", verdicts |-> {}]

BookInit ==
  /\ book = [g \in GateIds |-> Absent]
  /\ trail = [g \in GateIds |-> {}]

\* A gate enters the book open.
Propose(g) ==
  /\ book[g] = Absent
  /\ book' = [book EXCEPT ![g] = [status |-> "pending", verdicts |-> {}]]
  /\ UNCHANGED trail

\* A decision is added to a gate and is its status from now on.
Settle(g, v) ==
  /\ book[g].status # "absent"
  /\ book' = [book EXCEPT ![g] = [status |-> v.status, verdicts |-> @.verdicts \cup {v}]]
  /\ UNCHANGED trail

\* An event says what the book says.
Publish(g, event) ==
  /\ book[g].status # "absent"
  /\ event = Undecided \/ event \in book[g].verdicts
  /\ trail' = [trail EXCEPT ![g] = @ \cup {event}]
  /\ UNCHANGED book

BookNext ==
  \E g \in GateIds :
    \/ Propose(g)
    \/ \E v \in Verdicts : Settle(g, v)
    \/ \E event \in Verdicts \cup {Undecided} : Publish(g, event)

BookSpec == BookInit /\ [][BookNext]_bookVars
=============================================================================
