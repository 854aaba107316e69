----------------------------- MODULE GatesProofs -----------------------------
(***************************************************************************)
(* Theorems about Gates, for every set of threads, proposals and bounds.   *)
(*                                                                         *)
(* The inductive invariant IInv says four things:                          *)
(*   - Tables: both the committed table and the table the connection sees  *)
(*     are well formed, row by row;                                        *)
(*   - Connection: the two tables differ in at most one row, the one the   *)
(*     open transaction has written, and the uncommitted one is ahead;     *)
(*   - Thread: what a thread carries at each label is what it read or      *)
(*     wrote on its way there;                                             *)
(*   - AuditFollowsCommit.                                                 *)
(***************************************************************************)
EXTENDS Gates, TLAPS

\* A row is written only for a drawn identifier, an undecided row carries no
\* decision, a decided one carries the decision its status shows, and all its
\* decisions are warranted.
RowOK(table, g) ==
  /\ table[g].status # "absent" => proposal[g] # NoProposal
  /\ table[g].status = "absent" => table[g].verdicts = {}
  /\ table[g].status \in DecidedStatuses =>
       \E v \in table[g].verdicts : v.status = table[g].status
  /\ \A v \in table[g].verdicts : Warranted(table, g, v)

Tables == \A g \in GateIds : RowOK(rows, g) /\ RowOK(saved, g)

Connection ==
  /\ txn = NoThread => rows = saved
  /\ \A g \in GateIds :
       /\ rows[g] # saved[g] => txn # NoThread /\ gate[txn] = g
       /\ saved[g].verdicts \subseteq rows[g].verdicts
       /\ saved[g].status # "absent" => rows[g].status # "absent"
  /\ txn # NoThread => pc[txn] \in {"created", "decided"}
  /\ \A t \in Threads : pc[t] \in {"created", "decided"} => txn = t

\* The labels at which a thread works on a gate, and at which it has decided.
Busy == {"insert", "created", "announce", "recall", "check", "update", "decided", "record"}
Carrying == {"check", "update", "decided", "record"}

Thread(t) ==
  /\ pc[t] \in Busy =>
       gate[t] \in GateIds /\ gate[t] <= drawn /\ proposal[gate[t]] # NoProposal
  /\ pc[t] \in {"insert", "created"} =>
       /\ saved[gate[t]].status = "absent"
       /\ \A u \in Threads : u # t /\ pc[u] \in {"insert", "created"} => gate[u] # gate[t]
  /\ pc[t] = "insert" => rows[gate[t]].status = "absent"
  /\ pc[t] \in {"created", "announce", "recall"} \cup Carrying => rows[gate[t]].status # "absent"
  /\ pc[t] \in {"announce", "recall", "record"} => saved[gate[t]].status # "absent"
  /\ pc[t] \in Carrying =>
       verdict[t] \in Verdicts /\ verdict[t].by = t /\ Warranted(rows, gate[t], verdict[t])
  /\ pc[t] = "decided" => verdict[t] \in rows[gate[t]].verdicts
  /\ pc[t] = "record" => verdict[t] \in saved[gate[t]].verdicts
  /\ \A g \in todo[t] : rows[g].status # "absent" /\ Due(g)

Drawn == \A g \in GateIds : g > drawn => proposal[g] = NoProposal

IInv ==
  /\ TypeOK
  /\ Drawn
  /\ Tables
  /\ Connection
  /\ \A t \in Threads : Thread(t)
  /\ AuditFollowsCommit

-----------------------------------------------------------------------------
(* Type correctness.                                                       *)

\* Every variable has its type at the start.
LEMMA TypeInit == Init => TypeOK
BY BoundsAssumption DEF Init, TypeOK, GateIds, Rows, DecidedStatuses, HumanStatuses, Labels, Undecided

\* A write keeps the types of what it touches, whatever row it writes.
LEMMA WriteType ==
  ASSUME TypeOK, NEW t \in Threads, gate[t] \in GateIds,
         NEW next \in Labels, NEW row \in Rows, Write(t, next, row)
  PROVE  /\ rows' \in [GateIds -> Rows]
         /\ txn' \in Threads \cup {NoThread}
         /\ pc' \in [Threads -> Labels]
         /\ gate' \in [Threads -> GateIds \cup {0}]
         /\ verdict' \in [Threads -> Verdicts \cup {Undecided}]
         /\ todo' \in [Threads -> SUBSET GateIds]
<1>1. CASE txn # NoThread
  BY <1>1 DEF Write, Abort, TypeOK, Labels
<1>2. CASE txn = NoThread
  BY <1>2 DEF Write, TypeOK
<1> QED
  BY <1>1, <1>2

\* No step of a thread, of the clock or of a crash takes a variable out of its type.
LEMMA TypeStep == ASSUME IInv, [Next]_vars PROVE TypeOK'
<1> USE RolesAssumption, DataAssumption, BoundsAssumption
<1> USE DEF TypeOK
<1>0. TypeOK /\ \A t \in Threads : Thread(t)
  BY DEF IInv
<1>1. ASSUME NEW t \in Proposers, StartPropose(t) PROVE TypeOK'
  <2>1. drawn + 1 \in GateIds /\ t \in Threads
    BY <1>0, <1>1 DEF StartPropose, GateIds, Threads
  <2>2. PICK r \in Requests : proposal' = [proposal EXCEPT ![drawn'] =
          [scope |-> r.scope, key |-> r.key, remember |-> r.remember,
           expires |-> IF r.lifetime = Never THEN Never ELSE now + r.lifetime]]
    BY <1>0, <1>1 DEF StartPropose
  <2>3. proposal' \in [GateIds -> Proposals \cup {NoProposal}]
    BY <1>0, <1>1, <2>1, <2>2 DEF StartPropose, Proposals
  <2> QED
    BY <1>0, <1>1, <2>1, <2>3 DEF StartPropose, Goto, Labels, GateIds
<1>2. ASSUME NEW t \in Operators, StartDecide(t) PROVE TypeOK'
  <2>1. t \in Threads
    BY DEF Threads
  <2>2. PICK g \in GateIds, a \in Actions : Decide(t, g, StatusOf(a), ModeOf(a))
    BY <1>0, <1>2 DEF StartDecide
  <2>3. [by |-> t, status |-> StatusOf(a), mode |-> ModeOf(a)] \in Verdicts
    BY <1>0, <2>1 DEF Verdicts, StatusOf, ModeOf, DecidedStatuses, HumanStatuses, Modes
  <2> QED
    BY <1>0, <1>2, <2>1, <2>2, <2>3 DEF StartDecide, Decide, Goto, Labels
<1>3. ASSUME NEW t \in Sweepers, StartSweep(t) PROVE TypeOK'
  BY <1>0, <1>3 DEF StartSweep, Goto, Labels, Threads, DuePending
<1>4. ASSUME NEW t \in Threads, Step(t) PROVE TypeOK'
  <2>1. CASE Insert(t)
    <3>1. gate[t] \in GateIds
      BY <1>0, <2>1 DEF Insert, Thread, Busy
    <3>2. [status |-> "pending", verdicts |-> {}] \in Rows
      BY DEF Rows
    <3> QED
      BY <1>0, <2>1, <3>1, <3>2, WriteType DEF Insert, Labels
  <2>2. CASE Commit(t)
    BY <1>0, <2>2 DEF Commit, Goto, Labels
  <2>3. CASE Announce(t)
    BY <1>0, <2>3 DEF Announce, Emit, Abort, Goto, Labels
  <2>4. CASE Recall(t)
    <3>1. [by |-> t, status |-> "auto_approved", mode |-> "approve_and_remember"] \in Verdicts
      BY DEF Verdicts, DecidedStatuses, Modes
    <3> QED
      BY <1>0, <2>4, <3>1 DEF Recall, Finish, Abort, Goto, Decide, Labels
  <2>5. CASE SweepNext(t)
    <3>1. [by |-> t, status |-> "expired", mode |-> "none"] \in Verdicts
      BY DEF Verdicts, DecidedStatuses, Modes
    <3> QED
      BY <1>0, <2>5, <3>1 DEF SweepNext, Goto, Decide, Labels
  <2>6. CASE Check(t)
    BY <1>0, <2>6 DEF Check, Abort, Goto, Labels
  <2>7. CASE Update(t)
    <3>1. gate[t] \in GateIds /\ verdict[t] \in Verdicts
      BY <1>0, <2>7 DEF Update, Thread, Busy, Carrying
    <3>2. [status |-> verdict[t].status, verdicts |-> rows[gate[t]].verdicts \cup {verdict[t]}] \in Rows
      BY <1>0, <3>1 DEF Rows, Verdicts
    <3> QED
      BY <1>0, <2>7, <3>1, <3>2, WriteType DEF Update, Labels
  <2>8. CASE Record(t)
    BY <1>0, <2>8 DEF Record, Emit, Finish, Abort, Labels
  <2> QED
    BY <1>0, <1>4, <2>1, <2>2, <2>3, <2>4, <2>5, <2>6, <2>7, <2>8 DEF Step
<1>5. CASE Tick
  BY <1>0, <1>5 DEF Tick
<1>6. CASE Crash
  BY <1>0, <1>6 DEF Crash, Labels
<1>7. CASE UNCHANGED vars
  BY <1>0, <1>7 DEF vars
<1> QED
  BY <1>0, <1>1, <1>2, <1>3, <1>4, <1>5, <1>6, <1>7 DEF Next

-----------------------------------------------------------------------------
(* The frame of a step: what no step takes back.                           *)

\* Time goes on, drawn proposals stay, and tables only gain rows and decisions.
Grows ==
  /\ now <= now'
  /\ drawn <= drawn'
  /\ \A g \in GateIds :
       /\ proposal[g] # NoProposal => proposal'[g] = proposal[g]
       /\ rows[g].verdicts \subseteq rows'[g].verdicts
       /\ saved[g].verdicts \subseteq saved'[g].verdicts
       /\ rows[g].status # "absent" => rows'[g].status # "absent"
       /\ saved[g].status # "absent" => saved'[g].status # "absent"

\* Only thread t moves.
OnlyMoves(t) ==
  \A u \in Threads : u # t =>
    pc'[u] = pc[u] /\ gate'[u] = gate[u] /\ verdict'[u] = verdict[u] /\ todo'[u] = todo[u]

\* A deadline that has passed has passed for good.
LEMMA DueForward ==
  ASSUME TypeOK, TypeOK', Grows, NEW g \in GateIds, Due(g)
  PROVE  Due(g)'
BY DEF TypeOK, Grows, Due, Proposals

\* A warranted decision stays warranted in any table that has grown: A is the
\* table it is warranted in, B the one it is looked up in afterwards.
LEMMA WarrantForward ==
  ASSUME TypeOK, TypeOK', Grows, NEW A, NEW B, NEW g \in GateIds, NEW v,
         proposal[g] # NoProposal, Warranted(A, g, v),
         \A h \in GateIds : A[h].verdicts \subseteq B[h].verdicts
  PROVE  Warranted(B, g, v)'
<1>1. ASSUME v.status = "auto_approved"
      PROVE  Grounded(B, g)'
  <2>1. PICK h \in GateIds :
          /\ proposal[h] # NoProposal
          /\ proposal[h].scope = proposal[g].scope
          /\ proposal[h].key = proposal[g].key
          /\ \E w \in A[h].verdicts : w.by \in Operators /\ w.status \in Approvals
    BY <1>1 DEF Warranted, Grounded
  <2>2. proposal'[h] = proposal[h] /\ proposal'[g] = proposal[g]
    BY <2>1 DEF Grows
  <2> QED
    BY <2>1, <2>2 DEF Grounded
<1>2. v.status = "expired" => Due(g)'
  BY DueForward DEF Warranted
<1> QED
  BY <1>1, <1>2 DEF Warranted

\* What a thread carries stays true while another one moves.
LEMMA OthersKeep ==
  ASSUME IInv, TypeOK', Grows, NEW t \in Threads, OnlyMoves(t),
         NEW u \in Threads, u # t,
         pc[u] \in {"insert", "created"} => saved'[gate[u]].status = "absent",
         pc[u] = "insert" => rows'[gate[u]].status = "absent",
         pc[u] \in {"insert", "created"} /\ pc'[t] \in {"insert", "created"} => gate'[t] # gate[u]
  PROVE  Thread(u)'
<1> USE DEF IInv
<1>1. Thread(u) /\ pc'[u] = pc[u] /\ gate'[u] = gate[u] /\ verdict'[u] = verdict[u] /\ todo'[u] = todo[u]
  BY DEF OnlyMoves
<1>2. pc[u] \in Busy =>
        /\ gate[u] \in GateIds /\ gate[u] <= drawn'
        /\ proposal'[gate[u]] # NoProposal
  BY <1>1 DEF Thread, Grows, TypeOK, GateIds
<1>3. pc[u] \in {"insert", "created"} =>
        \A w \in Threads : w # u /\ pc'[w] \in {"insert", "created"} => gate'[w] # gate[u]
  BY <1>1 DEF Thread, OnlyMoves
<1>4. /\ pc[u] \in {"created", "announce", "recall"} \cup Carrying => rows'[gate[u]].status # "absent"
      /\ pc[u] \in {"announce", "recall", "record"} => saved'[gate[u]].status # "absent"
  BY <1>1, <1>2 DEF Thread, Grows, Busy, Carrying
<1>5. /\ pc[u] = "decided" => verdict[u] \in rows'[gate[u]].verdicts
      /\ pc[u] = "record" => verdict[u] \in saved'[gate[u]].verdicts
  BY <1>1, <1>2 DEF Thread, Grows, Busy
<1>6. \A g \in todo[u] : rows'[g].status # "absent" /\ Due(g)'
  BY <1>1, DueForward DEF Thread, Grows, TypeOK
<1>7. pc[u] \in Carrying => (Warranted(rows, gate[u], verdict[u]))'
  <2> SUFFICES ASSUME pc[u] \in Carrying,
                      NEW g \in GateIds, NEW v, g = gate[u], v = verdict[u]
               PROVE  Warranted(rows, g, v)'
    BY <1>1, <1>2 DEF Busy, Carrying, Warranted, Grounded, Due
  <2>1. proposal[g] # NoProposal /\ Warranted(rows, g, v)
    BY <1>1 DEF Thread, Busy, Carrying
  <2>2. \A h \in GateIds : rows[h].verdicts \subseteq rows'[h].verdicts
    BY DEF Grows
  <2>3. \A B : (\A h \in GateIds : rows[h].verdicts \subseteq B[h].verdicts) => Warranted(B, g, v)'
    BY <2>1, WarrantForward
  <2> QED
    BY <2>2, <2>3 DEF Warranted, Grounded
<1> QED
  BY <1>1, <1>2, <1>3, <1>4, <1>5, <1>6, <1>7 DEF Thread

-----------------------------------------------------------------------------
(* The inductive invariant.                                                *)

\* The inductive invariant holds before any call.
LEMMA InitInv == Init => IInv
<1> SUFFICES ASSUME Init PROVE IInv
  OBVIOUS
<1>1. TypeOK
  BY TypeInit
<1>2. Drawn /\ Tables /\ Connection
  BY RolesAssumption DEF Init, Drawn, Tables, RowOK, DecidedStatuses, HumanStatuses, Connection
<1>3. \A t \in Threads : Thread(t)
  BY DEF Init, Thread, Busy, Carrying
<1> QED
  BY <1>1, <1>2, <1>3 DEF IInv, Init, AuditFollowsCommit

\* A step that leaves the tables, the proposals and the clock alone, and takes
\* its thread neither into nor out of a transaction.
LEMMA QuietStep ==
  ASSUME IInv, TypeOK', NEW t \in Threads, OnlyMoves(t),
         UNCHANGED <<now, drawn, proposal, rows, saved, txn>>,
         pc[t] \notin {"created", "decided"},
         pc'[t] \notin {"insert", "created", "decided"},
         Thread(t)', AuditFollowsCommit'
  PROVE  IInv'
<1>1. Drawn' /\ Tables'
  BY DEF IInv, Drawn, Tables, RowOK, Warranted, Grounded, Due
<1>2. Connection'
  BY RolesAssumption DEF IInv, Connection, OnlyMoves, TypeOK
<1>3. Grows
  BY DEF IInv, TypeOK, Grows
<1>4. ASSUME NEW u \in Threads PROVE Thread(u)'
  <2>1. CASE u = t
    BY <2>1
  <2>2. CASE u # t
    <3>1. /\ pc[u] \in {"insert", "created"} => saved'[gate[u]].status = "absent"
          /\ pc[u] = "insert" => rows'[gate[u]].status = "absent"
      BY DEF IInv, Thread
    <3> QED
      BY <1>3, <2>2, <3>1, OthersKeep
  <2> QED
    BY <2>1, <2>2
<1> QED
  BY <1>1, <1>2, <1>4 DEF IInv

\* Returning and raising leave the thread with nothing to account for.
LEMMA AbortThread ==
  ASSUME TypeOK, NEW t \in Threads, Abort(t)
  PROVE  OnlyMoves(t) /\ pc'[t] = "idle" /\ Thread(t)'
BY DEF TypeOK, Abort, OnlyMoves, Thread, Busy, Carrying

\* Returning leaves the thread idle, or a sweep with the rest of its snapshot.
LEMMA FinishThread ==
  ASSUME IInv, NEW t \in Threads, Finish(t), UNCHANGED <<now, proposal, rows>>
  PROVE  OnlyMoves(t) /\ pc'[t] \in {"idle", "sweep"} /\ Thread(t)'
<1>1. CASE todo[t] = {}
  BY <1>1, AbortThread DEF IInv, Finish
<1>2. CASE todo[t] # {}
  BY <1>2 DEF IInv, TypeOK, Finish, OnlyMoves, Thread, Busy, Carrying, Due
<1> QED
  BY <1>1, <1>2

\* The steps that only read, and those that write to the audit file.
LEMMA AnnounceStep == ASSUME IInv, TypeOK', NEW t \in Threads, Announce(t) PROVE IInv'
<1> USE DEF IInv
<1>1. pc[t] = "announce" /\ Thread(t) /\ gate[t] \in GateIds
  BY DEF Announce, Emit, Thread, Busy
<1>2. CASE Abort(t) /\ UNCHANGED audit
  <2>1. AuditFollowsCommit'
    BY <1>2 DEF Announce, Emit, AuditFollowsCommit
  <2> QED
    BY <1>1, <1>2, <2>1, AbortThread, QuietStep DEF Announce, Emit
<1>3. CASE Goto(t, "announce", "recall") /\ audit' = [audit EXCEPT ![gate[t]] = @ \cup {Undecided}]
  <2>0. UNCHANGED <<now, drawn, proposal, rows, saved, txn, gate, verdict, todo>>
    BY <1>1, <1>3 DEF Announce, Emit, Abort, Goto, TypeOK
  <2>1. AuditFollowsCommit'
    BY <1>1, <1>3, <2>0 DEF Thread, AuditFollowsCommit, TypeOK
  <2>2. OnlyMoves(t) /\ pc'[t] = "recall"
    BY <1>3, <2>0 DEF Goto, OnlyMoves, TypeOK
  <2>3. Thread(t)'
    BY <1>1, <2>0, <2>2 DEF Thread, Busy, Carrying, Due
  <2> QED
    BY <1>1, <2>0, <2>1, <2>2, <2>3, QuietStep
<1> QED
  BY <1>2, <1>3 DEF Announce, Emit

\* The lookup grounds an auto-approval: the row it matched was approved by an
\* operator, or auto-approved and then grounded itself.
LEMMA RecallGrounds ==
  ASSUME IInv, NEW g \in GateIds, Remembered(g)
  PROVE  Grounded(rows, g)
<1>1. PICK h \in GateIds :
        /\ rows[h].status \in {"approved", "modified_and_approved", "auto_approved"}
        /\ proposal[h].scope = proposal[g].scope
        /\ proposal[h].key = proposal[g].key
  BY DEF Remembered
<1>2. RowOK(rows, h) /\ proposal[h] # NoProposal
  BY <1>1 DEF IInv, Tables, RowOK
<1>3. PICK v \in rows[h].verdicts : v.status = rows[h].status
  BY <1>1, <1>2 DEF RowOK, DecidedStatuses, HumanStatuses
<1>4. Warranted(rows, h, v)
  BY <1>2, <1>3 DEF RowOK
<1>5. CASE v.status = "auto_approved"
  BY <1>1, <1>4, <1>5 DEF Warranted, Grounded
<1>6. CASE v.status \in Approvals
  <2>1. v.by \in Operators
    BY <1>4, <1>6 DEF Warranted, Approvals, HumanStatuses
  <2> QED
    BY <1>1, <1>2, <1>3, <1>6, <2>1 DEF Grounded
<1> QED
  BY <1>1, <1>3, <1>5, <1>6 DEF Approvals

\* The similarity lookup of propose_for_review keeps the invariant.
LEMMA RecallStep == ASSUME IInv, TypeOK', NEW t \in Threads, Recall(t) PROVE IInv'
<1> USE DEF IInv
<1>1. pc[t] = "recall" /\ Thread(t) /\ gate[t] \in GateIds
  BY DEF Recall, Thread, Busy
<1>2. UNCHANGED <<now, drawn, proposal, rows, saved, txn, audit>>
  BY DEF Recall
<1>3. AuditFollowsCommit'
  BY <1>2 DEF AuditFollowsCommit
<1>4. CASE Finish(t)
  BY <1>1, <1>2, <1>3, <1>4, FinishThread, QuietStep
<1>5. CASE /\ Remembered(gate[t])
           /\ Goto(t, "recall", "check")
           /\ Decide(t, gate[t], "auto_approved", "approve_and_remember")
           /\ UNCHANGED todo
  <2>1. OnlyMoves(t) /\ pc'[t] = "check" /\ gate'[t] = gate[t] /\ todo'[t] = todo[t]
    BY <1>5 DEF Goto, Decide, OnlyMoves, TypeOK
  <2>2. verdict'[t] = [by |-> t, status |-> "auto_approved", mode |-> "approve_and_remember"]
    BY <1>5 DEF Decide, TypeOK
  <2>3. verdict'[t] \in Verdicts
    BY <2>2 DEF Verdicts, DecidedStatuses, Modes
  <2>4. Warranted(rows, gate[t], verdict[t])'
    <3>1. Grounded(rows, gate[t])
      BY <1>1, <1>5, RecallGrounds
    <3> QED
      BY <1>2, <2>1, <2>2, <3>1 DEF Warranted, Grounded, HumanStatuses
  <2>5. Thread(t)'
    BY <1>1, <1>2, <2>1, <2>2, <2>3, <2>4 DEF Thread, Busy, Carrying, Due
  <2> QED
    BY <1>1, <1>2, <1>3, <2>1, <2>5, QuietStep
<1> QED
  BY <1>4, <1>5 DEF Recall

\* The dashboard's decide carries a human status for a gate that exists.
LEMMA StartDecideStep == ASSUME IInv, TypeOK', NEW t \in Operators, StartDecide(t) PROVE IInv'
<1> USE DEF IInv
<1>1. t \in Threads /\ pc[t] = "idle" /\ Thread(t)
  BY DEF StartDecide, Goto, Threads
<1>2. UNCHANGED <<now, drawn, proposal, rows, saved, txn, audit, todo>>
  BY DEF StartDecide
<1>3. AuditFollowsCommit'
  BY <1>2 DEF AuditFollowsCommit
<1>4. PICK g \in GateIds, a \in Actions :
        rows[g].status # "absent" /\ Decide(t, g, StatusOf(a), ModeOf(a))
  BY DEF StartDecide
<1>5. OnlyMoves(t) /\ pc'[t] = "check" /\ gate'[t] = g /\ todo'[t] = todo[t]
  BY <1>1, <1>2, <1>4 DEF StartDecide, Goto, Decide, OnlyMoves, TypeOK
<1>6. verdict'[t] = [by |-> t, status |-> StatusOf(a), mode |-> ModeOf(a)]
  BY <1>1, <1>4 DEF Decide, TypeOK
<1>7. StatusOf(a) \in HumanStatuses /\ ModeOf(a) \in Modes
  BY DEF StatusOf, ModeOf, HumanStatuses, Modes
<1>8. verdict'[t] \in Verdicts /\ Warranted(rows, gate[t], verdict[t])'
  BY <1>1, <1>6, <1>7 DEF Verdicts, DecidedStatuses, HumanStatuses, Warranted
<1>9. proposal[g] # NoProposal /\ g <= drawn
  BY <1>4 DEF Tables, RowOK, Drawn, TypeOK, GateIds
<1>10. Thread(t)'
  BY <1>1, <1>2, <1>4, <1>5, <1>6, <1>8, <1>9 DEF Thread, Busy, Carrying, Due
<1> QED
  BY <1>1, <1>2, <1>3, <1>5, <1>10, QuietStep

\* The snapshot of expire_due holds only gates past their deadline.
LEMMA StartSweepStep == ASSUME IInv, TypeOK', NEW t \in Sweepers, StartSweep(t) PROVE IInv'
<1> USE DEF IInv
<1>1. t \in Threads /\ pc[t] = "idle" /\ Thread(t)
  BY DEF StartSweep, Goto, Threads
<1>2. UNCHANGED <<now, drawn, proposal, rows, saved, txn, audit, gate, verdict>>
  BY DEF StartSweep
<1>3. AuditFollowsCommit'
  BY <1>2 DEF AuditFollowsCommit
<1>4. OnlyMoves(t) /\ pc'[t] = "sweep" /\ todo'[t] = DuePending
  BY <1>1, <1>2 DEF StartSweep, Goto, OnlyMoves, TypeOK
<1>5. Thread(t)'
  BY <1>1, <1>2, <1>4 DEF Thread, Busy, Carrying, Due, DuePending
<1> QED
  BY <1>1, <1>2, <1>3, <1>4, <1>5, QuietStep

\* A sweep carries an expiry only for a due gate of its snapshot.
LEMMA SweepNextStep == ASSUME IInv, TypeOK', NEW t \in Threads, SweepNext(t) PROVE IInv'
<1> USE DEF IInv
<1>1. pc[t] = "sweep" /\ Thread(t)
  BY DEF SweepNext, Goto
<1>2. UNCHANGED <<now, drawn, proposal, rows, saved, txn, audit>>
  BY DEF SweepNext
<1>3. AuditFollowsCommit'
  BY <1>2 DEF AuditFollowsCommit
<1>4. PICK g \in todo[t] :
        Decide(t, g, "expired", "none") /\ todo' = [todo EXCEPT ![t] = @ \ {g}]
  BY DEF SweepNext
<1>5. g \in GateIds /\ rows[g].status # "absent" /\ Due(g)
  BY <1>1, <1>4 DEF Thread, TypeOK
<1>6. OnlyMoves(t) /\ pc'[t] = "check" /\ gate'[t] = g /\ todo'[t] = todo[t] \ {g}
  BY <1>1, <1>4 DEF SweepNext, Goto, Decide, OnlyMoves, TypeOK
<1>7. verdict'[t] = [by |-> t, status |-> "expired", mode |-> "none"]
  BY <1>4 DEF Decide, TypeOK
<1>8. verdict'[t] \in Verdicts /\ Warranted(rows, gate[t], verdict[t])'
  BY <1>2, <1>5, <1>6, <1>7 DEF Verdicts, DecidedStatuses, HumanStatuses, Modes, Warranted, Due
<1>9. proposal[g] # NoProposal /\ g <= drawn
  BY <1>5 DEF Tables, RowOK, Drawn, TypeOK, GateIds
<1>10. Thread(t)'
  BY <1>1, <1>2, <1>5, <1>6, <1>7, <1>8, <1>9 DEF Thread, Busy, Carrying, Due
<1> QED
  BY <1>1, <1>2, <1>3, <1>6, <1>10, QuietStep

\* update_decision's reading of the row keeps the invariant, whether it raises or not.
LEMMA CheckStep == ASSUME IInv, TypeOK', NEW t \in Threads, Check(t) PROVE IInv'
<1> USE DEF IInv
<1>1. pc[t] = "check" /\ Thread(t)
  BY DEF Check
<1>2. UNCHANGED <<now, drawn, proposal, rows, saved, txn, audit>>
  BY DEF Check
<1>3. AuditFollowsCommit'
  BY <1>2 DEF AuditFollowsCommit
<1>4. CASE Abort(t)
  BY <1>1, <1>2, <1>3, <1>4, AbortThread, QuietStep
<1>5. CASE Goto(t, "check", "update") /\ UNCHANGED <<gate, verdict, todo>>
  <2>1. OnlyMoves(t) /\ pc'[t] = "update"
    BY <1>5 DEF Goto, OnlyMoves, TypeOK
  <2>2. Thread(t)'
    BY <1>1, <1>2, <1>5, <2>1 DEF Thread, Busy, Carrying, Due, Warranted, Grounded
  <2> QED
    BY <1>1, <1>2, <1>3, <2>1, <2>2, QuietStep
<1> QED
  BY <1>4, <1>5 DEF Check

\* Auditing a decision names one that its own thread has committed.
LEMMA RecordStep == ASSUME IInv, TypeOK', NEW t \in Threads, Record(t) PROVE IInv'
<1> USE DEF IInv
<1>1. pc[t] = "record" /\ Thread(t) /\ gate[t] \in GateIds
  BY DEF Record, Emit, Thread, Busy
<1>2. UNCHANGED <<now, drawn, proposal, rows, saved, txn>>
  BY DEF Record, Emit
<1>3. CASE Abort(t) /\ UNCHANGED audit
  <2>1. AuditFollowsCommit'
    BY <1>2, <1>3 DEF AuditFollowsCommit
  <2> QED
    BY <1>1, <1>2, <1>3, <2>1, AbortThread, QuietStep
<1>4. CASE Finish(t) /\ audit' = [audit EXCEPT ![gate[t]] = @ \cup {verdict[t]}]
  <2>1. AuditFollowsCommit'
    BY <1>1, <1>2, <1>4 DEF Thread, AuditFollowsCommit, TypeOK
  <2> QED
    BY <1>1, <1>2, <1>4, <2>1, FinishThread, QuietStep
<1> QED
  BY <1>3, <1>4 DEF Record, Emit

\* Both tables stay well formed in a step that only adds rows and decisions, if
\* the row it writes, of gate g, is well formed: every other row is unchanged.
LEMMA TablesForward ==
  ASSUME IInv, TypeOK', Grows, NEW A, NEW B, NEW h \in GateIds,
         RowOK(A, h), A[h] = B[h],
         \A k \in GateIds : A[k].verdicts \subseteq B[k].verdicts
  PROVE  RowOK(B, h)'
<1>1. B[h].status # "absent" => proposal'[h] # NoProposal
  BY DEF RowOK, Grows
<1>2. ASSUME NEW v \in B[h].verdicts PROVE Warranted(B, h, v)'
  <2>1. Warranted(A, h, v) /\ proposal[h] # NoProposal
    BY <1>2 DEF RowOK, IInv, TypeOK
  <2> QED
    BY <2>1, WarrantForward DEF IInv
<1> QED
  BY <1>1, <1>2 DEF RowOK

\* A new proposal takes an identifier no row and no thread uses.
LEMMA StartProposeStep == ASSUME IInv, TypeOK', NEW t \in Proposers, StartPropose(t) PROVE IInv'
<1> USE DEF IInv
<1>1. t \in Threads /\ pc[t] = "idle" /\ Thread(t) /\ drawn' = drawn + 1 /\ drawn' \in GateIds
  BY BoundsAssumption DEF StartPropose, Goto, Threads, TypeOK, GateIds
<1>2. UNCHANGED <<now, rows, saved, txn, audit, verdict, todo>>
  BY DEF StartPropose
<1>3. PICK r \in Requests : proposal' = [proposal EXCEPT ![drawn'] =
        [scope |-> r.scope, key |-> r.key, remember |-> r.remember,
         expires |-> IF r.lifetime = Never THEN Never ELSE now + r.lifetime]]
  BY DEF StartPropose
<1>4. OnlyMoves(t) /\ pc'[t] = "insert" /\ gate'[t] = drawn' /\ todo'[t] = todo[t]
  BY <1>1, <1>2 DEF StartPropose, Goto, OnlyMoves, TypeOK
<1>5. proposal[drawn'] = NoProposal /\ \A g \in GateIds : g # drawn' => proposal'[g] = proposal[g]
  BY <1>1, <1>3 DEF Drawn, TypeOK, GateIds
<1>6. Grows
  BY <1>1, <1>2, <1>5 DEF Grows, TypeOK, GateIds
<1>7. Drawn'
  BY <1>1, <1>5 DEF Drawn, TypeOK, GateIds
<1>8. Tables'
  <2> SUFFICES ASSUME NEW h \in GateIds PROVE RowOK(rows, h)' /\ RowOK(saved, h)'
    BY DEF Tables
  <2>1. RowOK(rows, h) /\ RowOK(saved, h)
    BY DEF Tables
  <2>2. \A B : B = rows => RowOK(B, h)'
    BY <1>6, <2>1, TablesForward
  <2>3. \A B : B = saved => RowOK(B, h)'
    BY <1>6, <2>1, TablesForward
  <2> QED
    BY <1>2, <2>2, <2>3 DEF RowOK, Warranted, Grounded
<1>9. Connection'
  BY <1>1, <1>2, <1>4, RolesAssumption DEF Connection, OnlyMoves, TypeOK
<1>10. rows[drawn'].status = "absent" /\ saved[drawn'].status = "absent"
  BY <1>1, <1>5 DEF Tables, RowOK
<1>11. \A u \in Threads : u # t /\ pc[u] \in Busy => gate[u] # drawn'
  BY <1>1 DEF Thread, TypeOK, GateIds
<1>12. proposal'[drawn'] # NoProposal
  <2>1. [scope |-> r.scope, key |-> r.key, remember |-> r.remember,
         expires |-> IF r.lifetime = Never THEN Never ELSE now + r.lifetime] \in Proposals
    BY DataAssumption DEF Proposals, TypeOK
  <2> QED
    BY <1>1, <1>3, <2>1, NoProposalAssumption DEF TypeOK
<1>13. Thread(t)'
  <2>1. \A u \in Threads : u # t /\ pc'[u] \in {"insert", "created"} => gate'[u] # gate'[t]
    BY <1>4, <1>11 DEF OnlyMoves, Busy
  <2>2. \A g \in todo[t] : rows[g].status # "absent" /\ Due(g)'
    BY <1>1, <1>6, DueForward DEF Thread, TypeOK
  <2> QED
    BY <1>1, <1>2, <1>4, <1>10, <1>12, <2>1, <2>2 DEF Thread, Busy, Carrying, TypeOK
<1>14. ASSUME NEW u \in Threads, u # t PROVE Thread(u)'
  <2>1. /\ pc[u] \in {"insert", "created"} => saved'[gate[u]].status = "absent" /\ gate'[t] # gate[u]
        /\ pc[u] = "insert" => rows'[gate[u]].status = "absent"
    BY <1>2, <1>4, <1>11, <1>14 DEF Thread, Busy
  <2> QED
    BY <1>1, <1>4, <1>6, <1>14, <2>1, OthersKeep
<1>15. AuditFollowsCommit'
  BY <1>2 DEF AuditFollowsCommit
<1> QED
  BY <1>7, <1>8, <1>9, <1>13, <1>14, <1>15

\* BEGIN and the statement: the row written must only add to the row it replaces.
LEMMA WriteStep ==
  ASSUME IInv, TypeOK', NEW t \in Threads, NEW next \in {"created", "decided"}, NEW row \in Rows,
         pc[t] \in {"insert", "update"}, Write(t, next, row),
         UNCHANGED <<now, drawn, proposal, saved, audit, crashes>>,
         row.status # "absent",
         rows[gate[t]].verdicts \subseteq row.verdicts,
         row.status \in DecidedStatuses => \E v \in row.verdicts : v.status = row.status,
         \A v \in row.verdicts :
           v \in rows[gate[t]].verdicts \/ Warranted(rows, gate[t], v),
         next = "created" => pc[t] = "insert",
         next = "decided" => pc[t] = "update" /\ verdict[t] \in row.verdicts
  PROVE  IInv'
<1> USE DEF IInv
<1>0. Thread(t) /\ gate[t] \in GateIds /\ proposal[gate[t]] # NoProposal
  BY DEF Thread, Busy
<1>1. AuditFollowsCommit'
  BY DEF AuditFollowsCommit
<1>2. CASE txn # NoThread
  <2>1. Abort(t) /\ UNCHANGED <<rows, txn>>
    BY <1>2 DEF Write
  <2> QED
    BY <1>1, <2>1, AbortThread, QuietStep
<1>3. CASE txn = NoThread
  <2>1. /\ txn' = t /\ rows' = [rows EXCEPT ![gate[t]] = row]
        /\ pc' = [pc EXCEPT ![t] = next] /\ UNCHANGED <<gate, verdict, todo>>
    BY <1>3 DEF Write
  <2>2. rows = saved /\ \A u \in Threads : pc[u] \notin {"created", "decided"}
    BY <1>3, RolesAssumption DEF Connection
  <2>3. OnlyMoves(t) /\ pc'[t] = next
    BY <2>1 DEF OnlyMoves, TypeOK
  <2>4. rows'[gate[t]] = row /\ \A g \in GateIds : g # gate[t] => rows'[g] = rows[g]
    BY <1>0, <2>1 DEF TypeOK
  <2>5. \A g \in GateIds : rows[g].verdicts \subseteq rows'[g].verdicts
    BY <2>4
  <2>6. Grows
    BY <2>4, <2>5 DEF Grows, TypeOK
  <2>7. Drawn'
    BY DEF Drawn
  <2>8. Tables'
    <3> SUFFICES ASSUME NEW h \in GateIds PROVE RowOK(rows, h)' /\ RowOK(saved, h)'
      BY DEF Tables
    <3>1. RowOK(rows, h) /\ RowOK(saved, h)
      BY DEF Tables
    <3>2. \A B : B = saved => RowOK(B, h)'
      BY <2>6, <3>1, TablesForward
    <3>3. \A B : B = rows' /\ h # gate[t] => RowOK(B, h)'
      BY <2>4, <2>5, <2>6, <3>1, TablesForward
    <3>4. ASSUME h = gate[t] PROVE RowOK(rows, h)'
      <4>1. ASSUME NEW v \in row.verdicts PROVE Warranted(rows, h, v)
        BY <3>1, <3>4, <4>1 DEF RowOK
      <4>2. ASSUME NEW v \in row.verdicts PROVE \A B : B = rows' => Warranted(B, h, v)'
        BY <1>0, <2>5, <2>6, <3>4, <4>1, <4>2, WarrantForward
      <4> QED
        BY <1>0, <2>4, <3>4, <4>2 DEF RowOK, Warranted, Grounded
    <3> QED
      BY <3>2, <3>3, <3>4 DEF RowOK, Warranted, Grounded
  <2>9. Connection'
    <3>1. \A g \in GateIds : /\ rows'[g] # saved'[g] => gate'[txn'] = g
                             /\ saved'[g].verdicts \subseteq rows'[g].verdicts
                             /\ saved'[g].status # "absent" => rows'[g].status # "absent"
      BY <2>1, <2>2, <2>4
    <3> QED
      BY <2>1, <2>2, <2>3, <3>1, RolesAssumption DEF Connection, OnlyMoves
  <2>10. Thread(t)'
    <3>1. \A g \in todo[t] : rows'[g].status # "absent" /\ Due(g)'
      BY <1>0, <2>6, DueForward DEF Thread, Grows, TypeOK
    <3>2. next = "created" =>
            /\ saved[gate[t]].status = "absent"
            /\ \A u \in Threads : u # t /\ pc'[u] \in {"insert", "created"} => gate[u] # gate[t]
      BY <1>0, <2>3 DEF Thread, OnlyMoves
    <3>3. next = "decided" =>
            /\ verdict[t] \in Verdicts /\ verdict[t].by = t
            /\ Warranted(rows, gate[t], verdict[t])
      BY <1>0 DEF Thread, Carrying
    <3>4. ASSUME next = "decided" PROVE Warranted(rows, gate[t], verdict[t])'
      <4> SUFFICES ASSUME NEW g \in GateIds, NEW v, g = gate[t], v = verdict[t]
                   PROVE  Warranted(rows, g, v)'
        BY <1>0, <2>1 DEF Warranted, Grounded, Due
      <4>1. \A B : (\A h \in GateIds : rows[h].verdicts \subseteq B[h].verdicts) => Warranted(B, g, v)'
        BY <1>0, <2>6, <3>3, <3>4, WarrantForward
      <4> QED
        BY <2>5, <4>1 DEF Warranted, Grounded
    <3> QED
      BY <1>0, <2>1, <2>3, <2>4, <3>1, <3>2, <3>3, <3>4 DEF Thread, Busy, Carrying
  <2>11. ASSUME NEW u \in Threads, u # t PROVE Thread(u)'
    <3>1. /\ pc[u] \in {"insert", "created"} => saved'[gate[u]].status = "absent"
          /\ pc[u] = "insert" => gate[u] \in GateIds /\ rows[gate[u]].status = "absent"
      BY <2>11 DEF Thread, Busy
    <3>2. pc[u] \in {"insert", "created"} /\ pc'[t] \in {"insert", "created"} => gate'[t] # gate[u]
      BY <1>0, <2>1, <2>3, <2>11 DEF Thread
    <3>3. pc[u] = "insert" => gate[u] # gate[t]
      BY <1>0, <2>11, <3>1 DEF Thread, Carrying
    <3> QED
      BY <2>3, <2>4, <2>6, <2>11, <3>1, <3>2, <3>3, OthersKeep
  <2> QED
    BY <1>1, <2>7, <2>8, <2>9, <2>10, <2>11
<1> QED
  BY <1>2, <1>3

\* GateStore.insert writes a row nobody has seen yet.
LEMMA InsertStep == ASSUME IInv, TypeOK', NEW t \in Threads, Insert(t) PROVE IInv'
<1> DEFINE row == [status |-> "pending", verdicts |-> {}]
<1>1. Thread(t) /\ pc[t] = "insert" /\ Write(t, "created", row)
  BY DEF IInv, Insert
<1>2. row \in Rows /\ row.status = "pending" /\ row.verdicts = {}
  BY DEF Rows
<1>3. rows[gate[t]].verdicts = {}
  BY <1>1 DEF Thread, Busy, IInv, Tables, RowOK
<1>4. UNCHANGED <<now, drawn, proposal, saved, audit, crashes>>
  BY DEF Insert
<1> HIDE DEF row
<1> QED
  BY <1>1, <1>2, <1>3, <1>4, WriteStep DEF DecidedStatuses, HumanStatuses

\* The UPDATE of a decision only adds to the decisions of its row.
LEMMA UpdateStep == ASSUME IInv, TypeOK', NEW t \in Threads, Update(t) PROVE IInv'
<1> DEFINE row == [status |-> verdict[t].status, verdicts |-> rows[gate[t]].verdicts \cup {verdict[t]}]
<1>1. Thread(t) /\ pc[t] = "update" /\ Write(t, "decided", row)
  BY DEF IInv, Update
<1>2. gate[t] \in GateIds /\ verdict[t] \in Verdicts /\ Warranted(rows, gate[t], verdict[t])
  BY <1>1 DEF Thread, Busy, Carrying
<1>3. row \in Rows /\ row.status = verdict[t].status
  BY <1>2 DEF Rows, Verdicts, IInv, TypeOK
<1>4. row.verdicts = rows[gate[t]].verdicts \cup {verdict[t]}
  OBVIOUS
<1>5. row.status # "absent"
  BY <1>2, <1>3 DEF Verdicts, DecidedStatuses, HumanStatuses
<1>6. UNCHANGED <<now, drawn, proposal, saved, audit, crashes>>
  BY DEF Update
<1> HIDE DEF row
<1> QED
  BY <1>1, <1>2, <1>3, <1>4, <1>5, <1>6, WriteStep

\* COMMIT makes the rows the connection sees durable, and they are well formed.
LEMMA CommitStep == ASSUME IInv, TypeOK', NEW t \in Threads, Commit(t) PROVE IInv'
<1> USE DEF IInv
<1>0. /\ saved' = rows /\ txn' = NoThread
      /\ UNCHANGED <<now, drawn, proposal, rows, audit, gate, verdict, todo>>
  BY DEF Commit
<1>1. /\ pc[t] \in {"created", "decided"} /\ txn = t /\ Thread(t)
      /\ gate[t] \in GateIds
  BY DEF Commit, Goto, Connection, Thread, Busy
<1>2. /\ OnlyMoves(t)
      /\ pc'[t] = IF pc[t] = "created" THEN "announce" ELSE "record"
  BY <1>0 DEF Commit, Goto, OnlyMoves, TypeOK
<1>3. Grows
  BY <1>0 DEF Grows, Connection, TypeOK
<1>4. Drawn' /\ Tables'
  BY <1>0 DEF Drawn, Tables, RowOK, Warranted, Grounded, Due
<1>5. \A u \in Threads : pc'[u] \notin {"created", "decided"}
  BY <1>1, <1>2 DEF Connection, OnlyMoves
<1>6. Connection'
  BY <1>0, <1>5 DEF Connection
<1>7. AuditFollowsCommit'
  BY <1>0, <1>3 DEF AuditFollowsCommit, Grows
<1>8. Thread(t)'
  <2>1. Warranted(rows, gate[t], verdict[t])' <=> Warranted(rows, gate[t], verdict[t])
    BY <1>0 DEF Warranted, Grounded, Due
  <2>2. \A g \in GateIds : Due(g) <=> Due(g)'
    BY <1>0 DEF Due
  <2> QED
    BY <1>0, <1>1, <1>2, <2>1, <2>2 DEF Thread, Busy, Carrying, TypeOK
<1>9. ASSUME NEW u \in Threads, u # t PROVE Thread(u)'
  <2>1. pc[u] \notin {"created", "decided"}
    BY <1>1, <1>9 DEF Connection
  <2>2. pc[u] = "insert" => rows[gate[u]].status = "absent"
    BY <1>9 DEF Thread
  <2> QED
    BY <1>0, <1>2, <1>3, <1>9, <2>1, <2>2, OthersKeep
<1> QED
  BY <1>4, <1>6, <1>7, <1>8, <1>9

\* Time only turns deadlines into passed ones.
LEMMA TickStep == ASSUME IInv, TypeOK', Tick PROVE IInv'
<1> USE DEF IInv
<1>0. /\ now' = now + 1
      /\ UNCHANGED <<drawn, proposal, rows, saved, txn, audit, pc, gate, verdict, todo>>
  BY DEF Tick
<1>1. Grows
  BY <1>0 DEF Grows, TypeOK
<1>2. Drawn' /\ Connection' /\ AuditFollowsCommit'
  BY <1>0 DEF Drawn, Connection, AuditFollowsCommit
<1>3. Tables'
  <2> SUFFICES ASSUME NEW h \in GateIds PROVE RowOK(rows, h)' /\ RowOK(saved, h)'
    BY DEF Tables
  <2>1. \A B : B = rows => RowOK(B, h)'
    BY <1>1, TablesForward DEF Tables
  <2>2. \A B : B = saved => RowOK(B, h)'
    BY <1>1, TablesForward DEF Tables
  <2> QED
    BY <1>0, <2>1, <2>2 DEF RowOK, Warranted, Grounded
<1>4. ASSUME NEW u \in Threads PROVE Thread(u)'
  <2>1. \A g \in todo[u] : Due(g)'
    BY <1>1, DueForward DEF Thread, TypeOK
  <2>2. pc[u] \in Carrying => Warranted(rows, gate[u], verdict[u])'
    <3> SUFFICES ASSUME pc[u] \in Carrying, NEW g \in GateIds, g = gate[u]
                 PROVE  verdict[u].status = "expired" => Due(g)'
      BY <1>0 DEF Thread, Busy, Carrying, Warranted, Grounded, Due
    <3> QED
      BY <1>1, DueForward DEF Thread, Carrying, Warranted
  <2> QED
    BY <1>0, <2>1, <2>2 DEF Thread
<1> QED
  BY <1>2, <1>3, <1>4

\* A crash falls back to the committed table, which is well formed by itself.
LEMMA CrashStep == ASSUME IInv, TypeOK', Crash PROVE IInv'
<1> USE DEF IInv
<1>0. /\ rows' = saved /\ txn' = NoThread
      /\ UNCHANGED <<now, drawn, proposal, saved, audit>>
      /\ \A u \in Threads : pc'[u] = "idle" /\ todo'[u] = {}
  BY DEF Crash
<1>1. Drawn' /\ Tables'
  BY <1>0 DEF Drawn, Tables, RowOK, Warranted, Grounded, Due
<1>2. Connection' /\ AuditFollowsCommit'
  BY <1>0 DEF Connection, AuditFollowsCommit
<1>3. ASSUME NEW u \in Threads PROVE Thread(u)'
  BY <1>0 DEF Thread, Busy, Carrying
<1> QED
  BY <1>1, <1>2, <1>3

\* Every step keeps the inductive invariant.
LEMMA NextStep == ASSUME IInv, [Next]_vars PROVE IInv'
<1>0. TypeOK'
  BY TypeStep
<1>1. ASSUME NEW t \in Threads, Step(t) PROVE IInv'
  BY <1>0, <1>1, InsertStep, CommitStep, AnnounceStep, RecallStep, SweepNextStep, CheckStep,
     UpdateStep, RecordStep DEF Step
<1>2. CASE UNCHANGED vars
  BY <1>0, <1>2 DEF vars, IInv, Drawn, Tables, RowOK, Warranted, Grounded, Due, Connection,
     Thread, AuditFollowsCommit
<1> QED
  BY <1>0, <1>1, <1>2, StartProposeStep, StartDecideStep, StartSweepStep, TickStep, CrashStep DEF Next

\* The inductive invariant holds in every state the gates reach.
THEOREM Inductive == Spec => []IInv
BY InitInv, NextStep, PTL DEF Spec

-----------------------------------------------------------------------------
(* The results.                                                            *)

\* Every variable keeps its type.
THEOREM TypeCorrect == Spec => []TypeOK
<1>1. IInv => TypeOK
  BY DEF IInv
<1> QED
  BY <1>1, Inductive, PTL

\* Every committed decision is warranted: an auto-approval goes back to an
\* operator's approval of the same routine, gate and key, an expiry to a passed
\* deadline, the rest to an operator.
THEOREM Warrant == Spec => []DecisionsWarranted
<1>1. IInv => DecisionsWarranted
  BY DEF IInv, Tables, RowOK, DecisionsWarranted
<1> QED
  BY <1>1, Inductive, PTL

\* No event is in the audit file before what it records is on disk.
THEOREM AuditBehindTable == Spec => []AuditFollowsCommit
<1>1. IInv => AuditFollowsCommit
  BY DEF IInv
<1> QED
  BY <1>1, Inductive, PTL

\* A gate is decided for good once no thread holds a stale reading of it.
THEOREM Finality == Spec => SettledIsFinal
<1>1. ASSUME IInv, [Next]_vars, NEW g \in GateIds, Settled(g)
      PROVE  saved'[g] = saved[g]
  <2>1. ASSUME NEW t \in Threads, Commit(t) PROVE saved'[g] = saved[g]
    <3>1. txn = t /\ pc[t] \in {"created", "decided"} /\ Thread(t) /\ saved' = rows
      BY <1>1, <2>1 DEF IInv, Connection, Commit, Goto
    <3>2. gate[t] # g
      BY <1>1, <3>1 DEF Settled, Thread, DecidedStatuses, HumanStatuses
    <3> QED
      BY <1>1, <3>1, <3>2 DEF IInv, Connection
  <2>2. ASSUME NEW t \in Threads, Step(t) PROVE saved'[g] = saved[g]
    BY <2>1, <2>2 DEF Step, Insert, Announce, Recall, SweepNext, Check, Update, Record
  <2> QED
    BY <1>1, <2>2 DEF Next, StartPropose, StartDecide, StartSweep, Tick, Crash, vars
<1>2. ASSUME IInv, [Next]_vars, NEW g \in GateIds, Settled(g)
      PROVE  rows[g].status # "pending"
  \* No transaction is open on g, so the connection sees the committed row.
  <2>1. ASSUME txn # NoThread PROVE gate[txn] # g
    <3>1. txn \in Threads /\ pc[txn] \in {"created", "decided"} /\ Thread(txn)
      BY <1>2, <2>1 DEF IInv, TypeOK, Connection
    <3> QED
      BY <1>2, <3>1 DEF Settled, Thread, DecidedStatuses, HumanStatuses
  <2>2. rows[g] = saved[g]
    BY <1>2, <2>1 DEF IInv, Connection
  <2> QED
    BY <1>2, <2>2 DEF Settled, DecidedStatuses, HumanStatuses
<1>3. ASSUME IInv, [Next]_vars, NEW g \in GateIds, Settled(g)
      PROVE  Settled(g)'
  <2> DEFINE Open(u) == pc[u] \in {"update", "decided"}
  <2>0. saved'[g].status \in DecidedStatuses
    BY <1>1, <1>3 DEF Settled
  <2>1. TypeOK /\ rows[g].status # "pending" /\ \A u \in Threads : Open(u) => gate[u] # g
    BY <1>2, <1>3 DEF IInv, Settled
  <2>2. ASSUME NEW t \in Threads, NEW u \in Threads, Step(t) \/ StartPropose(t) \/ StartDecide(t) \/ StartSweep(t),
               Open(u)'
        PROVE  gate'[u] # g
    <3>1. CASE u # t
      <4>1. pc'[u] = pc[u] /\ gate'[u] = gate[u]
        BY <2>1, <2>2, <3>1 DEF TypeOK, Step, Insert, Write, Commit, Announce, Recall, SweepNext,
             Check, Update, Record, Emit, StartPropose, StartDecide, StartSweep, Goto, Abort, Finish, Decide
      <4> QED
        BY <2>1, <2>2, <4>1
    <3>2. CASE u = t
      <4>1. CASE Check(t)
        BY <2>1, <2>2, <3>2, <4>1 DEF TypeOK, Check, Goto, Abort
      <4>2. CASE Update(t)
        BY <2>1, <2>2, <3>2, <4>2 DEF TypeOK, Update, Write, Abort
      <4>3. CASE ~Check(t) /\ ~Update(t)
        <5>1. pc'[t] \notin {"update", "decided"}
          BY <2>1, <2>2, <4>3 DEF TypeOK, Step, Insert, Write, Commit, Announce, Recall, SweepNext,
               Record, Emit, StartPropose, StartDecide, StartSweep, Goto, Abort, Finish
        <5> QED
          BY <2>2, <3>2, <5>1
      <4> QED
        BY <4>1, <4>2, <4>3
    <3> QED
      BY <3>1, <3>2
  <2>3. ASSUME NEW u \in Threads, Open(u)', Tick \/ Crash \/ UNCHANGED vars PROVE gate'[u] # g
    BY <2>1, <2>3 DEF Tick, Crash, vars
  <2>4. \A u \in Threads : Open(u)' => gate'[u] # g
    BY <1>3, <2>2, <2>3 DEF Next, Threads
  <2> QED
    BY <2>0, <2>4 DEF Settled
<1>4. IInv /\ [Next]_vars
        => [\A g \in GateIds : Settled(g) => Settled(g)' /\ saved'[g] = saved[g]]_vars
  BY <1>1, <1>3
<1> QED
  BY <1>4, Inductive, PTL DEF Spec, SettledIsFinal

-----------------------------------------------------------------------------
(* The refinement: what an open transaction has written is one proposal or  *)
(* one decision, so its COMMIT is one step of the book; nothing else        *)
(* changes what is committed.                                               *)

Written(t) ==
  /\ pc[t] = "created" => rows[gate[t]] = [status |-> "pending", verdicts |-> {}]
  /\ pc[t] = "decided" =>
       /\ saved[gate[t]].status # "absent"
       /\ rows[gate[t]] = [status |-> verdict[t].status,
                           verdicts |-> saved[gate[t]].verdicts \cup {verdict[t]}]

WrittenInv == \A t \in Threads : Written(t)

\* A thread that stays where it was, with the tables, keeps what it has written.
LEMMA WrittenKept ==
  ASSUME NEW t \in Threads, Written(t),
         pc'[t] \in {"created", "decided"} =>
           UNCHANGED <<rows, saved>> /\ pc'[t] = pc[t] /\ gate'[t] = gate[t] /\ verdict'[t] = verdict[t]
  PROVE  Written(t)'
BY DEF Written

\* An INSERT or UPDATE begins its transaction on what is committed.
LEMMA WrittenByStatement ==
  ASSUME IInv, NEW t \in Threads, Insert(t) \/ Update(t)
  PROVE  Written(t)'
<1>1. gate[t] \in GateIds /\ TypeOK
  BY DEF IInv, Thread, Busy, Insert, Update
<1>2. CASE txn # NoThread
  <2>1. pc'[t] = "idle"
    BY <1>1, <1>2 DEF Insert, Update, Write, Abort, TypeOK
  <2> QED
    BY <2>1 DEF Written
<1>3. CASE txn = NoThread
  <2>1. rows = saved /\ saved' = saved
    BY <1>3 DEF IInv, Connection, Insert, Update
  <2>2. CASE Insert(t)
    <3>1. /\ pc'[t] = "created" /\ gate' = gate
          /\ rows'[gate[t]] = [status |-> "pending", verdicts |-> {}]
      BY <1>1, <1>3, <2>2 DEF Insert, Write, TypeOK
    <3> QED
      BY <3>1 DEF Written
  <2>3. CASE Update(t)
    <3>1. /\ pc'[t] = "decided" /\ gate' = gate /\ verdict' = verdict
          /\ rows'[gate[t]] = [status |-> verdict[t].status,
                               verdicts |-> rows[gate[t]].verdicts \cup {verdict[t]}]
      BY <1>1, <1>3, <2>3 DEF Update, Write, TypeOK
    <3>2. rows[gate[t]].status # "absent"
      BY <2>3 DEF IInv, Thread, Carrying, Update
    <3> QED
      BY <2>1, <3>1, <3>2 DEF Written
  <2> QED
    BY <2>2, <2>3
<1> QED
  BY <1>2, <1>3

LEMMA WrittenStep == IInv /\ WrittenInv /\ [Next]_vars => WrittenInv'
<1> SUFFICES ASSUME IInv, WrittenInv, [Next]_vars, NEW u \in Threads
             PROVE  Written(u)'
  BY DEF WrittenInv
<1>0. TypeOK /\ Written(u) /\ (pc[u] \in {"created", "decided"} => txn = u /\ txn # NoThread)
  BY RolesAssumption DEF IInv, Connection, WrittenInv
<1>1. ASSUME NEW t \in Threads, u # t,
             Step(t) \/ StartPropose(t) \/ StartDecide(t) \/ StartSweep(t)
      PROVE  Written(u)'
  <2>1. pc'[u] = pc[u] /\ gate'[u] = gate[u] /\ verdict'[u] = verdict[u]
    BY <1>0, <1>1 DEF TypeOK, Step, Insert, Write, Commit, Announce, Recall, SweepNext, Check,
         Update, Record, Emit, StartPropose, StartDecide, StartSweep, Goto, Abort, Finish, Decide
  <2>2. ASSUME txn = u, txn # NoThread PROVE UNCHANGED <<rows, saved>>
    <3>1. ~Commit(t)
      BY <1>1, <2>2 DEF IInv, Connection, Commit, Goto
    <3> QED
      BY <1>1, <2>2, <3>1 DEF Step, Insert, Write, Announce, Recall, SweepNext, Check, Update,
           Record, StartPropose, StartDecide, StartSweep
  <2> QED
    BY <1>0, <2>1, <2>2, WrittenKept
<1>2. CASE StartPropose(u) \/ StartDecide(u) \/ StartSweep(u) \/ Commit(u) \/ Announce(u)
           \/ Recall(u) \/ SweepNext(u) \/ Check(u) \/ Record(u)
  <2>1. pc'[u] \notin {"created", "decided"}
    BY <1>0, <1>2 DEF TypeOK, Commit, Announce, Recall, SweepNext, Check, Record, StartPropose,
         StartDecide, StartSweep, Goto, Abort, Finish
  <2> QED
    BY <1>0, <2>1, WrittenKept
<1>3. CASE Insert(u) \/ Update(u)
  BY <1>3, WrittenByStatement
<1>4. CASE Crash
  <2>1. pc'[u] = "idle"
    BY <1>4 DEF Crash
  <2> QED
    BY <1>0, <2>1, WrittenKept
<1>5. CASE Tick \/ UNCHANGED vars
  BY <1>0, <1>5, WrittenKept DEF Tick, vars
<1>6. ASSUME NEW t \in Threads, Step(t) \/ StartPropose(t) \/ StartDecide(t) \/ StartSweep(t)
      PROVE  Written(u)'
  BY <1>1, <1>2, <1>3, <1>6 DEF Step
<1> QED
  BY <1>4, <1>5, <1>6 DEF Next, Threads

\* COMMIT adds one proposal, or one decision, to the book.
LEMMA CommitIsBooked ==
  ASSUME IInv, WrittenInv, NEW t \in Threads, Commit(t)
  PROVE  \/ Book!Propose(gate[t])
         \/ verdict[t] \in Verdicts /\ Book!Settle(gate[t], verdict[t])
<1> DEFINE g == gate[t]
<1>1. /\ TypeOK /\ Thread(t) /\ Written(t) /\ txn = t /\ g \in GateIds
      /\ saved' = rows /\ audit' = audit
      /\ pc[t] \in {"created", "decided"}
  BY DEF IInv, WrittenInv, Connection, Commit, Goto, Thread, Busy
<1>2. saved' = [saved EXCEPT ![g] = rows[g]]
  <2>1. \A h \in GateIds \ {g} : rows[h] = saved[h]
    BY <1>1 DEF IInv, Connection
  <2> QED
    BY <1>1, <2>1 DEF TypeOK
<1>3. CASE pc[t] = "created"
  <2>1. saved[g].status = "absent" /\ saved[g].verdicts = {} /\ saved[g] \in Rows
    BY <1>1, <1>3 DEF IInv, Thread, Tables, RowOK, TypeOK
  <2>2. saved[g] = [status |-> "absent", verdicts |-> {}]
    BY <2>1 DEF Rows
  <2> QED
    BY <1>1, <1>2, <1>3, <2>2 DEF Written, Book!Propose, Book!Absent
<1>4. CASE pc[t] = "decided"
  <2>1. verdict[t] \in Verdicts
    BY <1>1, <1>4 DEF Thread, Carrying
  <2> QED
    BY <1>1, <1>2, <1>4, <2>1 DEF Written, Book!Settle
<1> QED
  BY <1>1, <1>3, <1>4

\* An event is of what the book says.
LEMMA EmitIsBooked ==
  ASSUME IInv, NEW t \in Threads, Announce(t) \/ Record(t)
  PROVE  \/ UNCHANGED Book!bookVars
         \/ gate[t] \in GateIds /\ Book!Publish(gate[t], Undecided)
         \/ gate[t] \in GateIds /\ verdict[t] \in Verdicts /\ Book!Publish(gate[t], verdict[t])
<1>1. Thread(t) /\ pc[t] \in {"announce", "record"} /\ saved' = saved
  BY DEF IInv, Announce, Record, Goto, Abort
<1>2. gate[t] \in GateIds /\ saved[gate[t]].status # "absent"
  BY <1>1 DEF Thread, Busy
<1>3. CASE Announce(t)
  BY <1>1, <1>2, <1>3 DEF Announce, Emit, Book!Publish, Book!bookVars
<1>4. CASE Record(t)
  <2>1. verdict[t] \in Verdicts /\ verdict[t] \in saved[gate[t]].verdicts
    BY <1>1, <1>4 DEF Thread, Carrying, Record
  <2> QED
    BY <1>1, <1>2, <1>4, <2>1 DEF Record, Emit, Book!Publish, Book!bookVars
<1> QED
  BY <1>3, <1>4

\* Every step of the gates is a step of the book or none.
LEMMA BookStep ==
  IInv /\ WrittenInv /\ [Next]_vars => [Book!BookNext]_Book!bookVars
<1> SUFFICES ASSUME IInv, WrittenInv, [Next]_vars
             PROVE  Book!BookNext \/ UNCHANGED Book!bookVars
  OBVIOUS
<1>1. ASSUME NEW t \in Threads, Commit(t) PROVE Book!BookNext
  <2>1. gate[t] \in GateIds
    BY <1>1 DEF IInv, Thread, Busy, Commit, Goto
  <2> QED
    BY <1>1, <2>1, CommitIsBooked DEF Book!BookNext
<1>2. ASSUME NEW t \in Threads, Announce(t) \/ Record(t)
      PROVE  Book!BookNext \/ UNCHANGED Book!bookVars
  BY <1>2, EmitIsBooked DEF Book!BookNext
<1>3. ASSUME NEW t \in Threads,
             \/ Insert(t) \/ Recall(t) \/ SweepNext(t) \/ Check(t) \/ Update(t)
             \/ StartPropose(t) \/ StartDecide(t) \/ StartSweep(t)
      PROVE  UNCHANGED Book!bookVars
  BY <1>3 DEF Insert, Recall, SweepNext, Check, Update, StartPropose, StartDecide, StartSweep,
       Book!bookVars
<1>4. CASE Tick \/ Crash \/ UNCHANGED vars
  BY <1>4 DEF Tick, Crash, vars, Book!bookVars
<1>5. ASSUME NEW t \in Threads, Step(t) PROVE Book!BookNext \/ UNCHANGED Book!bookVars
  BY <1>1, <1>2, <1>3, <1>5 DEF Step
<1> QED
  BY <1>3, <1>4, <1>5 DEF Next, Threads

\* The gates implement the book: whatever threads race, fail and crash, the committed
\* table and the audit file change by whole proposals, whole decisions and events of
\* what is committed, for any threads, requests and bounds.
THEOREM GatesImplementBook == Spec => ImplementsBook
<1>1. Init => Book!BookInit
  BY DEF Init, Book!BookInit, Book!Absent
<1>2. Init => WrittenInv
  BY DEF Init, WrittenInv, Written
<1> QED
  BY <1>1, <1>2, InitInv, NextStep, WrittenStep, BookStep, PTL
     DEF Spec, ImplementsBook, Book!BookSpec

=============================================================================
