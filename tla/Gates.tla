------------------------------- MODULE Gates -------------------------------
(***************************************************************************)
(* Human-in-the-loop gates: ota_core/policy/gates.py, decided through      *)
(* ota_dashboard_api/routes/approval_queue.py, stored through the single   *)
(* shared SQLite connection of ota_core/storage/database.py and audited    *)
(* through ota_core/audit/sink.py.                                         *)
(*                                                                         *)
(* One process holds one GateManager.  Its threads interleave between any  *)
(* two calls that reach the database or the audit file: FastAPI runs every *)
(* `decide` request in a thread of its pool, routines propose, and the     *)
(* periodic hook runs `expire_due`.  A thread is a program counter and the *)
(* arguments it carries; a crash forgets every thread and the uncommitted  *)
(* transaction, and keeps the committed rows and the audit file.           *)
(***************************************************************************)
EXTENDS Naturals, FiniteSets

CONSTANTS
  Operators,   (* dashboard request threads: POST /approvals/{pk}/decide   *)
  Proposers,   (* routine threads: propose_for_review                      *)
  Sweepers,    (* threads of the periodic hook: expire_due                 *)
  Actions,     (* the actions an operator may take, as the request names   *)
               (* them                                                     *)
  Scopes,      (* (routine_id, gate_id) pairs                              *)
  Keys,        (* similarity keys                                          *)
  NoKey,       (* no similarity function registered for the gate           *)
  Requests,    (* the proposals routines make: GateProposal                *)
  Never,       (* expires_after_seconds is None                            *)
  NoThread,    (* no transaction is open on the connection                 *)
  NoProposal,  (* the identifier has not been drawn yet                    *)
  MaxGates,    (* bound: proposals made                                    *)
  MaxTime,     (* bound: clock ticks                                       *)
  MaxCrashes   (* bound: process crashes                                   *)

Threads == Operators \cup Proposers \cup Sweepers

ASSUME RolesAssumption ==
  /\ Operators \cap Proposers = {}  (* a thread serves one kind of call    *)
  /\ Operators \cap Sweepers = {}
  /\ Proposers \cap Sweepers = {}
  /\ NoThread \notin Threads

ASSUME DataAssumption ==
  /\ NoKey \notin Keys
  /\ Never \notin Nat
  /\ Requests \subseteq [scope : Scopes, key : Keys \cup {NoKey}, remember : BOOLEAN,
                          lifetime : Nat \cup {Never}]
  /\ Actions \subseteq {"approve", "reject", "edit_and_approve", "remember_and_approve"}

ASSUME BoundsAssumption == MaxGates \in Nat /\ MaxTime \in Nat /\ MaxCrashes \in Nat

VARIABLES
  now,       (* the clock                                                  *)
  drawn,     (* identifiers drawn so far: gates are numbered by created_at *)
  proposal,  (* the columns of a gate that are written once, by its insert *)
  rows,      (* the table as the connection sees it, uncommitted included  *)
  saved,     (* the table as committed                                     *)
  txn,       (* the thread whose transaction is open on the connection     *)
  audit,     (* the audit file: the events of each gate                    *)
  pc,        (* what each thread does next                                 *)
  gate,      (* the gate each thread works on                              *)
  verdict,   (* the decision each thread carries                           *)
  todo,      (* the due gates a sweep has still to expire                  *)
  crashes    (* process crashes so far                                     *)

vars == <<now, drawn, proposal, rows, saved, txn, audit, pc, gate, verdict, todo, crashes>>

GateIds == 1..MaxGates

HumanStatuses == {"approved", "rejected", "modified_and_approved"}
DecidedStatuses == HumanStatuses \cup {"auto_approved", "expired"}
Modes == {"approve", "tune_and_approve", "approve_and_remember", "none"}

\* A decision as update_decision writes it: the status column and the
\* `_approval_mode` of result_json.  `by` identifies the call that made it.
Verdicts == [by : Threads, status : DecidedStatuses, mode : Modes]

\* No decision yet: what gate.proposed records, and what an idle thread carries.
Undecided == [by |-> NoThread, status |-> "pending", mode |-> "none"]

Proposals ==
  [scope : Scopes, key : Keys \cup {NoKey}, remember : BOOLEAN,
   expires : Nat \cup {Never}]

ASSUME NoProposalAssumption == NoProposal \notin Proposals

\* A row keeps, beside its status, every decision written to it: the code
\* overwrites the earlier ones, the model remembers them.
Rows == [status : DecidedStatuses \cup {"absent", "pending"}, verdicts : SUBSET Verdicts]

Labels == {"idle", "insert", "created", "announce", "recall", "sweep",
           "check", "update", "decided", "record"}

TypeOK ==
  /\ now \in 0..MaxTime
  /\ drawn \in 0..MaxGates
  /\ proposal \in [GateIds -> Proposals \cup {NoProposal}]
  /\ rows \in [GateIds -> Rows]
  /\ saved \in [GateIds -> Rows]
  /\ txn \in Threads \cup {NoThread}
  /\ audit \in [GateIds -> SUBSET (Verdicts \cup {Undecided})]
  /\ pc \in [Threads -> Labels]
  /\ gate \in [Threads -> GateIds \cup {0}]
  /\ verdict \in [Threads -> Verdicts \cup {Undecided}]
  /\ todo \in [Threads -> SUBSET GateIds]
  /\ crashes \in 0..MaxCrashes

Init ==
  /\ now = 0 /\ drawn = 0 /\ crashes = 0
  /\ proposal = [g \in GateIds |-> NoProposal]
  /\ rows = [g \in GateIds |-> [status |-> "absent", verdicts |-> {}]]
  /\ saved = rows
  /\ txn = NoThread
  /\ audit = [g \in GateIds |-> {}]
  /\ pc = [t \in Threads |-> "idle"]
  /\ gate = [t \in Threads |-> 0]
  /\ verdict = [t \in Threads |-> Undecided]
  /\ todo = [t \in Threads |-> {}]

-----------------------------------------------------------------------------
(* Control of a thread.                                                    *)

\* The thread moves from label a to label b.
Goto(t, a, b) == pc[t] = a /\ pc' = [pc EXCEPT ![t] = b]

\* The call raises: the exception leaves the handler, and a sweep drops the
\* rest of its snapshot with it.
Abort(t) ==
  /\ pc' = [pc EXCEPT ![t] = "idle"]
  /\ gate' = [gate EXCEPT ![t] = 0]
  /\ verdict' = [verdict EXCEPT ![t] = Undecided]
  /\ todo' = [todo EXCEPT ![t] = {}]

\* The call returns; a sweep goes on to its next due gate.
Finish(t) ==
  IF todo[t] = {}
  THEN Abort(t)
  ELSE pc' = [pc EXCEPT ![t] = "sweep"] /\ UNCHANGED <<gate, verdict, todo>>

\* The thread is to record decision v on gate g.
Decide(t, g, status, mode) ==
  /\ gate' = [gate EXCEPT ![t] = g]
  /\ verdict' = [verdict EXCEPT ![t] = [by |-> t, status |-> status, mode |-> mode]]

\* transaction(): BEGIN IMMEDIATE and the statement.  On the shared connection
\* a BEGIN inside another thread's transaction raises OperationalError.
Write(t, next, row) ==
  \/ /\ txn # NoThread
     /\ Abort(t)
     /\ UNCHANGED <<rows, txn>>
  \/ /\ txn = NoThread
     /\ txn' = t
     /\ rows' = [rows EXCEPT ![gate[t]] = row]
     /\ pc' = [pc EXCEPT ![t] = next]
     /\ UNCHANGED <<gate, verdict, todo>>

-----------------------------------------------------------------------------
(* propose_for_review                                                      *)

\* The identifier, the deadline and the similarity key of a new proposal.
StartPropose(t) ==
  /\ drawn < MaxGates
  /\ Goto(t, "idle", "insert")
  /\ drawn' = drawn + 1
  /\ gate' = [gate EXCEPT ![t] = drawn']
  /\ \E r \in Requests :
       proposal' = [proposal EXCEPT ![drawn'] =
         [scope |-> r.scope, key |-> r.key, remember |-> r.remember,
          expires |-> IF r.lifetime = Never THEN Never ELSE now + r.lifetime]]
  /\ UNCHANGED <<now, rows, saved, txn, audit, verdict, todo, crashes>>

\* GateStore.insert: the row, uncommitted.
Insert(t) ==
  /\ pc[t] = "insert"
  /\ Write(t, "created", [status |-> "pending", verdicts |-> {}])
  /\ UNCHANGED <<now, drawn, proposal, saved, audit, crashes>>

\* COMMIT, of an insert or of a decision.
Commit(t) ==
  /\ \/ Goto(t, "created", "announce")
     \/ Goto(t, "decided", "record")
  /\ saved' = rows
  /\ txn' = NoThread
  /\ UNCHANGED <<now, drawn, proposal, rows, audit, gate, verdict, todo, crashes>>

\* AuditSink.emit: the event is appended to the file.
Emit(t, event) == audit' = [audit EXCEPT ![gate[t]] = @ \cup {event}]

\* audit.emit("gate.proposed"), which may raise AuditSinkError.
Announce(t) ==
  /\ pc[t] = "announce"
  /\ \/ /\ Emit(t, Undecided)
        /\ Goto(t, "announce", "recall")
        /\ UNCHANGED <<gate, verdict, todo>>
     \/ Abort(t) /\ UNCHANGED audit
  /\ UNCHANGED <<now, drawn, proposal, rows, saved, txn, crashes>>

\* Faulty variant: the WHERE clause forgets the routine and the gate.
RememberedAnywhere(g) ==
  \E h \in GateIds :
    /\ rows[h].status \in {"approved", "modified_and_approved", "auto_approved"}
    /\ proposal[h].key = proposal[g].key

\* has_remembered_approval: an approving row of the same routine, gate and key,
\* whatever approval mode it was decided with.
Remembered(g) ==
  \E h \in GateIds :
    /\ rows[h].status \in {"approved", "modified_and_approved", "auto_approved"}
    /\ proposal[h].scope = proposal[g].scope
    /\ proposal[h].key = proposal[g].key

\* The similarity lookup: auto-approve on a match, otherwise leave the gate
\* pending and return.
Recall(t) ==
  LET g == gate[t]
      match == proposal[g].remember /\ proposal[g].key # NoKey /\ Remembered(g)
  IN
  /\ pc[t] = "recall"
  /\ \/ /\ match
        /\ Goto(t, "recall", "check")
        /\ Decide(t, g, "auto_approved", "approve_and_remember")
        /\ UNCHANGED todo
     \/ ~match /\ Finish(t)
  /\ UNCHANGED <<now, drawn, proposal, rows, saved, txn, audit, crashes>>

-----------------------------------------------------------------------------
(* decide and expire_due                                                   *)

\* Faulty variant: the requested action is stored as the status.
RawStatus(a) == a

\* status_map and approval_mode_map of the dashboard's route.
StatusOf(a) ==
  CASE a = "reject" -> "rejected"
    [] a = "edit_and_approve" -> "modified_and_approved"
    [] OTHER -> "approved"

ModeOf(a) ==
  CASE a = "edit_and_approve" -> "tune_and_approve"
    [] a = "remember_and_approve" -> "approve_and_remember"
    [] OTHER -> "approve"

\* POST /approvals/{pk}/decide on a gate the dashboard has listed, decided since
\* or not.  Neither the deadline nor the modes the proposal offered are looked at.
StartDecide(t) ==
  /\ Goto(t, "idle", "check")
  /\ \E g \in GateIds, a \in Actions :
       /\ rows[g].status # "absent"
       /\ Decide(t, g, StatusOf(a), ModeOf(a))
  /\ UNCHANGED <<now, drawn, proposal, rows, saved, txn, audit, todo, crashes>>

Due(g) == proposal[g] # NoProposal /\ proposal[g].expires # Never /\ proposal[g].expires <= now

\* Faulty variant: a gate is due one tick late.
DuePendingLate == {g \in GateIds : rows[g].status = "pending" /\ Due(g) /\ proposal[g].expires < now}

\* list_pending and the comparison of each deadline with the sweep's clock.
DuePending == {g \in GateIds : rows[g].status = "pending" /\ Due(g)}

\* expire_due takes its snapshot.
StartSweep(t) ==
  /\ DuePending # {}
  /\ Goto(t, "idle", "sweep")
  /\ todo' = [todo EXCEPT ![t] = DuePending]
  /\ UNCHANGED <<now, drawn, proposal, rows, saved, txn, audit, gate, verdict, crashes>>

\* The oldest gate of the snapshot is next (ORDER BY created_at ASC).
SweepNext(t) ==
  /\ Goto(t, "sweep", "check")
  /\ \E g \in todo[t] :
       /\ \A h \in todo[t] : g <= h
       /\ Decide(t, g, "expired", "none")
       /\ todo' = [todo EXCEPT ![t] = @ \ {g}]
  /\ UNCHANGED <<now, drawn, proposal, rows, saved, txn, audit, crashes>>

-----------------------------------------------------------------------------
(* _record_decision                                                        *)

\* Faulty variant: the decision is audited without being written.
CheckUnwritten(t) ==
  /\ Goto(t, "check", "record")
  /\ rows[gate[t]].status = "pending"
  /\ UNCHANGED <<now, drawn, proposal, rows, saved, txn, audit, gate, verdict, todo, crashes>>

\* Faulty variant: the status is not looked at.
CheckNothing(t) ==
  /\ Goto(t, "check", "update")
  /\ UNCHANGED <<now, drawn, proposal, rows, saved, txn, audit, gate, verdict, todo, crashes>>

\* update_decision reads the row: a decided gate raises GateAlreadyDecidedError.
Check(t) ==
  /\ pc[t] = "check"
  /\ \/ /\ rows[gate[t]].status = "pending"
        /\ Goto(t, "check", "update")
        /\ UNCHANGED <<gate, verdict, todo>>
     \/ rows[gate[t]].status # "pending" /\ Abort(t)
  /\ UNCHANGED <<now, drawn, proposal, rows, saved, txn, audit, crashes>>

\* UPDATE gates SET status ... WHERE id = ?: the status just read is not part of
\* the condition.
Update(t) ==
  /\ pc[t] = "update"
  /\ Write(t, "decided", [status |-> verdict[t].status,
                          verdicts |-> rows[gate[t]].verdicts \cup {verdict[t]}])
  /\ UNCHANGED <<now, drawn, proposal, saved, audit, crashes>>

\* audit.emit of the decision, which may raise AuditSinkError.
Record(t) ==
  /\ pc[t] = "record"
  /\ \/ /\ Emit(t, verdict[t])
        /\ Finish(t)
     \/ Abort(t) /\ UNCHANGED audit
  /\ UNCHANGED <<now, drawn, proposal, rows, saved, txn, crashes>>

-----------------------------------------------------------------------------
(* The environment                                                         *)

Tick ==
  /\ now < MaxTime
  /\ now' = now + 1
  /\ UNCHANGED <<drawn, proposal, rows, saved, txn, audit, pc, gate, verdict, todo, crashes>>

\* The process dies and is started again: SQLite rolls the open transaction back.
Crash ==
  /\ crashes < MaxCrashes
  /\ crashes' = crashes + 1
  /\ rows' = saved
  /\ txn' = NoThread
  /\ pc' = [t \in Threads |-> "idle"]
  /\ gate' = [t \in Threads |-> 0]
  /\ verdict' = [t \in Threads |-> Undecided]
  /\ todo' = [t \in Threads |-> {}]
  /\ UNCHANGED <<now, drawn, proposal, saved, audit>>

\* A call that has started goes on.
Step(t) ==
  \/ Insert(t) \/ Commit(t) \/ Announce(t) \/ Recall(t)
  \/ SweepNext(t) \/ Check(t) \/ Update(t) \/ Record(t)

Next ==
  \/ \E t \in Proposers : StartPropose(t)
  \/ \E t \in Operators : StartDecide(t)
  \/ \E t \in Sweepers : StartSweep(t)
  \/ \E t \in Threads : Step(t)
  \/ Tick
  \/ Crash

\* Threads are scheduled, and the hook that sweeps is called again and again.
\* Nothing makes a routine propose, an operator decide or the process crash.
Fairness ==
  /\ \A t \in Threads : WF_vars(Step(t))
  /\ \A t \in Sweepers : WF_vars(StartSweep(t))

Spec == Init /\ [][Next]_vars /\ Fairness

-----------------------------------------------------------------------------
(* Properties                                                              *)

Approvals == {"approved", "modified_and_approved"}

\* An operator has approved a gate of the same routine, gate and key as g.
Grounded(table, g) ==
  \E h \in GateIds :
    /\ proposal[h] # NoProposal
    /\ proposal[h].scope = proposal[g].scope
    /\ proposal[h].key = proposal[g].key
    /\ \E v \in table[h].verdicts : v.by \in Operators /\ v.status \in Approvals

Warranted(table, g, v) ==
  /\ v.status = "auto_approved" => Grounded(table, g)
  /\ v.status = "expired" => Due(g)
  /\ v.status \in HumanStatuses => v.by \in Operators

\* Every committed decision is warranted, whatever races and crashes came
\* before it: an auto-approval goes back to an operator's approval of the same
\* routine, gate and similarity key (directly or through a chain of earlier
\* auto-approvals), an expiry to a deadline that has passed, and the other
\* statuses to an operator.
DecisionsWarranted ==
  \A g \in GateIds : \A v \in saved[g].verdicts : Warranted(saved, g, v)

\* The audit file runs behind the table and never ahead of it: an event names a
\* gate that is on disk and a decision that was committed to it.  ImplementsBook implies
\* it, and it is part of the inductive invariant.
AuditFollowsCommit ==
  \A g \in GateIds : \A e \in audit[g] :
    /\ saved[g].status # "absent"
    /\ e # Undecided => e \in saved[g].verdicts

Book == INSTANCE GateBook WITH book <- saved, trail <- audit

\* Seen through the committed table and the audit file, every step of a proposal, a
\* decision, a sweep, an exception or a crash is one whole step of GateBook or none:
\* committed rows change one gate at a time, by exactly what some call wrote, and no
\* event is ahead of them.
ImplementsBook == Book!BookSpec

\* The gate is decided and no thread holds a stale reading of it.
Settled(g) ==
  /\ saved[g].status \in DecidedStatuses
  /\ \A t \in Threads : pc[t] \in {"update", "decided"} => gate[t] # g

\* The decision of a settled gate is final: from then on every attempt to decide
\* it is refused.  Only a thread that read the gate as pending before it was
\* decided can overwrite a decision.
SettledIsFinal ==
  [][\A g \in GateIds : Settled(g) => Settled(g)' /\ saved'[g] = saved[g]]_vars

\* A gate whose deadline has passed does not stay pending for ever, though one
\* lost race makes a whole sweep give up.
DueGateLeavesPending ==
  \A g \in GateIds : (saved[g].status = "pending" /\ Due(g)) ~> saved[g].status # "pending"

-----------------------------------------------------------------------------
(* What the documentation says, refuted by the code                        *)

\* docs/phase-4-notes.md: "`record_decision` rejects double-decide via
\* GateAlreadyDecidedError": no gate takes two decisions.
DecidedOnce == \A g \in GateIds : Cardinality(saved[g].verdicts) <= 1

\* gates.py, docstring: with approve_and_remember the operator "approves and
\* authorizes the framework to auto-approve future proposals": an auto-approval
\* goes back to an approval given in that mode.
AutoApprovalAuthorised ==
  \A g \in GateIds : \A v \in saved[g].verdicts :
    v.status = "auto_approved" =>
      \E h \in GateIds : \E w \in saved[h].verdicts :
        w.by \in Operators /\ w.mode = "approve_and_remember"

=============================================================================
