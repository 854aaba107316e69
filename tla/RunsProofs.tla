------------------------------ MODULE RunsProofs ------------------------------
(***************************************************************************)
(* Proofs about Runs for any number of tasks, any limit and any usage: the  *)
(* types, the distance by which the budget can be exceeded, and the ledger; *)
(* about the verb calls of a run (Dispatch) for any configuration; and      *)
(* about the registry their adapters come from (Adapters).                  *)
(*                                                                          *)
(* The budget's bound is inductive as it stands: a reservation puts the     *)
(* ledger within the limit, and an answer charges at most what its task,    *)
(* which stops waiting, was counted for.  The ledger needs that a run which *)
(* nobody outlived has no task left when it is over.                        *)
(***************************************************************************)
EXTENDS Runs, Dispatch, Adapters, FiniteSetTheorems, SequenceTheorems, TLAPS

Over == phase \notin {"idle", "running"}

\* Who holds the context, and when the report is made.
PhaseInv ==
    /\ phase = "idle" => holds = {}
    /\ Over /\ ~outlived => holds = {}
    /\ runReport.made => Over

RunsInv == RunsTypeOK /\ PhaseInv /\ BudgetOvershootBounded /\ LedgerComplete

-----------------------------------------------------------------------------
(* Multiples and sizes. *)

LEMMA TimesMonotone ==
    ASSUME NEW m \in Nat, NEW a \in Nat, NEW b \in Nat, a <= b
    PROVE  m * a <= m * b
<1>1. PICK d \in Nat : b = a + d
  <2>1. b - a \in Nat /\ b = a + (b - a)
    OBVIOUS
  <2> QED BY <2>1
<1>2. m * b = m * a + m * d
  BY <1>1
<1>3. m * d \in Nat /\ m * a \in Nat
  OBVIOUS
<1> QED BY <1>2, <1>3

LEMMA TimesLess ==
    ASSUME NEW m \in Nat, NEW a \in Nat, a >= 1
    PROVE  m * (a - 1) = m * a - m
OBVIOUS

\* A set of tasks is finite and no larger than all of them.
LEMMA TaskSetSize ==
    ASSUME NEW S \in SUBSET RunTasks
    PROVE  /\ IsFiniteSet(S)
           /\ Cardinality(S) \in Nat
           /\ Cardinality(S) <= Cardinality(RunTasks)
           /\ Cardinality(RunTasks) \in Nat
<1>1. IsFiniteSet(RunTasks)
  BY RunsAssumption
<1>2. IsFiniteSet(S) /\ Cardinality(S) <= Cardinality(RunTasks)
  BY <1>1, FS_Subset
<1>3. Cardinality(RunTasks) \in Nat
  BY <1>1, FS_CardinalityType
<1>4. Cardinality(S) \in Nat
  BY <1>2, FS_CardinalityType
<1> QED BY <1>2, <1>3, <1>4

-----------------------------------------------------------------------------
(* The steps preserve the invariant. *)

LEMMA RunsInitInv == RunsInit => RunsInv
<1> SUFFICES ASSUME RunsInit PROVE RunsInv
  OBVIOUS
<1>1. RunsTypeOK
  <2>1. 0 \in 0..MaxAuditFaults
    BY RunsAssumption
  <2>2. runReport \in [used : Nat, tools : Nat, made : BOOLEAN]
    BY DEF RunsInit, NoRunReport
  <2>3. phase \in Phases /\ auditFaults \in 0..MaxAuditFaults /\ outlived \in BOOLEAN
    BY <2>1 DEF RunsInit, Phases
  <2>4. holds \subseteq RunTasks /\ waiting \subseteq holds
    BY DEF RunsInit
  <2>5. {used, tools, usageLogged, toolsLogged, started} \subseteq Nat
    BY DEF RunsInit
  <2> QED BY <2>2, <2>3, <2>4, <2>5 DEF RunsTypeOK
<1>2. PhaseInv
  BY DEF RunsInit, PhaseInv, Over, NoRunReport
<1>3. BudgetOvershootBounded
  <2>1. {} \in SUBSET RunTasks /\ RunTasks \in SUBSET RunTasks
    OBVIOUS
  <2>2. Cardinality(RunTasks) \in Nat /\ Cardinality({}) = 0
    BY <2>1, TaskSetSize, FS_EmptySet
  <2>3. MostUsed * Cardinality(RunTasks) \in Nat /\ MostUsed * 0 = 0 /\ TokenLimit \in Nat
    BY <2>2, RunsAssumption
  <2> QED BY <2>2, <2>3 DEF RunsInit, BudgetOvershootBounded
<1>4. LedgerComplete
  BY DEF RunsInit, LedgerComplete, NoRunReport
<1> QED BY <1>1, <1>2, <1>3, <1>4 DEF RunsInv

LEMMA StartRunInv == RunsInv /\ StartRun => RunsInv'
<1> SUFFICES ASSUME RunsInv, StartRun PROVE RunsInv'
  OBVIOUS
<1>0. RunsTypeOK /\ PhaseInv /\ BudgetOvershootBounded /\ LedgerComplete
  BY DEF RunsInv
<1>1. RunsTypeOK'
  <2>1. holds = {} /\ waiting = {}
    BY <1>0 DEF StartRun, PhaseInv, RunsTypeOK
  <2>2. holds' \subseteq RunTasks /\ waiting' \subseteq holds'
    BY <2>1, RunsAssumption DEF StartRun
  <2>3. phase' \in Phases
    BY DEF StartRun, Phases
  <2>4. auditFaults' \in 0..MaxAuditFaults
    BY <1>0, RunsAssumption DEF RunsTypeOK, StartRun, Emits, EmitRaises
  <2> QED BY <1>0, <2>2, <2>3, <2>4 DEF RunsTypeOK, StartRun, ledgerVars
<1>2. PhaseInv'
  BY <1>0 DEF PhaseInv, StartRun, Over
<1>3. BudgetOvershootBounded'
  BY <1>0 DEF BudgetOvershootBounded, StartRun, ledgerVars
<1>4. LedgerComplete'
  BY <1>0 DEF LedgerComplete, StartRun, Emits, EmitRaises, ledgerVars, RunsTypeOK
<1> QED BY <1>1, <1>2, <1>3, <1>4 DEF RunsInv

LEMMA EndRunInv ==
    ASSUME RunsInv, NEW result \in {"completed", "failed"}, EndRun(result)
    PROVE  RunsInv'
<1>0. RunsTypeOK /\ PhaseInv /\ BudgetOvershootBounded /\ LedgerComplete
  BY DEF RunsInv
<1>1. RunsTypeOK'
  <2>1. holds' \subseteq RunTasks /\ waiting' \subseteq holds'
    BY <1>0 DEF RunsTypeOK, EndRun
  <2>2. phase' \in Phases
    BY DEF EndRun, Phases
  <2>3. auditFaults' \in 0..MaxAuditFaults
    BY <1>0, RunsAssumption DEF RunsTypeOK, EndRun, Emits, EmitRaises
  <2>4. runReport' \in [used : Nat, tools : Nat, made : BOOLEAN]
    <3>1. used \in Nat /\ tools \in Nat /\ runReport \in [used : Nat, tools : Nat, made : BOOLEAN]
      BY <1>0 DEF RunsTypeOK
    <3>2. [used |-> used, tools |-> tools, made |-> TRUE] \in [used : Nat, tools : Nat, made : BOOLEAN]
      BY <3>1
    <3>3. runReport' = [used |-> used, tools |-> tools, made |-> TRUE] \/ runReport' = runReport
      BY DEF EndRun
    <3> QED BY <3>1, <3>2, <3>3
  <2>5. outlived' \in BOOLEAN
    BY DEF EndRun
  <2> QED BY <1>0, <2>1, <2>2, <2>3, <2>4, <2>5 DEF RunsTypeOK, EndRun, ledgerVars
<1>2. PhaseInv'
  BY <1>0 DEF PhaseInv, EndRun, Over
<1>3. BudgetOvershootBounded'
  BY <1>0 DEF BudgetOvershootBounded, EndRun, ledgerVars
<1>4. LedgerComplete'
  BY <1>0 DEF LedgerComplete, EndRun, Emits, EmitRaises, ledgerVars, RunsTypeOK, PhaseInv, Over
<1> QED BY <1>1, <1>2, <1>3, <1>4 DEF RunsInv

\* Tasks come and go.
LEMMA TasksInv ==
    ASSUME RunsInv, NEW t \in RunTasks, NEW u \in RunTasks, Spawn(t, u) \/ TaskEnds(t)
    PROVE  RunsInv'
<1>0. RunsTypeOK /\ PhaseInv /\ BudgetOvershootBounded /\ LedgerComplete
  BY DEF RunsInv
<1>1. RunsTypeOK'
  BY <1>0 DEF RunsTypeOK, Spawn, TaskEnds, ledgerVars
<1>2. PhaseInv'
  BY <1>0 DEF PhaseInv, Spawn, TaskEnds, Over
<1>3. BudgetOvershootBounded' /\ LedgerComplete'
  BY <1>0 DEF BudgetOvershootBounded, LedgerComplete, Spawn, TaskEnds, ledgerVars
<1> QED BY <1>1, <1>2, <1>3 DEF RunsInv

LEMMA ReserveInv ==
    ASSUME RunsInv, NEW t \in RunTasks, NEW est \in Estimates, Reserve(t, est)
    PROVE  RunsInv'
<1>0. RunsTypeOK /\ PhaseInv /\ BudgetOvershootBounded /\ LedgerComplete
  BY DEF RunsInv
<1>1. RunsTypeOK'
  BY <1>0, RunsAssumption DEF RunsTypeOK, Reserve, Acts, Starts, ledgerVars
<1>2. PhaseInv'
  BY <1>0 DEF PhaseInv, Reserve, Over
<1>3. BudgetOvershootBounded'
  <2>1. waiting' \in SUBSET RunTasks /\ used' = used /\ used \in Nat
    BY <1>0, <1>1 DEF RunsTypeOK, Reserve, ledgerVars
  <2>2. used <= TokenLimit
    BY <1>0, RunsAssumption DEF RunsTypeOK, Reserve, Fits
  <2>3. MostUsed * Cardinality(waiting') <= MostUsed * Cardinality(RunTasks)
    BY <2>1, TaskSetSize, TimesMonotone, RunsAssumption
  <2>4. MostUsed * Cardinality(waiting') \in Nat /\ MostUsed * Cardinality(RunTasks) \in Nat
    BY <2>1, TaskSetSize, RunsAssumption
  <2> QED BY <2>1, <2>2, <2>3, <2>4, RunsAssumption DEF BudgetOvershootBounded
<1>4. LedgerComplete'
  BY <1>0 DEF LedgerComplete, Reserve, ledgerVars
<1> QED BY <1>1, <1>2, <1>3, <1>4 DEF RunsInv

LEMMA ReserveRefusedInv ==
    ASSUME RunsInv, NEW t \in RunTasks, NEW est \in Estimates, ReserveRefused(t, est)
    PROVE  RunsInv'
<1>0. RunsTypeOK /\ PhaseInv /\ BudgetOvershootBounded /\ LedgerComplete
  BY DEF RunsInv
<1>1. RunsTypeOK'
  BY <1>0, RunsAssumption
  DEF RunsTypeOK, ReserveRefused, Starts, Emits, EmitRaises, ledgerVars
<1>2. PhaseInv' /\ BudgetOvershootBounded'
  BY <1>0 DEF PhaseInv, BudgetOvershootBounded, ReserveRefused, Over, ledgerVars
<1>3. LedgerComplete'
  BY <1>0 DEF LedgerComplete, ReserveRefused, Emits, EmitRaises, ledgerVars, RunsTypeOK
<1> QED BY <1>1, <1>2, <1>3 DEF RunsInv

\* An answer, and a call that raises, take a task out of the waiting ones.
LEMMA FewerWaiting ==
    ASSUME RunsTypeOK, NEW t \in waiting
    PROVE  /\ MostUsed * Cardinality(waiting \ {t}) = MostUsed * Cardinality(waiting) - MostUsed
           /\ MostUsed * Cardinality(waiting) \in Nat
           /\ MostUsed * Cardinality(RunTasks) \in Nat
<1>1. waiting \in SUBSET RunTasks
  BY DEF RunsTypeOK
<1>2. IsFiniteSet(waiting) /\ Cardinality(waiting) \in Nat /\ Cardinality(RunTasks) \in Nat
  BY <1>1, TaskSetSize
<1>3. Cardinality(waiting \ {t}) = Cardinality(waiting) - 1
  BY <1>2, FS_RemoveElement
<1>4. Cardinality(waiting) >= 1
  BY <1>2, FS_EmptySet
<1> QED BY <1>2, <1>3, <1>4, TimesLess, RunsAssumption

LEMMA RespondInv ==
    ASSUME RunsInv, NEW t \in RunTasks, NEW n \in Usages, Respond(t, n)
    PROVE  RunsInv'
<1>0. RunsTypeOK /\ PhaseInv /\ BudgetOvershootBounded /\ LedgerComplete
  BY DEF RunsInv
<1>1. n \in Nat /\ n <= MostUsed /\ MostUsed \in Nat
  BY RunsAssumption
<1>2. RunsTypeOK'
  BY <1>0, <1>1, RunsAssumption DEF RunsTypeOK, Respond, Emits, EmitRaises
<1>3. PhaseInv'
  BY <1>0 DEF PhaseInv, Respond, Over
<1>4. BudgetOvershootBounded'
  <2>1. /\ MostUsed * Cardinality(waiting') = MostUsed * Cardinality(waiting) - MostUsed
        /\ MostUsed * Cardinality(waiting) \in Nat
        /\ MostUsed * Cardinality(RunTasks) \in Nat
    BY <1>0, FewerWaiting DEF Respond
  <2>2. used' = used + n /\ used \in Nat
    BY <1>0 DEF Respond, RunsTypeOK
  <2> QED BY <1>0, <1>1, <2>1, <2>2, RunsAssumption DEF BudgetOvershootBounded
<1>5. LedgerComplete'
  <2>1. t \in holds /\ used \in Nat /\ usageLogged \in Nat /\ auditFaults \in Nat
    BY <1>0, RunsAssumption DEF RunsTypeOK, Respond
  <2>2. ~(runReport.made /\ ~outlived)
    BY <1>0, <2>1 DEF PhaseInv
  <2> QED BY <1>0, <1>1, <2>1, <2>2 DEF LedgerComplete, Respond, Emits, EmitRaises
<1> QED BY <1>2, <1>3, <1>4, <1>5 DEF RunsInv

LEMMA CallFailsInv ==
    ASSUME RunsInv, NEW t \in RunTasks, CallFails(t)
    PROVE  RunsInv'
<1>0. RunsTypeOK /\ PhaseInv /\ BudgetOvershootBounded /\ LedgerComplete
  BY DEF RunsInv
<1>1. RunsTypeOK'
  BY <1>0 DEF RunsTypeOK, CallFails, ledgerVars
<1>2. PhaseInv' /\ LedgerComplete'
  BY <1>0 DEF PhaseInv, LedgerComplete, CallFails, Over, ledgerVars
<1>3. BudgetOvershootBounded'
  <2>1. /\ MostUsed * Cardinality(waiting') = MostUsed * Cardinality(waiting) - MostUsed
        /\ MostUsed * Cardinality(waiting) \in Nat
        /\ MostUsed * Cardinality(RunTasks) \in Nat
    BY <1>0, FewerWaiting DEF CallFails
  <2>2. used' = used /\ used \in Nat
    BY <1>0 DEF CallFails, RunsTypeOK, ledgerVars
  <2> QED BY <1>0, <2>1, <2>2, RunsAssumption DEF BudgetOvershootBounded
<1> QED BY <1>1, <1>2, <1>3 DEF RunsInv

LEMMA ToolCallInv ==
    ASSUME RunsInv, NEW t \in RunTasks, ToolCall(t)
    PROVE  RunsInv'
<1>0. RunsTypeOK /\ PhaseInv /\ BudgetOvershootBounded /\ LedgerComplete
  BY DEF RunsInv
<1>1. RunsTypeOK'
  BY <1>0, RunsAssumption DEF RunsTypeOK, ToolCall, Starts, Emits, EmitRaises
<1>2. PhaseInv' /\ BudgetOvershootBounded'
  BY <1>0 DEF PhaseInv, BudgetOvershootBounded, ToolCall, Over
<1>3. LedgerComplete'
  <2>1. t \in holds /\ tools \in Nat /\ toolsLogged \in Nat /\ auditFaults \in Nat
    BY <1>0, RunsAssumption DEF RunsTypeOK, ToolCall, Acts
  <2>2. ~(runReport.made /\ ~outlived)
    BY <1>0, <2>1 DEF PhaseInv
  <2> QED BY <1>0, <2>1, <2>2 DEF LedgerComplete, ToolCall, Emits, EmitRaises
<1> QED BY <1>1, <1>2, <1>3 DEF RunsInv

LEMMA RunsStutterInv == RunsInv /\ UNCHANGED runVars => RunsInv'
BY DEF RunsInv, RunsTypeOK, PhaseInv, Over, BudgetOvershootBounded, LedgerComplete, runVars,
       ledgerVars

LEMMA RunsNextInv == RunsInv /\ RunsNext => RunsInv'
<1> SUFFICES ASSUME RunsInv, RunsNext PROVE RunsInv'
  OBVIOUS
<1>1. CASE StartRun
  BY <1>1, StartRunInv
<1>2. CASE \E result \in {"completed", "failed"} : EndRun(result)
  BY <1>2, EndRunInv
<1>3. ASSUME NEW t \in RunTasks, (\E u \in RunTasks : Spawn(t, u)) \/ TaskEnds(t)
      PROVE  RunsInv'
  BY <1>3, TasksInv
<1>4. ASSUME NEW t \in RunTasks, \E est \in Estimates : Reserve(t, est) \/ ReserveRefused(t, est)
      PROVE  RunsInv'
  BY <1>4, ReserveInv, ReserveRefusedInv
<1>5. ASSUME NEW t \in RunTasks, \E n \in Usages : Respond(t, n)
      PROVE  RunsInv'
  BY <1>5, RespondInv
<1>6. ASSUME NEW t \in RunTasks, CallFails(t) \/ ToolCall(t)
      PROVE  RunsInv'
  BY <1>6, CallFailsInv, ToolCallInv
<1> QED BY <1>1, <1>2, <1>3, <1>4, <1>5, <1>6 DEF RunsNext

\* The invariant holds in every behaviour.
THEOREM RunsInvariant == RunsSpec => []RunsInv
<1>1. RunsInv /\ [RunsNext]_runVars => RunsInv'
  BY RunsNextInv, RunsStutterInv
<1> QED BY <1>1, RunsInitInv, PTL DEF RunsSpec

\* Every variable has its type.
THEOREM RunsTypes == RunsSpec => []RunsTypeOK
BY RunsInvariant, PTL DEF RunsInv

\* The budget of a run can be exceeded by at most one answer per task.
THEOREM OvershootIsBounded == RunsSpec => []BudgetOvershootBounded
BY RunsInvariant, PTL DEF RunsInv

\* The events and the report of a run agree with its ledger.
THEOREM LedgerIsComplete == RunsSpec => []LedgerComplete
BY RunsInvariant, PTL DEF RunsInv

-----------------------------------------------------------------------------
(* Verb calls.  What validation accepted and what the last call reached are  *)
(* facts about a configuration that does not change.                         *)

Sound == ~DiscoveryFails /\ \A c \in routine.consumes : BindingsSound(c)

ConfigInv ==
    /\ source \in Sources /\ bindings \in BindingMaps
    /\ report = "ok" => Sound

CountInv ==
    /\ invoked \in Nat /\ closed \in Nat /\ effects \in Nat /\ emitFaults \in Nat
    /\ effects <= invoked /\ closed <= invoked /\ invoked <= closed + emitFaults

LoadFailures == {"discovery", "not_found", "duplicate"}
Refusals == LoadFailures \cup
    {"not_configured", "no_binding", "load_error", "not_allowed", "scopes", "rate_limited",
     "unreachable", "rejected"}

\* A result is the one its path's binding leads to.
Accounts(path, body) ==
    /\ body.result \in LoadFailures => Matching(path) # {} /\ LoadError(Resolve(path)) = body.result
    /\ body.result = "no_binding" => Matching(path) = {}
    /\ body.adapter # NoAdapter =>
        Matching(path) # {} /\ body.adapter = Resolve(path) /\ LoadError(Resolve(path)) = "none"
    /\ body.result \in Refusals => ~body.acted

Granted(path, id) == RequiredScope(path) \in DeclaredScopes(IntegrationOf(id))

CallInv ==
    /\ last.path = <<>> \/ last.path \in Called
    /\ Accounts(last.path, last)
    /\ last.run /\ last.acted => Granted(last.path, last.adapter)

DispatchInv == ConfigInv /\ CountInv /\ CallInv

\* A directory that can be loaded is the only one with its id.
LEMMA OneBundle ==
    ASSUME ConfigInv, NEW id, LoadError(id) = "none"
    PROVE  \E d \in source \ {Broken} :
              /\ Bundles(id) = {d} /\ (CHOOSE b \in Bundles(id) : TRUE) = d
              /\ d.adapter = id /\ IntegrationOf(id) = d.integration
<1>1. IsFiniteSet(Bundles(id))
  <2>1. IsFiniteSet(source) /\ Bundles(id) \subseteq source
    BY DispatchAssumption DEF ConfigInv, Bundles
  <2> QED BY <2>1, FS_Subset
<1>2. Bundles(id) # {} /\ ~(Cardinality(Bundles(id)) > 1)
  BY DEF LoadError
<1>3. Cardinality(Bundles(id)) = 1
  <2>1. Cardinality(Bundles(id)) \in Nat /\ Cardinality(Bundles(id)) # 0
    BY <1>1, <1>2, FS_CardinalityType, FS_EmptySet
  <2> QED BY <1>2, <2>1
<1>4. PICK d : Bundles(id) = {d}
  BY <1>1, <1>3, FS_Singleton
<1>5. d \in source \ {Broken} /\ d.adapter = id
  BY <1>4 DEF Bundles
<1>6. \A b \in source \ {Broken} : b.adapter = id => b = d
  BY <1>4 DEF Bundles
<1>7. (CHOOSE b \in Bundles(id) : TRUE) = d
  BY <1>4
<1>8. (CHOOSE b \in source \ {Broken} : b.adapter = id) = d
  BY <1>5, <1>6
<1> QED BY <1>4, <1>5, <1>7, <1>8 DEF IntegrationOf

\* A reply that is reported as a refusal is one to which nothing was done.
LEMMA RefusalIsInert ==
    ASSUME NEW kind, NEW verb, NEW reply \in Replies, TRUE \in MayHaveActed(kind, verb, reply)
    PROVE  AdapterResult(kind, verb, reply) \notin Refusals
<1>1. reply \in {"ok", "empty", "garbled", "server_error", "lost"}
  BY DEF MayHaveActed
<1>2. AdapterResult(kind, verb, reply) \in {"done", "retry", "unavailable"}
  BY <1>1 DEF AdapterResult, GmailRequest, SlackRequest, GmailResult, SlackResult
<1> QED BY <1>2 DEF Refusals, LoadFailures

LEMMA ResultKindsOfAdapters ==
    ASSUME NEW kind, NEW verb, NEW reply
    PROVE  AdapterResult(kind, verb, reply)
              \in {"done", "retry", "unavailable", "rate_limited", "unreachable", "rejected"}
BY DEF AdapterResult, GmailRequest, SlackRequest, GmailResult, SlackResult

LEMMA BodiesFit ==
    ASSUME ConfigInv, NEW path \in Called, NEW body \in Bodies(path)
    PROVE  /\ Accounts(path, body) /\ body.acted \in BOOLEAN
           /\ inRun /\ body.acted => Granted(path, body.adapter)
<1>1. CASE Obstacle(path) # "none"
  <2>1. body.result = Obstacle(path) /\ body.adapter = NoAdapter /\ body.acted = FALSE
    BY <1>1 DEF Bodies, Refused
  <2>2. Obstacle(path) \in LoadFailures => Matching(path) # {} /\ LoadError(Resolve(path)) = Obstacle(path)
    BY DEF Obstacle, LoadObstacle, PolicyObstacle, LoadFailures
  <2>3. Obstacle(path) = "no_binding" => Matching(path) = {}
    BY DEF Obstacle, LoadObstacle, PolicyObstacle, LoadError
  <2> QED BY <2>1, <2>2, <2>3 DEF Accounts
<1>2. CASE Obstacle(path) = "none"
  <2>1. PICK reply \in Replies : body \in Served(path, reply)
    BY <1>2 DEF Bodies
  <2>2. LoadObstacle(path) = "none" /\ (inRun => PolicyObstacle(LoadedBundle(path).integration, path) = "none")
    BY <1>2 DEF Obstacle
  <2>3. Matching(path) # {} /\ LoadError(Resolve(path)) = "none"
    BY <2>2 DEF LoadObstacle
  <2>4. PICK d \in source \ {Broken} :
           LoadedBundle(path) = d /\ d.adapter = Resolve(path) /\ IntegrationOf(Resolve(path)) = d.integration
    BY <2>3, OneBundle DEF LoadedBundle
  <2>5. \/ body = [result |-> "retry", adapter |-> d.adapter, acted |-> FALSE]
        \/ \E a \in MayHaveActed(d.kind, path[2], reply) :
              body = [result |-> AdapterResult(d.kind, path[2], reply), adapter |-> d.adapter, acted |-> a]
    BY <2>1, <2>4 DEF Served
  <2>6. /\ body.adapter = Resolve(path) /\ body.acted \in BOOLEAN
        /\ body.result \in {"done", "retry", "unavailable", "rate_limited", "unreachable", "rejected"}
        /\ body.acted => body.result \notin Refusals
    <3>1. CASE body = [result |-> "retry", adapter |-> d.adapter, acted |-> FALSE]
      BY <2>4, <3>1
    <3>2. ASSUME NEW a \in MayHaveActed(d.kind, path[2], reply),
                 body = [result |-> AdapterResult(d.kind, path[2], reply), adapter |-> d.adapter, acted |-> a]
          PROVE  /\ body.adapter = Resolve(path) /\ body.acted \in BOOLEAN
                 /\ body.result \in {"done", "retry", "unavailable", "rate_limited", "unreachable", "rejected"}
                 /\ body.acted => body.result \notin Refusals
      <4>1. a \in BOOLEAN
        BY DEF MayHaveActed
      <4>2. a => AdapterResult(d.kind, path[2], reply) \notin Refusals
        BY <4>1, RefusalIsInert
      <4> QED BY <2>4, <3>2, <4>1, <4>2, ResultKindsOfAdapters
    <3> QED BY <2>5, <3>1, <3>2
  <2>7. Accounts(path, body)
    BY <2>3, <2>6 DEF Accounts, LoadFailures
  <2>8. inRun => Granted(path, body.adapter)
    BY <2>2, <2>4, <2>6 DEF PolicyObstacle, Granted
  <2> QED BY <2>6, <2>7, <2>8
<1> QED BY <1>1, <1>2

\* The configuration keeps what has been said of a call.
LEMMA ConfigKept ==
    ASSUME UNCHANGED configVars, UNCHANGED last, CallInv
    PROVE  CallInv'
<1>1. UNCHANGED <<source, bindings, routine, registry, last>>
  BY DEF configVars
<1>2. Accounts(last.path, last)'
  <2>1. Matching(last.path)' = Matching(last.path)
    BY <1>1 DEF Matching
  <2>2. Resolve(last.path)' = Resolve(last.path)
    BY <1>1, <2>1 DEF Resolve
  <2>3. LoadError(Resolve(last.path))' = LoadError(Resolve(last.path))
    BY <1>1, <2>2 DEF LoadError, Bundles
  <2>4. Accounts(last.path, last)
    BY DEF CallInv
  <2> QED BY <1>1, <2>1, <2>2, <2>3, <2>4 DEF Accounts
<1>3. (last.run /\ last.acted => Granted(last.path, last.adapter))'
  <2>1. IntegrationOf(last.adapter)' = IntegrationOf(last.adapter)
    BY <1>1 DEF IntegrationOf
  <2>2. DeclaredScopes(IntegrationOf(last.adapter))' = DeclaredScopes(IntegrationOf(last.adapter))
    BY <1>1, <2>1 DEF DeclaredScopes
  <2> QED BY <1>1, <2>2 DEF CallInv, Granted
<1> QED BY <1>1, <1>2, <1>3 DEF CallInv

\* The same of the call that has just been made.
LEMMA Answered ==
    ASSUME UNCHANGED configVars, NEW path \in Called, NEW body, Accounts(path, body),
           inRun /\ body.acted => Granted(path, body.adapter),
           NEW result \in {body.result, "audit_error"},
           last' = [path |-> path, result |-> result, adapter |-> body.adapter,
                    acted |-> body.acted, run |-> inRun]
    PROVE  CallInv'
<1> DEFINE call == [path |-> path, result |-> result, adapter |-> body.adapter,
                    acted |-> body.acted, run |-> inRun]
<1>1. /\ last' = call /\ call.path = path /\ call.result = result /\ call.adapter = body.adapter
      /\ call.acted = body.acted /\ call.run = inRun
  OBVIOUS
<1> HIDE DEF call
<1>2. "audit_error" \notin Refusals \cup LoadFailures \cup {"no_binding"}
  BY DEF Refusals, LoadFailures
<1>3. Accounts(path, call)
  BY <1>1, <1>2 DEF Accounts
<1>4. call.run /\ call.acted => Granted(path, call.adapter)
  BY <1>1
<1>5. UNCHANGED <<source, bindings, routine, registry>>
  BY DEF configVars
<1>6. /\ last'.path = path /\ last'.result = call.result /\ last'.adapter = call.adapter
      /\ last'.acted = call.acted /\ last'.run = call.run
  BY <1>1
<1>7. Accounts(last.path, last)'
  <2>1. Matching(last.path)' = Matching(path)
    BY <1>5, <1>6 DEF Matching
  <2>2. Resolve(last.path)' = Resolve(path)
    BY <1>5, <2>1 DEF Resolve
  <2>3. LoadError(Resolve(last.path))' = LoadError(Resolve(path))
    BY <1>5, <2>2 DEF LoadError, Bundles
  <2> QED BY <1>3, <1>6, <2>1, <2>2, <2>3 DEF Accounts
<1>8. (last.run /\ last.acted => Granted(last.path, last.adapter))'
  <2>1. IntegrationOf(last.adapter)' = IntegrationOf(call.adapter)
    BY <1>5, <1>6 DEF IntegrationOf
  <2>2. DeclaredScopes(IntegrationOf(last.adapter))' = DeclaredScopes(IntegrationOf(call.adapter))
    BY <1>5, <2>1 DEF DeclaredScopes
  <2> QED BY <1>4, <1>6, <2>2 DEF Granted
<1> QED BY <1>6, <1>7, <1>8 DEF CallInv

LEMMA VerbCallInv ==
    ASSUME DispatchInv, NEW path \in Called, VerbCall(path)
    PROVE  DispatchInv'
<1>0. ConfigInv /\ CountInv /\ UNCHANGED configVars /\ UNCHANGED <<inRun, report>>
  BY DEF DispatchInv, VerbCall
<1>1. ConfigInv'
  BY <1>0 DEF ConfigInv, configVars, Sound, DiscoveryFails, KnownIds, Bundles, BindingsSound, RelevantKeys
<1>2. CASE CallOutside(path)
  <2>1. PICK body \in Bodies(path) : last' = Outcome(path, body)
    BY <1>2 DEF CallOutside
  <2>2. Accounts(path, body) /\ (inRun /\ body.acted => Granted(path, body.adapter))
    BY <1>0, BodiesFit
  <2>3. CallInv'
    BY <1>0, <2>1, <2>2, Answered DEF Outcome
  <2> QED BY <1>0, <1>1, <1>2, <2>3 DEF CallOutside, CountInv, DispatchInv
<1>3. CASE CallUnannounced(path)
  <2>1. last' = [path |-> path, result |-> "audit_error", adapter |-> NoAdapter, acted |-> FALSE, run |-> TRUE]
        /\ UNCHANGED <<invoked, closed, effects>> /\ emitFaults' = emitFaults + 1
    BY <1>3 DEF CallUnannounced, NoCall
  <2>2. CallInv'
    BY <2>1 DEF CallInv, Accounts, Refusals, LoadFailures
  <2> QED BY <1>0, <1>1, <2>1, <2>2 DEF CountInv, DispatchInv
<1>4. CASE CallInside(path)
  <2>1. PICK body \in Bodies(path) :
           /\ effects' = effects + (IF body.acted THEN 1 ELSE 0)
           /\ \/ /\ closed' = closed + 1
                 /\ last' = Outcome(path, body)
                 /\ UNCHANGED emitFaults
              \/ /\ emitFaults < MaxEmitFaults
                 /\ emitFaults' = emitFaults + 1
                 /\ last' = [Outcome(path, body) EXCEPT !.result = "audit_error"]
                 /\ UNCHANGED closed
    BY <1>4 DEF CallInside
  <2>2. Accounts(path, body) /\ (inRun /\ body.acted => Granted(path, body.adapter))
    BY <1>0, BodiesFit
  <2>3. \E result \in {body.result, "audit_error"} :
           last' = [path |-> path, result |-> result, adapter |-> body.adapter,
                    acted |-> body.acted, run |-> inRun]
    BY <2>1 DEF Outcome
  <2>4. CallInv'
    BY <1>0, <2>2, <2>3, Answered
  <2>5. invoked' = invoked + 1
    BY <1>4 DEF CallInside
  <2>6. CountInv'
    BY <1>0, <2>1, <2>5 DEF CountInv
  <2> QED BY <1>1, <2>4, <2>6 DEF DispatchInv
<1>5. CASE CallBlockedUnreported(path)
  <2>1. last' = [path |-> path, result |-> "audit_error", adapter |-> NoAdapter, acted |-> FALSE, run |-> inRun]
    BY <1>5 DEF CallBlockedUnreported, Outcome, Refused
  <2>2. CallInv'
    BY <2>1 DEF CallInv, Accounts, Refusals, LoadFailures
  <2> QED BY <1>0, <1>1, <1>5, <2>2 DEF CallBlockedUnreported, CountInv, DispatchInv
<1> QED BY <1>2, <1>3, <1>4, <1>5 DEF VerbCall

LEMMA DispatchInitInv == DispatchInit => DispatchInv
<1> SUFFICES ASSUME DispatchInit PROVE DispatchInv
  OBVIOUS
<1>1. ConfigInv /\ CountInv
  BY DEF DispatchInit, ConfigInv, CountInv
<1>2. last.path = <<>> /\ last.result = "none" /\ last.adapter = NoAdapter /\ last.acted = FALSE
  BY DEF DispatchInit, NoCall
<1>3. CallInv
  BY <1>2 DEF CallInv, Accounts, Refusals, LoadFailures
<1> QED BY <1>1, <1>3 DEF DispatchInv

LEMMA DispatchStep == DispatchInv /\ [DispatchNext]_dispatchVars => DispatchInv'
<1> SUFFICES ASSUME DispatchInv, [DispatchNext]_dispatchVars PROVE DispatchInv'
  OBVIOUS
<1>1. CASE Validate \/ Configure \/ EnterOrLeaveRun \/ UNCHANGED dispatchVars
  <2>1. UNCHANGED <<configVars, callVars>>
    BY <1>1 DEF Validate, Configure, EnterOrLeaveRun, dispatchVars, configVars, callVars
  <2>2. Sound' = Sound
    BY <2>1 DEF configVars, Sound, DiscoveryFails, KnownIds, Bundles, BindingsSound, RelevantKeys
  <2>3. report' = "ok" => Sound
    <3>1. CASE Validate
      BY <3>1 DEF Validate, Sound
    <3>2. CASE UNCHANGED report
      BY <3>2 DEF DispatchInv, ConfigInv
    <3> QED BY <1>1, <3>1, <3>2 DEF Configure, EnterOrLeaveRun, dispatchVars
  <2>4. ConfigInv'
    BY <2>1, <2>2, <2>3 DEF DispatchInv, ConfigInv, configVars
  <2>5. CallInv'
    BY <2>1, ConfigKept DEF DispatchInv, callVars
  <2> QED BY <2>1, <2>4, <2>5 DEF DispatchInv, CountInv, callVars
<1> QED BY <1>1, VerbCallInv DEF DispatchNext

\* The result of a verb's body is one of the known ones.
LEMMA BodyResults ==
    ASSUME NEW path, NEW body \in Bodies(path)
    PROVE  body.result \in ResultKinds
<1>1. CASE Obstacle(path) # "none"
  <2>1. body.result = Obstacle(path)
    BY <1>1 DEF Bodies, Refused
  <2>2. \A id : LoadError(id) \in ResultKinds
    BY DEF LoadError, ResultKinds
  <2>3. LoadObstacle(path) \in ResultKinds
    BY <2>2 DEF LoadObstacle, ResultKinds
  <2>4. \A id : PolicyObstacle(id, path) \in ResultKinds
    BY DEF PolicyObstacle, ResultKinds
  <2> QED BY <2>1, <2>3, <2>4 DEF Obstacle, ResultKinds
<1>2. CASE Obstacle(path) = "none"
  <2>1. PICK reply \in Replies : body \in Served(path, reply)
    BY <1>2 DEF Bodies
  <2>2. body.result = "retry" \/ \E kind, verb : body.result = AdapterResult(kind, verb, reply)
    BY <2>1 DEF Served
  <2> QED BY <2>2, ResultKindsOfAdapters DEF ResultKinds
<1> QED BY <1>1, <1>2

LEMMA DispatchTypeStep ==
    DispatchTypeOK /\ DispatchInv /\ [DispatchNext]_dispatchVars => DispatchTypeOK'
<1> SUFFICES ASSUME DispatchTypeOK, DispatchInv, [DispatchNext]_dispatchVars
             PROVE  DispatchTypeOK'
  OBVIOUS
<1>1. DispatchInv'
  BY DispatchStep
<1>2. {invoked', closed', effects', emitFaults'} \subseteq Nat
      /\ (last'.path = <<>> \/ last'.path \in Called)
  BY <1>1 DEF DispatchInv, CountInv, CallInv
<1>3. CASE Validate \/ Configure \/ EnterOrLeaveRun \/ UNCHANGED dispatchVars
  BY <1>2, <1>3 DEF Validate, Configure, EnterOrLeaveRun, dispatchVars, configVars, callVars,
                    DispatchTypeOK
<1>4. ASSUME NEW path \in Called, VerbCall(path) PROVE DispatchTypeOK'
  <2>1. /\ UNCHANGED <<source, bindings, routine, registry, configured, inRun, report>>
        /\ verbCalls' = verbCalls + 1
    BY <1>4 DEF VerbCall, configVars
  <2>2. last'.result \in ResultKinds
    <3>1. CASE CallOutside(path)
      <4>1. PICK body \in Bodies(path) : last' = Outcome(path, body)
        BY <3>1 DEF CallOutside
      <4>2. last'.result = body.result
        BY <4>1 DEF Outcome
      <4> QED BY <4>2, BodyResults
    <3>2. CASE CallInside(path)
      <4>1. PICK body \in Bodies(path) :
               \/ last' = Outcome(path, body)
               \/ last' = [Outcome(path, body) EXCEPT !.result = "audit_error"]
        BY <3>2 DEF CallInside
      <4>2. last'.result = body.result \/ last'.result = "audit_error"
        BY <4>1 DEF Outcome
      <4> QED BY <4>2, BodyResults DEF ResultKinds
    <3>3. CASE CallUnannounced(path) \/ CallBlockedUnreported(path)
      <4>1. last'.result = "audit_error"
        BY <3>3 DEF CallUnannounced, CallBlockedUnreported, NoCall, Outcome
      <4> QED BY <4>1 DEF ResultKinds
    <3> QED BY <1>4, <3>1, <3>2, <3>3 DEF VerbCall
  <2>3. verbCalls' \in Nat
    BY <2>1 DEF DispatchTypeOK
  <2> QED BY <1>2, <2>1, <2>2, <2>3 DEF DispatchTypeOK
<1> QED BY <1>3, <1>4 DEF DispatchNext

\* Every variable of Dispatch keeps its type: the last call has one of the results
\* that callers are told to expect.
THEOREM DispatchTypes == DispatchSpec => []DispatchTypeOK
<1>1. ASSUME DispatchInit PROVE DispatchTypeOK
  <2>1. last.path = <<>> /\ last.result = "none"
    BY <1>1 DEF DispatchInit, NoCall
  <2>2. /\ source \in Sources /\ bindings \in BindingMaps /\ routine \in Routines
        /\ registry \in Registries /\ configured \in BOOLEAN /\ inRun \in BOOLEAN
        /\ report = "none"
        /\ verbCalls = 0 /\ invoked = 0 /\ closed = 0 /\ effects = 0 /\ emitFaults = 0
    BY <1>1 DEF DispatchInit
  <2>3. last.path \in Called \cup {<<>>} /\ last.result \in ResultKinds
    BY <2>1 DEF ResultKinds
  <2>4. {verbCalls, invoked, closed, effects, emitFaults} \subseteq Nat
    BY <2>2
  <2> QED BY <2>2, <2>3, <2>4 DEF DispatchTypeOK
<1> QED BY <1>1, DispatchInitInv, DispatchStep, DispatchTypeStep, PTL DEF DispatchSpec

\* A verb call: what a service does in a run is granted by the routine's manifest and
\* written in the audit log first, for any configuration, routine and number of calls.
THEOREM GrantsAreKept == DispatchSpec => []ActsWithinGrant
<1>1. DispatchInv => ActsWithinGrant
  BY DEF DispatchInv, CountInv, CallInv, Granted, ActsWithinGrant
<1> QED BY <1>1, DispatchInitInv, DispatchStep, PTL DEF DispatchSpec

\* A verb call: one that is answered with a refusal has had no effect, whatever the
\* service replies.
THEOREM RefusalsAreInert == DispatchSpec => []RefusalsHaveNoEffect
<1>1. DispatchInv => RefusalsHaveNoEffect
  BY DEF DispatchInv, CallInv, Accounts, Refusals, LoadFailures, RefusalsHaveNoEffect
<1> QED BY <1>1, DispatchInitInv, DispatchStep, PTL DEF DispatchSpec

LEMMA FirstOnly ==
    ASSUME NEW S, NEW seq \in Seq(S), seq # <<>>
    PROVE  seq[1] \in S /\ Len(seq) \in Nat \ {0} /\ SubSeq(seq, 1, 1) = <<seq[1]>>
<1>1. Len(seq) \in Nat \ {0} /\ seq[1] \in S
  BY HeadTailProperties
<1>2. SubSeq(seq, 1, 1) = <<seq[1]>> \o SubSeq(seq, 1 + 1, 1)
  <2>1. 1 \in 1..Len(seq) /\ 1 \in 1..Len(seq)
    BY <1>1
  <2> QED BY <2>1, SubSeqRecursiveFirst
<1>3. SubSeq(seq, 1 + 1, 1) = <<>>
  BY SubSeqEmpty
<1> DEFINE first == <<seq[1]>>
<1>4. first \in Seq(S)
  BY <1>1
<1>5. SubSeq(seq, 1, 1) = first \o <<>>
  BY <1>2, <1>3
<1> HIDE DEF first
<1>6. SubSeq(seq, 1, 1) = first
  BY <1>4, <1>5, ConcatEmptySeq
<1> QED BY <1>1, <1>6 DEF first

LEMMA PrefixOfOne ==
    ASSUME NEW S, NEW seq \in Seq(S), seq # <<>>
    PROVE  IsPrefix(<<seq[1]>>, seq)
<1>1. seq[1] \in S /\ Len(seq) \in Nat \ {0} /\ SubSeq(seq, 1, 1) = <<seq[1]>>
  BY FirstOnly
<1> DEFINE one == <<seq[1]>>
<1>2. one \in Seq(S) /\ Len(one) = 1 /\ one # <<>>
  BY <1>1
<1> HIDE DEF one
<1>3. SubSeq(one, 1, 1) = one
  BY <1>2, SubSeqFull
<1> QED BY <1>1, <1>2, <1>3 DEF IsPrefix, one

LEMMA HeadOfPrefix ==
    ASSUME NEW S, NEW key \in Seq(S), key # <<>>, NEW path \in Seq(S), IsPrefix(key, path)
    PROVE  Len(key) \in Nat \ {0} /\ Len(key) <= Len(path) /\ key[1] = path[1]
<1>1. Len(key) \in Nat \ {0} /\ Len(path) \in Nat /\ Len(key) <= Len(path)
  BY DEF IsPrefix
<1>2. SubSeq(key, 1, Len(key)) = SubSeq(path, 1, Len(key))
  BY DEF IsPrefix
<1>3. SubSeq(key, 1, Len(key))[1] = key[1] /\ SubSeq(path, 1, Len(key))[1] = path[1]
  BY <1>1
<1> QED BY <1>1, <1>2, <1>3

\* A path that matches is resolved by one of its keys.
LEMMA Resolved ==
    ASSUME ConfigInv, NEW path \in Called, Matching(path) # {}
    PROVE  \E key \in RelevantKeys(path[1]) : Resolve(path) = bindings[key]
<1>1. path \in Seq(STRING) /\ Len(path) = 2
  BY DispatchAssumption
<1>2. ASSUME NEW key \in Matching(path)
      PROVE  Len(key) \in {1, 2} /\ key \in RelevantKeys(path[1])
  <2>1. key \in DOMAIN bindings /\ key \in Seq(STRING) /\ key # <<>> /\ IsPrefix(key, path)
    BY DispatchAssumption DEF ConfigInv, Matching
  <2>2. Len(key) \in Nat \ {0} /\ Len(key) <= Len(path) /\ key[1] = path[1]
    BY <1>1, <2>1, HeadOfPrefix
  <2>3. IsPrefix(<<key[1]>>, key)
    BY <2>1, PrefixOfOne
  <2>4. Len(key) \in {1, 2}
    <3> DEFINE n == Len(key)
    <3>1. n \in Nat \ {0} /\ n <= 2
      BY <1>1, <2>2
    <3> HIDE DEF n
    <3>2. n \in {1, 2}
      BY <3>1
    <3> QED BY <3>2 DEF n
  <2> QED BY <2>1, <2>2, <2>3, <2>4 DEF RelevantKeys
<1> DEFINE size(k) == Len(k)
<1>3. \A key \in Matching(path) : size(key) = 1 \/ size(key) = 2
  <2> SUFFICES ASSUME NEW key \in Matching(path) PROVE Len(key) \in {1, 2}
    OBVIOUS
  <2> QED BY <1>2
<1> HIDE DEF size
<1>a. \E key \in Matching(path) : \A other \in Matching(path) : size(other) <= size(key)
  <2>1. CASE \E key \in Matching(path) : size(key) = 2
    BY <1>3, <2>1
  <2>2. CASE ~\E key \in Matching(path) : size(key) = 2
    BY <1>3, <2>2
  <2> QED BY <2>1, <2>2
<1>4. PICK key \in Matching(path) : Resolve(path) = bindings[key]
  BY <1>a DEF Resolve, size
<1> QED BY <1>2, <1>4

LEMMA ValidatedFromInv == DispatchInv => ValidatedResolves
<1> SUFFICES ASSUME DispatchInv, report = "ok", last.path # <<>>, last.path[1] \in routine.consumes
             PROVE  /\ last.result \notin LoadFailures
                    /\ last.result = "no_binding" => <<last.path[1]>> \notin DOMAIN bindings
                    /\ last.adapter # NoAdapter =>
                        \E d \in source \ {Broken} : d.adapter = last.adapter /\ last.path[1] \in d.claims
  BY DEF ValidatedResolves, LoadFailures
<1> DEFINE path == last.path
<1>1. ConfigInv /\ Sound /\ path \in Called /\ Accounts(path, last)
  BY DEF DispatchInv, ConfigInv, CallInv
<1>2. BindingsSound(path[1]) /\ ~DiscoveryFails
  BY <1>1 DEF Sound
<1> HIDE DEF path
<1>3. ASSUME Matching(path) # {}
      PROVE  Resolve(path) \in KnownIds /\ \A d \in Bundles(Resolve(path)) : path[1] \in d.claims
  <2>1. PICK key \in RelevantKeys(path[1]) : Resolve(path) = bindings[key]
    BY <1>1, <1>3, Resolved
  <2> QED BY <1>2, <2>1 DEF BindingsSound
<1>4. ASSUME Matching(path) # {} PROVE LoadError(Resolve(path)) \notin LoadFailures
  <2>1. Broken \notin source /\ ~(Cardinality(Bundles(Resolve(path))) > 1)
    BY <1>2, <1>3, <1>4 DEF DiscoveryFails
  <2>2. Bundles(Resolve(path)) # {}
    BY <1>3, <1>4 DEF KnownIds, Bundles
  <2> QED BY <2>1, <2>2 DEF LoadError, LoadFailures
<1>5. last.result \notin LoadFailures
  BY <1>1, <1>4 DEF Accounts
<1>6. last.result = "no_binding" => <<path[1]>> \notin DOMAIN bindings
  <2>1. IsPrefix(<<path[1]>>, path)
    <3>1. path \in Seq(STRING) /\ Len(path) = 2
      BY <1>1, DispatchAssumption
    <3>2. path # <<>>
      BY <3>1
    <3> QED BY <3>1, <3>2, PrefixOfOne
  <2> QED BY <1>1, <2>1 DEF Accounts, Matching
<1>7. ASSUME last.adapter # NoAdapter
      PROVE  \E d \in source \ {Broken} : d.adapter = last.adapter /\ path[1] \in d.claims
  <2>1. Matching(path) # {} /\ last.adapter = Resolve(path)
    BY <1>1, <1>7 DEF Accounts
  <2>2. PICK d \in source \ {Broken} : d.adapter = Resolve(path)
    BY <1>3, <2>1 DEF KnownIds
  <2> QED BY <1>3, <2>1, <2>2 DEF Bundles
<1> QED BY <1>5, <1>6, <1>7 DEF path

\* A verb call: under bindings that validation at installation has accepted every verb
\* of a declared capability that has a key reaches an adapter that claims it.
THEOREM AcceptedBindingsResolve == DispatchSpec => []ValidatedResolves
BY DispatchInitInv, DispatchStep, ValidatedFromInv, PTL DEF DispatchSpec

-----------------------------------------------------------------------------
(* Adapters.  Implementations are numbered, so that those of two makers and *)
(* the cached one differ; a thread that holds one is under way.             *)

MadeInv ==
    /\ \A t \in Loaders : made[t] # NoImpl =>
        loaderAt[t] = "made" /\ made[t].number <= instances
    /\ \A t \in Loaders : loaderAt[t] = "made" => made[t] # NoImpl
    /\ \A t, u \in Loaders : t # u /\ made[t] # NoImpl /\ made[u] # NoImpl =>
        made[t].number # made[u].number
    /\ cached # NoImpl => cached.number <= instances
    /\ \A t \in Loaders : cached # NoImpl /\ made[t] # NoImpl =>
        cached.number # made[t].number

AdaptersInv == AdaptersTypeOK /\ MadeInv /\ AdapterFresh

LEMMA ImplFields ==
    ASSUME NEW i \in Impls
    PROVE  i.by \in Nat /\ i.number \in Nat /\ i.number >= 1 /\ i # NoImpl
<1>1. MaxFactories \in Nat /\ MaxInstances \in Nat
  BY AdaptersAssumption
<1>2. i.by \in 0..MaxFactories /\ i.number \in 1..MaxInstances
  BY DEF Impls
<1>3. i # NoImpl
  BY AdaptersAssumption DEF Impls
<1> QED BY <1>1, <1>2, <1>3

LEMMA AdaptersInitInv == AdaptersInit => AdaptersInv
<1> SUFFICES ASSUME AdaptersInit PROVE AdaptersInv
  OBVIOUS
<1>1. MaxFactories \in Nat /\ MaxInstances \in Nat
  BY AdaptersAssumption
<1>2. factory \in 0..MaxFactories /\ instances \in 0..MaxInstances
  BY <1>1 DEF AdaptersInit
<1>3. AdaptersTypeOK
  BY <1>2 DEF AdaptersInit, AdaptersTypeOK
<1>4. MadeInv /\ AdapterFresh
  BY DEF AdaptersInit, MadeInv, AdapterFresh
<1> QED BY <1>3, <1>4 DEF AdaptersInv

LEMMA CacheDropped ==
    ASSUME AdaptersInv, RegisterFactory \/ ResetCache
    PROVE  AdaptersInv'
<1>0. AdaptersTypeOK /\ MadeInv /\ AdapterFresh
  BY DEF AdaptersInv
<1>1. cached' = NoImpl /\ UNCHANGED <<made, loaderAt, instances, handed>>
  BY DEF RegisterFactory, ResetCache, CacheAfterRegistration
<1>2. AdaptersTypeOK'
  <2>1. factory' \in 0..MaxFactories
    <3>1. MaxFactories \in Nat
      BY AdaptersAssumption
    <3> QED BY <1>0, <3>1 DEF AdaptersTypeOK, RegisterFactory, ResetCache
  <2>2. early' \subseteq Loaders /\ overtaken' \in BOOLEAN
    BY <1>0 DEF AdaptersTypeOK, RegisterFactory, ResetCache, UnderWay
  <2> QED BY <1>0, <1>1, <2>1, <2>2 DEF AdaptersTypeOK
<1>3. MadeInv'
  BY <1>0, <1>1 DEF MadeInv
<1>4. AdapterFresh'
  BY <1>0, <1>1 DEF MadeInv, AdapterFresh, RegisterFactory, ResetCache, UnderWay
<1> QED BY <1>2, <1>3, <1>4 DEF AdaptersInv

LEMMA LoadMakesInv ==
    ASSUME AdaptersInv, NEW t \in Loaders, LoadMakes(t)
    PROVE  AdaptersInv'
<1>0. AdaptersTypeOK /\ MadeInv /\ AdapterFresh
  BY DEF AdaptersInv
<1> DEFINE new == [by |-> factory, number |-> instances + 1]
<1>1. /\ new \in Impls /\ instances' = instances + 1 /\ instances \in Nat
      /\ instances' \in 0..MaxInstances
  <2>1. MaxFactories \in Nat /\ MaxInstances \in Nat
    BY AdaptersAssumption
  <2>2. factory \in 0..MaxFactories /\ instances \in 0..MaxInstances /\ instances < MaxInstances
    BY <1>0 DEF LoadMakes, AdaptersTypeOK
  <2>3. /\ instances + 1 \in 1..MaxInstances /\ instances + 1 \in 0..MaxInstances
        /\ instances \in Nat
    BY <2>1, <2>2
  <2>4. new \in [by : 0..MaxFactories, number : 1..MaxInstances]
    BY <2>2, <2>3
  <2> QED BY <2>3, <2>4 DEF LoadMakes, Impls
<1>2. made \in [Loaders -> Impls \cup {NoImpl}] /\ made' = [made EXCEPT ![t] = new]
  BY <1>0 DEF LoadMakes, AdaptersTypeOK
<1>3. made'[t] = new /\ new.by = factory /\ new.number = instances + 1
      /\ \A u \in Loaders \ {t} : made'[u] = made[u]
  BY <1>2
<1>4. made[t] = NoImpl /\ loaderAt \in [Loaders -> {"out", "making", "made"}]
      /\ loaderAt' = [loaderAt EXCEPT ![t] = "made"]
  BY <1>0 DEF LoadMakes, AdaptersTypeOK, MadeInv
<1>5. UNCHANGED <<cached, factory, early, overtaken, handed>>
  BY DEF LoadMakes
<1>6. \A i \in Impls : i.number \in Nat
  BY ImplFields
<1>7. AdaptersTypeOK'
  <2>1. made' \in [Loaders -> Impls \cup {NoImpl}]
    BY <1>1, <1>2
  <2>2. loaderAt' \in [Loaders -> {"out", "making", "made"}]
    BY <1>4
  <2> QED BY <1>0, <1>1, <1>5, <2>1, <2>2 DEF AdaptersTypeOK
<1>8. \A u \in Loaders \ {t} : made[u] # NoImpl =>
        made[u].number <= instances /\ made[u].number \in Nat
  BY <1>0, <1>2, <1>6 DEF MadeInv
<1>9. cached # NoImpl => cached.number <= instances /\ cached.number \in Nat
  BY <1>0, <1>6 DEF MadeInv, AdaptersTypeOK
<1> HIDE DEF new
<1>10. MadeInv'
  BY <1>0, <1>1, <1>3, <1>4, <1>5, <1>8, <1>9, ImplFields DEF MadeInv
<1>11. AdapterFresh'
  <2>1. cached' # made'[t]
    BY <1>1, <1>3, <1>5, <1>9, ImplFields
  <2>2. cached' # NoImpl => cached'.by = factory' \/ overtaken'
    BY <1>0, <1>5 DEF AdapterFresh
  <2>3. \A u \in Loaders : made'[u] # NoImpl =>
            cached' # made'[u] /\ (made'[u].by = factory' \/ u \in early')
    BY <1>0, <1>3, <1>5, <2>1 DEF AdapterFresh
  <2> QED BY <2>2, <2>3 DEF AdapterFresh
<1> QED BY <1>7, <1>10, <1>11 DEF AdaptersInv

LEMMA LoadStoresInv ==
    ASSUME AdaptersInv, NEW t \in Loaders, LoadStores(t)
    PROVE  AdaptersInv'
<1>0. AdaptersTypeOK /\ MadeInv /\ AdapterFresh
  BY DEF AdaptersInv
<1>1. made \in [Loaders -> Impls \cup {NoImpl}] /\ made[t] \in Impls /\ made[t] # NoImpl
  BY <1>0 DEF LoadStores, AdaptersTypeOK, MadeInv
<1>2. made'[t] = NoImpl /\ \A u \in Loaders \ {t} : made'[u] = made[u]
  BY <1>1 DEF LoadStores
<1>3. /\ loaderAt \in [Loaders -> {"out", "making", "made"}] /\ loaderAt'[t] = "out"
      /\ \A u \in Loaders \ {t} : loaderAt'[u] = loaderAt[u]
  BY <1>0 DEF LoadStores, AdaptersTypeOK
<1>4. cached' = made[t] /\ overtaken' = (t \in early) /\ early' = early \ {t}
      /\ UNCHANGED <<factory, instances>>
  BY DEF LoadStores
<1>5. AdaptersTypeOK'
  BY <1>0, <1>1, <1>4 DEF AdaptersTypeOK, LoadStores
<1>6. MadeInv'
  BY <1>0, <1>1, <1>2, <1>3, <1>4 DEF MadeInv
<1>7. AdapterFresh'
  BY <1>0, <1>1, <1>2, <1>4 DEF AdapterFresh, MadeInv
<1> QED BY <1>5, <1>6, <1>7 DEF AdaptersInv

LEMMA AdaptersStep == AdaptersInv /\ [AdaptersNext]_registryVars => AdaptersInv'
<1> SUFFICES ASSUME AdaptersInv, [AdaptersNext]_registryVars PROVE AdaptersInv'
  OBVIOUS
<1>0. AdaptersTypeOK /\ MadeInv /\ AdapterFresh
  BY DEF AdaptersInv
<1>1. CASE UNCHANGED registryVars
  BY <1>0, <1>1 DEF AdaptersInv, AdaptersTypeOK, MadeInv, AdapterFresh, registryVars
<1>2. ASSUME NEW t \in Loaders, LoadLooks(t) \/ LoadFails(t) PROVE AdaptersInv'
  <2>1. AdaptersTypeOK'
    BY <1>0, <1>2 DEF AdaptersTypeOK, LoadLooks, LoadFails
  <2>2. MadeInv'
    BY <1>0, <1>2 DEF AdaptersTypeOK, MadeInv, LoadLooks, LoadFails
  <2>3. AdapterFresh'
    BY <1>0, <1>2 DEF MadeInv, AdapterFresh, LoadLooks, LoadFails
  <2> QED BY <2>1, <2>2, <2>3 DEF AdaptersInv
<1> QED BY <1>1, <1>2, CacheDropped, LoadMakesInv, LoadStoresInv DEF AdaptersNext

\* Every variable of Adapters keeps its type.
THEOREM AdaptersTypes == AdaptersSpec => []AdaptersTypeOK
<1>1. AdaptersInv => AdaptersTypeOK
  BY DEF AdaptersInv
<1> QED BY <1>1, AdaptersInitInv, AdaptersStep, PTL DEF AdaptersSpec

\* The cache of AdapterRegistry: whatever loads and registrations of a factory
\* overlap, only a load that was under way at the registration can leave an older
\* factory's implementation in it.
THEOREM CacheIsFresh == AdaptersSpec => []AdapterFresh
<1>1. AdaptersInv => AdapterFresh
  BY DEF AdaptersInv
<1> QED BY <1>1, AdaptersInitInv, AdaptersStep, PTL DEF AdaptersSpec

=============================================================================
