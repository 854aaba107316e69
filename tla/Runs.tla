-------------------------------- MODULE Runs ---------------------------------
(***************************************************************************)
(* One run of a routine: RoutineEngine.run (src/ota_core/systems/engine.py) *)
(* inside the bracket of L0bEnforcer.routine_run (src/ota_core/policy/      *)
(* l0b.py), with the ledger that RoutineRunContext keeps.                   *)
(*                                                                          *)
(* The context is found through a context variable that asyncio copies into *)
(* every task a task creates: a task that the routine does not await goes   *)
(* on with the run's context after the run has ended.  Only an LLM call is  *)
(* awaited; everything else a task does here is one step.  Every emit of    *)
(* the audit sink may raise.                                                *)
(***************************************************************************)
EXTENDS Naturals, FiniteSets

CONSTANTS
    RunTasks,       \* tasks that may hold the run's context ...
    MainTask,       \* ... and the one that awaits the routine's entry point
    TokenLimit,     \* max_input_tokens_per_run (output tokens and usd likewise)
    Estimates,      \* tokens that callers reserve
    Usages,         \* tokens that an answer reports ...
    MostUsed,       \* ... at most
    MaxLlmCalls,    \* bound: LLM calls and tool calls of the run
    MaxAuditFaults  \* bound: emits that raise

ASSUME RunsAssumption ==
    /\ IsFiniteSet(RunTasks)
    /\ MainTask \in RunTasks
    /\ TokenLimit \in Nat
    /\ Estimates \subseteq Nat
    /\ MostUsed \in Nat
    /\ Usages \subseteq 0..MostUsed
    /\ {MaxLlmCalls, MaxAuditFaults} \subseteq Nat

VARIABLES
    phase,          \* of the run
    holds,          \* the tasks whose context variable holds the run's context
    waiting,        \* the tasks that await an answer of the model
    used,           \* input_tokens_used
    tools,          \* tool_calls_made
    usageLogged,    \* tokens in the llm.response events
    toolsLogged,    \* tool_call.invoked events
    runReport,         \* what run_completed says of used and tools
    started,        \* calls started
    auditFaults,    \* emits that raised
    outlived        \* history: a task held the context when the run ended

runVars == <<phase, holds, waiting, used, tools, usageLogged, toolsLogged, runReport,
             started, auditFaults, outlived>>
ledgerVars == <<used, tools, usageLogged, toolsLogged>>

Phases == {"idle", "running", "completed", "failed", "unlogged"}

NoRunReport == [used |-> 0, tools |-> 0, made |-> FALSE]

RunsInit ==
    /\ phase = "idle"
    /\ holds = {}
    /\ waiting = {}
    /\ used = 0
    /\ tools = 0
    /\ usageLogged = 0
    /\ toolsLogged = 0
    /\ runReport = NoRunReport
    /\ started = 0
    /\ auditFaults = 0
    /\ outlived = FALSE

\* _audit.emit either writes the event or raises.
Emits == UNCHANGED auditFaults
EmitRaises == auditFaults < MaxAuditFaults /\ auditFaults' = auditFaults + 1

-----------------------------------------------------------------------------
(* The bracket. *)

\* routine_run sets the context variable and announces the run; if that raises the
\* variable is reset and the routine is not called.
StartRun ==
    /\ phase = "idle"
    /\ \/ Emits /\ phase' = "running" /\ holds' = {MainTask}
       \/ EmitRaises /\ phase' = "unlogged" /\ UNCHANGED holds
    /\ UNCHANGED <<waiting, ledgerVars, runReport, started, outlived>>

\* The entry point returns or raises: run_completed carries the ledger, run_failed
\* does not.  The main task's variable is reset in either case, also when the emit
\* itself raises, which is not followed by a run_failed.
EndRun(result) ==
    /\ phase = "running"
    /\ MainTask \notin waiting
    /\ \/ /\ Emits
          /\ phase' = result
          /\ runReport' = IF result = "completed"
                       THEN [used |-> used, tools |-> tools, made |-> TRUE]
                       ELSE runReport
       \/ /\ EmitRaises
          /\ phase' = "unlogged"
          /\ UNCHANGED runReport
    /\ holds' = holds \ {MainTask}
    /\ outlived' = (holds # {MainTask})
    /\ UNCHANGED <<waiting, ledgerVars, started>>

\* asyncio.create_task copies the creator's context; the task's end drops the copy.
Spawn(t, u) ==
    /\ t \in holds \ waiting
    /\ u # MainTask
    /\ holds' = holds \cup {u}
    /\ UNCHANGED <<phase, waiting, ledgerVars, runReport, started, auditFaults, outlived>>

TaskEnds(t) ==
    /\ t \in holds \ waiting
    /\ t # MainTask
    /\ holds' = holds \ {t}
    /\ UNCHANGED <<phase, waiting, ledgerVars, runReport, started, auditFaults, outlived>>

-----------------------------------------------------------------------------
(* The ledger. *)

\* _require_ctx: outside the context NotInRoutineRunError is raised.
Acts(t) == t \in holds \ waiting

Starts == started < MaxLlmCalls /\ started' = started + 1

\* Faulty variant: each estimate is compared with the whole limit.
FitsAlone(est) == est <= TokenLimit

\* reserve_llm_budget compares and keeps nothing.
Fits(est) == used + est <= TokenLimit

\* A reservation that fits, and the call to the model that follows it.
Reserve(t, est) ==
    /\ Acts(t)
    /\ Starts
    /\ Fits(est)
    /\ waiting' = waiting \cup {t}
    /\ UNCHANGED <<phase, holds, ledgerVars, runReport, auditFaults, outlived>>

\* BudgetExceededError, or the error of the emit that announces it.
ReserveRefused(t, est) ==
    /\ Acts(t)
    /\ Starts
    /\ ~Fits(est)
    /\ Emits \/ EmitRaises
    /\ UNCHANGED <<phase, holds, waiting, ledgerVars, runReport, outlived>>

\* The answer arrives: record_llm_usage adds to the ledger, then emits llm.response.
Respond(t, n) ==
    /\ t \in waiting
    /\ waiting' = waiting \ {t}
    /\ used' = used + n
    /\ \/ Emits /\ usageLogged' = usageLogged + n
       \/ EmitRaises /\ UNCHANGED usageLogged
    /\ UNCHANGED <<phase, holds, tools, toolsLogged, runReport, started, outlived>>

\* The call to the model raises: nothing is recorded.
CallFails(t) ==
    /\ t \in waiting
    /\ waiting' = waiting \ {t}
    /\ UNCHANGED <<phase, holds, ledgerVars, runReport, started, auditFaults, outlived>>

\* Faulty variant: the call is announced and not counted.
ToolCallUncounted(t) ==
    /\ Acts(t)
    /\ Starts
    /\ \/ Emits /\ toolsLogged' = toolsLogged + 1
       \/ EmitRaises /\ UNCHANGED toolsLogged
    /\ UNCHANGED <<phase, holds, waiting, used, tools, usageLogged, runReport, outlived>>

\* record_verb_invocation counts the call, then emits tool_call.invoked.  The verb
\* itself is in Dispatch.tla.
ToolCall(t) ==
    /\ Acts(t)
    /\ Starts
    /\ tools' = tools + 1
    /\ \/ Emits /\ toolsLogged' = toolsLogged + 1
       \/ EmitRaises /\ UNCHANGED toolsLogged
    /\ UNCHANGED <<phase, holds, waiting, used, usageLogged, runReport, outlived>>

RunsNext ==
    \/ StartRun
    \/ \E result \in {"completed", "failed"} : EndRun(result)
    \/ \E t \in RunTasks :
        \/ \E u \in RunTasks : Spawn(t, u)
        \/ \E est \in Estimates : Reserve(t, est) \/ ReserveRefused(t, est)
        \/ \E n \in Usages : Respond(t, n)
        \/ TaskEnds(t) \/ CallFails(t) \/ ToolCall(t)

RunsSpec == RunsInit /\ [][RunsNext]_runVars

-----------------------------------------------------------------------------
(* Properties. *)

\* Every variable has its type.
RunsTypeOK ==
    /\ phase \in Phases
    /\ holds \subseteq RunTasks
    /\ waiting \subseteq holds
    /\ {used, tools, usageLogged, toolsLogged, started} \subseteq Nat
    /\ runReport \in [used : Nat, tools : Nat, made : BOOLEAN]
    /\ auditFaults \in 0..MaxAuditFaults
    /\ outlived \in BOOLEAN

\* The budget is compared before a call and charged after it, so calls that wait at
\* the same time can exceed it together, by at most one answer per task: however
\* reservations and answers of the run's tasks interleave, what has been charged
\* and what the waiting calls may still charge stay within that distance.
BudgetOvershootBounded ==
    used + MostUsed * Cardinality(waiting)
        <= TokenLimit + MostUsed * Cardinality(RunTasks)

\* The ledger of a run is complete: the llm.response and tool_call.invoked events
\* add up to it unless an emit raised, and the figures in run_completed are final
\* unless a task that nobody awaited went on in the run's context.
LedgerComplete ==
    /\ usageLogged <= used
    /\ toolsLogged <= tools
    /\ auditFaults = 0 => usageLogged = used /\ toolsLogged = tools
    /\ runReport.made /\ ~outlived => runReport.used = used /\ runReport.tools = tools

=============================================================================
