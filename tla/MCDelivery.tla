------------------------------ MODULE MCDelivery -----------------------------
(***************************************************************************)
(* The instances of Runs, Dispatch, Inbound, AuditLog, Migrations,          *)
(* Adapters, Cron and EventHooks that TLC checks.  As modelled they share   *)
(* no state, so one run explores them beside each other instead of their    *)
(* product: `focus` is chosen at the start, and only that component moves.  *)
(***************************************************************************)
EXTENDS Runs, Dispatch, Inbound, AuditLog, Migrations, Adapters, Cron, EventHooks, TLC

-----------------------------------------------------------------------------
(* Dispatch: two adapters, the second broken in different ways; bindings of *)
(* a whole capability and of one verb; a routine that declares all scopes,  *)
(* one whose second dependency on an integration hides the first, and one   *)
(* that declares none.                                                      *)

Directory(n, a, k, c) ==
    [dir |-> n, adapter |-> a, kind |-> k, claims |-> c,
     integration |-> IF k = "slack" THEN "slack" ELSE "google"]

GmailDir == Directory(1, "gmail", "gmail", {"email"})
SlackDir == Directory(2, "slack", "slack", {"messaging"})

MCSources ==
    {{GmailDir, SlackDir},
     {GmailDir, Directory(3, "gmail", "none", {"email"})},
     {GmailDir, SlackDir, Broken},
     {GmailDir, Directory(2, "slack", "none", {"messaging"})}}

MCBindingMaps ==
    {<<"email">> :> "gmail" @@ <<"messaging">> :> "slack",
     <<"email", "send_email">> :> "gmail",
     <<"email">> :> "slack" @@ <<"email", "send_email">> :> "gmail"
        @@ <<"messaging">> :> "nowhere"}

Dependency(i, scopes) ==
    [integration |-> i, scopes |-> scopes, level |-> "client_shared",
     kill |-> "revoke_routine_access"]

MCRoutines ==
    {[consumes |-> {"email"},
      dependencies |-> <<Dependency("google", {"email:send", "email:read"})>>],
     [consumes |-> {"email"},
      dependencies |-> <<Dependency("google", {"email:send"}),
                         Dependency("google", {"email:read"}),
                         Dependency("slack", {"messaging:send"})>>],
     [consumes |-> {"email", "messaging"}, dependencies |-> <<>>]}

Declaration(vocabulary) ==
    [supported |-> {"client_shared"}, default |-> "client_shared",
     revocation |-> [client_shared |-> {"revoke_routine_access"}],
     vocabulary |-> vocabulary, needed |-> {}]

MCRegistries ==
    {[google |-> Declaration({"email:send", "email:read"}),
      slack |-> Declaration({"messaging:send"})]}

MCCalled ==
    {<<"email", "send_email">>, <<"email", "list_mailbox">>, <<"email", "mark_read">>,
     <<"messaging", "send_message">>}

-----------------------------------------------------------------------------
(* AuditLog: timezones of half a month on either side of UTC. *)

MCOffsets == -1..1

-----------------------------------------------------------------------------
(* Migrations: two components' lists. *)

MCMigrationsOf == "gates" :> <<"m1", "m2">> @@ "automation" :> <<"m3">>

-----------------------------------------------------------------------------
(* Cron: hours of three minutes, days of two hours, weeks of three days, and *)
(* years of two months whose first is a day longer every second year.        *)

MonthLengths(year) == IF year % 2 = 0 THEN <<3, 2>> ELSE <<2, 2>>

MCDays ==
    FlattenSeq([y \in 1..10 |->
        FlattenSeq([k \in 1..2 |->
            [d \in 1..MonthLengths(y)[k] |-> [month |-> k, day |-> d]]])])

Between(lo, hi, step) == {[base |-> "range", lo |-> lo, hi |-> hi, step |-> step]}
Exactly(v) == Between(v, v, 1)
Every(step) == {[base |-> "all", lo |-> 0, hi |-> 0, step |-> step]}
Whole == Every(1)

Fields(minute, hour, day, month, weekday) ==
    [minute |-> minute, hour |-> hour, day |-> day, month |-> month, weekday |-> weekday]

\* Among them: the leap day, the leap day on one weekday (which the sweep can miss),
\* a list, a step without effect, and three that are refused.
MCExpressions ==
    {Fields(Whole, Whole, Whole, Whole, Whole),
     Fields(Exactly(0), Exactly(1), Whole, Whole, Whole),
     Fields(Every(2), Between(0, 1, 1), Exactly(3), Whole, Whole),
     Fields(Exactly(2), Exactly(0), Exactly(3), Exactly(1), Whole),
     Fields(Exactly(2), Exactly(0), Exactly(3), Exactly(1), Exactly(0)),
     Fields(Between(1, 2, 2) \cup Exactly(2), Whole, Whole, Exactly(2), Exactly(1)),
     Fields(Between(2, 1, 1), Whole, Whole, Whole, Whole),
     Fields(Whole, Exactly(2), Whole, Whole, Whole),
     Fields(Every(0), Whole, Whole, Whole, Whole)}

-----------------------------------------------------------------------------
(* EventHooks: a hook with a debounce and one without. *)

MCIdOf == "h1" :> "i1" @@ "h2" :> "i2"
MCDebounce == "h1" :> 2 @@ "h2" :> 0

-----------------------------------------------------------------------------

VARIABLE focus

Foci == {"runs", "dispatch", "inbound", "audit", "migrations", "adapters", "cron", "hooks"}

deliveryVars ==
    <<focus, runVars, dispatchVars, inboundVars, auditLogVars, migrationVars, registryVars,
      cronVars, hookVars>>

\* The components that do not move stay in one initial state.
Pinned(set, value) == value = CHOOSE x \in set : TRUE

DeliveryInit ==
    /\ focus \in Foci
    /\ RunsInit
    /\ DispatchInit
    /\ focus = "dispatch" \/ (/\ Pinned(Sources, source) /\ Pinned(BindingMaps, bindings)
                              /\ Pinned(Routines, routine))
    /\ InboundInit
    /\ AuditLogInit
    /\ MigrationsInit
    /\ \A p \in Processes : Pinned(Components, component[p])
    /\ AdaptersInit
    /\ CronInit
    /\ focus = "cron" \/ Pinned(Expressions, expression)
    /\ EventHooksInit

DeliveryNext ==
    \/ /\ focus = "runs" /\ RunsNext
       /\ UNCHANGED <<focus, dispatchVars, inboundVars, auditLogVars, migrationVars,
                      registryVars, cronVars, hookVars>>
    \/ /\ focus = "dispatch" /\ DispatchNext
       /\ UNCHANGED <<focus, runVars, inboundVars, auditLogVars, migrationVars,
                      registryVars, cronVars, hookVars>>
    \/ /\ focus = "inbound" /\ InboundNext
       /\ UNCHANGED <<focus, runVars, dispatchVars, auditLogVars, migrationVars,
                      registryVars, cronVars, hookVars>>
    \/ /\ focus = "audit" /\ AuditLogNext
       /\ UNCHANGED <<focus, runVars, dispatchVars, inboundVars, migrationVars,
                      registryVars, cronVars, hookVars>>
    \/ /\ focus = "migrations" /\ MigrationsNext
       /\ UNCHANGED <<focus, runVars, dispatchVars, inboundVars, auditLogVars,
                      registryVars, cronVars, hookVars>>
    \/ /\ focus = "adapters" /\ AdaptersNext
       /\ UNCHANGED <<focus, runVars, dispatchVars, inboundVars, auditLogVars,
                      migrationVars, cronVars, hookVars>>
    \/ /\ focus = "cron" /\ CronNext
       /\ UNCHANGED <<focus, runVars, dispatchVars, inboundVars, auditLogVars,
                      migrationVars, registryVars, hookVars>>
    \/ /\ focus = "hooks" /\ EventHooksNext
       /\ UNCHANGED <<focus, runVars, dispatchVars, inboundVars, auditLogVars,
                      migrationVars, registryVars, cronVars>>

DeliverySpec == DeliveryInit /\ [][DeliveryNext]_deliveryVars

\* Every variable of the components has its type.
DeliveryTypeOK ==
    /\ RunsTypeOK /\ DispatchTypeOK /\ InboundTypeOK /\ AuditLogTypeOK
    /\ MigrationsTypeOK /\ AdaptersTypeOK /\ CronTypeOK /\ EventHooksTypeOK
=============================================================================
