---------------------------- MODULE DeliveryProofs ---------------------------
(***************************************************************************)
(* What is proved of the components holds of the runs of MCDelivery, in     *)
(* which one of them moves and the others stay.                             *)
(***************************************************************************)
EXTENDS MCDelivery, RunsProofs, StorageProofs, TriggersProofs

\* A step of MCDelivery is, for each component, one of its own or none.
LEMMA DeliverySteps ==
    [DeliveryNext]_deliveryVars =>
        /\ [RunsNext]_runVars /\ [DispatchNext]_dispatchVars /\ [InboundNext]_inboundVars
        /\ [AuditLogNext]_auditLogVars /\ [MigrationsNext]_migrationVars
        /\ [AdaptersNext]_registryVars /\ [CronNext]_cronVars /\ [EventHooksNext]_hookVars
BY DEF DeliveryNext, deliveryVars

\* A run of MCDelivery is a run of each component: what TLC explores are runs of
\* which the theorems speak.
THEOREM DeliveryIsRuns ==
    DeliverySpec => /\ RunsSpec /\ DispatchSpec /\ InboundSpec /\ AuditLogSpec
                    /\ MigrationsSpec /\ AdaptersSpec /\ CronSpec /\ EventHooksSpec
<1>1. DeliveryInit =>
        /\ RunsInit /\ DispatchInit /\ InboundInit /\ AuditLogInit /\ MigrationsInit
        /\ AdaptersInit /\ CronInit /\ EventHooksInit
  BY DEF DeliveryInit
<1> QED BY <1>1, DeliverySteps, PTL
        DEF DeliverySpec, RunsSpec, DispatchSpec, InboundSpec, AuditLogSpec, MigrationsSpec,
            AdaptersSpec, CronSpec, EventHooksSpec

\* Every variable of the eight components keeps its type in such a run.
THEOREM DeliveryTypes == DeliverySpec => []DeliveryTypeOK
<1>1. RunsTypeOK /\ DispatchTypeOK /\ InboundTypeOK /\ AuditLogTypeOK
        /\ MigrationsTypeOK /\ AdaptersTypeOK /\ CronTypeOK /\ EventHooksTypeOK
            => DeliveryTypeOK
  BY DEF DeliveryTypeOK
<1> QED BY <1>1, DeliveryIsRuns, RunsTypes, DispatchTypes, InboundTypes, AuditLogTypes,
           MigrationsTypes, AdaptersTypes, CronTypes, EventHooksTypes, PTL

\* So do the invariants of the eight: spending, grants, inbound events, the audit file,
\* migrations, adapters, cron answers and debounces are right at once, whichever moves,
\* and the migrations implement their history.
THEOREM DeliverySafety ==
    DeliverySpec =>
        /\ [](BudgetOvershootBounded /\ LedgerComplete)
        /\ [](ActsWithinGrant /\ RefusalsHaveNoEffect /\ ValidatedResolves)
        /\ [](InboundAccounted /\ LoopsOwned)
        /\ [](AckedIsRead /\ MigratedOnce)
        /\ [](AdapterFresh /\ NextFireRight /\ DebounceHolds)
        /\ ImplementsHistory
<1>1. DeliverySpec => [](BudgetOvershootBounded /\ LedgerComplete)
  BY DeliveryIsRuns, OvershootIsBounded, LedgerIsComplete, PTL
<1>2. DeliverySpec => [](ActsWithinGrant /\ RefusalsHaveNoEffect /\ ValidatedResolves)
  BY DeliveryIsRuns, GrantsAreKept, RefusalsAreInert, AcceptedBindingsResolve, PTL
<1>3. DeliverySpec => [](InboundAccounted /\ LoopsOwned)
  BY DeliveryIsRuns, EventsAreAccounted, RunningLoopsAreOwned, PTL
<1>4. DeliverySpec => [](AckedIsRead /\ MigratedOnce)
  BY DeliveryIsRuns, AckedEventsAreRead, MigrationsRunOnce, PTL
<1>5. DeliverySpec => [](AdapterFresh /\ NextFireRight /\ DebounceHolds)
  BY DeliveryIsRuns, CacheIsFresh, NextFireIsRight, DebounceIsKept, PTL
<1>6. DeliverySpec => ImplementsHistory
  BY DeliveryIsRuns, ProcessesImplementHistory, PTL
<1> QED BY <1>1, <1>2, <1>3, <1>4, <1>5, <1>6, PTL

=============================================================================
