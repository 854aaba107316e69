\* One instance of each component of MCDelivery.
SPECIFICATION DeliverySpec
CONSTANTS
  RunTasks = {t1, t2, t3}
  MainTask = t1
  TokenLimit = 2
  Estimates = {0, 2}
  Usages = {1, 2}
  MostUsed = 2
  MaxLlmCalls = 5
  MaxAuditFaults = 1
  Sources <- MCSources
  BindingMaps <- MCBindingMaps
  Routines <- MCRoutines
  Registries <- MCRegistries
  Called <- MCCalled
  Broken = Broken
  NoAdapter = NoAdapter
  MaxVerbCalls = 2
  MaxEmitFaults = 1
  LoopTasks = {l1, l2}
  Stoppers = {s1}
  NoTask = NoTask
  NoCursor = NoCursor
  PageSize = 1
  MaxMail = 2
  MaxSocket = 1
  MaxRaises = 1
  Emitters = {e1, e2}
  MonthLen = 2
  NoEvent = NoEvent
  NoMonth = NoMonth
  Offsets <- MCOffsets
  MaxMoment = 3
  MaxEvents = 3
  MaxWriteFaults = 2
  MaxRestarts = 1
  Processes = {p1, p2}
  Components = {"gates", "automation"}
  MigrationsOf <- MCMigrationsOf
  Nobody = Nobody
  NoMigration = NoMigration
  MaxApplies = 4
  MaxDbFaults = 2
  Loaders = {d1, d2}
  NoImpl = NoImpl
  MaxFactories = 2
  MaxInstances = 4
  HourLen = 3
  DayLen = 2
  WeekLen = 3
  LongestMonth = 3
  MonthCount = 2
  Days <- MCDays
  SweepMinutes = 60
  Expressions <- MCExpressions
  MaxInstant = 160
  MaxPause = 3
  NoAnswer = NoAnswer
  HookIds = {"i1", "i2"}
  Hooks = {"h1", "h2"}
  IdOf <- MCIdOf
  Debounce <- MCDebounce
  Events = {n1, n2}
  NoHook = NoHook
  NoFiring = NoFiring
  MaxClock = 2
  MaxHookFaults = 1
CHECK_DEADLOCK FALSE
INVARIANTS DeliveryTypeOK BudgetOvershootBounded LedgerComplete ActsWithinGrant RefusalsHaveNoEffect ValidatedResolves InboundAccounted LoopsOwned AckedIsRead MigratedOnce AdapterFresh NextFireRight DebounceHolds
PROPERTIES ImplementsHistory
