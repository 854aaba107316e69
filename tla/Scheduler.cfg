\* Two jobs, two callers that trigger and stop, a fault and a restart; or one job and
\* two calls more, so that it is registered again while runs of it are out.
SPECIFICATION MCSpec
CONSTANTS
  j1 = j1 j2 = j2 l1 = l1 l2 = l2 c1 = c1 c2 = c2
  Jobs = {j1, j2}
  Expressions = {1, 2}
  NextAfter <- MCNextAfter
  Loops = {l1, l2}
  Callers = {c1, c2}
  None = None
  Never = Never
  MaxTime = 2
  MaxFaults = 1
  MaxCalls = 4
  MaxCrashes = 1
CHECK_DEADLOCK FALSE
INVARIANTS TypeOK RowAhead
PROPERTIES LoopLostOnlyToLateStop DueJobRuns NextForward RowsComeFromRegister
