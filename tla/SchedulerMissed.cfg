\* One job is registered again by the process that comes back after a crash.
SPECIFICATION MCSpec
CONSTANTS
  j1 = j1 j2 = j2 l1 = l1 l2 = l2 c1 = c1 c2 = c2
  Jobs = {j1}
  Expressions = {1}
  NextAfter <- MCNextAfter
  Loops = {l1}
  Callers = {c1}
  None = None
  Never = Never
  MaxTime = 1
  MaxFaults = 0
  MaxCalls = 2
  MaxCrashes = 1
CHECK_DEADLOCK FALSE
PROPERTY MissedRunIsFired
