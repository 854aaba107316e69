\* One operator, one routine and one sweep race over two gates, with a crash.
SPECIFICATION Spec
CONSTANTS
  o1 = o1 o2 = o2 p1 = p1 s1 = s1 k1 = k1
  Operators = {o1}
  Proposers = {p1}
  Sweepers = {s1}
  Actions = {"reject", "edit_and_approve"}
  Scopes = {"drafts", "sends"}
  Keys = {k1}
  NoKey = NoKey
  Never = Never
  NoThread = NoThread
  NoProposal = NoProposal
  Requests <- MCRequests
  MaxGates = 2
  MaxTime = 1
  MaxCrashes = 1
CHECK_DEADLOCK FALSE
INVARIANTS TypeOK DecisionsWarranted
PROPERTIES ImplementsBook SettledIsFinal DueGateLeavesPending
