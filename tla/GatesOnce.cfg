\* Two operators decide the same gate.
SPECIFICATION Spec
CONSTANTS
  o1 = o1 o2 = o2 p1 = p1 s1 = s1 k1 = k1
  Operators = {o1, o2}
  Proposers = {p1}
  Sweepers = {}
  Actions = {"reject", "edit_and_approve"}
  Scopes = {"drafts", "sends"}
  Keys = {k1}
  NoKey = NoKey
  Never = Never
  NoThread = NoThread
  NoProposal = NoProposal
  Requests <- MCRequests
  MaxGates = 1
  MaxTime = 0
  MaxCrashes = 0
CHECK_DEADLOCK FALSE
INVARIANT DecidedOnce
