\* An approval that read the row before an edit is written after it.
SPECIFICATION Spec
CONSTANTS
  r1 = r1 r2 = r2 o1 = o1 o2 = o2 t1 = t1
  Runs = {r1}
  Operators = {o1, o2}
  Templates = {t1}
  Allowed = {}
  NumEmails = 1
  PageLimit = 1
  TemplateOf <- MCOneEmail
  Skip = Skip
  Unknown = Unknown
  Poison = {}
  Threshold = 2
  NoTemplate = NoTemplate
  MaxFailures = 0
  MaxMisses = 0
  MaxFeedback = 4
CHECK_DEADLOCK FALSE
INVARIANT EditDemotes
