\* The operator opts a promoted template out.
SPECIFICATION Spec
CONSTANTS
  r1 = r1 r2 = r2 o1 = o1 o2 = o2 t1 = t1
  Runs = {r1}
  Operators = {o1}
  Templates = {t1}
  Allowed = {}
  NumEmails = 1
  PageLimit = 1
  TemplateOf <- MCOneEmail
  Skip = Skip
  Unknown = Unknown
  Poison = {}
  Threshold = 1
  NoTemplate = NoTemplate
  MaxFailures = 0
  MaxMisses = 0
  MaxFeedback = 3
CHECK_DEADLOCK FALSE
INVARIANT AutoSendOptedIn
