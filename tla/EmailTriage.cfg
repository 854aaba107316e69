\* Two overlapping ticks and an operator, over a page whose second email ends every tick.
SPECIFICATION Spec
CONSTANTS
  r1 = r1 r2 = r2 o1 = o1 o2 = o2 t1 = t1
  Runs = {r1, r2}
  Operators = {o1}
  Templates = {t1}
  Allowed = {t1}
  NumEmails = 3
  PageLimit = 3
  TemplateOf <- MCTemplateOf
  Skip = Skip
  Unknown = Unknown
  Poison = {2}
  Threshold = 2
  NoTemplate = NoTemplate
  MaxFailures = 1
  MaxMisses = 1
  MaxFeedback = 3
CHECK_DEADLOCK FALSE
INVARIANTS TypeOK RepliesBounded RepliesLogged ProcessedExplained PromotionEarned
PROPERTIES PageHandled
