\* Two threads and two keys on the credentials file; two tasks and two keys at the
\* token endpoint; two requests at the rate limit.
SPECIFICATION ServicesSpec
CONSTANTS
  Focuses = {"secrets", "tokens", "http"}
  v1 = v1 v2 = v2 s1 = s1
  Threads = {t1, t2}
  Keys = {sh, r1}
  Shared = sh
  Values = {v1, v2}
  Scopes = {s1}
  Granted <- MCGranted
  None = None
  NoFile = NoFile
  Partial = Partial
  MaxCalls = 3
  Tasks = {a1, a2}
  TokenKeys = {sh, r1}
  SharedKey = sh
  MaxTokens = 2
  Absent = Absent
  Requests = {q1, q2}
  MaxRetries = 1
  SecPeriod = 1
  SecBurst = 1
  MinPeriod = 2
  MinBurst = 2
  MaxWindow = 4
CHECK_DEADLOCK FALSE
INVARIANTS ServicesTypeOK AckedSurvives StrandedOnlyByLoss RateRespected 
PROPERTIES ImplementsMap RefreshTokenKept QueuedIsSent
