\* One publish, every outcome: what is sent, retried and reported; time stands
\* still.
CONSTANTS
  a1 = a1
  a2 = a2
  s1 = s1
  s2 = s2
  t1 = t1
  t2 = t2
  NoApp = NoApp
  Publishes = {p1}
  Apps = {a1, a2}
  EnvApp = a2
  Shops = {s1, s2}
  Targets = {t1, t2}
  Jobs <- EveryOutcome
  TTL = 1
  RequestTime = 0
  Attempts = 3
  Horizon = 0
SPECIFICATION FairSpec
INVARIANT ReportIsTrue
PROPERTIES PublishReturns KeepsPromise
