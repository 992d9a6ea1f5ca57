\* Three publishes for two apps share the token cache; no retries.
CONSTANTS
  a1 = a1
  a2 = a2
  s1 = s1
  s2 = s2
  t1 = t1
  t2 = t2
  NoApp = NoApp
  Publishes = {p1, p2, p3}
  Apps = {a1, a2}
  EnvApp = a2
  Shops = {s1, s2}
  Targets = {t1, t2}
  Jobs <- OneCard
  TTL = 2
  RequestTime = 1
  Attempts = 1
  Horizon = 3
SPECIFICATION Spec
SYMMETRY PublishSymmetry
INVARIANTS TokensAreOwn CacheNeverFlatters
PROPERTY TokensVouched
