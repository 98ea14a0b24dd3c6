SPECIFICATION FairSpec
CONSTANTS
  t1 = t1
  t2 = t2
  r1 = r1
  r2 = r2
  r3 = r3
  None = None
  Tabs = {t1, t2}
  Requests = {r1, r2, r3}
  TabOf <- MCTabOf
  Probes = {r2}
  Mishaps = {"lost", "close", "ends", "logout"}
  MaxCalls = 3
  MaxCauses = 1
INVARIANT CookiesKept OneRefreshAtATime
PROPERTY RetryCarriesNewPair RequestsSettle
CHECK_DEADLOCK FALSE
