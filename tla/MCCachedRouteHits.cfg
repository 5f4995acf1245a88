SPECIFICATION MCSpec
CONSTANTS
  StoreKeys = {k1}
  Workers = {w1, w2}
  Requests <- MCOrigins
  Answers <- MCShared
  Responses <- MCShared
  Keys <- MCOriginKeys
  AllowedOrigins = {"o1", "o2"}
  Tags = {"a"}
  Vary = {"accept"}
  DefaultTtl = 1
  SWR = 1
  MaxEntries = 2
  MaxBody = 2
  MaxTotal = 2
  MaxAge = 4
  Flight = 1
INVARIANT EgressRunsOnHits
