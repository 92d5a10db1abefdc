SPECIFICATION FairSpec
CONSTANTS
  r1 = r1
  c1 = c1
  c2 = c2
  i1 = i1
  i2 = i2
  Requests = {r1}
  Calls = {c1, c2}
  ReqOf <- OneRequest
  Instances = {i1, i2}
  InstOf <- OneInstance
  Workers = {w1}
  DirectLane = TRUE
  LocalBridge = TRUE
  MaxCrashes = 0
CHECK_DEADLOCK FALSE
PROPERTIES EveryCallAnswered EveryRowCloses
