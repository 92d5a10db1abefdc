SPECIFICATION Spec
CONSTANTS
  r1 = r1
  c1 = c1
  c2 = c2
  i1 = i1
  i2 = i2
  Requests = {r1}
  Calls = {c1, c2}
  ReqOf <- OneRequest
  Instances = {i1, i2}
  InstOf <- TwoInstances
  Workers = {w1, w2}
  DirectLane = TRUE
  LocalBridge = FALSE
  MaxCrashes = 1
SYMMETRY Symmetry
CHECK_DEADLOCK FALSE
INVARIANTS AtMostOnce TruthfulAnswers TruthfulRows
PROPERTIES SentOnlyReserved ImplementsTradeOrder
