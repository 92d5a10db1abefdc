SPECIFICATION FairSpec
CONSTANTS
  job = job
  operator = operator
  again = again
  Repeats = {job, again}
  RepeatOf <- OnceEach
  Archives = {}
  MaxFaults = 1
  MaxOrders = 2
  MaxCrashes = 1
CHECK_DEADLOCK FALSE
INVARIANTS OneOrder OneCloser PositionsRecorded
PROPERTIES ClaimsEnd
