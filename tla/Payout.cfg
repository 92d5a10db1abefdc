SPECIFICATION Spec
CONSTANTS
  r1 = r1
  r2 = r2
  Sales = {1, 2}
  Value <- TwoAndOne
  Visited = {1}
  Refunded = {1}
  Requests = {r1, r2}
CHECK_DEADLOCK FALSE
INVARIANTS PaysWhatWasEarned ReversedIsNotPaid PaidMeansCovered
