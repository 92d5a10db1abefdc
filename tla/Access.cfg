SPECIFICATION FairAccessSpec
CONSTANTS
  Months = 1
  MaxRows = 2
  MaxFaults = 1
CHECK_DEADLOCK FALSE
INVARIANTS PaidIsActive
PROPERTIES PaymentArrives
