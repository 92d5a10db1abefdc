SPECIFICATION FairSpec
CONSTANTS
  Processes <- OneWorker
  Streams <- TwoStreams
  ProcessOf <- ByOneWorker
  Drained = TRUE
  Broken = FALSE
  Torn = FALSE
  Lot = 4
  Size = 4
  MaxFaults = 1
CHECK_DEADLOCK FALSE
INVARIANTS OneCopy RetryIsSafe TruthfulLink
PROPERTIES NeverClosedEarly CopiesAreClosed
