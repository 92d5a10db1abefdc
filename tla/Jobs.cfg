SPECIFICATION FairSpec
CONSTANTS
  live = live
  sync = sync
  r1 = r1
  r2 = r2
  Jobs = {live, sync}
  Live = {live}
  Runners = {r1, r2}
  NameOf <- OwnNames
  Nobody = Nobody
  MaxAttempts = 2
  Limit = 2
  Prompt = TRUE
  MaxRequeues <- LiveOnce
  MaxCrashes = 1
CHECK_DEADLOCK FALSE
INVARIANTS OneAtATime LastClaimDecides
PROPERTIES NoBlindRetry EveryJobEnds
