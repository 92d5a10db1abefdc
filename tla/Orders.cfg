SPECIFICATION OrdersFairSpec
CONSTANTS
  a1 = a1
  a2 = a2
  a3 = a3
  b1 = b1
  ka = ka
  kb = kb
  Tasks = {a1, a2, a3, b1}
  Keys = {ka, kb}
  KeyOf <- Keyed
  NoTask = NoTask
  MaxConcurrent = 1
  Followed = a2
  MaxRepeats <- OneRepeat
  HasFallback = TRUE
  Unclear = FALSE
CHECK_DEADLOCK FALSE
INVARIANTS InOrder SlotsExact
PROPERTIES IdleMeansDone EveryTaskEnds ImplementsTradeOrder
