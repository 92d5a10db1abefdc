SPECIFICATION FairSpec
CONSTANTS
  t1 = t1
  refresh1 = refresh1
  refresh2 = refresh2
  full = full
  Trades = {t1}
  Refreshes = {refresh1, refresh2}
  FullSyncs = {full}
  Nobody = Nobody
CHECK_DEADLOCK FALSE
INVARIANTS NoTradeHidden
PROPERTIES ResultsStay RowsCatchUp
