SPECIFICATION FairSpec
CONSTANTS
  p1 = p1
  p2 = p2
  Ids = {p1, p2}
  Changed = {p1}
  Glitches = {"websocket"}
  MaxGlitches = 1
  MaxFailures = 1
  MaxTroubles = 1
CHECK_DEADLOCK FALSE
INVARIANTS CloseIsReal CloseIsLast
PROPERTIES ClosesAreCopied
