SPECIFICATION FairPictureSpec
CONSTANTS
  setStop = setStop
  setTake = setTake
  dropStop = dropStop
  dropTake = dropTake
  Commands = {setStop, setTake, dropStop, dropTake}
  Level <- LevelOf
  Wants <- ValueOf
  LateOrders = FALSE
CHECK_DEADLOCK FALSE
INVARIANTS LevelsKept
PROPERTIES PanelCatchesUp
