CONSTANTS
  NCalls = 2
  NSlots = 2
  Numbers = {1}
  NoCall = NoCall
  SingleMode = TRUE
  AutoHangUp = FALSE
  Automatic = {"answer", "forward"}
  Redial = FALSE
  Media = {1}
SPECIFICATION FairSpec
INVARIANTS PointersLive
PROPERTIES EndIsShown DataReleased
CHECK_DEADLOCK FALSE
