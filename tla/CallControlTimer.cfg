CONSTANTS
  NCalls = 1
  NSlots = 1
  Numbers = {1}
  NoCall = NoCall
  SingleMode = FALSE
  AutoHangUp = TRUE
  Automatic = {}
  Redial = FALSE
  Media = {}
SPECIFICATION Spec
INVARIANTS TimerCancelled
CHECK_DEADLOCK FALSE
