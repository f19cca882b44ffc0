CONSTANTS
  NCalls = 3
  NSlots = 1
  Numbers = {1}
  NoCall = NoCall
  SingleMode = FALSE
  AutoHangUp = TRUE
  Automatic = {}
  Redial = TRUE
  Media = {}
SPECIFICATION Spec
INVARIANTS PointersLive
PROPERTIES OwnershipKept
CHECK_DEADLOCK FALSE
