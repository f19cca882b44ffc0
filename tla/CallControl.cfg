CONSTANTS
  NCalls = 2
  NSlots = 2
  Numbers = {1, 2}
  NoCall = NoCall
  SingleMode = FALSE
  AutoHangUp = FALSE
  Automatic = {"forward"}
  Redial = FALSE
  Media = {}
SPECIFICATION Spec
INVARIANTS TypeOK TabsCurrent DialogsCurrent RingtoneStops CallsReachable
PROPERTIES TabKept
CHECK_DEADLOCK FALSE
