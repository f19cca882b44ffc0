CONSTANTS
  Calls = {1, 2}
  Recorders = {r1, r2}
  NoCall = NoCall
  NoRec = NoRec
  NoData = NoData
  AutoRecording = TRUE
  InviteMayFail = FALSE
SPECIFICATION Spec
INVARIANTS TypeOK RecorderInUse OneConference ConnectedToFile
PROPERTIES HeardUntilHeld ConnectedUntilLeft
CHECK_DEADLOCK FALSE
