CONSTANTS
  Calls = {1, 2, 3}
  Recorders = {r1}
  NoCall = NoCall
  NoRec = NoRec
  NoData = NoData
  AutoRecording = FALSE
  InviteMayFail = TRUE
SPECIFICATION Spec
INVARIANT OneConference
CHECK_DEADLOCK FALSE
