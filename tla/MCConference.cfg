CONSTANTS
  Calls = {1, 2, 3}
  Recorders = {r1, r2}
  NoCall = NoCall
  NoRec = NoRec
  NoData = NoData
  AutoRecording = FALSE
  InviteMayFail = FALSE
SPECIFICATION Spec
PROPERTIES HeardUntilHeld FilesCompleted ConnectedUntilLeft
CONSTRAINT ThreeCalls
SYMMETRY RecorderSymmetry
CHECK_DEADLOCK FALSE
