CONSTANTS
  Calls = {0, 1, 2}
  NewCall = 2
  UI = UI
  Worker = Worker
  PJ = PJ
  Nobody = Nobody
  Broken = Broken
SPECIFICATION Spec
INVARIANT NoDeadlock
CHECK_DEADLOCK FALSE
