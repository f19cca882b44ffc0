CONSTANTS
  Calls = {c1, c2}
  Slots = {s1}
  Ports = {g1, g2}
  None = None
  MaxEvents = 3
SPECIFICATION Spec
INVARIANTS TypeOK PlayMuted
PROPERTIES MicBack QueueDrains LocalReleased
CHECK_DEADLOCK FALSE
