CONSTANTS
  Accounts = {1, 2}
  Registrar = {1}
  Contacts = {c1}
  Shortcuts = {s1}
  Numbers = {n1, n2}
  EnableLocal = FALSE
  MaxBuddies = 3
  MaxQueue = 2
  NoBuddy = NoBuddy
SPECIFICATION FairSpec
INVARIANTS TypeOK WatchedAsShown PresenceCurrent
PROPERTIES ComesToWatch DelayedIsDialled
CHECK_DEADLOCK FALSE
