CONSTANTS
  Accounts <- MCAccounts
  Shared = Shared
  Entries <- MCEntries
  Content <- MCContent
  MaxRequests = 2
  MaxReconnect = 2
  MaxChanges = 3
SPECIFICATION Spec
INVARIANTS TypeOK Polling
PROPERTY Heals
CHECK_DEADLOCK FALSE
