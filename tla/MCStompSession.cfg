CONSTANTS
  plain = plain caret = caret leave = leave long = long empty = empty
  Topic = {plain, caret, long}
  Credential <- Credentials
  Spelling <- Spelled
  Brief = {plain}
  MaxCommands = 2
  MaxBroadcasts = 1
  None = None
SPECIFICATION Spec
INVARIANTS TypeOK ConnectedIsLoggedIn OnlyFirstHeard DistinctIds
PROPERTIES ClientEnds ConnectReturns ServerLetsGo
CHECK_DEADLOCK FALSE
