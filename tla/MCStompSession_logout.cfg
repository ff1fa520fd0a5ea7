CONSTANTS
  plain = plain caret = caret leave = leave long = long empty = empty
  Topic = {plain}
  Credential <- PlainCredential
  Spelling <- Spelled
  Brief = {}
  MaxCommands = 2
  MaxBroadcasts = 0
  None = None
SPECIFICATION Spec
PROPERTY LogoutEnds
CHECK_DEADLOCK FALSE
