CONSTANTS
  Messages <- Sample
  Unknown <- Foreign
  Room <- Sizes
  MaxMessages = 2
SPECIFICATION Spec
INVARIANTS TypeOK DecodesStream SentWhole ThrowsOnlyOn
PROPERTY Arrives
CHECK_DEADLOCK FALSE
