CONSTANT MaxAttempts = 3
SPECIFICATION ReplyFairSpec
INVARIANTS
  ReplyTypeOK
  ReplyStands
  WarningsAnnounceRetries
PROPERTY ReplyingEnds
CHECK_DEADLOCK FALSE
