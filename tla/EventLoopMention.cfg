CONSTANTS
  m1 = m1
  m2 = m2
  m3 = m3
  Message = {m1}
  Mention = {m1}
  Slash = {}
  ThreadOf <- MCThreadOf
  TTL = 2
  MaxRun = 1
  MaxCopies = 1
  MaxTime = 3
  MaxCrashes = 0
  KnownAtStart = FALSE
  None = None
SPECIFICATION Spec
INVARIANT MentionsAreNotIgnored
CHECK_DEADLOCK FALSE
