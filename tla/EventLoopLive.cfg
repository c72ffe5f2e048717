CONSTANTS
  m1 = m1
  m2 = m2
  m3 = m3
  Message = {m1, m3}
  Mention = {m1}
  Slash = {m3}
  ThreadOf <- MCThreadOf
  TTL = 1
  MaxRun = 2
  MaxCopies = 1
  MaxTime = 3
  MaxCrashes = 1
  KnownAtStart = FALSE
  None = None
SPECIFICATION FairSpec
PROPERTY PromptsAreAnswered
CHECK_DEADLOCK FALSE
