CONSTANTS
  m1 = m1
  m2 = m2
  m3 = m3
  Message = {m1, m2}
  Mention = {m1}
  Slash = {}
  ThreadOf <- MCThreadOf
  TTL = 2
  MaxRun = 1
  MaxCopies = 2
  MaxTime = 3
  MaxCrashes = 1
  KnownAtStart = FALSE
  None = None
SPECIFICATION Spec
INVARIANTS
  AnsweredOncePerProcess
  AtMostOneLostPerCrash
CHECK_DEADLOCK FALSE
