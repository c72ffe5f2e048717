SPECIFICATION FairSpec
CONSTANTS
  Turn = {t1, t2}
  MaxBlocks = 1
  MaxNamed = 2
  TTL = 2
  None = None
INVARIANTS TypeOK ShownOnce FreshUntilShown
PROPERTIES EntriesGo
CHECK_DEADLOCK FALSE
