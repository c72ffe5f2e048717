SPECIFICATION FairSpec
CONSTANTS
  Writer = {w1, w2, w3}
  Name = {n1, n2}
  n1 = n1
  n2 = n2
  Content = {c1, c2}
  Sanitize <- MCSanitize
  None = None
INVARIANTS TypeOK VersionsAreDense RowsAreReadable
PROPERTIES IsVersionLog SaveEnds
CHECK_DEADLOCK FALSE
