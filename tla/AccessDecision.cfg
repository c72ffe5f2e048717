CONSTANTS
  jira = jira
  JIRA = JIRA
  wiki = wiki
  Row = {jira, JIRA, wiki}
  KeyOf <- MCKeyOf
  Mentioned = {jira}
  Definition <- MCDefinition
  Deadline = 12
  InitialBackoff = 1
  BackoffMultiple = 2
  MaxRetries = 3
  MaxEdits = 2
  None = None
SPECIFICATION FairSpec
INVARIANTS
  TypeOK
  ConnectedIsNotMissing
  OffersWereNeeded
  LackedAccessIsOffered
PROPERTY TurnEnds
CHECK_DEADLOCK FALSE
