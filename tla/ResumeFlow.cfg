CONSTANTS
  Turn = {t1, t2}
  Server = {github}
  User = {alice, bob}
  MaxButtons = 5
  None = None
SPECIFICATION Spec
SYMMETRY MCSymmetry
INVARIANTS
  LinkIsBacked
  ResumedForAuthorizedOwner
PROPERTY DeletedStaysDeleted
