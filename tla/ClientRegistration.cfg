CONSTANTS
  Server = {atlassian}
  Typed = {manual}
  View = {v1, v2}
  Start = {r1, r2, r3}
  None = None
  Torn = Torn
SPECIFICATION Spec
SYMMETRY MCSymmetry
INVARIANTS
  TypeOK
  StaticHasClient
  CredentialsAreWhole
  RegistrationReused
PROPERTY RemovedStaysRemoved
