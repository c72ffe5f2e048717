CONSTANTS
  Server = {github}
  Config = {c1}
  Request = {r1, r2, r3, r4}
  User = {alice, bob}
  None = None
SPECIFICATION Spec
SYMMETRY MCSymmetry
INVARIANTS
  TypeOK
  OneServicePerName
  RedeemedAtMostOnce
  FreshStateIsRedeemable
  ResumedHasToken
PROPERTIES GetOrCreate OneShot
