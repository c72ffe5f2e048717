CONSTANTS
  Turn = {t1, t2, t3}
  Server = {github}
  User = {alice}
  MaxButtons = 5
  None = None
SPECIFICATION Spec
INVARIANT
  RequestAnsweredOnce
