SPECIFICATION Spec
CONSTANTS
  Tokens = {t1, t2, t3, t4}
  Families = {f1, f2}
  Requests = {r1, r2}
  NoToken = NoToken
  NoFamily = NoFamily
  MayFail = TRUE
SYMMETRY Symmetry
INVARIANTS
  SingleUse
PROPERTIES
  RevokedNeverRotates
  ImplementsContract
