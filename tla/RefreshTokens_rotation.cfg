\* No crash and no overrun: three requests race for the lock of one token, and
\* the exchange implements the atomic rotation.
SPECIFICATION Spec
CONSTANTS
  Tokens = {t1, t2, t3, t4}
  Requests = {r1, r2, r3}
  NoToken = NoToken
  NoRequest = NoRequest
  TokenTTL = 6
  GraceWindow = 2
  LeaseTime = 3
  MaxCrashes = 0
  CanOverrun = FALSE
SYMMETRY Symmetry
PROPERTY ImplementsRotation
