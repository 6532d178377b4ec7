\* Two concurrent requests, one crash, leases that may run out: an exchange
\* that is overtaken twice needs four tokens.
SPECIFICATION Spec
CONSTANTS
  Tokens = {t1, t2, t3, t4}
  Requests = {r1, r2}
  NoToken = NoToken
  NoRequest = NoRequest
  TokenTTL = 6
  GraceWindow = 2
  LeaseTime = 3
  MaxCrashes = 1
  CanOverrun = TRUE
SYMMETRY Symmetry
INVARIANTS TypeOK IInv SingleUse GraceChain NoCircle
PROPERTY RejectOnlyDead
