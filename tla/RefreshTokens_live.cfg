\* Every request is answered, also when leases run out under their holder.
SPECIFICATION FairSpec
CONSTANTS
  Tokens = {t1, t2, t3}
  Requests = {r1, r2}
  NoToken = NoToken
  NoRequest = NoRequest
  TokenTTL = 3
  GraceWindow = 1
  LeaseTime = 1
  MaxCrashes = 1
  CanOverrun = TRUE
PROPERTY RequestTerminates
