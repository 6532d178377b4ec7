\* An administrator and a free address; two requests.
SPECIFICATION FairSessionsSpec
CONSTANTS
  Emails = {a, b}
  Requests = {r1, r2}
  Roles = {ADMIN, USER}
  AdminRole = ADMIN
  UserRole = USER
  InitialAdmins = {a}
  SeedEmail = a
  Payers = {}
  Operations <- EndpointOperations
  AccessLife = 1
  RefreshLife = 1
  RolesChanged = {ADMIN}
  MaxSessions = 1
  MaxRow = 2
INVARIANTS SessionsTypeOK EntitledActors TokensKeepTheirAccount
PROPERTIES DeletedGainsNothing DeletedLosesAccess
