\* One administrator and one free address; two transactions.
SPECIFICATION Spec
CONSTANTS
  Emails = {a, b}
  Requests = {r1, r2}
  Roles = {ADMIN, USER}
  AdminRole = ADMIN
  UserRole = USER
  InitialAdmins = {a}
  SeedEmail = a
  Payers = {a}
  Operations <- AllButUnlock
SYMMETRY Symmetry
INVARIANTS TypeOK AdminRemains DeletedUnsubscribed
PROPERTIES NoLostUpdate DeletedForGood ImplementsService
