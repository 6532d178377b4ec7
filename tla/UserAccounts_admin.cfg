\* Two transactions, each about another administrator.
SPECIFICATION Spec
CONSTANTS
  Emails = {a, b, n}
  Requests = {r1, r2}
  Roles = {ADMIN, USER}
  AdminRole = ADMIN
  UserRole = USER
  InitialAdmins = {a, b}
  SeedEmail = a
  Payers = {a, b, n}
  Operations <- AllOperations
SYMMETRY Symmetry
INVARIANT AlwaysAdministrable
