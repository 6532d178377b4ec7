\* One address whose registration may fail once; two mails, two requests.
SPECIFICATION Spec
CONSTANTS
  Emails = {a}
  Tokens = {t1, t2}
  NoToken = NoToken
  Requests = {r1, r2}
  Passwords = {p1, p2}
  NoPassword = NoPassword
  Lifetime = 2
  MaxRows = 2
SYMMETRY Symmetry
INVARIANTS TypeOK SingleUse MailedTokenWorks TokenForItsAccount VerifiedByMail
PROPERTY OwnChangesOnly
