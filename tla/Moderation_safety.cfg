\* Two moderators, two complaints, and a request that makes shortcuts.
SPECIFICATION ModerationSpec
CONSTANTS
  Ids = {s1, s2}
  Users = {u1}
  Requests = {r1}
  Anonymous = Anonymous
  Never = Never
  MaxLifetime = 1
  Free = Free
  FreePlan = Free
  Plans = {Free}
  MaxPermanent <- MCMaxOne
  MaxExpirable <- MCMaxOne
  CanProtect <- MCCanProtect
  c1 = c1
  c2 = c2
  Complaints = {c1, c2}
  Reporters = {p1}
  Moderators = {m1, m2}
  Filters <- MCFilters
  Refused = Refused
SYMMETRY Symmetry
INVARIANTS ModerationTypeOK AcknowledgedOnce ListsWhatIsMeant
PROPERTY OpenUntilJudged
