\* The clean-up job runs for ever on one anonymous shortcut.
SPECIFICATION FairSpec
CONSTANTS
  Ids = {s1}
  Users = {u1}
  Requests = {r1}
  Anonymous = Anonymous
  Never = Never
  MaxLifetime = 1
  Free = Free
  Pro = Pro
  FreePlan = Free
  Plans <- MCPlans
  MaxPermanent <- MCMaxPermanent
  MaxExpirable <- MCMaxExpirable
  CanProtect <- MCCanProtect
PROPERTY AnonymousDeleted
