\* Two requests race for a limit of one; plans change and accounts vanish
\* between a check and the insert.
SPECIFICATION Spec
CONSTANTS
  Ids = {s1, s2, s3}
  Users = {u1}
  Requests = {r1, r2}
  Anonymous = Anonymous
  Never = Never
  MaxLifetime = 1
  Free = Free
  Pro = Pro
  FreePlan = Free
  Plans <- MCPlans
  MaxPermanent <- MCMaxPermanent
  MaxExpirable <- MCMaxExpirable
  CanProtect <- MCCanProtect
SYMMETRY Symmetry
INVARIANTS TypeOK BoundedPermanent BoundedExpirable OnlyEntitled
PROPERTY StaysGone
