\* Two checkouts, one after the other or at once, events in any order and
\* repeated; the provider repeats events until they are handled.
SPECIFICATION FairSpec
CONSTANTS
  Subscriptions = {s1, s2}
  Customers = {c1, c2}
  None = None
  MaxEvents = 5
CHECK_DEADLOCK FALSE
INVARIANTS TypeOK InSync NothingStuck
PROPERTIES SettledDeletion PaidIsServed
