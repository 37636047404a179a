CONSTANTS
  s1 = s1
  s2 = s2
  u1 = u1
  u2 = u2
  Users = {u1, u2}
  NoUser = NoUser
  Sessions = {s1, s2}
  Contacts <- MCContacts
  Scanner = Scanner
  Interval = 2
  Delta = 1
  ScanInterval = 3
SPECIFICATION FairSpec
INVARIANTS TypeInv
PROPERTIES ConnectedNotListed AnnouncedAfterGap ConnectedIsOnline GoneIsForgotten GoneIsTold ChangeIsTold
