CONSTANTS
  s1 = s1
  s2 = s2
  w1 = w1
  u1 = u1
  u2 = u2
  Users = {u1, u2}
  NoUser = NoUser
  Workers = {s1, s2, w1}
  Sessions = {s1, s2}
  UserOf <- MCUserOf
  Reachable = {u1, u2}
  Faults = FALSE
  MaxChats = 1
  MaxMsgs = 2
  MaxFrames = 2
  Reader = u2
  PageSize = 1
SPECIFICATION HistSpec
INVARIANTS HistoryComplete MoreIsThere NothingMissed
