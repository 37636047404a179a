CONSTANTS
  s1 = s1
  s2 = s2
  w1 = w1
  u1 = u1
  u2 = u2
  u3 = u3
  Users = {u1, u2, u3}
  NoUser = NoUser
  Workers = {s1, w1}
  Sessions = {s1}
  UserOf <- MCUserOf
  Reachable = {u1, u2, u3}
  Faults = FALSE
  MaxChats = 1
  MaxMsgs = 2
  MaxFrames = 2
SPECIFICATION FairSpec
PROPERTIES SentIsDelivered
