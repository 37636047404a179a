CONSTANTS
  s1 = s1
  s2 = s2
  u1 = u1
  Users = {u1}
  Sessions = {s1, s2}
  NoSession = NoSession
  UserOf <- MCUserOf
  MaxEvents = 2
SPECIFICATION FairSpec
INVARIANTS TypeInv NothingLeft NoGap
PROPERTIES AcceptedIsServed LoopsEndTogether EventArrives
CHECK_DEADLOCK FALSE
