CONSTANTS
  Users = {1, 2, 3}
  NoUser = NoUser
  Workers = {h1, h2}
  Handlers = {h1, h2}
  Reachable = {1, 2, 3}
  Faults = FALSE
  MaxChats = 1
  MaxMsgs = 2
  MaxRequests = 3
SPECIFICATION FairSpec
PROPERTIES MemberChangeIsTold
CHECK_DEADLOCK FALSE
