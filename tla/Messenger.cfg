CONSTANTS
  s1 = s1
  h1 = h1
  Users = {1, 2}
  NoUser = NoUser
  Workers = {s1, h1}
  Sessions = {s1}
  UserOf <- MCUserOf
  Handlers = {h1}
  Reachable = {1, 2}
  Faults = FALSE
  MaxChats = 2
  MaxMsgs = 3
  MaxFrames = 1
  MaxRequests = 4
SPECIFICATION Spec
INVARIANTS ChatListFollows
PROPERTIES ImplementsMessageService ImplementsGroupService
CHECK_DEADLOCK FALSE
