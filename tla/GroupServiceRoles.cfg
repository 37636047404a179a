CONSTANTS
  Users = {1, 2}
  NoUser = NoUser
  Workers = {h1, h2}
  Handlers = {h1, h2}
  Reachable = {1, 2}
  Faults = FALSE
  MaxChats = 1
  MaxMsgs = 2
  MaxRequests = 4
SPECIFICATION Spec
PROPERTIES RoleChangedByAdmin
CHECK_DEADLOCK FALSE
