CONSTANTS
  Users = {1, 2}
  NoUser = NoUser
  Workers = {h1, h2, s1}
  Handlers = {h1, h2}
  Reachable = {1, 2}
  Faults = TRUE
  MaxChats = 2
  MaxMsgs = 2
  MaxRequests = 3
SYMMETRY Symmetry
SPECIFICATION Spec
INVARIANTS TypeInv NothingLeftOpen NoAdminInPrivate ToldIsStored
PROPERTIES PrivateChatPermanent
