CONSTANTS
  Users = {u1, u2}
  NoUser = NoUser
  Workers = {w1, w2}
  MaxChats = 2
  MaxMsgs = 2
SYMMETRY Symmetry
SPECIFICATION StoreSpec
INVARIANTS TypeOK Integrity JoinerNotAddressed TxInv
PROPERTIES IdsNeverReused AddressedAtCommit MembershipPosted ImplementsLog
