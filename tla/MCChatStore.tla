----------------------------- MODULE MCChatStore -----------------------------
(* ChatStore for TLC: users and workers are interchangeable. *)
EXTENDS ChatStoreLog, TLC

Symmetry == Permutations(Users) \union Permutations(Workers)
=============================================================================
