--------------------------- MODULE MCGroupService ---------------------------
(* GroupService for TLC: two HTTP handlers are interchangeable. *)
EXTENDS GroupService, TLC

Symmetry == Permutations(Handlers)
=============================================================================
