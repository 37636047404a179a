----------------------------- MODULE MCHistory -----------------------------
(* History for TLC: connections s1, s2 of different users, the second reads. *)
EXTENDS History

CONSTANTS s1, s2, w1, u1, u2

MCUserOf == [s \in Sessions |-> IF s = s1 THEN u1 ELSE u2]
=============================================================================
