-------------------------- MODULE MCMessageService --------------------------
(* MessageService for TLC: connections s1, s2 of different users, one HTTP worker. *)
EXTENDS MessageService, TLC

CONSTANTS s1, s2, w1, u1, u2, u3

MCUserOf == [s \in Sessions |-> IF s = s1 THEN u1 ELSE u2]
=============================================================================
