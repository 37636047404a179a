------------------------------ MODULE MCServer ------------------------------
(* Server for TLC: connections s1, s2 of one user, who has one entry in the hub. *)
EXTENDS Server

CONSTANTS s1, s2, u1

MCUserOf == [s \in Sessions |-> u1]
=============================================================================
