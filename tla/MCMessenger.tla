---------------------------- MODULE MCMessenger ----------------------------
(* Messenger for TLC: one connection, of user 1, and one HTTP handler. *)
EXTENDS Messenger

CONSTANTS s1, h1

MCUserOf == [s \in Sessions |-> 1]
=============================================================================
