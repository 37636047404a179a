----------------------------- MODULE MCPresence -----------------------------
(* Presence for TLC: every user is a contact of every other. *)
EXTENDS Presence

CONSTANTS s1, s2, u1, u2

MCContacts == [u \in Users |-> Users \ {u}]
=============================================================================
