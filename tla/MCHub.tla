------------------------------- MODULE MCHub -------------------------------
(* Casts of goroutines for Hub; the .cfg files choose among them.          *)
EXTENDS Hub

CONSTANTS u1, u2

(* Every connection and request of the instance belongs to one member. *)
OneMember == [p \in Conns \cup Requests |-> u1]

CONSTANTS c1, c2

(* Two members, one connection each; requests are the first member's. *)
TwoMembers == [p \in Conns \cup Requests |-> IF p = c2 THEN u2 ELSE u1]
=============================================================================
