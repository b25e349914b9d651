---------------------------- MODULE MCGamePages -----------------------------
(* An instance of GamePages; slots are interchangeable. *)
EXTENDS GamePages, TLC

CONSTANTS q1, q2, q3

Symmetric == Permutations(Slots)
=============================================================================
