------------------------------ MODULE MCSignIn ------------------------------
(* An instance of SignIn; slots are interchangeable. *)
EXTENDS SignIn, TLC

CONSTANTS u1, q1, q2, d1

Symmetric == Permutations(Slots)

(* Once two things went wrong nothing more is asked of the model. *)
FewSlips == Cardinality(slips) <= 1
=============================================================================
