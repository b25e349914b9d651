------------------------------ MODULE Requests ------------------------------
(***************************************************************************)
(* The requests the HTTP server handles at once.  A handler is a record in  *)
(* a slot and makes one step per database call: no handler modelled here   *)
(* uses a transaction, so two of them interleave between any two calls.    *)
(* A request may stop at any call: an error answer, a cancelled context, a *)
(* restart.  What it has written stays.  A request that is refused at its  *)
(* first call changes nothing and is left out.                             *)
(***************************************************************************)
CONSTANT Slots      \* requests the server handles at once

VARIABLES
    req,        \* the request in each slot
    slips       \* what overlapped, failed or stopped so far (history)

Free == [op |-> "free", at |-> "free"]

Begin(q, r) == req[q] = Free /\ req' = [req EXCEPT ![q] = r]
Goto(q, at) == req' = [req EXCEPT ![q].at = at]
Done(q) == req' = [req EXCEPT ![q] = Free]
At(q, op, at) == req[q].op = op /\ req[q].at = at

(* The other requests that stand in the middle of an operation. *)
InFlight(q, op) == {r \in Slots \ {q} : req[r].op = op}
=============================================================================
