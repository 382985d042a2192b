-------------------------- MODULE MCFiberPayments --------------------------
(***************************************************************************)
(* Model values for FiberPayments: two payments of one invoice, a keysend  *)
(* or a transfer.  Requests are interchangeable, and so are keys; the      *)
(* approvals are not.                                                      *)
(***************************************************************************)
EXTENDS FiberPayments, TLC

CONSTANTS p1, p2, p3, h1

MCHash == [p \in Payments |-> IF p = p3 THEN None ELSE h1]

Symmetry == Permutations(Requests) \cup Permutations(Keys)
=============================================================================
