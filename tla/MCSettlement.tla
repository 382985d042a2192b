---------------------------- MODULE MCSettlement ----------------------------
(* A share below a cell of either kind of account whose claim would leave   *)
(* the peer too little for a cell, and one above it behind payments in      *)
(* flight.  A channel without a share for the user is closed cooperatively. *)
EXTENDS Settlement

MCCommitments == {[mine |-> 40, tlcs |-> FALSE, known |-> TRUE, small |-> TRUE],
                  [mine |-> 99, tlcs |-> TRUE, known |-> TRUE, small |-> FALSE]}
=============================================================================
