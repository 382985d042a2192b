------------------------------ MODULE MCJoyId ------------------------------
(* JoyId for TLC. *)
EXTENDS JoyId
=============================================================================
