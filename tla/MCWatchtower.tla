---------------------------- MODULE MCWatchtower ----------------------------
(* One channel and two instances for Watchtower: the channels of a pass do not act on one another. *)
EXTENDS Watchtower
=============================================================================
