---------------------------- MODULE MCWatchQueue ----------------------------
(* Two channels for WatchQueue: the server has room for one, so that the other may be refused.  One channel is revoked
   twice, so that revocations can overtake one another; the other only takes the server's place. *)
EXTENDS WatchQueue, TLC

CONSTANTS c1, c2
MCNumber == c1 :> 2 @@ c2 :> 0
=============================================================================
