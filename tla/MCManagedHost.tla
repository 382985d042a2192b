--------------------------- MODULE MCManagedHost ---------------------------
(* One user asks for everything, the other only uses its node; processes and ports are interchangeable. *)
EXTENDS ManagedHost, TLC

CONSTANTS u1, u2

MCUsers == {u1, u2}
MCAsks == u1 :> {"call", "snapshot", "restore", "retire", "purge"} @@ u2 :> {"call"}
MCWriters == {u1}

Symmetry == Permutations(Procs) \cup Permutations(Ports)
=============================================================================
