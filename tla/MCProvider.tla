----------------------------- MODULE MCProvider -----------------------------
(***************************************************************************)
(* Five users' requests, over five kinds of app: one that only does what   *)
(* the SDK's own buttons do; one that starts Fiber by itself while the     *)
(* session may end; one that comes back from JoyID while it may end; one   *)
(* that starts Fiber by itself on coming back; and one that asks for more  *)
(* while its own calls are under way.                                      *)
(***************************************************************************)
EXTENDS Provider
=============================================================================
