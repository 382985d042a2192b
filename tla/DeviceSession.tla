--------------------------- MODULE DeviceSession ---------------------------
(***************************************************************************)
(* What the node lifecycle of a page promises about the device it claims:  *)
(* the node comes up only while the device is claimed, and the device is   *)
(* let go only once the node is down and every watchtower call it sent has *)
(* been stored, or refused and the node told so.  A session breaks when a  *)
(* failed stop leaves its node up: nothing is promised from there on.      *)
(* NodeLifecycle implements it.                                            *)
(***************************************************************************)
EXTENDS Naturals

VARIABLES
    held,      \* the page holds the device's lease
    up,        \* the node is not down
    unstored,  \* watchtower calls sent, neither stored nor refused
    broken     \* a failed stop has left the node up

svars == <<held, up, unstored, broken>>

Init == held = FALSE /\ up = FALSE /\ unstored = 0 /\ broken = FALSE

Claim == ~held /\ held' = TRUE /\ UNCHANGED <<up, unstored>>

BringUp == held /\ ~up /\ up' = TRUE /\ UNCHANGED <<held, unstored>>

Send == up /\ unstored' = unstored + 1 /\ UNCHANGED <<held, up>>

Store == unstored > 0 /\ unstored' = unstored - 1 /\ UNCHANGED <<held, up>>

TakeDown == up /\ up' = FALSE /\ UNCHANGED <<held, unstored>>

LetGo ==
    /\ held /\ ~up /\ unstored = 0
    /\ held' = FALSE
    /\ UNCHANGED <<up, unstored>>

(* Only a session whose node is up breaks. *)
Break ==
    /\ up
    /\ broken' = TRUE
    /\ held' = FALSE /\ up' = FALSE /\ unstored' = 0

Step == Claim \/ BringUp \/ Send \/ Store \/ TakeDown \/ LetGo

Next == (~broken /\ Step /\ UNCHANGED broken) \/ Break

Spec == Init /\ [][Next]_svars
=============================================================================
