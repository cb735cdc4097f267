--------------------------- MODULE MC_NotifHandles ---------------------------
(* Model values for the threads and the device of NotifHandles.            *)
EXTENDS NotifHandles

CONSTANTS u1, u2, d1

MCUsers == {u1, u2}
MCAddrs == {d1}
UserSymmetry == Permutations(MCUsers)
=============================================================================
