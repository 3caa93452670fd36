----------------------------- MODULE MCMacTimer -----------------------------
(* Small instances of MacTimer for TLC: the heartbeat and the time slice.   *)
EXTENDS MacTimer

CONSTANTS heart, slice

MCOwners == {heart, slice}
MCHeart == {heart}
=============================================================================
